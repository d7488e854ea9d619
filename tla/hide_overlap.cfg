SPECIFICATION HideSpec
CONSTANTS
  Runs = {h1, h2, h3}
  Names = {n1, n2}
  Files = {f1, f2, l1}
  Links <- OneLink
  Target <- OneTarget
  link = l1
  named = n1
  NoFile = NoFile
  RunPolicy = "overlap"
  CreatePolicy = "idle"
  MaxKills = 1
SYMMETRY Symmetry
INVARIANTS
  NothingLost
CHECK_DEADLOCK FALSE
