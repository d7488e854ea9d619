SPECIFICATION Spec
CONSTANTS
  VGA_W = 3
  VGA_H = 5
  a = a
  b = b
  banner = banner
  text = text
  tip = tip
  wrong = wrong
  welcome = welcome
  gt = gt
  Keys = {a, b}
  NUL = NUL
  NL = NL
  BLANK = BLANK
  STAR = STAR
  Letters <- MCLetters
  BANNER <- MCBanner
  INCORRECT <- MCIncorrect
  WELCOME <- MCWelcome
  PROMPT <- MCPrompt
  USER_PASS <- MCPass
  PASS_SIZE = 5
  LINE_SIZE = 5
  Times = {t1, t2}
  TIME_W = 2
INVARIANTS
  EchoMatches
PROPERTIES
  ImplementsLock
