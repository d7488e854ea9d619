------------------------------- MODULE Kernel -------------------------------
(***************************************************************************)
(* kernel.c: a screen that stays locked until the password is typed, then  *)
(* a line editor under a clock.  There is one thread and no interrupt;     *)
(* the keyboard is polled, so all that happens comes from the keys.        *)
(*                                                                         *)
(* vga_write is one step per character; the string it is at is `todo`,     *)
(* and no key is read before it is written.  Colours are left out.         *)
(***************************************************************************)
EXTENDS Integers, Sequences

CONSTANTS
  VGA_W, VGA_H,
  Keys,                        \* what scancode_to_ascii makes of a key
  NUL, NL, BLANK, STAR,
  Letters,                     \* what is in the strings that are written:
  BANNER, INCORRECT, WELCOME, PROMPT,
  USER_PASS,
  PASS_SIZE, LINE_SIZE,        \* of the buffers
  Times, TIME_W                \* what the clock shows, and its columns

Rows == 0 .. VGA_H - 1
Cols == 0 .. VGA_W - 1

ASSUME KernelAssumption ==
  /\ VGA_W \in Nat \ {0} /\ VGA_H \in Nat \ {0, 1}
  /\ Keys \cap {NUL, NL} = {} /\ NL \notin {NUL, STAR} /\ NL \in Letters
  /\ \A s \in {BANNER, INCORRECT, WELCOME, PROMPT} : s \in Seq(Letters)
  /\ \A s \in {BANNER, INCORRECT, PROMPT} : s # <<>>
  /\ PASS_SIZE \in Nat \ {0} /\ LINE_SIZE \in Nat \ {0}
  /\ USER_PASS \in Seq(Keys) /\ Len(USER_PASS) < PASS_SIZE
  /\ TIME_W \in 0 .. VGA_W

VARIABLES
  pc,              \* "boot", "password", "time" or "line"
  screen,          \* row -> column -> character
  cur_x, cur_y,
  todo,            \* what vga_write has still to write
  passbuf, plen,
  line,            \* the first len characters of the buffer
  speaker,
  start,           \* history: the column of the cursor after the last string
  wrapped          \* history: whether echoes have passed the right edge since

input == <<passbuf, plen, line, speaker>>
cursor == <<cur_x, cur_y>>
vars == <<pc, screen, cursor, todo, input, start, wrapped>>

Clear == [y \in Rows |-> [x \in Cols |-> BLANK]]

\* What is in passbuf at first is unknown.
Init ==
  /\ pc = "boot" /\ screen = Clear /\ cur_x = 0 /\ cur_y = 0
  /\ todo = BANNER
  /\ passbuf \in [0 .. PASS_SIZE - 1 -> Keys \cup {NUL}] /\ plen = 0
  /\ line = <<>> /\ speaker = FALSE
  /\ start = 0 /\ wrapped = FALSE

-----------------------------------------------------------------------------
(***************************************************************************)
(* The screen.                                                             *)
(***************************************************************************)
\* There is no scrolling: the last row is written again.
NewLine ==
  /\ cur_x' = 0
  /\ cur_y' = IF cur_y + 1 >= VGA_H THEN VGA_H - 1 ELSE cur_y + 1

\* vga_write of one character.
Put(c) ==
  IF c = NL
  THEN NewLine /\ UNCHANGED screen
  ELSE /\ screen' = [screen EXCEPT ![cur_y][cur_x] = c]
       /\ IF cur_x + 1 >= VGA_W
          THEN NewLine
          ELSE cur_x' = cur_x + 1 /\ UNCHANGED cur_y

WriteChar ==
  /\ todo # <<>>
  /\ Put(Head(todo)) /\ todo' = Tail(todo)
  /\ start' = cur_x' /\ wrapped' = FALSE
  /\ UNCHANGED <<pc, input>>

\* echo_char of a character that is no backspace.
Echo(c) ==
  /\ Put(c)
  /\ wrapped' = (wrapped \/ cur_x + 1 >= VGA_W)
  /\ UNCHANGED start

\* echo_char('\b'); in column 0 nothing happens.
EchoBackspace ==
  /\ IF cur_x > 0
     THEN /\ cur_x' = cur_x - 1
          /\ screen' = [screen EXCEPT ![cur_y][cur_x - 1] = BLANK]
     ELSE UNCHANGED <<cur_x, screen>>
  /\ UNCHANGED <<cur_y, start, wrapped>>

\* write_time_top: the clock, and blanks up to the right edge.
TimeRow(t) == [x \in Cols |-> IF x < TIME_W THEN t ELSE BLANK]

-----------------------------------------------------------------------------
(***************************************************************************)
(* The locked screen.                                                      *)
(***************************************************************************)
\* The banner is written; speaker_on.
Lock ==
  /\ pc = "boot" /\ todo = <<>>
  /\ pc' = "password" /\ speaker' = TRUE
  /\ UNCHANGED <<screen, cursor, todo, passbuf, plen, line, start, wrapped>>

\* kbd_getch returns a key while the loop at `loop` waits for one.
Waiting(loop) == pc = loop /\ todo = <<>>

\* streq: both end, with a NUL, at the same place and agree up to there.
StrEq(buf, s) ==
  /\ \A i \in 1 .. Len(s) : buf[i - 1] = s[i]
  /\ buf[Len(s)] = NUL

\* Mutant of Terminated: nothing marks the end of the attempt.
Mut_NotTerminated == passbuf

\* The buffer once the attempt ends.
Terminated == [passbuf EXCEPT ![plen] = NUL]

PassWrong ==
  /\ Waiting("password") /\ ~ StrEq(Terminated, USER_PASS)
  /\ passbuf' = Terminated /\ plen' = 0
  /\ todo' = INCORRECT
  /\ UNCHANGED <<pc, screen, cursor, line, speaker, start, wrapped>>

\* The row of the welcome, below the time.
FirstRow == 1

\* The break, and everything up to the second loop.
PassRight ==
  /\ Waiting("password") /\ StrEq(Terminated, USER_PASS)
  /\ passbuf' = Terminated /\ speaker' = FALSE
  /\ \E t \in Times : screen' = [Clear EXCEPT ![0] = TimeRow(t)]
  /\ cur_x' = 0 /\ cur_y' = FirstRow
  /\ todo' = WELCOME \o PROMPT
  /\ pc' = "time"
  /\ UNCHANGED <<plen, line, start, wrapped>>

PassBackspace ==
  /\ Waiting("password")
  /\ IF plen > 0 THEN plen' = plen - 1 /\ EchoBackspace
                 ELSE UNCHANGED <<plen, screen, cursor, start, wrapped>>
  /\ UNCHANGED <<pc, todo, passbuf, line, speaker>>

\* The last place of the buffer is for the NUL.
PassKey(k) ==
  /\ Waiting("password") /\ plen < PASS_SIZE - 1
  /\ passbuf' = [passbuf EXCEPT ![plen] = k] /\ plen' = plen + 1
  /\ Echo(STAR)
  /\ UNCHANGED <<pc, todo, line, speaker>>

-----------------------------------------------------------------------------
(***************************************************************************)
(* The line editor; each turn of its loop paints the time, then waits.     *)
(***************************************************************************)
PaintTime ==
  /\ Waiting("time") /\ pc' = "line"
  /\ \E t \in Times : screen' = [screen EXCEPT ![0] = TimeRow(t)]
  /\ UNCHANGED <<cursor, todo, input, start, wrapped>>

\* Mutant of LineEnter: the length is not reset.
Mut_LineKept ==
  /\ Waiting("line") /\ pc' = "time"
  /\ todo' = PROMPT
  /\ UNCHANGED <<screen, cursor, input, start, wrapped>>

LineEnter ==
  /\ Waiting("line") /\ pc' = "time"
  /\ line' = <<>> /\ todo' = PROMPT
  /\ UNCHANGED <<screen, cursor, passbuf, plen, speaker, start, wrapped>>

LineBackspace ==
  /\ Waiting("line") /\ pc' = "time"
  /\ IF line # <<>>
     THEN line' = SubSeq(line, 1, Len(line) - 1) /\ EchoBackspace
     ELSE UNCHANGED <<line, screen, cursor, start, wrapped>>
  /\ UNCHANGED <<todo, passbuf, plen, speaker>>

LineKey(k) ==
  /\ Waiting("line") /\ pc' = "time"
  /\ IF Len(line) < LINE_SIZE - 1
     THEN line' = Append(line, k) /\ Echo(k)
     ELSE UNCHANGED <<line, screen, cursor, start, wrapped>>
  /\ UNCHANGED <<todo, passbuf, plen, speaker>>

\* The release of a key, or a key without a character.
LineOther ==
  /\ Waiting("line") /\ pc' = "time"
  /\ UNCHANGED <<screen, cursor, todo, input, start, wrapped>>

-----------------------------------------------------------------------------
Next == \/ WriteChar \/ Lock
        \/ PassWrong \/ PassRight \/ PassBackspace
        \/ PaintTime \/ LineEnter \/ LineBackspace \/ LineOther
        \/ \E k \in Keys : PassKey(k) \/ LineKey(k)

Spec == Init /\ [][Next]_vars

-----------------------------------------------------------------------------
(***************************************************************************)
(* Properties.                                                             *)
(***************************************************************************)
Chars == Keys \cup Times \cup Letters \cup {BLANK, STAR}

\* Every variable stays in its type: the cursor on the screen and the
\* lengths such that the NUL still fits; the speaker beeps exactly while the
\* password is waited for.
TypeOK ==
  /\ pc \in {"boot", "password", "time", "line"}
  /\ screen \in [Rows -> [Cols -> Chars]]
  /\ cur_x \in Cols /\ cur_y \in Rows
  /\ todo \in Seq(Letters)
  /\ passbuf \in [0 .. PASS_SIZE - 1 -> Keys \cup {NUL}]
  /\ plen \in 0 .. PASS_SIZE - 1
  /\ line \in Seq(Keys) /\ Len(line) < LINE_SIZE
  /\ start \in Cols /\ wrapped \in BOOLEAN
  /\ speaker = (pc = "password")

Echoes == IF pc = "password" THEN [i \in 1 .. plen |-> STAR] ELSE line

\* As long as an input has not reached the right edge, what precedes the
\* cursor is the input as it is in the buffer: the password in stars.
EchoMatches ==
  todo = <<>> /\ ~ wrapped =>
    /\ cur_x = start + Len(Echoes)
    /\ \A i \in 1 .. Len(Echoes) : screen[cur_y][start + i - 1] = Echoes[i]

\* Until the last row is reached nothing is left behind the cursor, whatever
\* has been typed and erased.
AheadIsBlank ==
  cur_y < VGA_H - 1 =>
    \A y \in Rows, x \in Cols :
      y > cur_y \/ (y = cur_y /\ x >= cur_x) => screen[y][x] = BLANK

\* After unlocking the first row always shows a time, and the text is below.
TimeKept ==
  pc \in {"time", "line"} =>
    /\ cur_y > 0
    /\ \E t \in Times : screen[0] = TimeRow(t)

\* The screen opens exactly for the password, however often it was mistyped,
\* corrected or overrun: the buffer, with all that earlier attempts have left
\* in it, is the text of PasswordLock.
TheLock == INSTANCE PasswordLock
  WITH Password <- USER_PASS, Limit <- PASS_SIZE - 1,
       text <- [i \in 1 .. plen |-> passbuf[i - 1]],
       open <- pc \in {"time", "line"}

ImplementsLock == TheLock!Spec

=============================================================================
