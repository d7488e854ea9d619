-------------------------- MODULE KernelFormProofs --------------------------
(***************************************************************************)
(* What is read symbol by symbol.  The kernel: for a screen of any size,   *)
(* buffers of any length and any strings, the screen shows what kernel.c   *)
(* means it to show, and opens for the password alone.  The forms of       *)
(* httplib: for parts of any number and contents, cut into any pieces, the *)
(* server reads them as they were sent.                                    *)
(***************************************************************************)
EXTENDS Kernel, HttpMessage, SequenceTheorems, FiniteSetTheorems, TLAPS

\* What is typed is no NUL; a string is written while there is no input, and
\* no line is edited before the screen is unlocked.
Tidy ==
  /\ \A i \in 0 .. plen - 1 : passbuf[i] \in Keys
  /\ todo # <<>> => Len(Echoes) = 0
  /\ pc \in {"boot", "password"} => line = <<>>
  /\ pc = "boot" => plen = 0

KernelInv == TypeOK /\ Tidy /\ EchoMatches /\ AheadIsBlank /\ TimeKept

-----------------------------------------------------------------------------
(***************************************************************************)
(* What one character does to the screen and to the cursor.                *)
(***************************************************************************)
LEMMA PutScreen ==
  ASSUME TypeOK, NEW c \in Chars, Put(c)
  PROVE  /\ screen' \in [Rows -> [Cols -> Chars]]
         /\ cur_x' \in Cols /\ cur_y' \in Rows /\ cur_y' >= cur_y
         /\ \A y \in Rows, x \in Cols :
              screen'[y][x] = IF c # NL /\ y = cur_y /\ x = cur_x
                              THEN c ELSE screen[y][x]
         /\ \A y \in Rows : y # cur_y => screen'[y] = screen[y]
  <1>1. cur_x \in Cols /\ cur_y \in Rows /\ screen \in [Rows -> [Cols -> Chars]]
    BY DEF TypeOK
  <1>2. cur_x' \in Cols /\ cur_y' \in Rows /\ cur_y' >= cur_y
    BY <1>1, KernelAssumption DEF Put, NewLine, Rows, Cols
  <1>3. CASE c = NL
    BY <1>1, <1>2, <1>3 DEF Put
  <1>4. CASE c # NL
    <2>1. screen' = [screen EXCEPT ![cur_y] = [@ EXCEPT ![cur_x] = c]]
      BY <1>4 DEF Put
    <2>2. \A y \in Rows : screen'[y] = IF y = cur_y
                                       THEN [screen[y] EXCEPT ![cur_x] = c]
                                       ELSE screen[y]
      BY <1>1, <2>1
    <2>3. screen' \in [Rows -> [Cols -> Chars]]
      BY <1>1, <2>1
    <2>4. \A y \in Rows, x \in Cols :
            screen'[y][x] = IF y = cur_y /\ x = cur_x THEN c ELSE screen[y][x]
      BY <1>1, <2>2
    <2> QED
      BY <1>2, <1>4, <2>2, <2>3, <2>4
  <1> QED
    BY <1>3, <1>4

\* Whatever is put on the screen, nothing gets ahead of the cursor, and the
\* rows above stay.
LEMMA PutAhead ==
  ASSUME TypeOK, AheadIsBlank, NEW c \in Chars, Put(c)
  PROVE  AheadIsBlank'
  <1> SUFFICES ASSUME cur_y' < VGA_H - 1, NEW y \in Rows, NEW x \in Cols,
                      y > cur_y' \/ (y = cur_y' /\ x >= cur_x')
               PROVE  screen'[y][x] = BLANK
    BY DEF AheadIsBlank
  <1>1. cur_x \in Cols /\ cur_y \in Rows /\ cur_x' \in Cols /\ cur_y' \in Rows
    BY PutScreen DEF TypeOK
  <1>2. \/ cur_y' = cur_y + 1
        \/ cur_y' = cur_y /\ cur_x' = cur_x + 1 /\ c # NL
    <2>1. NewLine \/ (cur_y' = cur_y /\ cur_x' = cur_x + 1 /\ c # NL)
      BY DEF Put
    <2>2. CASE NewLine
      BY <1>1, <2>2, KernelAssumption DEF NewLine, Rows
    <2> QED
      BY <2>1, <2>2
  <1>3. /\ y > cur_y \/ (y = cur_y /\ x > cur_x)
        /\ cur_y < VGA_H - 1
    BY <1>1, <1>2, KernelAssumption DEF Rows, Cols
  <1>4. screen[y][x] = BLANK
    BY <1>1, <1>3 DEF AheadIsBlank, Rows, Cols
  <1>5. ~ (y = cur_y /\ x = cur_x)
    BY <1>1, <1>3 DEF Rows, Cols
  <1> QED
    BY <1>4, <1>5, PutScreen

LEMMA BackspaceScreen ==
  ASSUME TypeOK, AheadIsBlank, EchoBackspace
  PROVE  /\ screen' \in [Rows -> [Cols -> Chars]]
         /\ cur_x' \in Cols /\ cur_y' = cur_y
         /\ AheadIsBlank'
         /\ \A y \in Rows, x \in Cols : x < cur_x' => screen'[y][x] = screen[y][x]
         /\ \A y \in Rows : y # cur_y => screen'[y] = screen[y]
         /\ cur_x' = IF cur_x > 0 THEN cur_x - 1 ELSE 0
  <1>1. cur_x \in Cols /\ cur_y \in Rows /\ screen \in [Rows -> [Cols -> Chars]]
        /\ cur_y' = cur_y
    BY DEF TypeOK, EchoBackspace
  <1>2. CASE cur_x > 0
    <2>1. /\ cur_x' = cur_x - 1
          /\ screen' = [screen EXCEPT ![cur_y] =
                          [@ EXCEPT ![cur_x - 1] = BLANK]]
      BY <1>2 DEF EchoBackspace
    <2>2. cur_x - 1 \in Cols /\ BLANK \in Chars
      <3>1. cur_x - 1 \in Cols
        BY <1>1, <1>2, KernelAssumption DEF Cols
      <3> QED
        BY <3>1 DEF Chars
    <2>3. \A y \in Rows : screen'[y] = IF y = cur_y
                             THEN [screen[y] EXCEPT ![cur_x - 1] = BLANK]
                             ELSE screen[y]
      BY <1>1, <2>1
    <2>4. screen' \in [Rows -> [Cols -> Chars]]
      BY <1>1, <2>1, <2>2
    <2>5. \A y \in Rows, x \in Cols :
            screen'[y][x] = IF y = cur_y /\ x = cur_x - 1
                            THEN BLANK ELSE screen[y][x]
      BY <1>1, <2>2, <2>3
    <2>6. AheadIsBlank'
      BY <1>1, <2>1, <2>5 DEF AheadIsBlank, Rows, Cols
    <2> QED
      BY <1>1, <1>2, <2>1, <2>2, <2>3, <2>4, <2>5, <2>6 DEF Cols
  <1>3. CASE ~ cur_x > 0
    <2>1. UNCHANGED <<cur_x, screen>> /\ cur_x = 0
      BY <1>1, <1>3 DEF EchoBackspace, Cols
    <2> QED
      BY <1>1, <2>1 DEF AheadIsBlank
  <1> QED
    BY <1>2, <1>3

-----------------------------------------------------------------------------
(***************************************************************************)
(* The steps.                                                              *)
(***************************************************************************)
LEMMA KernelInit == Init => KernelInv
  <1> SUFFICES ASSUME Init PROVE KernelInv
    OBVIOUS
  <1>1. Clear \in [Rows -> [Cols -> Chars]]
    BY DEF Clear, Chars
  <1>2. cur_x \in Cols /\ cur_y \in Rows
    BY KernelAssumption DEF Init, Rows, Cols
  <1>3. BANNER \in Seq(Letters) /\ BANNER # <<>>
    BY KernelAssumption
  <1>4. TypeOK
    <2>1. line \in Seq(Keys) /\ Len(line) < LINE_SIZE
      BY KernelAssumption DEF Init
    <2>2. start \in Cols /\ plen \in 0 .. PASS_SIZE - 1
      BY KernelAssumption DEF Init, Cols
    <2>3. speaker = (pc = "password")
      BY DEF Init
    <2> QED
      BY <1>1, <1>2, <1>3, <2>1, <2>2, <2>3 DEF Init, TypeOK
  <1>5. Len(Echoes) = 0
    BY DEF Init, Echoes
  <1>6. AheadIsBlank
    BY DEF Init, AheadIsBlank, Clear
  <1> QED
    BY <1>3, <1>4, <1>5, <1>6 DEF Init, KernelInv, Tidy, EchoMatches, TimeKept

\* A step that leaves the screen alone, and in which the input is what it was
\* or gives way to a string.
LEMMA ScreenStays ==
  ASSUME KernelInv, UNCHANGED <<screen, cursor, start, wrapped>>,
         TypeOK', Tidy',
         pc' \in {"time", "line"} => pc \in {"time", "line"},
         todo' = <<>> => todo = <<>> /\ Echoes' = Echoes
  PROVE  KernelInv'
  <1>1. AheadIsBlank'
    BY DEF KernelInv, AheadIsBlank, cursor
  <1>2. TimeKept'
    BY DEF KernelInv, TimeKept, cursor
  <1>3. EchoMatches'
    BY DEF KernelInv, EchoMatches, cursor
  <1> QED
    BY <1>1, <1>2, <1>3 DEF KernelInv

LEMMA NoEchoes ==
  ASSUME NEW n, n = 0, NEW x \in Int, NEW y, x = y
  PROVE  x = y + n /\ 1 .. n = {}
  OBVIOUS

LEMMA WriteCharStep ==
  ASSUME KernelInv, WriteChar
  PROVE  KernelInv'
  <1>1. /\ Put(Head(todo)) /\ todo # <<>> /\ todo' = Tail(todo)
        /\ start' = cur_x' /\ wrapped' = FALSE
        /\ UNCHANGED <<pc, passbuf, plen, line, speaker>>
    BY DEF WriteChar, input
  <1>2. TypeOK /\ todo \in Seq(Letters)
    BY DEF KernelInv, TypeOK
  <1>3. Head(todo) \in Letters /\ Tail(todo) \in Seq(Letters)
    BY <1>1, <1>2, HeadTailProperties
  <1>4. Head(todo) \in Chars
    BY <1>3 DEF Chars
  <1>5. TypeOK'
    BY <1>1, <1>2, <1>3, <1>4, PutScreen DEF TypeOK
  <1>6. Echoes' = Echoes /\ Len(Echoes) = 0
    BY <1>1 DEF KernelInv, Tidy, Echoes
  <1>7. Tidy'
    BY <1>1, <1>6 DEF KernelInv, Tidy
  <1>8. EchoMatches'
    <2>1. Len(Echoes') = 0 /\ cur_x' = start'
      BY <1>1, <1>6
    <2>2. cur_x' \in Int
      BY <1>5 DEF TypeOK, Cols
    <2>3. cur_x' = start' + Len(Echoes') /\ 1 .. Len(Echoes') = {}
      BY <2>1, <2>2, NoEchoes, Zenon
    <2> QED
      BY <2>3, Zenon DEF EchoMatches
  <1>9. AheadIsBlank'
    BY <1>1, <1>2, <1>4, PutAhead DEF KernelInv
  <1>10. TimeKept'
    <2> SUFFICES ASSUME pc \in {"time", "line"}
                 PROVE  cur_y' > 0 /\ screen'[0] = screen[0]
      BY <1>1 DEF TimeKept, KernelInv
    <2>1. cur_y > 0 /\ cur_y \in Rows /\ 0 \in Rows
      BY <1>2, KernelAssumption DEF KernelInv, TimeKept, TypeOK, Rows
    <2> QED
      BY <1>1, <1>2, <1>4, <2>1, PutScreen DEF Rows
  <1> QED
    BY <1>5, <1>7, <1>8, <1>9, <1>10 DEF KernelInv

LEMMA LockStep ==
  ASSUME KernelInv, Lock
  PROVE  KernelInv'
  <1>1. TypeOK' /\ Tidy'
    BY DEF Lock, KernelInv, TypeOK, Tidy, Echoes, cursor
  <1>2. Echoes = <<>> /\ Echoes' = <<>>
    BY DEF Lock, KernelInv, Tidy, Echoes
  <1> QED
    BY <1>1, <1>2, ScreenStays DEF Lock

LEMMA TerminatedType ==
  ASSUME TypeOK
  PROVE  Terminated \in [0 .. PASS_SIZE - 1 -> Keys \cup {NUL}]
  BY DEF TypeOK, Terminated

LEMMA PassWrongStep ==
  ASSUME KernelInv, PassWrong
  PROVE  KernelInv'
  <1>1. /\ todo' = INCORRECT /\ plen' = 0 /\ passbuf' = Terminated
        /\ pc = "password" /\ UNCHANGED <<pc, line, speaker>>
        /\ UNCHANGED <<screen, cursor, start, wrapped>>
    BY DEF PassWrong, Waiting
  <1>2. INCORRECT \in Seq(Letters) /\ INCORRECT # <<>>
    BY KernelAssumption
  <1>3. TypeOK'
    BY <1>1, <1>2, TerminatedType, KernelAssumption
       DEF KernelInv, TypeOK, cursor
  <1>4. Tidy'
    BY <1>1 DEF KernelInv, Tidy, Echoes
  <1> QED
    BY <1>1, <1>2, <1>3, <1>4, ScreenStays

LEMMA TimeRowType ==
  ASSUME NEW t \in Times PROVE TimeRow(t) \in [Cols -> Chars]
  BY DEF TimeRow, Chars

LEMMA PassRightStep ==
  ASSUME KernelInv, PassRight
  PROVE  KernelInv'
  <1>1. /\ todo' = WELCOME \o PROMPT /\ passbuf' = Terminated
        /\ pc = "password" /\ pc' = "time" /\ speaker' = FALSE
        /\ cur_x' = 0 /\ cur_y' = 1
        /\ UNCHANGED <<plen, line, start, wrapped>>
    BY DEF PassRight, Waiting, FirstRow
  <1>2. PICK t \in Times : screen' = [Clear EXCEPT ![0] = TimeRow(t)]
    BY DEF PassRight
  <1>3. 0 \in Rows /\ cur_x' \in Cols /\ cur_y' \in Rows
    BY <1>1, KernelAssumption DEF Rows, Cols
  <1>4. /\ screen' \in [Rows -> [Cols -> Chars]]
        /\ screen'[0] = TimeRow(t)
        /\ \A y \in Rows, x \in Cols : y # 0 => screen'[y][x] = BLANK
    BY <1>2, <1>3, TimeRowType DEF Clear, Chars
  <1>5. todo' \in Seq(Letters) /\ todo' # <<>>
    BY <1>1, KernelAssumption, ConcatProperties
  <1>6. TypeOK'
    BY <1>1, <1>3, <1>4, <1>5, TerminatedType DEF KernelInv, TypeOK
  <1>7. Tidy'
    <2>1. \A i \in 0 .. plen - 1 : passbuf'[i] = passbuf[i]
      BY <1>1 DEF Terminated, KernelInv, TypeOK
    <2> QED
      BY <1>1, <2>1 DEF KernelInv, Tidy, Echoes
  <1>8. EchoMatches' /\ TimeKept'
    BY <1>1, <1>4, <1>5 DEF EchoMatches, TimeKept
  <1>9. AheadIsBlank'
    BY <1>1, <1>4 DEF AheadIsBlank, Rows
  <1> QED
    BY <1>6, <1>7, <1>8, <1>9 DEF KernelInv

\* A key that is stored is echoed where the cursor is.
LEMMA EchoStep ==
  ASSUME KernelInv, NEW c \in Keys \cup {STAR}, Echo(c), todo = <<>>,
         Echoes' = Append(Echoes, c), Echoes \in Seq(Keys \cup {STAR})
  PROVE  EchoMatches' /\ AheadIsBlank'
  <1>1. TypeOK /\ Put(c) /\ c \in Chars /\ c # NL /\ start' = start
        /\ wrapped' = (wrapped \/ cur_x + 1 >= VGA_W)
    BY KernelAssumption DEF KernelInv, Echo, Chars
  <1>2. AheadIsBlank'
    BY <1>1, PutAhead DEF KernelInv
  <1>3. Len(Echoes') = Len(Echoes) + 1 /\ Len(Echoes) \in Nat
        /\ Echoes'[Len(Echoes) + 1] = c
        /\ \A i \in 1 .. Len(Echoes) : Echoes'[i] = Echoes[i]
    OBVIOUS
  <1>4. EchoMatches'
    <2> SUFFICES ASSUME ~ wrapped'
                 PROVE  /\ cur_x' = start + Len(Echoes')
                        /\ \A i \in 1 .. Len(Echoes') :
                             screen'[cur_y'][start + i - 1] = Echoes'[i]
      BY <1>1 DEF EchoMatches
    <2>1. /\ ~ wrapped /\ cur_x' = cur_x + 1 /\ cur_y' = cur_y
          /\ cur_x \in Cols /\ cur_y \in Rows /\ start \in Cols
      BY <1>1 DEF Put, TypeOK
    <2>2. cur_x = start + Len(Echoes)
          /\ \A i \in 1 .. Len(Echoes) : screen[cur_y][start + i - 1] = Echoes[i]
      BY <2>1 DEF KernelInv, EchoMatches
    <2>3. ASSUME NEW i \in 1 .. Len(Echoes')
          PROVE  screen'[cur_y'][start + i - 1] = Echoes'[i]
      <3>1. start + i - 1 \in Cols
        BY <1>3, <2>1, <2>2, KernelAssumption DEF Cols
      <3>2. screen'[cur_y][start + i - 1] =
              IF start + i - 1 = cur_x THEN c ELSE screen[cur_y][start + i - 1]
        BY <1>1, <2>1, <3>1, PutScreen
      <3>3. start + i - 1 = cur_x <=> i = Len(Echoes) + 1
        BY <1>3, <2>1, <2>2 DEF Cols
      <3> QED
        BY <1>3, <2>1, <2>2, <3>2, <3>3
    <2>4. cur_x' = start + Len(Echoes')
      BY <1>3, <2>1, <2>2 DEF Cols
    <2> QED
      BY <2>3, <2>4
  <1> QED
    BY <1>2, <1>4

\* What is left of a sequence without its last element.
LEMMA Shorter ==
  ASSUME NEW S, NEW s \in Seq(S), s # <<>>
  PROVE  /\ Len(s) \in Nat \ {0}
         /\ SubSeq(s, 1, Len(s) - 1) \in Seq(S)
         /\ Len(SubSeq(s, 1, Len(s) - 1)) = Len(s) - 1
         /\ \A i \in 1 .. Len(s) - 1 : SubSeq(s, 1, Len(s) - 1)[i] = s[i]
  <1>1. Len(s) \in Nat \ {0}
    BY EmptySeq
  <1>2. \A i \in 1 .. Len(s) - 1 : s[i] \in S
    BY <1>1, ElementOfSeq
  <1> DEFINE n == Len(s) - 1
  <1>3. n \in Nat
    BY <1>1
  <1> HIDE DEF n
  <1>4. /\ SubSeq(s, 1, n) \in Seq(S)
        /\ Len(SubSeq(s, 1, n)) = IF 1 <= n THEN n - 1 + 1 ELSE 0
        /\ \A i \in 1 .. n - 1 + 1 : SubSeq(s, 1, n)[i] = s[1 + i - 1]
    <2>1. \A i \in 1 .. n : s[i] \in S
      BY <1>2 DEF n
    <2> QED
      BY <1>3, <2>1, SubSeqProperties
  <1>5. /\ Len(SubSeq(s, 1, n)) = n
        /\ \A i \in 1 .. n : SubSeq(s, 1, n)[i] = s[i]
    BY <1>3, <1>4
  <1> QED
    BY <1>1, <1>4, <1>5 DEF n

\* A key that is erased is erased where the cursor is.
LEMMA EraseStep ==
  ASSUME KernelInv, EchoBackspace, todo = <<>>,
         Echoes \in Seq(Keys \cup {STAR}), Echoes # <<>>,
         Echoes' = SubSeq(Echoes, 1, Len(Echoes) - 1)
  PROVE  EchoMatches' /\ AheadIsBlank'
  <1>1. TypeOK /\ AheadIsBlank /\ UNCHANGED <<cur_y, start, wrapped>>
    BY DEF KernelInv, EchoBackspace
  <1>2. Len(Echoes') = Len(Echoes) - 1 /\ Len(Echoes) \in Nat \ {0}
        /\ \A i \in 1 .. Len(Echoes) - 1 : Echoes'[i] = Echoes[i]
    BY Shorter
  <1>3. EchoMatches'
    <2> SUFFICES ASSUME ~ wrapped
                 PROVE  /\ cur_x' = start + Len(Echoes')
                        /\ \A i \in 1 .. Len(Echoes') :
                             screen'[cur_y][start + i - 1] = Echoes'[i]
      BY <1>1 DEF EchoMatches
    <2>1. /\ cur_x = start + Len(Echoes)
          /\ \A i \in 1 .. Len(Echoes) : screen[cur_y][start + i - 1] = Echoes[i]
          /\ cur_x \in Cols /\ cur_y \in Rows /\ start \in Cols
      BY <1>1 DEF KernelInv, EchoMatches, TypeOK
    <2>2. cur_x' = cur_x - 1 /\ cur_x' = start + Len(Echoes')
      BY <1>1, <1>2, <2>1, BackspaceScreen DEF Cols
    <2>3. ASSUME NEW i \in 1 .. Len(Echoes')
          PROVE  screen'[cur_y][start + i - 1] = Echoes'[i]
      <3>1. start + i - 1 \in Cols /\ start + i - 1 < cur_x'
        <4>1. PICK n \in Nat : n = Len(Echoes')
          BY <1>2
        <4>2. /\ VGA_W \in Nat /\ start \in 0 .. VGA_W - 1
              /\ cur_x \in 0 .. VGA_W - 1
          BY <2>1, KernelAssumption DEF Cols
        <4>3. i \in 1 .. n /\ cur_x' = start + n /\ cur_x = start + n + 1
          BY <2>2, <4>1, <4>2
        <4> QED
          BY <4>2, <4>3 DEF Cols
      <3>2. screen'[cur_y][start + i - 1] = screen[cur_y][start + i - 1]
        BY <1>1, <2>1, <3>1, BackspaceScreen
      <3> QED
        BY <1>2, <2>1, <3>2
    <2> QED
      BY <2>2, <2>3
  <1> QED
    BY <1>1, <1>3, BackspaceScreen

LEMMA EchoesType ==
  ASSUME TypeOK
  PROVE  Echoes \in Seq(Keys \cup {STAR})
  BY DEF TypeOK, Echoes

LEMMA PassKeyStep ==
  ASSUME KernelInv, NEW k \in Keys, PassKey(k)
  PROVE  KernelInv'
  <1>1. /\ Echo(STAR) /\ pc = "password" /\ todo = <<>>
        /\ plen < PASS_SIZE - 1 /\ plen' = plen + 1
        /\ passbuf' = [passbuf EXCEPT ![plen] = k]
        /\ UNCHANGED <<pc, todo, line, speaker>>
    BY DEF PassKey, Waiting
  <1>2. TypeOK /\ plen \in 0 .. PASS_SIZE - 1
    BY DEF KernelInv, TypeOK
  <1>3. Put(STAR) /\ STAR \in Chars /\ start' = start /\ wrapped' \in BOOLEAN
    BY <1>1, <1>2 DEF Echo, Chars, TypeOK
  <1>4. TypeOK'
    BY <1>1, <1>2, <1>3, PutScreen, KernelAssumption DEF TypeOK
  <1>5. Echoes' = Append(Echoes, STAR) /\ Echoes \in Seq(Keys \cup {STAR})
    BY <1>1, <1>2 DEF Echoes
  <1>6. Tidy'
    BY <1>1, <1>2 DEF KernelInv, Tidy, TypeOK
  <1>7. EchoMatches' /\ AheadIsBlank'
    BY <1>1, <1>5, EchoStep
  <1>8. TimeKept'
    BY <1>1 DEF TimeKept
  <1> QED
    BY <1>4, <1>6, <1>7, <1>8 DEF KernelInv

LEMMA PassBackspaceStep ==
  ASSUME KernelInv, PassBackspace
  PROVE  KernelInv'
  <1>1. /\ pc = "password" /\ todo = <<>>
        /\ UNCHANGED <<pc, todo, passbuf, line, speaker>>
    BY DEF PassBackspace, Waiting
  <1>2. TypeOK /\ AheadIsBlank /\ plen \in 0 .. PASS_SIZE - 1
    BY DEF KernelInv, TypeOK
  <1>3. CASE plen > 0
    <2>1. plen' = plen - 1 /\ EchoBackspace
      BY <1>3 DEF PassBackspace
    <2>2. TypeOK'
      <3>1. plen' \in 0 .. PASS_SIZE - 1
        BY <1>2, <1>3, <2>1, KernelAssumption
      <3>2. UNCHANGED <<cur_y, start, wrapped>>
        BY <2>1 DEF EchoBackspace
      <3> QED
        BY <1>1, <1>2, <2>1, <3>1, <3>2, BackspaceScreen DEF TypeOK
    <2>3. Tidy'
      BY <1>1, <1>2, <2>1 DEF KernelInv, Tidy
    <2>4. /\ Echoes \in Seq(Keys \cup {STAR}) /\ Echoes # <<>>
          /\ Echoes' = SubSeq(Echoes, 1, Len(Echoes) - 1)
      BY <1>1, <1>2, <1>3, <2>1 DEF Echoes
    <2>5. EchoMatches' /\ AheadIsBlank'
      BY <1>1, <2>1, <2>4, EraseStep
    <2>6. TimeKept'
      BY <1>1 DEF TimeKept
    <2> QED
      BY <2>2, <2>3, <2>5, <2>6 DEF KernelInv
  <1>4. CASE ~ plen > 0
    <2>1. UNCHANGED <<plen, screen, cursor, start, wrapped>>
      BY <1>4 DEF PassBackspace
    <2>2. TypeOK' /\ Tidy' /\ Echoes' = Echoes
      BY <1>1, <2>1 DEF KernelInv, TypeOK, Tidy, Echoes, cursor
    <2> QED
      BY <1>1, <2>1, <2>2, ScreenStays
  <1> QED
    BY <1>3, <1>4

LEMMA PaintTimeStep ==
  ASSUME KernelInv, PaintTime
  PROVE  KernelInv'
  <1>1. /\ pc = "time" /\ pc' = "line"
        /\ UNCHANGED <<cur_x, cur_y, todo, passbuf, plen, line, speaker,
                       start, wrapped>>
    BY DEF PaintTime, Waiting, cursor, input
  <1>2. PICK t \in Times : screen' = [screen EXCEPT ![0] = TimeRow(t)]
    BY DEF PaintTime
  <1>3. TypeOK /\ cur_y > 0 /\ cur_y \in Rows /\ 0 \in Rows
    BY <1>1, KernelAssumption DEF KernelInv, TimeKept, TypeOK, Rows
  <1>4. /\ screen' \in [Rows -> [Cols -> Chars]]
        /\ screen'[0] = TimeRow(t)
        /\ \A y \in Rows : y # 0 => screen'[y] = screen[y]
    BY <1>2, <1>3, TimeRowType DEF TypeOK
  <1>5. TypeOK' /\ Tidy' /\ Echoes' = Echoes
    BY <1>1, <1>3, <1>4 DEF KernelInv, TypeOK, Tidy, Echoes
  <1>6. EchoMatches'
    BY <1>1, <1>3, <1>4, <1>5 DEF KernelInv, EchoMatches, Rows
  <1>7. AheadIsBlank'
    BY <1>1, <1>3, <1>4 DEF KernelInv, AheadIsBlank, Rows
  <1>8. TimeKept'
    BY <1>1, <1>3, <1>4 DEF TimeKept
  <1> QED
    BY <1>5, <1>6, <1>7, <1>8 DEF KernelInv

LEMMA LineEnterStep ==
  ASSUME KernelInv, LineEnter
  PROVE  KernelInv'
  <1>1. /\ pc = "line" /\ pc' = "time" /\ line' = <<>> /\ todo' = PROMPT
        /\ UNCHANGED <<passbuf, plen, speaker>>
        /\ UNCHANGED <<screen, cursor, start, wrapped>>
    BY DEF LineEnter, Waiting
  <1>2. PROMPT \in Seq(Letters) /\ PROMPT # <<>>
    BY KernelAssumption
  <1>3. line' \in Seq(Keys) /\ Len(line') < LINE_SIZE
    BY <1>1, KernelAssumption
  <1>4. TypeOK'
    BY <1>1, <1>2, <1>3 DEF KernelInv, TypeOK, cursor
  <1>5. Tidy'
    BY <1>1 DEF KernelInv, Tidy, Echoes
  <1> QED
    BY <1>1, <1>2, <1>4, <1>5, ScreenStays

\* A turn of the second loop that stores and echoes nothing.
LEMMA LineUnchanged ==
  ASSUME KernelInv, pc = "line", pc' = "time",
         UNCHANGED <<screen, cursor, todo, passbuf, plen, line, speaker,
                     start, wrapped>>
  PROVE  KernelInv'
  <1>1. TypeOK' /\ Tidy' /\ Echoes' = Echoes
    BY DEF KernelInv, TypeOK, Tidy, Echoes, cursor
  <1> QED
    BY <1>1, ScreenStays

LEMMA LineBackspaceStep ==
  ASSUME KernelInv, LineBackspace
  PROVE  KernelInv'
  <1>1. /\ pc = "line" /\ pc' = "time" /\ todo = <<>>
        /\ UNCHANGED <<todo, passbuf, plen, speaker>>
    BY DEF LineBackspace, Waiting
  <1>2. TypeOK /\ AheadIsBlank /\ TimeKept
    BY DEF KernelInv
  <1>3. CASE line # <<>>
    <2>1. line' = SubSeq(line, 1, Len(line) - 1) /\ EchoBackspace
          /\ UNCHANGED <<cur_y, start, wrapped>>
      BY <1>3 DEF LineBackspace, EchoBackspace
    <2>2. line' \in Seq(Keys) /\ Len(line') < LINE_SIZE
      BY <1>2, <1>3, <2>1, Shorter, KernelAssumption DEF TypeOK
    <2>3. TypeOK'
      BY <1>1, <1>2, <2>1, <2>2, BackspaceScreen DEF TypeOK
    <2>4. Tidy'
      BY <1>1 DEF KernelInv, Tidy
    <2>5. /\ Echoes \in Seq(Keys \cup {STAR}) /\ Echoes # <<>>
          /\ Echoes' = SubSeq(Echoes, 1, Len(Echoes) - 1)
      BY <1>1, <1>2, <1>3, <2>1, EchoesType DEF Echoes
    <2>6. EchoMatches' /\ AheadIsBlank'
      BY <1>1, <2>1, <2>5, EraseStep
    <2>7. TimeKept'
      <3>1. cur_y > 0 /\ cur_y \in Rows /\ 0 \in Rows
        BY <1>1, <1>2, KernelAssumption DEF TimeKept, TypeOK, Rows
      <3>2. cur_y' = cur_y /\ screen'[0] = screen[0]
        BY <1>2, <2>1, <3>1, BackspaceScreen
      <3> QED
        BY <1>1, <1>2, <3>2 DEF TimeKept
    <2> QED
      BY <2>3, <2>4, <2>6, <2>7 DEF KernelInv
  <1>4. CASE line = <<>>
    <2>1. UNCHANGED <<line, screen, cursor, start, wrapped>>
      BY <1>4 DEF LineBackspace
    <2> QED
      BY <1>1, <2>1, LineUnchanged
  <1> QED
    BY <1>3, <1>4

LEMMA LineKeyStep ==
  ASSUME KernelInv, NEW k \in Keys, LineKey(k)
  PROVE  KernelInv'
  <1>1. /\ pc = "line" /\ pc' = "time" /\ todo = <<>>
        /\ UNCHANGED <<todo, passbuf, plen, speaker>>
    BY DEF LineKey, Waiting
  <1>2. TypeOK /\ TimeKept /\ line \in Seq(Keys)
    BY DEF KernelInv, TypeOK
  <1>3. CASE Len(line) < LINE_SIZE - 1
    <2>1. line' = Append(line, k) /\ Echo(k)
      BY <1>3 DEF LineKey
    <2>2. Put(k) /\ k \in Chars /\ start' = start /\ wrapped' \in BOOLEAN
      BY <1>2, <2>1 DEF Echo, Chars, TypeOK
    <2>3. line' \in Seq(Keys) /\ Len(line') < LINE_SIZE
      BY <1>2, <1>3, <2>1, KernelAssumption
    <2>4. TypeOK'
      BY <1>1, <1>2, <2>2, <2>3, PutScreen DEF TypeOK
    <2>5. Tidy'
      BY <1>1 DEF KernelInv, Tidy
    <2>6. Echoes' = Append(Echoes, k) /\ Echoes \in Seq(Keys \cup {STAR})
      BY <1>1, <1>2, <2>1, EchoesType DEF Echoes
    <2>7. EchoMatches' /\ AheadIsBlank'
      BY <1>1, <2>1, <2>6, EchoStep
    <2>8. TimeKept'
      <3>1. cur_y > 0 /\ cur_y \in Rows /\ 0 \in Rows
        BY <1>1, <1>2, KernelAssumption DEF TimeKept, TypeOK, Rows
      <3>2. cur_y' > 0 /\ screen'[0] = screen[0]
        BY <1>2, <2>2, <3>1, PutScreen DEF Rows
      <3> QED
        BY <1>1, <1>2, <3>2 DEF TimeKept
    <2> QED
      BY <2>4, <2>5, <2>7, <2>8 DEF KernelInv
  <1>4. CASE ~ Len(line) < LINE_SIZE - 1
    <2>1. UNCHANGED <<line, screen, cursor, start, wrapped>>
      BY <1>4 DEF LineKey
    <2> QED
      BY <1>1, <2>1, LineUnchanged
  <1> QED
    BY <1>3, <1>4

LEMMA KernelStep == KernelInv /\ [Next]_vars => KernelInv'
  <1> SUFFICES ASSUME KernelInv, [Next]_vars PROVE KernelInv'
    OBVIOUS
  <1>1. CASE UNCHANGED vars
    <2>1. TypeOK' /\ Tidy' /\ Echoes' = Echoes
      BY <1>1 DEF vars, input, cursor, KernelInv, TypeOK, Tidy, Echoes
    <2> QED
      BY <1>1, <2>1, ScreenStays DEF vars
  <1>2. CASE LineOther
    BY <1>2, LineUnchanged DEF LineOther, Waiting, input
  <1> QED
    BY <1>1, <1>2, WriteCharStep, LockStep, PassWrongStep, PassRightStep,
       PassBackspaceStep, PassKeyStep, PaintTimeStep, LineEnterStep,
       LineBackspaceStep, LineKeyStep DEF Next

\* The cursor and the buffers stay in their bounds.
THEOREM TypeCorrect == Spec => []TypeOK
  <1>1. KernelInv => TypeOK
    BY DEF KernelInv
  <1> QED
    BY <1>1, KernelInit, KernelStep, PTL DEF Spec

\* What precedes the cursor is what is in the buffer, what follows it is
\* blank, and the time stays on top.
THEOREM ScreenCorrect == Spec => [](EchoMatches /\ AheadIsBlank /\ TimeKept)
  <1>1. KernelInv => EchoMatches /\ AheadIsBlank /\ TimeKept
    BY DEF KernelInv
  <1> QED
    BY <1>1, KernelInit, KernelStep, PTL DEF Spec

-----------------------------------------------------------------------------
(***************************************************************************)
(* The lock.                                                               *)
(***************************************************************************)
Typed == [i \in 1 .. plen |-> passbuf[i - 1]]

\* streq tells the attempt from the password, whatever is behind it.
LEMMA StrEqText ==
  ASSUME KernelInv
  PROVE  StrEq(Terminated, USER_PASS) <=> Typed = USER_PASS
  <1>1. /\ plen \in 0 .. PASS_SIZE - 1
        /\ passbuf \in [0 .. PASS_SIZE - 1 -> Keys \cup {NUL}]
        /\ \A i \in 0 .. plen - 1 : passbuf[i] \in Keys
    BY DEF KernelInv, TypeOK, Tidy
  <1>2. /\ USER_PASS \in Seq(Keys) /\ Len(USER_PASS) \in 0 .. PASS_SIZE - 1
        /\ \A i \in 1 .. Len(USER_PASS) : USER_PASS[i] \in Keys
        /\ NUL \notin Keys
    BY KernelAssumption
  <1>3. /\ Terminated[plen] = NUL
        /\ \A i \in 0 .. PASS_SIZE - 1 : i # plen => Terminated[i] = passbuf[i]
    BY <1>1 DEF Terminated
  <1>4. Typed \in Seq(Keys) /\ Len(Typed) = plen
        /\ \A i \in 1 .. plen : Typed[i] = passbuf[i - 1]
    BY <1>1 DEF Typed
  <1>5. \A i \in 1 .. plen : Terminated[i - 1] = passbuf[i - 1]
    <2> SUFFICES ASSUME NEW i \in 1 .. plen
                 PROVE  i - 1 \in 0 .. PASS_SIZE - 1 /\ i - 1 # plen
      BY <1>3
    <2> QED
      BY <1>1, KernelAssumption
  <1>6. ASSUME Typed = USER_PASS
        PROVE  StrEq(Terminated, USER_PASS)
    <2>1. Len(USER_PASS) = plen
      BY <1>4, <1>6
    <2>2. \A i \in 1 .. plen : Terminated[i - 1] = USER_PASS[i]
      BY <1>4, <1>6, <1>5
    <2> QED
      BY <1>3, <2>1, <2>2 DEF StrEq
  <1>7. ASSUME StrEq(Terminated, USER_PASS)
        PROVE  Typed = USER_PASS
    <2>1. /\ \A i \in 1 .. Len(USER_PASS) : Terminated[i - 1] = USER_PASS[i]
          /\ Terminated[Len(USER_PASS)] = NUL
      BY <1>7 DEF StrEq
    <2>2. ~ plen < Len(USER_PASS)
      <3> SUFFICES ASSUME plen < Len(USER_PASS) PROVE FALSE
        OBVIOUS
      <3>1. plen + 1 \in 1 .. Len(USER_PASS) /\ (plen + 1) - 1 = plen
        BY <1>1, <1>2
      <3> QED
        BY <1>2, <1>3, <2>1, <3>1
    <2>3. ~ plen > Len(USER_PASS)
      <3> SUFFICES ASSUME plen > Len(USER_PASS) PROVE FALSE
        OBVIOUS
      <3>1. Len(USER_PASS) \in 0 .. plen - 1
        BY <1>1, <1>2
      <3> QED
        BY <1>1, <1>2, <1>3, <2>1, <3>1
    <2>4. plen = Len(USER_PASS)
      BY <1>1, <1>2, <2>2, <2>3
    <2>5. \A i \in 1 .. plen : Typed[i] = USER_PASS[i]
      BY <1>1, <1>4, <1>5, <2>1, <2>4
    <2> QED
      BY <1>2, <1>4, <2>4, <2>5, SeqEqual
  <1> QED
    BY <1>6, <1>7

Open == pc \in {"time", "line"}

\* Each step is one of the abstract lock, or changes nothing in it.
LEMMA LockNext ==
  ASSUME KernelInv, [Next]_vars
  PROVE  [TheLock!Next]_<<Typed, Open>>
  <1>1. /\ plen \in 0 .. PASS_SIZE - 1 /\ Typed \in Seq(Keys) /\ Len(Typed) = plen
        /\ passbuf \in [0 .. PASS_SIZE - 1 -> Keys \cup {NUL}]
        /\ \A i \in 1 .. plen : Typed[i] = passbuf[i - 1]
    BY DEF KernelInv, TypeOK, Tidy, Typed
  <1>2. CASE UNCHANGED <<passbuf, plen>> /\ Open' = Open
    BY <1>2 DEF Typed
  <1>3. CASE PassWrong
    <2>1. /\ pc = "password" /\ UNCHANGED pc /\ plen' = 0
          /\ Typed # USER_PASS
      BY <1>3, StrEqText DEF PassWrong, Waiting
    <2>2. Typed' = <<>>
      BY <2>1 DEF Typed
    <2> QED
      BY <2>1, <2>2 DEF TheLock!Next, TheLock!Submit, Typed, Open
  <1>4. CASE PassRight
    <2>1. /\ pc = "password" /\ pc' = "time" /\ plen' = plen
          /\ passbuf' = Terminated /\ Typed = USER_PASS
      BY <1>4, StrEqText DEF PassRight, Waiting
    <2>2. \A i \in 1 .. plen : passbuf'[i - 1] = passbuf[i - 1]
      BY <1>1, <2>1 DEF Terminated
    <2>3. Typed' = Typed
      BY <2>1, <2>2 DEF Typed
    <2> QED
      BY <2>1, <2>3 DEF TheLock!Next, TheLock!Submit, Typed, Open
  <1>5. CASE PassBackspace
    <2>1. pc = "password" /\ UNCHANGED <<pc, passbuf>>
      BY <1>5 DEF PassBackspace, Waiting
    <2>2. CASE plen = 0
      <3>1. plen' = plen
        BY <1>5, <2>2 DEF PassBackspace
      <3> QED
        BY <2>1, <3>1, <1>2 DEF Open
    <2>3. CASE plen # 0
      <3>1. plen' = plen - 1 /\ Typed # <<>>
        BY <1>1, <1>5, <2>3 DEF PassBackspace
      <3>2. Typed' = SubSeq(Typed, 1, Len(Typed) - 1)
        <4>1. /\ Typed' \in Seq(Keys) /\ Len(Typed') = plen - 1
              /\ \A i \in 1 .. plen - 1 : Typed'[i] = Typed[i]
          BY <1>1, <2>1, <2>3, <3>1 DEF Typed
        <4> QED
          BY <1>1, <3>1, <4>1, Shorter, SeqEqual
      <3> QED
        BY <2>1, <3>1, <3>2 DEF TheLock!Next, TheLock!Erase, Typed, Open
    <2> QED
      BY <2>2, <2>3
  <1>6. ASSUME NEW k \in Keys, PassKey(k)
        PROVE  [TheLock!Next]_<<Typed, Open>>
    <2>1. /\ pc = "password" /\ UNCHANGED pc /\ plen < PASS_SIZE - 1
          /\ plen' = plen + 1 /\ passbuf' = [passbuf EXCEPT ![plen] = k]
      BY <1>6 DEF PassKey, Waiting
    <2>2. Typed' = Append(Typed, k)
      <3>1. /\ Typed' \in Seq(Keys) /\ Len(Typed') = plen + 1
            /\ \A i \in 1 .. plen : Typed'[i] = Typed[i]
            /\ Typed'[plen + 1] = k
        BY <1>1, <2>1 DEF Typed
      <3>2. /\ Append(Typed, k) \in Seq(Keys) /\ Len(Append(Typed, k)) = plen + 1
            /\ \A i \in 1 .. plen : Append(Typed, k)[i] = Typed[i]
            /\ Append(Typed, k)[plen + 1] = k
        BY <1>1
      <3>3. \A i \in 1 .. plen + 1 : Typed'[i] = Append(Typed, k)[i]
        BY <1>1, <3>1, <3>2
      <3> QED
        BY <3>1, <3>2, <3>3, SeqEqual
    <2> QED
      BY <1>1, <2>1, <2>2 DEF TheLock!Next, TheLock!Type, Typed, Open
  <1>7. CASE WriteChar \/ Lock \/ PaintTime \/ LineEnter \/ LineBackspace
             \/ LineOther \/ (\E k \in Keys : LineKey(k)) \/ UNCHANGED vars
    BY <1>2, <1>7 DEF WriteChar, Lock, PaintTime, LineEnter, LineBackspace,
                      LineOther, LineKey, Waiting, vars, input, Open
  <1> QED
    BY <1>3, <1>4, <1>5, <1>6, <1>7 DEF Next

\* The locked screen implements PasswordLock: it opens for the password and
\* for nothing else.
THEOREM LockRefinement == Spec => ImplementsLock
  <1>1. Init => TheLock!Init
    BY DEF Init, TheLock!Init
  <1>2. KernelInv /\ [Next]_vars => [TheLock!Next]_<<Typed, Open>>
    BY LockNext
  <1> QED
    BY <1>1, <1>2, KernelInit, KernelStep, PTL
       DEF Spec, ImplementsLock, TheLock!Spec, Typed, Open

-----------------------------------------------------------------------------
(***************************************************************************)
(* The forms.  The inductive invariant says what the parser has not read   *)
(* yet, its buffer and what is still to arrive: in every state of it the   *)
(* rest of the form from that place on, the parts before it being those    *)
(* that were sent.  The search for a delimiter in the buffer finds the one *)
(* that ends the content or none, because the first in all that is still   *)
(* to be read is there.                                                    *)
(***************************************************************************)
LEMMA NatLeast ==
  ASSUME NEW T, T \subseteq Nat, T # {}
  PROVE  \E n \in T : \A m \in T : n <= m
  <1>1. PICK R : R = OpToRel(<, Nat)
    OBVIOUS
  <1>2. IsWellFoundedOn(R, Nat)
    BY <1>1, NatLessThanWellFounded
  <1>3. PICK n \in T : \A m \in T : ~ (<<m, n>> \in R)
    BY <1>1, <1>2, WFMin
  <1>4. \A m \in T : ~ (m < n)
    BY <1>1, <1>3 DEF OpToRel
  <1> QED
    BY <1>4

LEMMA Induction ==
  ASSUME NEW S, 0 \in S, \A n \in Nat : n \in S => n + 1 \in S
  PROVE  Nat \subseteq S
  <1>1. SUFFICES ASSUME Nat \ S # {} PROVE FALSE
    OBVIOUS
  <1>2. PICK n \in Nat \ S : \A m \in Nat \ S : n <= m
    BY <1>1, NatLeast
  <1>3. n # 0 /\ n - 1 \in Nat
    BY <1>2
  <1>4. n - 1 \in S
    BY <1>2, <1>3
  <1> QED
    BY <1>2, <1>3, <1>4


-----------------------------------------------------------------------------
(***************************************************************************)
(* The forms.                                                              *)
(***************************************************************************)
Symbol == STRING \cup {"cr", "lf", "-", "b", "field", "file", "content-type"}
Text == Seq(Symbol)
Item == [head : {"field", "file"}, type : BOOLEAN, content : Text]

CrLf == <<"cr", "lf">>
Dashes == <<"-", "-">>
Opening == <<"-", "-", "b">>
FirstLine == <<"-", "-", "b", "cr", "lf">>
Delimiter == <<"cr", "lf", "-", "-", "b">>

LEMMA Symbols ==
  /\ "cr" \in Symbol /\ "lf" \in Symbol /\ "-" \in Symbol /\ "b" \in Symbol
  /\ "field" \in Symbol /\ "file" \in Symbol /\ "content-type" \in Symbol
  BY Zenon DEF Symbol

LEMMA OneIsText ==
  ASSUME NEW s \in Symbol
  PROVE  <<s>> \in Text /\ Len(<<s>>) = 1 /\ <<s>>[1] = s
  <1>1. <<s>> \in Text
    BY DEF Text
  <1> QED
    BY <1>1

LEMMA TwoAreText ==
  ASSUME NEW s \in Symbol, NEW t \in Symbol
  PROVE  <<s, t>> \in Text
  BY DEF Text

LEMMA ThreeAreText ==
  ASSUME NEW s \in Symbol, NEW t \in Symbol, NEW u \in Symbol
  PROVE  <<s, t, u>> \in Text
  BY DEF Text

LEMMA FiveAreText ==
  ASSUME NEW s \in Symbol, NEW t \in Symbol, NEW u \in Symbol, NEW v \in Symbol,
         NEW w \in Symbol
  PROVE  <<s, t, u, v, w>> \in Text
  BY DEF Text

LEMMA Literals ==
  /\ CrLf \in Text /\ Len(CrLf) = 2 /\ CrLf[1] = "cr" /\ CrLf[2] = "lf"
  /\ Dashes \in Text /\ Len(Dashes) = 2 /\ Dashes[1] = "-" /\ Dashes[2] = "-"
  /\ Opening \in Text /\ Len(Opening) = 3 /\ Opening[1] = "-"
  /\ Opening[2] = "-" /\ Opening[3] = "b"
  /\ FirstLine \in Text /\ Len(FirstLine) = 5
  /\ FirstLine[1] = "-" /\ FirstLine[2] = "-" /\ FirstLine[3] = "b"
  /\ FirstLine[4] = "cr" /\ FirstLine[5] = "lf"
  /\ Delimiter \in Text /\ Len(Delimiter) = 5
  /\ Delimiter[1] = "cr" /\ Delimiter[2] = "lf" /\ Delimiter[3] = "-"
  /\ Delimiter[4] = "-" /\ Delimiter[5] = "b"
  <1>1. /\ CrLf \in Text /\ Dashes \in Text /\ Opening \in Text
        /\ FirstLine \in Text /\ Delimiter \in Text
    BY Symbols, TwoAreText, ThreeAreText, FiveAreText, Zenon
       DEF CrLf, Dashes, Opening, FirstLine, Delimiter
  <1>2. /\ Len(CrLf) = 2 /\ Len(Dashes) = 2 /\ Len(Opening) = 3
        /\ Len(FirstLine) = 5 /\ Len(Delimiter) = 5
    BY DEF CrLf, Dashes, Opening, FirstLine, Delimiter
  <1>3. CrLf[1] = "cr" /\ CrLf[2] = "lf" /\ Dashes[1] = "-" /\ Dashes[2] = "-"
    BY Z3 DEF CrLf, Dashes
  <1>4. Opening[1] = "-" /\ Opening[2] = "-" /\ Opening[3] = "b"
    BY Z3 DEF Opening
  <1>5. /\ FirstLine[1] = "-" /\ FirstLine[2] = "-" /\ FirstLine[3] = "b"
        /\ FirstLine[4] = "cr" /\ FirstLine[5] = "lf"
    BY Z3 DEF FirstLine
  <1>6. /\ Delimiter[1] = "cr" /\ Delimiter[2] = "lf" /\ Delimiter[3] = "-"
        /\ Delimiter[4] = "-" /\ Delimiter[5] = "b"
    BY Z3 DEF Delimiter
  <1> QED
    BY <1>1, <1>2, <1>3, <1>4, <1>5, <1>6, Zenon

\* Texts are joined in any order, and what follows the same beginning is the
\* same.
LEMMA Join ==
  ASSUME NEW a \in Text, NEW b \in Text
  PROVE  /\ a \o b \in Text /\ Len(a \o b) = Len(a) + Len(b)
         /\ \A i \in 1 .. Len(a) : (a \o b)[i] = a[i]
         /\ \A i \in 1 .. Len(b) : (a \o b)[Len(a) + i] = b[i]
  BY DEF Text

LEMMA SameText ==
  ASSUME NEW a \in Text, NEW b \in Text, Len(a) = Len(b),
         \A i \in 1 .. Len(a) : a[i] = b[i]
  PROVE  a = b
  BY DEF Text

LEMMA Assoc ==
  ASSUME NEW a \in Text, NEW b \in Text, NEW c \in Text
  PROVE  (a \o b) \o c = a \o (b \o c)
  <1>1. PICK l : l = (a \o b) \o c
    OBVIOUS
  <1>2. PICK r : r = a \o (b \o c)
    OBVIOUS
  <1>3. PICK m \in Nat, n \in Nat, k \in Nat : m = Len(a) /\ n = Len(b) /\ k = Len(c)
    BY DEF Text
  <1>4. l \in Text /\ Len(l) = m + n + k
    BY <1>1, <1>3, Join
  <1>5. r \in Text /\ Len(r) = m + n + k
    BY <1>2, <1>3, Join
  <1>6. ASSUME NEW i \in 1 .. m + n + k PROVE l[i] = r[i]
    <2>1. a \o b \in Text /\ Len(a \o b) = m + n /\ b \o c \in Text
            /\ Len(b \o c) = n + k
      BY <1>3, Join
    <2>2. CASE i \in 1 .. m
      <3>1. i \in 1 .. m + n
        BY <2>2
      <3>2. l[i] = (a \o b)[i] /\ (a \o b)[i] = a[i]
        BY <1>1, <1>3, <2>1, <2>2, <3>1, Join
      <3>3. r[i] = a[i]
        BY <1>2, <1>3, <2>1, <2>2, Join
      <3> QED
        BY <3>2, <3>3
    <2>3. CASE i \in m + 1 .. m + n
      <3>1. PICK j \in 1 .. n : i = m + j
        <4>1. i - m \in 1 .. n /\ i = m + (i - m)
          BY <2>3
        <4> QED
          BY <4>1
      <3>2. i \in 1 .. m + n /\ j \in 1 .. n + k
        BY <3>1
      <3>3. l[i] = (a \o b)[i]
        BY <1>1, <2>1, <3>2, Join
      <3>4. (a \o b)[i] = b[j]
        BY <1>3, <3>1, Join
      <3>5. r[i] = (b \o c)[j]
        BY <1>2, <1>3, <2>1, <3>1, <3>2, Join
      <3>6. (b \o c)[j] = b[j]
        BY <1>3, Join
      <3> QED
        BY <3>3, <3>4, <3>5, <3>6
    <2>4. CASE i \in m + n + 1 .. m + n + k
      <3>1. PICK j \in 1 .. k : i = m + n + j
        <4>1. i - (m + n) \in 1 .. k /\ i = m + n + (i - (m + n))
          BY <2>4
        <4> QED
          BY <4>1
      <3>2. n + j \in 1 .. n + k /\ i = m + (n + j)
        BY <3>1
      <3>3. l[i] = c[j]
        BY <1>1, <1>3, <2>1, <3>1, Join
      <3>4. r[i] = (b \o c)[n + j]
        BY <1>2, <1>3, <2>1, <3>2, Join
      <3>5. (b \o c)[n + j] = c[j]
        BY <1>3, Join
      <3> QED
        BY <3>3, <3>4, <3>5
    <2> QED
      BY <2>2, <2>3, <2>4
  <1> QED
    BY <1>1, <1>2, <1>4, <1>5, <1>6, SameText

LEMMA JoinTo ==
  ASSUME NEW a \in Text, NEW b \in Text, NEW c \in Text, NEW m \in Nat, NEW n \in Nat,
         Len(a) = m, Len(b) = n, Len(c) = m + n,
         \A i \in 1 .. m : c[i] = a[i], \A i \in 1 .. n : c[m + i] = b[i]
  PROVE  a \o b = c
  <1>1. PICK d : d = a \o b
    OBVIOUS
  <1>2. /\ d \in Text /\ Len(d) = m + n
        /\ \A i \in 1 .. m : d[i] = a[i]
        /\ \A i \in 1 .. n : d[m + i] = b[i]
    BY <1>1, Join
  <1>3. ASSUME NEW i \in 1 .. m + n PROVE d[i] = c[i]
    <2>1. CASE i \in 1 .. m
      BY <1>2, <2>1
    <2>2. CASE i \notin 1 .. m
      <3>1. i - m \in 1 .. n /\ i = m + (i - m)
        BY <2>2
      <3>2. PICK j \in 1 .. n : i = m + j
        BY <3>1
      <3> QED
        BY <1>2, <3>2
    <2> QED
      BY <2>1, <2>2
  <1>4. d = c
    BY <1>2, <1>3, SameText
  <1> QED
    BY <1>1, <1>4

\* The literals of the model.
LEMMA FormLiterals ==
  /\ Form!crlf = CrLf /\ Form!dash = Dashes
  /\ Form!dash \o Form!boundary = Opening
  /\ Form!dash_boundary_crlf = FirstLine
  /\ Form!crlf_dash_boundary = Delimiter
  /\ Opening \o CrLf = FirstLine
  /\ CrLf \o Opening = Delimiter
  <1>1. Form!crlf = CrLf /\ Form!dash = Dashes
    BY DEF CrLf, Dashes, Form!crlf, Form!dash
  <1>2. PICK y : y = <<"b">>
    OBVIOUS
  <1>3. y \in Text /\ Len(y) = 1 /\ y[1] = "b"
    BY <1>2, Symbols, OneIsText, Zenon
  <1>4. Dashes \o y = Opening
    <2>1. /\ Opening[1] = Dashes[1] /\ Opening[2] = Dashes[2]
          /\ Opening[3] = y[1]
      BY <1>3, Literals, Zenon
    <2>2. PICK d \in Text, o \in Text : d = Dashes /\ o = Opening
      BY Literals, Zenon
    <2>3. Len(d) = 2 /\ Len(o) = 3 /\ Len(y) = 1
      BY <1>3, <2>2, Literals, Zenon
    <2>4. o[1] = d[1] /\ o[2] = d[2] /\ o[3] = y[1]
      BY <2>1, <2>2, Zenon
    <2>5. \A i \in 1 .. 2 : o[i] = d[i]
      BY <2>4
    <2>6. \A i \in 1 .. 1 : o[2 + i] = y[i]
      BY <2>4
    <2>7. d \o y = o
      <3>1. PICK m \in Nat, n \in Nat : m = 2 /\ n = 1
        OBVIOUS
      <3>2. Len(d) = m /\ Len(y) = n /\ Len(o) = m + n
        BY <3>1, <2>3
      <3>3. \A i \in 1 .. m : o[i] = d[i]
        BY <3>1, <2>5
      <3>4. \A i \in 1 .. n : o[m + i] = y[i]
        BY <3>1, <2>6
      <3> QED
        BY <3>1, <3>2, <3>3, <3>4, <1>3, JoinTo, ZenonT(60)
    <2> QED
      BY <2>2, <2>7, Zenon
  <1>5. Opening \o CrLf = FirstLine
    <2>1. /\ FirstLine[1] = Opening[1] /\ FirstLine[2] = Opening[2]
          /\ FirstLine[3] = Opening[3]
          /\ FirstLine[4] = CrLf[1] /\ FirstLine[5] = CrLf[2]
      BY Literals, Zenon
    <2>2. PICK o \in Text, c \in Text, l \in Text :
            o = Opening /\ c = CrLf /\ l = FirstLine
      BY Literals, Zenon
    <2>3. Len(o) = 3 /\ Len(c) = 2 /\ Len(l) = 5
      BY <2>2, Literals, Zenon
    <2>4. /\ l[1] = o[1] /\ l[2] = o[2] /\ l[3] = o[3]
          /\ l[4] = c[1] /\ l[5] = c[2]
      BY <2>1, <2>2, Zenon
    <2>5. \A i \in 1 .. 3 : l[i] = o[i]
      BY <2>4
    <2>6. \A i \in 1 .. 2 : l[3 + i] = c[i]
      BY <2>4
    <2>7. o \o c = l
      <3>1. PICK m \in Nat, n \in Nat : m = 3 /\ n = 2
        OBVIOUS
      <3>2. Len(o) = m /\ Len(c) = n /\ Len(l) = m + n
        BY <3>1, <2>3
      <3>3. \A i \in 1 .. m : l[i] = o[i]
        BY <3>1, <2>5
      <3>4. \A i \in 1 .. n : l[m + i] = c[i]
        BY <3>1, <2>6
      <3> QED
        BY <3>1, <3>2, <3>3, <3>4, JoinTo, ZenonT(60)
    <2> QED
      BY <2>2, <2>7, Zenon
  <1>6. CrLf \o Opening = Delimiter
    <2>1. /\ Delimiter[1] = CrLf[1] /\ Delimiter[2] = CrLf[2]
          /\ Delimiter[3] = Opening[1] /\ Delimiter[4] = Opening[2]
          /\ Delimiter[5] = Opening[3]
      BY Literals, Zenon
    <2>2. PICK o \in Text, c \in Text, l \in Text :
            o = Opening /\ c = CrLf /\ l = Delimiter
      BY Literals, Zenon
    <2>3. Len(o) = 3 /\ Len(c) = 2 /\ Len(l) = 5
      BY <2>2, Literals, Zenon
    <2>4. /\ l[1] = c[1] /\ l[2] = c[2]
          /\ l[3] = o[1] /\ l[4] = o[2] /\ l[5] = o[3]
      BY <2>1, <2>2, Zenon
    <2>5. \A i \in 1 .. 2 : l[i] = c[i]
      BY <2>4
    <2>6. \A i \in 1 .. 3 : l[2 + i] = o[i]
      BY <2>4
    <2>7. c \o o = l
      <3>1. PICK m \in Nat, n \in Nat : m = 2 /\ n = 3
        OBVIOUS
      <3>2. Len(c) = m /\ Len(o) = n /\ Len(l) = m + n
        BY <3>1, <2>3
      <3>3. \A i \in 1 .. m : l[i] = c[i]
        BY <3>1, <2>5
      <3>4. \A i \in 1 .. n : l[m + i] = o[i]
        BY <3>1, <2>6
      <3> QED
        BY <3>1, <3>2, <3>3, <3>4, JoinTo, ZenonT(60)
    <2> QED
      BY <2>2, <2>7, Zenon
  <1>7. Form!dash \o Form!boundary = Opening
    BY <1>1, <1>2, <1>4, Zenon DEF Form!boundary
  <1>8. Form!dash_boundary_crlf = FirstLine
    BY <1>1, <1>5, <1>7, Zenon DEF Form!dash_boundary_crlf
  <1>9. (CrLf \o Dashes) \o y = CrLf \o (Dashes \o y)
    BY <1>3, Literals, Assoc
  <1>10. Form!crlf_dash_boundary = Delimiter
    BY <1>1, <1>2, <1>4, <1>6, <1>9, Zenon
       DEF Form!crlf_dash_boundary, Form!boundary
  <1> QED
    BY <1>1, <1>5, <1>6, <1>7, <1>8, <1>10, Zenon

LEMMA Cancel ==
  ASSUME NEW a \in Text, NEW b \in Text, NEW c \in Text, a \o b = a \o c
  PROVE  b = c
  <1>1. Len(b) = Len(c)
    BY Join DEF Text
  <1>2. ASSUME NEW i \in 1 .. Len(b) PROVE b[i] = c[i]
    <2>1. (a \o b)[Len(a) + i] = b[i]
      BY Join
    <2>2. (a \o c)[Len(a) + i] = c[i]
      BY <1>1, Join
    <2> QED
      BY <2>1, <2>2
  <1> QED
    BY <1>1, <1>2, SameText

\* What is taken from a text.
Takes(b, i, n, c) == i + n <= Len(b) /\ c = SubSeq(b, i + 1, i + n)

Copied(b, i, n, c) ==
  c \in Text /\ Len(c) = n /\ \A j \in 1 .. n : c[j] = b[i + j]

LEMMA Taken ==
  ASSUME NEW b \in Text, NEW i \in Nat, NEW n \in Nat, NEW c, Takes(b, i, n, c)
  PROVE  Copied(b, i, n, c)
  <1>1. PICK l \in Nat : l = Len(b) /\ i + n <= l
    <2>1. Len(b) \in Nat
      BY DEF Text
    <2> QED
      BY <2>1, Zenon DEF Takes
  <1>2. PICK a \in Nat, z \in Nat : /\ a = i + 1 /\ z = i + n
                                    /\ c = SubSeq(b, a, z)
    <2>1. i + 1 \in Nat /\ i + n \in Nat
      OBVIOUS
    <2> QED
      BY <2>1, Zenon DEF Takes
  <1>3. \A j \in 1 .. l : b[j] \in Symbol
    BY <1>1, ElementOfSeq, Zenon DEF Text
  <1>4. \A j \in a .. z : b[j] \in Symbol
    BY <1>1, <1>2, <1>3
  <1>5. a \in Int /\ z \in Int
    OBVIOUS
  <1>6. /\ SubSeq(b, a, z) \in Seq(Symbol)
        /\ Len(SubSeq(b, a, z)) = IF a <= z THEN z - a + 1 ELSE 0
        /\ \A j \in 1 .. z - a + 1 : SubSeq(b, a, z)[j] = b[a + j - 1]
    BY <1>4, <1>5, SubSeqProperties
  <1>7. z - a + 1 = n /\ (IF a <= z THEN z - a + 1 ELSE 0) = n
    BY <1>2
  <1>8. c \in Text /\ Len(c) = n
    BY <1>2, <1>6, <1>7, Zenon DEF Text
  <1>9. ASSUME NEW j \in 1 .. n PROVE c[j] = b[i + j]
    <2>1. a + j - 1 = i + j
      BY <1>2
    <2>2. c[j] = b[a + j - 1]
      BY <1>2, <1>6, <1>7, Zenon
    <2> QED
      BY <2>1, <2>2, Zenon
  <1> QED
    BY <1>8, <1>9, Zenon DEF Copied

LEMMA Begun ==
  ASSUME NEW b \in Text, NEW n \in Nat, n <= Len(b), NEW c, c = SubSeq(b, 1, n)
  PROVE  Copied(b, 0, n, c) /\ \A j \in 1 .. n : c[j] = b[j]
  <1>1. 0 + 1 = 1 /\ 0 + n = n /\ 0 \in Nat /\ \A j \in 1 .. n : 0 + j = j
    OBVIOUS
  <1>2. Takes(b, 0, n, c)
    BY <1>1, Zenon DEF Takes
  <1>3. Copied(b, 0, n, c)
    BY <1>1, <1>2, Taken, Zenon
  <1> QED
    BY <1>1, <1>3, Zenon DEF Copied

\* The beginning b of a text that begins with x, when it is long enough.
LEMMA Cut ==
  ASSUME NEW b \in Text, NEW r \in Text, NEW x \in Text, NEW t \in Text,
         b \o r = x \o t, Len(x) <= Len(b)
  PROVE  LET c == SubSeq(b, Len(x) + 1, Len(b))
         IN /\ c \in Text /\ Len(c) = Len(b) - Len(x)
            /\ c \o r = t
  <1>1. PICK m \in Nat, n \in Nat : m = Len(x) /\ n = Len(b) - m /\ m + n = Len(b)
    <2>1. Len(x) \in Nat /\ Len(b) \in Nat
      BY DEF Text
    <2>2. Len(b) - Len(x) \in Nat /\ Len(x) + (Len(b) - Len(x)) = Len(b)
      BY <2>1
    <2> QED
      BY <2>1, <2>2
  <1>2. PICK c : c = SubSeq(b, m + 1, m + n)
    OBVIOUS
  <1>3. c \in Text /\ Len(c) = n /\ \A i \in 1 .. n : c[i] = b[m + i]
    <2>1. m + n <= Len(b)
      BY <1>1
    <2>2. Takes(b, m, n, c)
      BY <1>2, <2>1, Zenon DEF Takes
    <2>3. Copied(b, m, n, c)
      BY <2>2, Taken, Zenon
    <2> QED
      BY <2>3, Zenon DEF Copied
  <1>4. PICK l \in Nat : l = Len(r)
    BY DEF Text
  <1>5. Len(t) = n + l
    <2>1. Len(b \o r) = Len(x \o t)
      BY Zenon
    <2>2. Len(b) + Len(r) = Len(x) + Len(t)
      BY <2>1, Join
    <2> QED
      BY <1>1, <1>4, <2>2 DEF Text
  <1>6. c \o r \in Text /\ Len(c \o r) = n + l
    BY <1>3, <1>4, Join
  <1>7. ASSUME NEW i \in 1 .. n + l PROVE (c \o r)[i] = t[i]
    <2>1. (x \o t)[m + i] = t[i]
      BY <1>1, <1>5, Join
    <2>2. CASE i \in 1 .. n
      <3>1. m + i \in 1 .. Len(b)
        BY <1>1, <2>2
      <3>2. (b \o r)[m + i] = b[m + i]
        BY <3>1, Join
      <3>3. (c \o r)[i] = c[i]
        BY <1>3, <2>2, Join
      <3> QED
        BY <1>3, <2>1, <2>2, <3>2, <3>3
    <2>3. CASE i \notin 1 .. n
      <3>1. PICK j \in 1 .. l : i = n + j
        <4>1. i - n \in 1 .. l /\ i = n + (i - n)
          BY <2>3
        <4> QED
          BY <4>1
      <3>2. (b \o r)[Len(b) + j] = r[j]
        BY ZenonT(60), <1>4, Join
      <3>3. (c \o r)[Len(c) + j] = r[j]
        BY ZenonT(60), <1>3, <1>4, Join
      <3>4. Len(b) + j = m + i /\ Len(c) + j = i
        BY <1>1, <1>3, <3>1
      <3> QED
        BY <2>1, <3>2, <3>3, <3>4
    <2> QED
      BY <2>2, <2>3
  <1>8. c \o r = t
    BY <1>5, <1>6, <1>7, SameText
  <1> QED
    BY <1>1, <1>2, <1>3, <1>8

\* A text in two pieces.
LEMMA Halves ==
  ASSUME NEW x \in Text, NEW n \in Nat, n <= Len(x)
  PROVE  /\ SubSeq(x, 1, n) \in Text /\ Len(SubSeq(x, 1, n)) = n
         /\ SubSeq(x, n + 1, Len(x)) \in Text
         /\ Len(SubSeq(x, n + 1, Len(x))) = Len(x) - n
         /\ x = SubSeq(x, 1, n) \o SubSeq(x, n + 1, Len(x))
  <1>1. PICK k \in Nat : Len(x) = n + k
    <2>1. Len(x) - n \in Nat /\ Len(x) = n + (Len(x) - n)
      BY DEF Text
    <2> QED
      BY <2>1
  <1>2. PICK a : a = SubSeq(x, 1, n)
    OBVIOUS
  <1>3. PICK b : b = SubSeq(x, n + 1, n + k)
    OBVIOUS
  <1>4. a \in Text /\ Len(a) = n /\ \A i \in 1 .. n : a[i] = x[i]
    BY <1>2, Begun, Zenon DEF Copied
  <1>5. b \in Text /\ Len(b) = k /\ \A i \in 1 .. k : b[i] = x[n + i]
    <2>1. n + k <= Len(x)
      BY <1>1
    <2>2. Takes(x, n, k, b)
      BY <1>3, <2>1, Zenon DEF Takes
    <2>3. Copied(x, n, k, b)
      BY <2>2, Taken, Zenon
    <2> QED
      BY <2>3, Zenon DEF Copied
  <1>6. ASSUME NEW i \in 1 .. n + k PROVE (a \o b)[i] = x[i]
    <2>1. CASE i \in 1 .. n
      BY <1>4, <1>5, <2>1, Join
    <2>2. CASE i \notin 1 .. n
      <3>1. PICK j \in 1 .. k : i = n + j
        <4>1. i - n \in 1 .. k /\ i = n + (i - n)
          BY <2>2
        <4> QED
          BY <4>1
      <3> QED
        BY <1>4, <1>5, <3>1, Join
    <2> QED
      BY <2>1, <2>2
  <1>7. a \o b \in Text /\ Len(a \o b) = n + k
    BY <1>4, <1>5, Join
  <1>8. x = a \o b
    BY <1>1, <1>6, <1>7, SameText
  <1>9. a = SubSeq(x, 1, n) /\ b = SubSeq(x, n + 1, Len(x))
    BY <1>1, <1>2, <1>3, Zenon
  <1>10. Len(b) = Len(x) - n
    BY <1>1, <1>5
  <1> QED
    BY <1>4, <1>5, <1>8, <1>9, <1>10, Zenon

\* The beginning of a text that is long enough to begin with x.
LEMMA Front ==
  ASSUME NEW b \in Text, NEW r \in Text, NEW x \in Text, NEW t \in Text,
         b \o r = x \o t, Len(x) <= Len(b)
  PROVE  SubSeq(b, 1, Len(x)) = x
  <1>1. PICK m \in Nat, n \in Nat : m = Len(x) /\ n = Len(b) /\ m <= n
    BY DEF Text
  <1>2. PICK a : a = SubSeq(b, 1, m)
    OBVIOUS
  <1>3. a \in Text /\ Len(a) = m /\ \A i \in 1 .. m : a[i] = b[i]
    <2>1. m <= Len(b)
      BY <1>1, Zenon
    <2>2. Copied(b, 0, m, a) /\ \A i \in 1 .. m : a[i] = b[i]
      BY <1>2, <2>1, Begun, ZenonT(60)
    <2> QED
      BY <2>2, Zenon DEF Copied
  <1>4. ASSUME NEW i \in 1 .. m PROVE a[i] = x[i]
    <2>1. (b \o r)[i] = b[i]
      BY <1>1, Join
    <2>2. (x \o t)[i] = x[i]
      BY <1>1, Join
    <2>3. (b \o r)[i] = (x \o t)[i]
      BY Zenon
    <2> QED
      BY <1>3, <2>1, <2>2, <2>3
  <1>5. a = x
    BY <1>1, <1>3, <1>4, SameText
  <1> QED
    BY <1>1, <1>2, <1>5, Zenon

\* s is in x behind i symbols.
At(x, s, i) ==
  i + Len(s) <= Len(x) /\ \A j \in 1 .. Len(s) : x[i + j] = s[j]

First(x, s, i) ==
  /\ i \in Nat /\ At(x, s, i)
  /\ \A k \in Nat : k < i => ~ At(x, s, k)

LEMMA AtIsSubSeq ==
  ASSUME NEW b \in Text, NEW s \in Text, NEW i \in Nat, i + Len(s) <= Len(b)
  PROVE  SubSeq(b, i + 1, i + Len(s)) = s <=> At(b, s, i)
  <1>1. PICK n \in Nat : n = Len(s) /\ i + n <= Len(b)
    BY DEF Text
  <1>2. PICK c : c = SubSeq(b, i + 1, i + n)
    OBVIOUS
  <1>3. c \in Text /\ Len(c) = n /\ \A j \in 1 .. n : c[j] = b[i + j]
    <2>1. Takes(b, i, n, c)
      BY <1>1, <1>2, Zenon DEF Takes
    <2>2. Copied(b, i, n, c)
      BY <2>1, Taken, Zenon
    <2> QED
      BY <2>2, Zenon DEF Copied
  <1>4. c = s => At(b, s, i)
    BY <1>1, <1>3 DEF At
  <1>5. ASSUME At(b, s, i) PROVE c = s
    <2>1. \A j \in 1 .. n : c[j] = s[j]
      BY <1>1, <1>3, <1>5 DEF At
    <2> QED
      BY <1>1, <1>3, <2>1, SameText
  <1>6. c = s <=> At(b, s, i)
    BY <1>4, <1>5
  <1> QED
    BY <1>1, <1>2, <1>6, Zenon

\* What Find returns for a buffer.
FindIn(b, s) ==
  LET at == {i \in 0 .. Len(b) - Len(s) : SubSeq(b, i + 1, i + Len(s)) = s}
  IN IF at = {} THEN Len(b) ELSE Form!Min(at)

LEMMA FindInIs ==
  ASSUME NEW b \in Text, NEW s \in Text
  PROVE  \/ FindIn(b, s) = Len(b) /\ \A i \in Nat : ~ At(b, s, i)
         \/ First(b, s, FindIn(b, s))
  <1>1. PICK T : T = {i \in 0 .. Len(b) - Len(s) :
                        SubSeq(b, i + 1, i + Len(s)) = s}
    OBVIOUS
  <1>2. PICK n \in Nat, m \in Nat : n = Len(b) /\ m = Len(s)
    BY DEF Text
  <1>3. ASSUME NEW i \in Nat PROVE i \in T <=> At(b, s, i)
    <2>1. CASE i + m <= n
      <3>1. i \in 0 .. n - m
        BY <1>2, <2>1
      <3>2. i \in T <=> SubSeq(b, i + 1, i + Len(s)) = s
        BY <1>1, <1>2, <3>1, Zenon
      <3> QED
        BY <1>2, <2>1, <3>2, AtIsSubSeq
    <2>2. CASE ~ i + m <= n
      <3>1. i \notin 0 .. n - m
        BY <1>2, <2>2
      <3>2. i \notin T
        BY <1>1, <1>2, <3>1, Zenon
      <3>3. ~ At(b, s, i)
        BY <1>2, <2>2, Zenon DEF At
      <3> QED
        BY <3>2, <3>3
    <2> QED
      BY <2>1, <2>2
  <1>4. T \subseteq Nat
    BY <1>1, <1>2
  <1>5. FindIn(b, s) = IF T = {} THEN Len(b) ELSE Form!Min(T)
    BY <1>1, Zenon DEF FindIn
  <1>6. CASE T = {}
    BY <1>3, <1>5, <1>6
  <1>7. CASE T # {}
    <2>1. \E x \in T : \A y \in T : x <= y
      BY <1>4, <1>7, NatLeast
    <2>2. PICK x : x = FindIn(b, s)
      OBVIOUS
    <2>3. x = CHOOSE z \in T : \A y \in T : z <= y
      BY <1>5, <1>7, <2>2, Zenon DEF Form!Min
    <2>4. x \in T /\ \A y \in T : x <= y
      BY <2>1, <2>3, Zenon
    <2>5. x \in Nat /\ At(b, s, x)
      BY <1>3, <1>4, <2>4
    <2>6. ASSUME NEW k \in Nat, k < x PROVE ~ At(b, s, k)
      <3>1. k \notin T
        BY <2>4, <2>5, <2>6
      <3> QED
        BY <1>3, <3>1
    <2>7. First(b, s, x)
      BY <2>5, <2>6 DEF First
    <2> QED
      BY <2>2, <2>7
  <1> QED
    BY <1>6, <1>7

\* What is found in a buffer is what is first in all that was and will be
\* received, when the buffer is long enough, and nothing otherwise.
LEMMA FindFirst ==
  ASSUME NEW b \in Text, NEW r \in Text, NEW s \in Text, NEW p,
         First(b \o r, s, p)
  PROVE  /\ p + Len(s) <= Len(b) => FindIn(b, s) = p
         /\ ~ (p + Len(s) <= Len(b)) => FindIn(b, s) = Len(b)
  <1>1. PICK n \in Nat, m \in Nat, l \in Nat : n = Len(b) /\ m = Len(s) /\ l = Len(r)
    BY DEF Text
  <1>2. p \in Nat
    BY DEF First
  <1>3. PICK w \in Text : w = b \o r
    BY Join
  <1>4. Len(w) = n + l /\ \A i \in 1 .. n : w[i] = b[i]
    BY <1>1, <1>3, Join
  <1>5. ASSUME NEW i \in Nat, i + m <= n PROVE At(w, s, i) <=> At(b, s, i)
    <2>1. \A j \in 1 .. m : w[i + j] = b[i + j]
      <3>1. ASSUME NEW j \in 1 .. m PROVE w[i + j] = b[i + j]
        <4>1. i + j \in 1 .. n
          BY <1>5, <3>1
        <4> QED
          BY <1>4, <4>1
      <3> QED
        BY <3>1
    <2>2. i + m <= Len(w)
      BY <1>4, <1>5
    <2>3. At(w, s, i) <=> \A j \in 1 .. m : w[i + j] = s[j]
      BY <1>1, <2>2, Zenon DEF At
    <2>4. At(b, s, i) <=> \A j \in 1 .. m : b[i + j] = s[j]
      BY <1>1, <1>5, Zenon DEF At
    <2> QED
      BY <2>1, <2>3, <2>4, Zenon
  <1>6. \A i \in Nat : At(b, s, i) => i + m <= n
    BY <1>1, Zenon DEF At
  <1>7. At(w, s, p) /\ \A k \in Nat : k < p => ~ At(w, s, k)
    BY <1>3, Zenon DEF First
  <1>8. PICK q : q = FindIn(b, s)
    OBVIOUS
  <1>9. \/ q = Len(b) /\ \A i \in Nat : ~ At(b, s, i)
        \/ First(b, s, q)
    BY <1>8, FindInIs
  <1>10. CASE p + m <= n
    <2>1. At(b, s, p)
      BY <1>2, <1>5, <1>7, <1>10
    <2>2. q \in Nat /\ At(b, s, q) /\ \A k \in Nat : k < q => ~ At(b, s, k)
      BY <1>2, <1>9, <2>1, Zenon DEF First
    <2>3. At(w, s, q)
      BY <1>5, <1>6, <2>2
    <2>4. ~ q < p /\ ~ p < q
      BY <1>2, <1>7, <2>1, <2>2, <2>3
    <2>5. q = p
      BY <1>2, <2>2, <2>4
    <2> QED
      BY <1>1, <1>8, <1>10, <2>5
  <1>11. CASE ~ (p + m <= n)
    <2>1. \A i \in Nat : ~ At(b, s, i)
      <3>1. SUFFICES ASSUME NEW i \in Nat, At(b, s, i) PROVE FALSE
        OBVIOUS
      <3>2. i + m <= n
        BY <1>6, <3>1
      <3>3. At(w, s, i)
        BY <1>5, <3>1, <3>2
      <3>4. i < p
        BY <1>1, <1>2, <1>11, <3>2
      <3> QED
        BY <1>7, <3>3, <3>4
    <2>2. q = Len(b)
      BY <1>9, <2>1, Zenon DEF First
    <2> QED
      BY <1>1, <1>8, <1>11, <2>2
  <1> QED
    BY <1>10, <1>11

LEMMA FirstAtOnce ==
  ASSUME NEW s \in Text, NEW t \in Text
  PROVE  First(s \o t, s, 0)
  <1>1. PICK w : w = s \o t
    OBVIOUS
  <1>2. PICK m \in Nat, n \in Nat : m = Len(s) /\ n = Len(t)
    BY DEF Text
  <1>3. w \in Text /\ Len(w) = m + n /\ \A i \in 1 .. m : w[i] = s[i]
    BY <1>1, <1>2, Join
  <1>4. At(w, s, 0)
    <2>1. \A j \in 1 .. m : w[0 + j] = s[j]
      BY <1>3
    <2>2. 0 + m <= Len(w)
      BY <1>3
    <2> QED
      BY <1>2, <2>1, <2>2, Zenon DEF At
  <1>5. \A k \in Nat : ~ k < 0
    OBVIOUS
  <1>6. 0 \in Nat
    OBVIOUS
  <1> QED
    BY <1>1, <1>4, <1>5, <1>6, Zenon DEF First

\* Behind a symbol that does not end a line comes the end of the line.
LEMMA FirstBehindOne ==
  ASSUME NEW h \in Symbol, h # "cr", NEW t \in Text
  PROVE  First(<<h>> \o (CrLf \o t), CrLf, 1)
  <1>1. PICK a : a = <<h>>
    OBVIOUS
  <1>2. a \in Text /\ Len(a) = 1 /\ a[1] = h
    BY <1>1, OneIsText, Zenon
  <1>3. PICK n \in Nat : n = Len(t)
    BY DEF Text
  <1>4. PICK c \in Text : c = CrLf /\ Len(c) = 2 /\ c[1] = "cr"
    BY Literals, Zenon
  <1>5. PICK v \in Text : v = c \o t
    BY Join
  <1>6. Len(v) = 2 + n /\ \A i \in 1 .. 2 : v[i] = c[i]
    <2>1. Len(v) = Len(c) + Len(t) /\ \A i \in 1 .. Len(c) : v[i] = c[i]
      BY <1>5, Join
    <2>2. Len(c) = 2
      BY <1>4
    <2> QED
      BY <1>3, <2>1, <2>2
  <1>7. PICK w \in Text : w = a \o v
    BY <1>2, Join
  <1>8. /\ Len(w) = 3 + n /\ w[1] = a[1]
        /\ \A i \in 1 .. 2 : w[1 + i] = v[i]
    <2>1. Len(w) = Len(a) + Len(v)
      BY <1>2, <1>7, Join
    <2>2. \A i \in 1 .. Len(a) : w[i] = a[i]
      BY <1>2, <1>7, Join
    <2>3. \A i \in 1 .. Len(v) : w[Len(a) + i] = v[i]
      BY <1>2, <1>7, Join
    <2> QED
      BY <1>2, <1>6, <2>1, <2>2, <2>3
  <1>9. At(w, c, 1)
    <2>1. \A j \in 1 .. 2 : w[1 + j] = c[j]
      BY <1>6, <1>8
    <2>2. 1 + 2 <= Len(w)
      BY <1>8
    <2> QED
      BY <1>4, <2>1, <2>2, Zenon DEF At
  <1>10. ~ At(w, c, 0)
    <2>1. w[0 + 1] = h
      BY <1>2, <1>8
    <2>2. h # c[1]
      BY <1>4, Zenon
    <2>3. 1 \in 1 .. 2
      OBVIOUS
    <2> QED
      BY <1>4, <2>1, <2>2, <2>3, Zenon DEF At
  <1>11. First(w, c, 1)
    <2>1. \A k \in Nat : k < 1 => k = 0
      OBVIOUS
    <2>2. 1 \in Nat
      OBVIOUS
    <2> QED
      BY <1>9, <1>10, <2>1, <2>2, Zenon DEF First
  <1> QED
    BY <1>1, <1>4, <1>5, <1>7, <1>11, Zenon

\* A content has no delimiter in it; then there is none before its end either.
Plain(x) == \A i \in Nat : ~ At(x, Delimiter, i)

LEMMA FirstBehindPlain ==
  ASSUME NEW x \in Text, Plain(x), NEW u \in Text
  PROVE  First(x \o (Delimiter \o u), Delimiter, Len(x))
  <1>1. PICK n \in Nat, l \in Nat : n = Len(x) /\ l = Len(u)
    BY DEF Text
  <1>2. PICK d \in Text : d = Delimiter /\ Len(d) = 5
    BY Literals, Zenon
  <1>3. PICK v \in Text : v = d \o u
    BY Join
  <1>4. Len(v) = 5 + l /\ \A i \in 1 .. 5 : v[i] = d[i]
    <2>1. Len(v) = Len(d) + Len(u) /\ \A i \in 1 .. Len(d) : v[i] = d[i]
      BY <1>3, Join, ZenonT(60)
    <2>2. Len(d) = 5
      BY <1>2
    <2> QED
      BY <1>1, <2>1, <2>2
  <1>5. PICK w \in Text : w = x \o v
    BY Join
  <1>6. /\ Len(w) = n + (5 + l) /\ \A i \in 1 .. n : w[i] = x[i]
        /\ \A i \in 1 .. 5 + l : w[n + i] = v[i]
    <2>1. Len(w) = Len(x) + Len(v) /\ \A i \in 1 .. Len(x) : w[i] = x[i]
      BY <1>5, Join
    <2>2. \A i \in 1 .. Len(v) : w[Len(x) + i] = v[i]
      BY <1>5, Join
    <2> QED
      BY <1>1, <1>4, <2>1, <2>2
  <1>7. At(w, d, n)
    <2>1. \A j \in 1 .. 5 : w[n + j] = d[j]
      BY <1>4, <1>6
    <2>2. n + 5 <= Len(w)
      BY <1>6
    <2> QED
      BY <1>2, <2>1, <2>2, Zenon DEF At
  <1>8. \A i \in 2 .. 5 : d[i] # d[1]
    <2>1. d[2] # d[1] /\ d[3] # d[1] /\ d[4] # d[1] /\ d[5] # d[1]
      <3>1. /\ d[1] = "cr" /\ d[2] = "lf" /\ d[3] = "-" /\ d[4] = "-"
            /\ d[5] = "b"
        BY <1>2, Literals, Zenon
      <3> QED
        BY <3>1, Zenon
    <2> QED
      BY <2>1
  <1>9. ASSUME NEW k \in Nat, k < n PROVE ~ At(w, d, k)
    <2>1. SUFFICES ASSUME At(w, d, k) PROVE FALSE
      OBVIOUS
    <2>2. \A j \in 1 .. 5 : w[k + j] = d[j]
      BY <1>2, <2>1, Zenon DEF At
    <2>3. CASE k + 5 <= n
      <3>1. \A j \in 1 .. 5 : x[k + j] = d[j]
        <4>1. ASSUME NEW j \in 1 .. 5 PROVE x[k + j] = d[j]
          <5>1. k + j \in 1 .. n
            BY <2>3, <4>1
          <5>2. w[k + j] = x[k + j]
            BY <1>6, <5>1
          <5>3. w[k + j] = d[j]
            BY <2>2, <4>1
          <5> QED
            BY <5>2, <5>3
        <4> QED
          BY <4>1
      <3>2. At(x, d, k)
        BY <1>1, <1>2, <2>3, <3>1, Zenon DEF At
      <3> QED
        BY <1>2, <3>2, Zenon DEF Plain
    <2>4. CASE ~ (k + 5 <= n)
      <3>1. PICK j \in 2 .. 5 : n + 1 = k + j
        <4>1. n + 1 - k \in 2 .. 5 /\ n + 1 = k + (n + 1 - k)
          BY <1>9, <2>4
        <4> QED
          BY <4>1
      <3>2. w[n + 1] = d[1]
        BY <1>4, <1>6
      <3>3. w[k + j] = d[j]
        BY <2>2, <3>1
      <3>4. d[j] # d[1]
        BY <1>8
      <3> QED
        BY <3>1, <3>2, <3>3, <3>4
    <2> QED
      BY <2>3, <2>4
  <1>10. First(w, d, n)
    BY <1>7, <1>9, Zenon DEF First
  <1> QED
    BY <1>1, <1>2, <1>3, <1>5, <1>10, Zenon

\* The rest of a content has no delimiter in it either.
LEMMA PlainRest ==
  ASSUME NEW a \in Text, NEW b \in Text, Plain(a \o b)
  PROVE  Plain(b)
  <1>1. PICK m \in Nat, n \in Nat : m = Len(a) /\ n = Len(b)
    BY DEF Text
  <1>2. PICK d \in Text : d = Delimiter /\ Len(d) = 5
    BY Literals, Zenon
  <1>3. PICK w \in Text : w = a \o b
    BY Join
  <1>4. Len(w) = m + n /\ \A i \in 1 .. n : w[m + i] = b[i]
    BY <1>1, <1>3, Join
  <1>5. ASSUME NEW k \in Nat, At(b, d, k) PROVE FALSE
    <2>1. k + 5 <= n /\ \A j \in 1 .. 5 : b[k + j] = d[j]
      BY <1>1, <1>2, <1>5, Zenon DEF At
    <2>2. PICK i \in Nat : i = m + k
      OBVIOUS
    <2>3. ASSUME NEW j \in 1 .. 5 PROVE w[i + j] = d[j]
      <3>1. k + j \in 1 .. n /\ i + j = m + (k + j)
        BY <2>1, <2>2, <2>3
      <3>2. w[m + (k + j)] = b[k + j]
        BY <1>4, <3>1
      <3>3. b[k + j] = d[j]
        BY <2>1
      <3> QED
        BY <3>1, <3>2, <3>3
    <2>4. i + 5 <= Len(w)
      BY <1>4, <2>1, <2>2
    <2>5. At(w, d, i)
      BY <1>2, <2>3, <2>4, Zenon DEF At
    <2> QED
      BY <1>2, <1>3, <2>5, Zenon DEF Plain
  <1> QED
    BY <1>2, <1>5, Zenon DEF Plain

\* The function by which Serialized is defined.
Piece(form, i, after) ==
  IF i > Len(form) THEN Form!dash \o Form!boundary \o Form!dash
  ELSE Form!ItemBegin(form[i]) \o form[i].content \o Form!crlf \o after

From(m, form, n, a) == m = [i \in a .. n + 1 |-> Piece(form, i, m[i + 1])]

LEMMA FromExists ==
  ASSUME NEW form, NEW n \in Nat, Len(form) = n
  PROVE  \E m : From(m, form, n, 1)
  <1>1. PICK S : S = {k \in Nat : k <= n => \E m : From(m, form, n, n + 1 - k)}
    OBVIOUS
  <1>2. 0 \in S
    <2>1. PICK t : t = Form!dash \o Form!boundary \o Form!dash
      OBVIOUS
    <2>2. PICK m : m = [i \in n + 1 .. n + 1 |-> t]
      OBVIOUS
    <2>3. \A i \in n + 1 .. n + 1 : Piece(form, i, m[i + 1]) = t
      <3>1. \A i \in n + 1 .. n + 1 : i > n
        OBVIOUS
      <3> QED
        BY <2>1, <3>1, Zenon DEF Piece
    <2>4. m = [i \in n + 1 .. n + 1 |-> Piece(form, i, m[i + 1])]
      BY <2>2, <2>3, Zenon
    <2>5. From(m, form, n, n + 1)
      BY <2>4, Zenon DEF From
    <2>6. n + 1 - 0 = n + 1
      OBVIOUS
    <2> QED
      BY <1>1, <2>5, <2>6
  <1>3. ASSUME NEW k \in Nat, k \in S PROVE k + 1 \in S
    <2>1. SUFFICES ASSUME k + 1 <= n
                   PROVE  \E m : From(m, form, n, n + 1 - (k + 1))
      BY <1>1
    <2>2. PICK a \in Nat : a = n - k /\ a # 0 /\ a <= n
      <3>1. n - k \in Nat /\ n - k # 0 /\ n - k <= n
        BY <2>1
      <3> QED
        BY <3>1
    <2>3. n + 1 - (k + 1) = a /\ n + 1 - k = a + 1
      BY <2>2
    <2>4. PICK g : From(g, form, n, a + 1)
      <3>1. k <= n
        BY <2>1
      <3>2. \E m : From(m, form, n, n + 1 - k)
        BY <1>1, <1>3, <3>1
      <3> QED
        BY <2>3, <3>2, Zenon
    <2>5. PICK t : t = Piece(form, a, g[a + 1])
      OBVIOUS
    <2>6. PICK m : m = [i \in a .. n + 1 |-> IF i = a THEN t ELSE g[i]]
      OBVIOUS
    <2>7. \A i \in a + 1 .. n + 1 : m[i] = g[i]
      BY <2>2, <2>6
    <2>8. m[a] = t
      BY <2>2, <2>6
    <2>9. ASSUME NEW i \in a .. n + 1 PROVE m[i] = Piece(form, i, m[i + 1])
      <3>1. CASE i = n + 1
        <4>1. i \in a + 1 .. n + 1 /\ i > n
          BY <2>2, <3>1
        <4>2. m[i] = g[i]
          BY <2>7, <4>1
        <4>3. g[i] = Piece(form, i, g[i + 1])
          BY <2>4, <4>1, Zenon DEF From
        <4>4. Piece(form, i, g[i + 1]) = Piece(form, i, m[i + 1])
          BY <4>1, Zenon DEF Piece
        <4> QED
          BY <4>2, <4>3, <4>4
      <3>2. CASE i # n + 1
        <4>1. i + 1 \in a + 1 .. n + 1
          BY <2>2, <3>2
        <4>2. m[i + 1] = g[i + 1]
          BY <2>7, <4>1
        <4>3. m[i] = Piece(form, i, g[i + 1])
          <5>1. CASE i = a
            BY <2>5, <2>8, <5>1
          <5>2. CASE i # a
            <6>1. i \in a + 1 .. n + 1
              BY <2>2, <5>2
            <6>2. g[i] = Piece(form, i, g[i + 1])
              BY <2>4, <6>1, Zenon DEF From
            <6> QED
              BY <2>7, <6>1, <6>2
          <5> QED
            BY <5>1, <5>2
        <4> QED
          BY <4>2, <4>3
      <3> QED
        BY <3>1, <3>2
    <2>10. m = [i \in a .. n + 1 |-> Piece(form, i, m[i + 1])]
      <3>1. m = [i \in a .. n + 1 |-> m[i]]
        BY <2>6
      <3> QED
        BY <2>9, <3>1, Zenon
    <2>11. From(m, form, n, a)
      BY <2>10, Zenon DEF From
    <2> QED
      BY <2>3, <2>11, Zenon
  <1>4. n \in S
    BY <1>2, <1>3, Induction
  <1>5. n + 1 - n = 1
    OBVIOUS
  <1>6. n <= n
    OBVIOUS
  <1> QED
    BY <1>1, <1>4, <1>5, <1>6, Zenon

LEMMA SerializedFrom ==
  ASSUME NEW form, NEW n \in Nat, Len(form) = n
  PROVE  \E m : From(m, form, n, 1) /\ Form!Serialized(form) = m[1]
  <1>1. \E m : From(m, form, n, 1)
    BY FromExists
  <1>2. PICK m : m = CHOOSE g : g = [i \in 1 .. n + 1 |->
                    IF i > Len(form) THEN Form!dash \o Form!boundary \o Form!dash
                    ELSE Form!ItemBegin(form[i]) \o form[i].content \o Form!crlf
                           \o g[i + 1]]
    BY Zenon
  <1>3. From(m, form, n, 1)
    BY <1>1, <1>2, Zenon DEF From, Piece
  <1>4. Form!Serialized(form) = m[1]
    BY <1>2, Zenon DEF Form!Serialized
  <1> QED
    BY <1>3, <1>4

\* What follows after the beginning of a boundary: the lines of a part, its
\* content and the delimiter, or the end of the form and the epilogue e.
ContentAnd(item, u) == item.content \o (Delimiter \o u)
EmptyLine(item, u) == CrLf \o ContentAnd(item, u)
TypeLine(item, u) ==
  IF item.type THEN <<"content-type">> \o (CrLf \o EmptyLine(item, u))
  ELSE EmptyLine(item, u)
HeadLine(item, u) == <<item.head>> \o (CrLf \o TypeLine(item, u))

Behind(U, form, n, e) ==
  /\ \A i \in 1 .. n + 1 : U[i] \in Text
  /\ U[n + 1] = Dashes \o e
  /\ \A i \in 1 .. n : U[i] = CrLf \o HeadLine(form[i], U[i + 1])

LEMMA LinesAreText ==
  ASSUME NEW item \in Item, NEW u \in Text
  PROVE  /\ ContentAnd(item, u) \in Text /\ EmptyLine(item, u) \in Text
         /\ CrLf \o EmptyLine(item, u) \in Text
         /\ TypeLine(item, u) \in Text /\ CrLf \o TypeLine(item, u) \in Text
         /\ HeadLine(item, u) \in Text
         /\ <<item.head>> \in Text /\ <<"content-type">> \in Text
         /\ item.head \in Symbol /\ item.head # "cr" /\ item.content \in Text
  <1>1. item.content \in Text /\ item.head \in {"field", "file"}
    BY DEF Item
  <1>2. item.head \in Symbol /\ item.head # "cr"
    <2>1. item.head = "field" \/ item.head = "file"
      BY <1>1
    <2> QED
      BY <2>1, Symbols, Zenon
  <1>3. <<item.head>> \in Text /\ <<"content-type">> \in Text
    BY <1>2, Symbols, OneIsText, Zenon
  <1>4. CrLf \in Text /\ Delimiter \in Text
    BY Literals, Zenon
  <1>5. ContentAnd(item, u) \in Text
    BY <1>1, <1>4, Join, Zenon DEF ContentAnd
  <1>6. EmptyLine(item, u) \in Text
    BY <1>4, <1>5, Join, Zenon DEF EmptyLine
  <1>7. CrLf \o EmptyLine(item, u) \in Text
    BY <1>4, <1>6, Join, Zenon
  <1>8. <<"content-type">> \o (CrLf \o EmptyLine(item, u)) \in Text
    BY <1>3, <1>7, Join, Zenon
  <1>9. TypeLine(item, u) \in Text
    BY <1>6, <1>8, Zenon DEF TypeLine
  <1>10. CrLf \o TypeLine(item, u) \in Text
    BY <1>4, <1>9, Join, Zenon
  <1>11. HeadLine(item, u) \in Text
    BY <1>3, <1>10, Join, Zenon DEF HeadLine
  <1> QED
    BY <1>1, <1>2, <1>3, <1>5, <1>6, <1>7, <1>9, <1>10, <1>11, Zenon

LEMMA NothingBefore ==
  ASSUME NEW a \in Text
  PROVE  <<>> \in Text /\ <<>> \o a = a
  BY DEF Text

Texts(a, b, c) == a \in Text /\ b \in Text /\ c \in Text

LEMMA AssocOf ==
  ASSUME NEW a, NEW b, NEW c, Texts(a, b, c)
  PROVE  (a \o b) \o c = a \o (b \o c)
  BY Assoc DEF Texts

PartTexts(C, P, H, T, K, t, e) ==
  /\ C \in Text /\ P \in Text /\ H \in Text /\ T \in Text
  /\ K \in Text /\ t \in Text /\ e \in Text

LongJoined(C, P, H, T, K, t, e) ==
  LET x == ((((((P \o H) \o C) \o T) \o C) \o K) \o C) \o t
  IN x \in Text
     /\ x \o e = P \o (H \o (C \o (T \o (C \o (K \o (C \o (t \o e)))))))

LEMMA LongJoin ==
  ASSUME NEW C, NEW P, NEW H, NEW T, NEW K, NEW t, NEW e,
         PartTexts(C, P, H, T, K, t, e)
  PROVE  LongJoined(C, P, H, T, K, t, e)
  <1>1. /\ C \in Text /\ P \in Text /\ H \in Text /\ T \in Text
        /\ K \in Text /\ t \in Text /\ e \in Text
    BY DEF PartTexts
  <1>2. PICK p2 \in Text : p2 = P \o H
    BY <1>1, Join, Zenon
  <1>3. PICK p3 \in Text : p3 = p2 \o C
    BY <1>1, Join, Zenon
  <1>4. PICK p4 \in Text : p4 = p3 \o T
    BY <1>1, Join, Zenon
  <1>5. PICK p5 \in Text : p5 = p4 \o C
    BY <1>1, Join, Zenon
  <1>6. PICK p6 \in Text : p6 = p5 \o K
    BY <1>1, Join, Zenon
  <1>7. PICK p7 \in Text : p7 = p6 \o C
    BY <1>1, Join, Zenon
  <1>8. PICK x \in Text : x = p7 \o t
    BY <1>1, Join, Zenon
  <1>9. x = ((((((P \o H) \o C) \o T) \o C) \o K) \o C) \o t
    BY <1>2, <1>3, <1>4, <1>5, <1>6, <1>7, <1>8, Zenon
  <1>10. PICK s1 \in Text : s1 = t \o e
    BY <1>1, Join, Zenon
  <1>11. PICK s2 \in Text : s2 = C \o s1
    BY <1>1, Join, Zenon
  <1>12. PICK s3 \in Text : s3 = K \o s2
    BY <1>1, Join, Zenon
  <1>13. PICK s4 \in Text : s4 = C \o s3
    BY <1>1, Join, Zenon
  <1>14. PICK s5 \in Text : s5 = T \o s4
    BY <1>1, Join, Zenon
  <1>15. PICK s6 \in Text : s6 = C \o s5
    BY <1>1, Join, Zenon
  <1>16. PICK s7 \in Text : s7 = H \o s6
    BY <1>1, Join, Zenon
  <1>17. /\ Texts(p7, t, e) /\ Texts(p6, C, s1) /\ Texts(p5, K, s2)
         /\ Texts(p4, C, s3) /\ Texts(p3, T, s4) /\ Texts(p2, C, s5)
         /\ Texts(P, H, s6)
    BY <1>1, Zenon DEF Texts
  <1>18. x \o e = p7 \o s1
    BY <1>8, <1>10, <1>17, AssocOf
  <1>19. p7 \o s1 = p6 \o s2
    BY <1>7, <1>11, <1>17, AssocOf
  <1>20. p6 \o s2 = p5 \o s3
    BY <1>6, <1>12, <1>17, AssocOf
  <1>21. p5 \o s3 = p4 \o s4
    BY <1>5, <1>13, <1>17, AssocOf
  <1>22. p4 \o s4 = p3 \o s5
    BY <1>4, <1>14, <1>17, AssocOf
  <1>23. p3 \o s5 = p2 \o s6
    BY <1>3, <1>15, <1>17, AssocOf
  <1>24. p2 \o s6 = P \o s7
    BY <1>2, <1>16, <1>17, AssocOf
  <1>25. x \o e = P \o s7
    BY <1>18, <1>19, <1>20, <1>21, <1>22, <1>23, <1>24, Zenon
  <1>26. s7 = H \o (C \o (T \o (C \o (K \o (C \o (t \o e))))))
    BY <1>10, <1>11, <1>12, <1>13, <1>14, <1>15, <1>16, Zenon
  <1> QED
    BY <1>9, <1>25, <1>26, Zenon DEF LongJoined

\* A part that is serialized before t.
IsPiece(item, t, u, e) ==
  LET x == Form!ItemBegin(item) \o item.content \o Form!crlf \o t
  IN t \o e = Opening \o u =>
       x \in Text /\ x \o e = Opening \o (CrLf \o HeadLine(item, u))

LEMMA PieceIs ==
  ASSUME NEW item \in Item, NEW t \in Text, NEW u \in Text, NEW e \in Text
  PROVE  IsPiece(item, t, u, e)
  <1>1. PICK C \in Text, O \in Text, D \in Text, P \in Text :
          C = CrLf /\ O = Opening /\ D = Delimiter /\ P = FirstLine
    BY Literals, Zenon
  <1>2. O \o C = P /\ C \o O = D
    BY <1>1, FormLiterals, Zenon
  <1>3. PICK H \in Text, K \in Text : H = <<item.head>> /\ K = item.content
    BY LinesAreText, Zenon
  <1>4. PICK y \in Text : y = <<"content-type">>
    BY LinesAreText, Zenon
  <1>5. PICK T : T = IF item.type THEN y \o C ELSE <<>>
    OBVIOUS
  <1>6. T \in Text
    <2>1. y \o C \in Text /\ <<>> \in Text
      BY Join, NothingBefore, Zenon
    <2> QED
      BY <1>5, <2>1, Zenon
  <1>7. PICK s \in Text : s = ContentAnd(item, u) /\ s = K \o (D \o u)
    BY <1>1, <1>3, LinesAreText, Zenon DEF ContentAnd
  <1>8. PICK l \in Text : l = EmptyLine(item, u) /\ l = C \o s
    BY <1>1, <1>7, LinesAreText, Zenon DEF EmptyLine
  <1>9. T \o l = TypeLine(item, u)
    <2>1. CASE item.type
      <3>1. T = y \o C
        BY <1>5, <2>1, Zenon
      <3>2. (y \o C) \o l = y \o (C \o l)
        <4>1. Texts(y, C, l)
          BY Zenon DEF Texts
        <4> QED
          BY <4>1, AssocOf
      <3>3. TypeLine(item, u) = y \o (C \o l)
        BY <1>1, <1>4, <1>8, <2>1, Zenon DEF TypeLine
      <3> QED
        BY <3>1, <3>2, <3>3, Zenon
    <2>2. CASE ~ item.type
      <3>1. T = <<>>
        BY <1>5, <2>2, Zenon
      <3>2. <<>> \o l = l
        BY NothingBefore, Zenon
      <3>3. TypeLine(item, u) = l
        BY <1>8, <2>2, Zenon DEF TypeLine
      <3> QED
        BY <3>1, <3>2, <3>3, Zenon
    <2> QED
      BY <2>1, <2>2
  <1>10. PICK h \in Text : h = HeadLine(item, u) /\ h = H \o (C \o (T \o l))
    BY <1>1, <1>3, <1>9, LinesAreText, Zenon DEF HeadLine
  <1>11. Form!ItemBegin(item) = (((P \o H) \o C) \o T) \o C
    BY <1>1, <1>3, <1>4, <1>5, FormLiterals, Zenon DEF Form!ItemBegin
  <1>12. PICK x \in Text :
           /\ x = ((((((P \o H) \o C) \o T) \o C) \o K) \o C) \o t
           /\ x \o e = P \o (H \o (C \o (T \o (C \o (K \o (C \o (t \o e)))))))
    <2>1. PartTexts(C, P, H, T, K, t, e)
      BY <1>6, Zenon DEF PartTexts
    <2>2. LongJoined(C, P, H, T, K, t, e)
      BY <2>1, LongJoin, Zenon
    <2> QED
      BY <2>2, Zenon DEF LongJoined
  <1>13. x = Form!ItemBegin(item) \o item.content \o Form!crlf \o t
    BY <1>1, <1>3, <1>11, <1>12, FormLiterals, Zenon
  <1>14. (C \o O) \o u = C \o (O \o u)
    <2>1. Texts(C, O, u)
      BY Zenon DEF Texts
    <2> QED
      BY <2>1, AssocOf
  <1>15. (O \o C) \o h = O \o (C \o h)
    <2>1. Texts(O, C, h)
      BY Zenon DEF Texts
    <2> QED
      BY <2>1, AssocOf
  <1>16. ASSUME t \o e = Opening \o u
         PROVE  x \o e = Opening \o (CrLf \o HeadLine(item, u))
    <2>1. C \o (t \o e) = D \o u
      BY <1>1, <1>2, <1>14, <1>16, Zenon
    <2>2. T \o (C \o (K \o (C \o (t \o e)))) = T \o l
      BY <1>7, <1>8, <2>1, Zenon
    <2>3. x \o e = P \o h
      BY <1>10, <1>12, <2>2, Zenon
    <2> QED
      BY <1>1, <1>2, <1>10, <1>15, <2>3, Zenon
  <1> QED
    BY <1>13, <1>16, Zenon DEF IsPiece

HasBehind(form, n, e, m) ==
  \E U : Behind(U, form, n, e) /\ m[1] \o e = Opening \o U[1]

LEMMA BehindExists ==
  ASSUME NEW form \in Seq(Item), NEW n \in Nat, Len(form) = n, NEW e \in Text,
         NEW m, From(m, form, n, 1)
  PROVE  HasBehind(form, n, e, m)
  <1>1. PICK O \in Text, D \in Text : O = Opening /\ D = Dashes
    BY Literals, Zenon
  <1>2. PICK Ok : Ok = [i \in 1 .. n + 1 |->
                     m[i] \in Text /\ \E u \in Text : m[i] \o e = O \o u]
    OBVIOUS
  <1>3. m[n + 1] \in Text /\ m[n + 1] \o e = O \o (D \o e) /\ D \o e \in Text
    <2>1. n + 1 \in 1 .. n + 1 /\ n + 1 > Len(form)
      OBVIOUS
    <2>2. m[n + 1] = Piece(form, n + 1, m[n + 1 + 1])
      BY <2>1, Zenon DEF From
    <2>3. m[n + 1] = Form!dash \o Form!boundary \o Form!dash
      BY <2>1, <2>2, Zenon DEF Piece
    <2>4. m[n + 1] = O \o D
      BY <1>1, <2>3, FormLiterals, Zenon
    <2>5. m[n + 1] \in Text /\ D \o e \in Text
      BY <2>4, Join, Zenon
    <2>6. (O \o D) \o e = O \o (D \o e)
      <3>1. Texts(O, D, e)
        BY Zenon DEF Texts
      <3> QED
        BY <3>1, AssocOf
    <2> QED
      BY <2>4, <2>5, <2>6, Zenon
  <1>4. ASSUME NEW i \in 1 .. n, m[i + 1] \in Text, NEW u \in Text,
               m[i + 1] \o e = O \o u
        PROVE  m[i] \in Text /\ m[i] \o e = O \o (CrLf \o HeadLine(form[i], u))
    <2>1. i \in 1 .. n + 1 /\ ~ i > Len(form) /\ form[i] \in Item
      BY <1>4
    <2>2. m[i] = Piece(form, i, m[i + 1])
      BY <2>1, Zenon DEF From
    <2>3. m[i] = Form!ItemBegin(form[i]) \o form[i].content \o Form!crlf
                 \o m[i + 1]
      BY <2>1, <2>2, Zenon DEF Piece
    <2> QED
      <3>1. PICK item \in Item : item = form[i]
        BY <2>1
      <3>2. PICK t \in Text : t = m[i + 1] /\ t \o e = Opening \o u
        BY <1>1, <1>4, Zenon
      <3>3. u \in Text
        BY <1>4
      <3>4. PICK x : x = Form!ItemBegin(item) \o item.content \o Form!crlf \o t
        OBVIOUS
      <3>5. x \in Text /\ x \o e = Opening \o (CrLf \o HeadLine(item, u))
        <4>1. IsPiece(item, t, u, e)
          BY <3>3, PieceIs, Zenon
        <4> QED
          BY <3>2, <3>4, <4>1, Zenon DEF IsPiece
      <3> QED
        BY <1>1, <2>3, <3>1, <3>2, <3>4, <3>5, Zenon
  <1>5. ASSUME NEW i \in 1 .. n, NEW u \in Text
        PROVE  CrLf \o HeadLine(form[i], u) \in Text
    <2>1. form[i] \in Item
      OBVIOUS
    <2>2. CrLf \in Text /\ HeadLine(form[i], u) \in Text
      BY <2>1, LinesAreText, Literals, Zenon
    <2> QED
      BY <2>2, Join, Zenon
  <1>6. PICK S : S = {k \in Nat : k <= n =>
                   m[n + 1 - k] \in Text
                   /\ \E u \in Text : m[n + 1 - k] \o e = O \o u}
    OBVIOUS
  <1>7. 0 \in S
    <2>1. n + 1 - 0 = n + 1
      OBVIOUS
    <2>2. m[n + 1] \in Text /\ \E u \in Text : m[n + 1] \o e = O \o u
      BY <1>3, Zenon
    <2> QED
      BY <1>6, <2>1, <2>2
  <1>8. ASSUME NEW k \in Nat, k \in S PROVE k + 1 \in S
    <2>1. SUFFICES ASSUME k + 1 <= n
                   PROVE  m[n + 1 - (k + 1)] \in Text
                          /\ \E u \in Text : m[n + 1 - (k + 1)] \o e = O \o u
      <3>1. k + 1 \in Nat
        OBVIOUS
      <3> QED
        BY <1>6, <3>1, Zenon
    <2>2. PICK i \in 1 .. n : i = n + 1 - (k + 1) /\ i + 1 = n + 1 - k
      <3>1. n - k \in 1 .. n /\ n - k = n + 1 - (k + 1) /\ n - k + 1 = n + 1 - k
        BY <2>1
      <3> QED
        BY <3>1
    <2>3. m[i + 1] \in Text /\ \E u \in Text : m[i + 1] \o e = O \o u
      <3>1. k <= n
        BY <2>1
      <3> QED
        BY <1>6, <1>8, <2>2, <3>1
    <2>4. PICK u \in Text : m[i + 1] \o e = O \o u
      BY <2>3
    <2>5. m[i] \in Text /\ \E v \in Text : m[i] \o e = O \o v
      BY <1>4, <1>5, <2>3, <2>4, Zenon
    <2> QED
      BY <2>2, <2>5, Zenon
  <1>9. Nat \subseteq S
    BY <1>7, <1>8, Induction
  <1>10. ASSUME NEW i \in 1 .. n + 1
         PROVE  m[i] \in Text /\ \E u \in Text : m[i] \o e = O \o u
    <2>1. PICK k \in Nat : k = n + 1 - i /\ k <= n /\ i = n + 1 - k
      <3>1. n + 1 - i \in Nat /\ n + 1 - i <= n /\ i = n + 1 - (n + 1 - i)
        OBVIOUS
      <3> QED
        BY <3>1
    <2>2. k \in S
      BY <1>9
    <2> QED
      BY <1>6, <2>1, <2>2, Zenon
  <1>11. PICK U : U = [i \in 1 .. n + 1 |-> CHOOSE u \in Text : m[i] \o e = O \o u]
    OBVIOUS
  <1>12. ASSUME NEW i \in 1 .. n + 1
         PROVE  U[i] \in Text /\ m[i] \o e = O \o U[i]
    <2>1. U[i] = CHOOSE u \in Text : m[i] \o e = O \o u
      BY <1>11, Zenon
    <2> QED
      BY <1>10, <2>1, Zenon
  <1>13. n + 1 \in 1 .. n + 1 /\ 1 \in 1 .. n + 1
    OBVIOUS
  <1>14. U[n + 1] = D \o e
    <2>1. U[n + 1] \in Text /\ O \o U[n + 1] = O \o (D \o e)
      BY <1>3, <1>12, <1>13, Zenon
    <2> QED
      BY <1>3, <2>1, Cancel, Zenon
  <1>15. ASSUME NEW i \in 1 .. n
         PROVE  U[i] = CrLf \o HeadLine(form[i], U[i + 1])
    <2>1. i \in 1 .. n + 1 /\ i + 1 \in 1 .. n + 1
      OBVIOUS
    <2>2. /\ m[i + 1] \in Text /\ U[i + 1] \in Text
          /\ m[i + 1] \o e = O \o U[i + 1]
      BY <1>10, <1>12, <2>1, Zenon
    <2>3. m[i] \o e = O \o (CrLf \o HeadLine(form[i], U[i + 1]))
      BY <1>4, <2>2, Zenon
    <2>4. CrLf \o HeadLine(form[i], U[i + 1]) \in Text
      BY <1>5, <2>2, Zenon
    <2>5. U[i] \in Text /\ O \o U[i] = O \o (CrLf \o HeadLine(form[i], U[i + 1]))
      BY <1>12, <2>1, <2>3, Zenon
    <2> QED
      BY <2>4, <2>5, Cancel, Zenon
  <1>16. Behind(U, form, n, e)
    BY <1>1, <1>12, <1>14, <1>15, Zenon DEF Behind
  <1> QED
    BY <1>1, <1>12, <1>13, <1>16, Zenon DEF HasBehind

-----------------------------------------------------------------------------
\* The parser.
FormStates ==
  {"initial", "entry", "headers", "more headers", "body", "boundary"}

ParserType ==
  [state : FormStates, buf : Text, busy : BOOLEAN, valid : BOOLEAN,
   refused : BOOLEAN, parts : Seq(Item), head : {"", "field", "file"},
   type : BOOLEAN]

\* What is sent: no content has a delimiter in it, and U is what follows the
\* boundaries, up to the epilogue e.
FormGiven(f, n, e, U) ==
  /\ f \in Seq(Item) /\ n \in Nat /\ n # 0 /\ Len(f) = n
  /\ \A i \in 1 .. n : Plain(f[i].content)
  /\ e = <<>> \/ e = CrLf
  /\ Behind(U, f, n, e)

Came(parts, f, k) == \A i \in 1 .. k : parts[i] = f[i]

\* The parser goes on, or it has less than it needs.
Wanting(p, need) == p.busy = TRUE \/ Len(p.buf) < need

\* What the parser has not read yet is w, in the states one after the other.
AtStart(f, n, U, p, w) ==
  p.state = "initial" /\ p.valid = FALSE /\ Len(p.parts) = 0 /\ w = Opening \o U[1]

\* A part is next, the first k parts have been read.
PartNext(f, n, p, k) ==
  /\ p.valid = FALSE /\ k = Len(p.parts) /\ k + 1 <= n
  /\ Came(p.parts, f, k)

AtEntry(f, n, U, p, w, k) ==
  p.state = "entry" /\ PartNext(f, n, p, k) /\ w = HeadLine(f[k + 1], U[k + 2])

InHeaders(p) == p.state = "headers" \/ p.state = "more headers"

AtHead(f, n, U, p, w, k) ==
  /\ InHeaders(p) /\ PartNext(f, n, p, k) /\ p.type = FALSE
  /\ w = HeadLine(f[k + 1], U[k + 2])

AtType(f, n, U, p, w, k) ==
  /\ InHeaders(p) /\ PartNext(f, n, p, k) /\ p.head = f[k + 1].head
  /\ f[k + 1].type = TRUE
  /\ w = <<"content-type">> \o (CrLf \o EmptyLine(f[k + 1], U[k + 2]))

AtEmpty(f, n, U, p, w, k) ==
  /\ InHeaders(p) /\ PartNext(f, n, p, k) /\ p.head = f[k + 1].head
  /\ p.type = f[k + 1].type /\ w = EmptyLine(f[k + 1], U[k + 2])

\* x is what is left of the content of the part k + 1.
AtBody(f, n, U, p, w, k, x) ==
  /\ p.state = "body" /\ p.valid = FALSE
  /\ Len(p.parts) = k + 1 /\ k + 1 <= n /\ Came(p.parts, f, k)
  /\ p.parts[k + 1].head = f[k + 1].head /\ p.parts[k + 1].type = f[k + 1].type
  /\ f[k + 1].content = p.parts[k + 1].content \o x /\ Plain(x)
  /\ w = x \o (Delimiter \o U[k + 2])

AtBoundary(f, n, U, p, w, k) ==
  /\ p.state = "boundary" /\ p.valid = FALSE /\ k # 0
  /\ k = Len(p.parts) /\ k <= n /\ Came(p.parts, f, k) /\ w = U[k + 1]

AtEnd(f, n, U, p, w) ==
  /\ p.valid = TRUE /\ Len(p.parts) = n /\ Came(p.parts, f, n)
  /\ \/ p.state = "boundary" /\ w \in {<<>>, <<"lf">>, CrLf}
     \/ p.state = "entry" /\ w = <<>> /\ p.busy = FALSE

Reads(f, n, U, p, w) ==
  \/ AtStart(f, n, U, p, w) /\ Wanting(p, 5)
  \/ \E k \in Nat : AtEntry(f, n, U, p, w, k) /\ Wanting(p, 1)
  \/ \E k \in Nat : AtHead(f, n, U, p, w, k) /\ Wanting(p, 3)
  \/ \E k \in Nat : AtType(f, n, U, p, w, k) /\ Wanting(p, 3)
  \/ \E k \in Nat : AtEmpty(f, n, U, p, w, k) /\ Wanting(p, 2)
  \/ \E k \in Nat : \E x \in Text :
       AtBody(f, n, U, p, w, k, x) /\ Wanting(p, Len(x) + 5)
  \/ \E k \in Nat : AtBoundary(f, n, U, p, w, k) /\ Wanting(p, 2)
  \/ AtEnd(f, n, U, p, w)

FormHolds(f, n, U, p, r) ==
  /\ p \in ParserType /\ r \in Text
  /\ \/ p.refused = TRUE /\ p.valid = FALSE /\ p.busy = FALSE /\ n > MaxParts
     \/ /\ p.refused = FALSE /\ Len(p.parts) <= MaxParts
        /\ Reads(f, n, U, p, p.buf \o r)

LEMMA ParserFields ==
  ASSUME NEW p \in ParserType
  PROVE  /\ p.state \in FormStates /\ p.buf \in Text /\ p.busy \in BOOLEAN
         /\ p.valid \in BOOLEAN /\ p.refused \in BOOLEAN
         /\ p.parts \in Seq(Item) /\ Len(p.parts) \in Nat
         /\ p.head \in {"", "field", "file"} /\ p.type \in BOOLEAN
  <1>1. /\ p.state \in FormStates /\ p.buf \in Text /\ p.busy \in BOOLEAN
        /\ p.valid \in BOOLEAN /\ p.refused \in BOOLEAN
        /\ p.parts \in Seq(Item)
        /\ p.head \in {"", "field", "file"} /\ p.type \in BOOLEAN
    BY Zenon DEF ParserType
  <1>2. Len(p.parts) \in Nat
    <2>1. PICK s \in Seq(Item) : s = p.parts
      BY <1>1
    <2>2. Len(s) \in Nat
      OBVIOUS
    <2> QED
      BY <2>1, <2>2
  <1> QED
    BY <1>1, <1>2

\* The steps change fields of the parser, and the loop of parse goes on while
\* the buffer is not empty.
Stops(p, q) == q = [p EXCEPT !.busy = FALSE]

LEMMA StopsIs ==
  ASSUME NEW p \in ParserType, NEW q, Stops(p, q)
  PROVE  /\ q \in ParserType /\ q.busy = FALSE
         /\ q.state = p.state /\ q.buf = p.buf /\ q.valid = p.valid
         /\ q.refused = p.refused /\ q.parts = p.parts /\ q.head = p.head
         /\ q.type = p.type
  BY DEF ParserType, Stops

Receives(p, b, q) == q = [p EXCEPT !.buf = b, !.busy = TRUE]

LEMMA ReceivesIs ==
  ASSUME NEW p \in ParserType, NEW b \in Text, NEW q, Receives(p, b, q)
  PROVE  /\ q \in ParserType /\ q.busy = TRUE /\ q.buf = b
         /\ q.state = p.state /\ q.valid = p.valid
         /\ q.refused = p.refused /\ q.parts = p.parts /\ q.head = p.head
         /\ q.type = p.type
  BY DEF ParserType, Receives

GoesOn(q) == q.busy = TRUE \/ Len(q.buf) = 0

MovesTo(p, s, b, q) ==
  LET c == [p EXCEPT !.state = s, !.buf = b]
  IN q = [c EXCEPT !.busy = c.buf # <<>>]

LEMMA MovesToIs ==
  ASSUME NEW p \in ParserType, NEW b \in Text, NEW s \in FormStates, NEW q,
         MovesTo(p, s, b, q)
  PROVE  /\ q \in ParserType /\ q.state = s /\ q.buf = b /\ GoesOn(q)
         /\ q.valid = p.valid
         /\ q.refused = p.refused /\ q.parts = p.parts /\ q.head = p.head
         /\ q.type = p.type
  <1>1. PICK c : /\ c = [p EXCEPT !.state = s, !.buf = b]
                 /\ q = [c EXCEPT !.busy = c.buf # <<>>]
    BY Zenon DEF MovesTo
  <1>2. /\ c \in ParserType /\ c.state = s /\ c.buf = b /\ c.valid = p.valid
        /\ c.refused = p.refused /\ c.parts = p.parts /\ c.head = p.head
        /\ c.type = p.type
    BY <1>1 DEF ParserType
  <1>3. /\ q.state = s /\ q.buf = b /\ q.valid = p.valid
        /\ q.refused = p.refused /\ q.parts = p.parts /\ q.head = p.head
        /\ q.type = p.type
    BY <1>1, <1>2 DEF ParserType
  <1>4. q.busy = (b # <<>>)
    BY <1>1, <1>2 DEF ParserType
  <1>5. q \in ParserType
    BY <1>1, <1>2 DEF ParserType
  <1>6. GoesOn(q)
    <2>1. CASE b = <<>>
      BY <1>3, <2>1 DEF GoesOn
    <2>2. CASE b # <<>>
      BY <1>4, <2>2, Zenon DEF GoesOn
    <2> QED
      BY <2>1, <2>2
  <1> QED
    BY <1>3, <1>5, <1>6

\* Where a parser is, q is as well if it has the same fields and is busy.
LEMMA ReadsOn ==
  ASSUME NEW f, NEW n, NEW U, NEW w, NEW p, NEW q, Reads(f, n, U, p, w),
         p.busy = FALSE => p.state # "entry" \/ w # <<>>,
         q.busy = TRUE, q.state = p.state, q.valid = p.valid, q.parts = p.parts,
         q.head = p.head, q.type = p.type
  PROVE  Reads(f, n, U, q, w)
  <1>1. \A need : Wanting(q, need)
    BY Zenon DEF Wanting
  <1>2. AtStart(f, n, U, p, w) => AtStart(f, n, U, q, w)
    BY Zenon DEF AtStart
  <1>3. \A k : PartNext(f, n, p, k) => PartNext(f, n, q, k)
    BY Zenon DEF PartNext
  <1>4. InHeaders(p) => InHeaders(q)
    BY Zenon DEF InHeaders
  <1>5. \A k : AtEntry(f, n, U, p, w, k) => AtEntry(f, n, U, q, w, k)
    BY <1>3, Zenon DEF AtEntry
  <1>6. \A k : AtHead(f, n, U, p, w, k) => AtHead(f, n, U, q, w, k)
    BY <1>3, <1>4, Zenon DEF AtHead
  <1>7. \A k : AtType(f, n, U, p, w, k) => AtType(f, n, U, q, w, k)
    BY <1>3, <1>4, Zenon DEF AtType
  <1>8. \A k : AtEmpty(f, n, U, p, w, k) => AtEmpty(f, n, U, q, w, k)
    BY <1>3, <1>4, Zenon DEF AtEmpty
  <1>9. \A k, x : AtBody(f, n, U, p, w, k, x) => AtBody(f, n, U, q, w, k, x)
    BY Zenon DEF AtBody
  <1>10. \A k : AtBoundary(f, n, U, p, w, k) => AtBoundary(f, n, U, q, w, k)
    BY Zenon DEF AtBoundary
  <1>11. AtEnd(f, n, U, p, w) => AtEnd(f, n, U, q, w)
    BY Zenon DEF AtEnd
  <1> QED
    BY <1>1, <1>2, <1>5, <1>6, <1>7, <1>8, <1>9, <1>10, <1>11, Zenon DEF Reads

\* The next piece is received.
LEMMA FeedKept ==
  ASSUME NEW f, NEW n, NEW e, NEW U, FormGiven(f, n, e, U),
         FormHolds(f, n, U, parser, rest), Form!Feed
  PROVE  FormHolds(f, n, U, parser', rest')
  <1>1. PICK p, q, r, s : p = parser /\ q = parser' /\ r = rest /\ s = rest'
    OBVIOUS
  <1>2. p.refused = FALSE /\ p.busy = FALSE /\ r # <<>>
    <2>1. ~ p.busy /\ ~ p.refused /\ r # <<>>
      BY <1>1, Zenon DEF Form!Feed
    <2>2. p.busy \in BOOLEAN /\ p.refused \in BOOLEAN
      BY <1>1, ParserFields, Zenon DEF FormHolds
    <2> QED
      BY <2>1, <2>2, Zenon
  <1>3. p \in ParserType /\ r \in Text /\ Len(p.parts) <= MaxParts
        /\ Reads(f, n, U, p, p.buf \o r)
    BY <1>1, <1>2, Zenon DEF FormHolds
  <1>4. PICK m \in 1 .. Len(r) :
          /\ q = [p EXCEPT !.buf = @ \o SubSeq(r, 1, m), !.busy = TRUE]
          /\ s = SubSeq(r, m + 1, Len(r))
    BY <1>1, Zenon DEF Form!Feed
  <1>5. PICK a : a = SubSeq(r, 1, m)
    OBVIOUS
  <1>6. a \in Text /\ s \in Text /\ r = a \o s
    <2>1. m \in Nat /\ m <= Len(r)
      BY <1>3 DEF Text
    <2> QED
      BY <1>3, <1>4, <1>5, <2>1, Halves
  <1>7. p.buf \in Text
    BY <1>3, ParserFields, Zenon
  <1>8. PICK b \in Text : b = p.buf \o a
    BY <1>6, <1>7, Join, Zenon
  <1>9. q = [p EXCEPT !.buf = b, !.busy = TRUE]
    BY <1>4, <1>5, <1>8, Zenon
  <1>10. /\ q \in ParserType /\ q.busy = TRUE /\ q.buf = b
         /\ q.state = p.state /\ q.valid = p.valid
         /\ q.refused = p.refused /\ q.parts = p.parts /\ q.head = p.head
         /\ q.type = p.type
    <2>1. p \in ParserType
      BY <1>3
    <2>2. Receives(p, b, q)
      BY <1>9, Zenon DEF Receives
    <2> QED
      BY <2>1, <2>2, ReceivesIs, ZenonT(60)
  <1>11. PICK w : w = p.buf \o r
    OBVIOUS
  <1>12. b \o s = w
    <2>1. PICK c : c = p.buf
      OBVIOUS
    <2>2. Texts(c, a, s)
      BY <1>6, <1>7, <2>1, Zenon DEF Texts
    <2>3. (c \o a) \o s = c \o (a \o s)
      BY <2>2, AssocOf
    <2> QED
      BY <1>6, <1>8, <1>11, <2>1, <2>3, Zenon
  <1>13. w # <<>>
    <2>1. Len(w) = Len(p.buf) + Len(r)
      BY <1>3, <1>7, <1>11, Join
    <2>2. PICK i \in Nat, j \in Nat : i = Len(p.buf) /\ j = Len(r)
      BY <1>3, <1>7 DEF Text
    <2>3. j # 0
      BY <1>2, <1>3, <2>2 DEF Text
    <2>4. Len(w) # 0
      BY <2>1, <2>2, <2>3
    <2>5. Len(<<>>) = 0
      OBVIOUS
    <2> QED
      BY <2>4, <2>5, Zenon
  <1>14. Reads(f, n, U, q, w)
    BY <1>3, <1>10, <1>11, <1>13, ReadsOn, Zenon
  <1>15. FormHolds(f, n, U, q, s)
    BY <1>2, <1>3, <1>6, <1>10, <1>12, <1>14, Zenon DEF FormHolds
  <1> QED
    BY <1>1, <1>15, Zenon

\* What a step that is not the arrival of a piece finds.
LEMMA BusyReads ==
  ASSUME NEW f, NEW n, NEW U, NEW p, NEW r, FormHolds(f, n, U, p, r), p.busy
  PROVE  /\ p \in ParserType /\ r \in Text /\ p.busy = TRUE /\ p.refused = FALSE
         /\ Len(p.parts) <= MaxParts /\ Reads(f, n, U, p, p.buf \o r)
  <1>1. p.busy \in BOOLEAN
    BY ParserFields, Zenon DEF FormHolds
  <1>2. p.busy = TRUE
    BY <1>1, Zenon
  <1> QED
    BY <1>2, Zenon DEF FormHolds

\* In a state there is one thing to read.
LEMMA ReadsByState ==
  ASSUME NEW f, NEW n, NEW U, NEW p, NEW w, Reads(f, n, U, p, w), p.busy = TRUE
  PROVE  /\ p.state = "initial" => AtStart(f, n, U, p, w)
         /\ p.state = "entry" => \E k \in Nat : AtEntry(f, n, U, p, w, k)
         /\ InHeaders(p) => \E k \in Nat : \/ AtHead(f, n, U, p, w, k)
                                           \/ AtType(f, n, U, p, w, k)
                                           \/ AtEmpty(f, n, U, p, w, k)
         /\ p.state = "body" => \E k \in Nat : \E x \in Text :
                                  AtBody(f, n, U, p, w, k, x)
         /\ p.state = "boundary" => \/ \E k \in Nat : AtBoundary(f, n, U, p, w, k)
                                    \/ AtEnd(f, n, U, p, w)
  <1>1. \/ AtStart(f, n, U, p, w)
        \/ \E k \in Nat : AtEntry(f, n, U, p, w, k)
        \/ \E k \in Nat : \/ AtHead(f, n, U, p, w, k)
                          \/ AtType(f, n, U, p, w, k)
                          \/ AtEmpty(f, n, U, p, w, k)
        \/ \E k \in Nat : \E x \in Text : AtBody(f, n, U, p, w, k, x)
        \/ \E k \in Nat : AtBoundary(f, n, U, p, w, k)
        \/ AtEnd(f, n, U, p, w) /\ p.state = "boundary"
    <2>1. AtEnd(f, n, U, p, w) => p.state = "boundary"
      BY Zenon DEF AtEnd
    <2> QED
      BY <2>1, Zenon DEF Reads
  <1>2. AtStart(f, n, U, p, w) => p.state = "initial"
    BY Zenon DEF AtStart
  <1>3. \A k : AtEntry(f, n, U, p, w, k) => p.state = "entry"
    BY Zenon DEF AtEntry
  <1>4. \A k : (\/ AtHead(f, n, U, p, w, k)
                \/ AtType(f, n, U, p, w, k)
                \/ AtEmpty(f, n, U, p, w, k)) => InHeaders(p)
    BY Zenon DEF AtHead, AtType, AtEmpty
  <1>5. \A k, x : AtBody(f, n, U, p, w, k, x) => p.state = "body"
    BY Zenon DEF AtBody
  <1>6. \A k : AtBoundary(f, n, U, p, w, k) => p.state = "boundary"
    BY Zenon DEF AtBoundary
  <1>7. InHeaders(p) => /\ p.state # "initial" /\ p.state # "entry"
                        /\ p.state # "body" /\ p.state # "boundary"
    BY Zenon DEF InHeaders
  <1>8. CASE p.state = "initial"
    BY <1>1, <1>3, <1>4, <1>5, <1>6, <1>7, <1>8, Zenon
  <1>9. CASE p.state = "entry"
    BY <1>1, <1>2, <1>4, <1>5, <1>6, <1>7, <1>9, Zenon
  <1>10. CASE InHeaders(p)
    BY <1>1, <1>2, <1>3, <1>5, <1>6, <1>7, <1>10, Zenon
  <1>11. CASE p.state = "body"
    BY <1>1, <1>2, <1>3, <1>4, <1>6, <1>7, <1>11, Zenon
  <1>12. CASE p.state = "boundary"
    BY <1>1, <1>2, <1>3, <1>4, <1>5, <1>7, <1>12, Zenon
  <1> QED
    BY <1>8, <1>9, <1>10, <1>11, <1>12, Zenon

\* s is searched in a buffer b that is followed by r; all that is read is x,
\* then s, then t.  When there is enough in the buffer, s is found behind x.
Searched(b, r, x, s, t) ==
  LET c == SubSeq(b, Len(x) + Len(s) + 1, Len(b))
  IN /\ Len(x) + Len(s) <= Len(b) =>
          /\ FindIn(b, s) = Len(x) /\ FindIn(b, s) < Len(b)
          /\ c \in Text /\ c \o r = t /\ SubSeq(b, 1, Len(x)) = x
     /\ ~ (Len(x) + Len(s) <= Len(b)) => FindIn(b, s) = Len(b)

Searches(b, r, x, s, t, w) ==
  /\ Len(s) # 0 /\ b \o r = w /\ w = x \o (s \o t)
  /\ First(w, s, Len(x))

LEMMA SearchedIs ==
  ASSUME NEW b \in Text, NEW r \in Text, NEW x \in Text, NEW s \in Text,
         NEW t \in Text, NEW w, Searches(b, r, x, s, t, w)
  PROVE  Searched(b, r, x, s, t)
  <1>1. PICK k \in Nat, m \in Nat, n \in Nat :
          k = Len(x) /\ m = Len(s) /\ n = Len(b)
    BY DEF Text
  <1>2. m # 0
    BY <1>1, Zenon DEF Searches
  <1>3. /\ k + m <= n => FindIn(b, s) = k
        /\ ~ (k + m <= n) => FindIn(b, s) = n
    <2>1. First(b \o r, s, Len(x))
      BY Zenon DEF Searches
    <2>2. /\ Len(x) + Len(s) <= Len(b) => FindIn(b, s) = Len(x)
          /\ ~ (Len(x) + Len(s) <= Len(b)) => FindIn(b, s) = Len(b)
      BY <2>1, FindFirst, Zenon
    <2> QED
      BY <1>1, <2>2, Zenon
  <1>4. ASSUME k + m <= n
        PROVE  LET c == SubSeq(b, k + m + 1, n)
               IN c \in Text /\ c \o r = t
    <2>1. PICK y \in Text : y = x \o s
      BY Join, Zenon
    <2>2. Len(y) = k + m
      <3>1. Len(y) = Len(x) + Len(s)
        BY <2>1, Join, Zenon
      <3> QED
        BY <1>1, <3>1
    <2>3. y \o t = x \o (s \o t)
      <3>1. Texts(x, s, t)
        BY Zenon DEF Texts
      <3> QED
        BY <2>1, <3>1, AssocOf
    <2>4. b \o r = y \o t /\ Len(y) <= Len(b)
      BY <1>1, <1>4, <2>2, <2>3, Zenon DEF Searches
    <2>5. LET c == SubSeq(b, Len(y) + 1, Len(b))
          IN c \in Text /\ c \o r = t
      BY ZenonT(60), <2>4, Cut
    <2> QED
      BY <1>1, <2>2, <2>5, Zenon
  <1>5. ASSUME k + m <= n PROVE SubSeq(b, 1, k) = x
    <2>1. s \o t \in Text
      BY Join, Zenon
    <2>2. k <= n
      BY <1>1, <1>5
    <2>3. b \o r = x \o (s \o t)
      BY Zenon DEF Searches
    <2>4. SubSeq(b, 1, Len(x)) = x
      BY <1>1, <2>1, <2>2, <2>3, Front, Zenon
    <2> QED
      BY <1>1, <2>4, Zenon
  <1>6. k + m <= n => k < n
    BY <1>2, <1>1
  <1> QED
    BY <1>1, <1>3, <1>4, <1>5, <1>6, Zenon DEF Searched

LEMMA FindIs ==
  ASSUME NEW p, p = parser, NEW s, NEW b, b = p.buf
  PROVE  /\ Form!Find(s) = FindIn(b, s)
         /\ Form!Found(s) <=> FindIn(b, s) < Len(b)
         /\ \A i : Form!Without(i) = SubSeq(b, i + 1, Len(b))
  <1>1. Form!Find(s) = FindIn(b, s)
    BY Zenon DEF Form!Find, FindIn
  <1>2. Form!Found(s) <=> FindIn(b, s) < Len(b)
    BY <1>1, Zenon DEF Form!Found
  <1>3. \A i : Form!Without(i) = SubSeq(b, i + 1, Len(b))
    BY Zenon DEF Form!Without
  <1> QED
    BY <1>1, <1>2, <1>3, Zenon

\* A parser that waits has less than it needs and stays where it is.
LEMMA StopsAt ==
  ASSUME NEW p \in ParserType, NEW q, Stops(p, q)
  PROVE  \A f, n, U, w, k :
           /\ AtStart(f, n, U, p, w) => AtStart(f, n, U, q, w)
           /\ AtBoundary(f, n, U, p, w, k) => AtBoundary(f, n, U, q, w, k)
           /\ \A x : AtBody(f, n, U, p, w, k, x) => AtBody(f, n, U, q, w, k, x)
           /\ AtEnd(f, n, U, p, w) => AtEnd(f, n, U, q, w)
  <1>1. /\ q \in ParserType /\ q.busy = FALSE
        /\ q.state = p.state /\ q.buf = p.buf /\ q.valid = p.valid
        /\ q.refused = p.refused /\ q.parts = p.parts /\ q.head = p.head
        /\ q.type = p.type
    BY StopsIs, Zenon
  <1>2. \A f, n, U, w : AtStart(f, n, U, p, w) => AtStart(f, n, U, q, w)
    BY <1>1, Zenon DEF AtStart
  <1>3. \A f, n, U, w, k : AtBoundary(f, n, U, p, w, k) => AtBoundary(f, n, U, q, w, k)
    BY <1>1, Zenon DEF AtBoundary
  <1>4. \A f, n, U, w, k, x : AtBody(f, n, U, p, w, k, x) => AtBody(f, n, U, q, w, k, x)
    <2>1. q.state = p.state /\ q.valid = p.valid /\ q.parts = p.parts
      BY <1>1
    <2>2. ASSUME NEW f, NEW n, NEW U, NEW w, NEW k, NEW x,
                 AtBody(f, n, U, p, w, k, x)
          PROVE  AtBody(f, n, U, q, w, k, x)
      BY <2>1, <2>2, Zenon DEF AtBody
    <2> QED
      BY <2>2, Zenon
  <1>5. \A f, n, U, w : AtEnd(f, n, U, p, w) => AtEnd(f, n, U, q, w)
    BY <1>1, Zenon DEF AtEnd
  <1> QED
    BY <1>2, <1>3, <1>4, <1>5, ZenonT(60)

\* What is behind the boundaries.
BehindAt(f, n, e, U, k) ==
  /\ k <= n => U[k + 1] \in Text
  /\ k + 1 <= n =>
       /\ f[k + 1] \in Item /\ U[k + 2] \in Text
       /\ Plain(f[k + 1].content)
       /\ U[k + 1] = CrLf \o HeadLine(f[k + 1], U[k + 2])
  /\ k = n => U[k + 1] = Dashes \o e
  /\ e \in Text

LEMMA BehindIs ==
  ASSUME NEW f, NEW n, NEW e, NEW U, FormGiven(f, n, e, U), NEW k \in Nat
  PROVE  BehindAt(f, n, e, U, k)
  <1>1. n \in Nat /\ f \in Seq(Item) /\ Len(f) = n /\ Behind(U, f, n, e)
    BY Zenon DEF FormGiven
  <1>2. ASSUME k <= n PROVE U[k + 1] \in Text
    <2>1. k + 1 \in 1 .. n + 1
      BY <1>1, <1>2
    <2> QED
      BY <1>1, <2>1, Zenon DEF Behind
  <1>3. ASSUME k + 1 <= n
        PROVE  /\ f[k + 1] \in Item /\ U[k + 2] \in Text
               /\ Plain(f[k + 1].content)
               /\ U[k + 1] = CrLf \o HeadLine(f[k + 1], U[k + 2])
    <2>1. k + 1 \in 1 .. n /\ k + 2 \in 1 .. n + 1 /\ k + 1 + 1 = k + 2
      BY <1>1, <1>3
    <2>2. f[k + 1] \in Item
      BY <1>1, <2>1
    <2>3. U[k + 2] \in Text
      BY <1>1, <2>1, Zenon DEF Behind
    <2>4. U[k + 1] = CrLf \o HeadLine(f[k + 1], U[k + 1 + 1])
      BY <1>1, <2>1, Zenon DEF Behind
    <2>5. Plain(f[k + 1].content)
      BY <2>1, Zenon DEF FormGiven
    <2> QED
      BY <2>1, <2>2, <2>3, <2>4, <2>5, Zenon
  <1>4. k = n => U[k + 1] = Dashes \o e
    BY <1>1, Zenon DEF Behind
  <1>5. e \in Text
    BY NothingBefore, Literals, Zenon DEF FormGiven
  <1> QED
    BY <1>2, <1>3, <1>4, <1>5, Zenon DEF BehindAt

\* The first boundary.
LEMMA InitialKept ==
  ASSUME NEW f, NEW n, NEW e, NEW U, FormGiven(f, n, e, U),
         FormHolds(f, n, U, parser, rest), Form!InitialBoundary, rest' = rest
  PROVE  FormHolds(f, n, U, parser', rest')
  <1>1. PICK p, q, r : p = parser /\ q = parser' /\ r = rest /\ r = rest'
    OBVIOUS
  <1>2. p.busy /\ p.state = "initial"
    BY <1>1, Zenon DEF Form!InitialBoundary, Form!In
  <1>3. /\ p \in ParserType /\ r \in Text /\ p.busy = TRUE /\ p.refused = FALSE
        /\ Len(p.parts) <= MaxParts /\ Reads(f, n, U, p, p.buf \o r)
    BY <1>1, <1>2, BusyReads, Zenon
  <1>4. PICK b \in Text : b = p.buf
    BY <1>3, ParserFields, Zenon
  <1>5. PICK w : w = b \o r
    OBVIOUS
  <1>6. AtStart(f, n, U, p, w)
    BY <1>2, <1>3, <1>4, <1>5, ReadsByState, Zenon
  <1>7. PICK h \in Text : h = HeadLine(f[0 + 1], U[0 + 2]) /\ w = FirstLine \o h
    <2>1. n \in Nat /\ 0 + 1 <= n
      BY DEF FormGiven
    <2>2. /\ f[0 + 1] \in Item /\ U[0 + 2] \in Text
          /\ U[0 + 1] = CrLf \o HeadLine(f[0 + 1], U[0 + 2])
      <3>1. PICK k \in Nat : k = 0
        OBVIOUS
      <3>2. k + 1 <= n
        BY <2>1, <3>1, Zenon
      <3>3. /\ f[k + 1] \in Item /\ U[k + 2] \in Text
            /\ U[k + 1] = CrLf \o HeadLine(f[k + 1], U[k + 2])
        <4>1. BehindAt(f, n, e, U, k)
          BY BehindIs, Zenon
        <4> QED
          BY <3>2, <4>1, Zenon DEF BehindAt
      <3> QED
        BY <3>1, <3>3, Zenon
    <2>3. PICK h \in Text : h = HeadLine(f[0 + 1], U[0 + 2])
      BY <2>2, LinesAreText, Zenon
    <2>4. 0 + 1 = 1
      OBVIOUS
    <2>5. w = Opening \o (CrLf \o h)
      BY <1>6, <2>2, <2>3, <2>4, Zenon DEF AtStart
    <2>6. Texts(Opening, CrLf, h)
      BY Literals, Zenon DEF Texts
    <2>7. (Opening \o CrLf) \o h = Opening \o (CrLf \o h)
      BY <2>6, AssocOf
    <2> QED
      BY <2>3, <2>5, <2>7, FormLiterals, Zenon
  <1>8. PICK s \in Text, x \in Text : /\ s = FirstLine /\ s = Form!dash_boundary_crlf
                                      /\ Len(s) = 5 /\ x = <<>> /\ Len(x) = 0
    <2>1. Len(<<>>) = 0
      OBVIOUS
    <2> QED
      BY <2>1, Literals, FormLiterals, NothingBefore, ZenonT(60)
  <1>9. Searched(b, r, x, s, h)
    <2>1. First(s \o h, s, 0)
      BY FirstAtOnce, Zenon
    <2>2. x \o (s \o h) = s \o h
      BY <1>8, Join, NothingBefore, Zenon
    <2>3. Len(s) # 0
      BY <1>8
    <2>4. Searches(b, r, x, s, h, w)
      BY <1>5, <1>7, <1>8, <2>1, <2>2, <2>3, Zenon DEF Searches
    <2>5. r \in Text
      BY <1>3
    <2> QED
      BY <2>4, <2>5, SearchedIs, Zenon
  <1>10. CASE Len(x) + Len(s) <= Len(b)
    <2>1. PICK c : c = SubSeq(b, Len(x) + Len(s) + 1, Len(b))
      OBVIOUS
    <2>2. FindIn(b, s) = Len(x) /\ FindIn(b, s) < Len(b) /\ c \in Text /\ c \o r = h
      BY <1>9, <1>10, <2>1, Zenon DEF Searched
    <2>3. Form!Found(s) /\ c = Form!Without(Form!Find(s) + Len(s))
      BY <1>1, <1>4, <2>1, <2>2, FindIs, Zenon
    <2>4. MovesTo(p, "entry", c, q)
      BY <1>1, <1>8, <2>3, Zenon DEF Form!InitialBoundary, Form!GoOn, MovesTo
    <2>5. PICK st \in FormStates : st = "entry" /\ MovesTo(p, st, c, q)
      BY <2>4, Zenon DEF FormStates
    <2>6. /\ q \in ParserType /\ q.state = "entry" /\ q.buf = c /\ GoesOn(q)
          /\ q.valid = p.valid /\ q.refused = p.refused /\ q.parts = p.parts
      <3>1. p \in ParserType /\ c \in Text
        BY <1>3, <2>2
      <3>2. /\ q \in ParserType /\ q.state = st /\ q.buf = c /\ GoesOn(q)
            /\ q.valid = p.valid /\ q.refused = p.refused /\ q.parts = p.parts
        BY <2>5, <3>1, MovesToIs
      <3> QED
        BY <2>5, <3>2, Zenon
    <2>7. PartNext(f, n, q, 0)
      <3>1. n \in Nat /\ 0 + 1 <= n
        BY DEF FormGiven
      <3>2. q.valid = FALSE /\ Len(q.parts) = 0
        BY <1>6, <2>6, Zenon DEF AtStart
      <3>3. Came(q.parts, f, 0)
        BY DEF Came
      <3> QED
        BY <3>1, <3>2, <3>3, Zenon DEF PartNext
    <2>8. AtEntry(f, n, U, q, h, 0)
      BY <1>7, <2>6, <2>7, Zenon DEF AtEntry
    <2>9. Wanting(q, 1)
      BY <2>6 DEF GoesOn, Wanting
    <2>10. 0 \in Nat
      OBVIOUS
    <2>11. Reads(f, n, U, q, q.buf \o r)
      BY <2>2, <2>6, <2>8, <2>9, <2>10, Zenon DEF Reads
    <2>12. FormHolds(f, n, U, q, r)
      BY <1>3, <2>6, <2>11, Zenon DEF FormHolds
    <2> QED
      BY <1>1, <2>12, Zenon
  <1>11. CASE ~ (Len(x) + Len(s) <= Len(b))
    <2>1. FindIn(b, s) = Len(b)
      BY <1>9, <1>11, Zenon DEF Searched
    <2>2. ~ (Len(b) < Len(b)) /\ Len(b) < 5
      <3>1. PICK l \in Nat : l = Len(b)
        BY DEF Text
      <3> QED
        BY <1>8, <1>11, <3>1
    <2>3. ~ Form!Found(s)
      BY <1>1, <1>4, <2>1, <2>2, FindIs, Zenon
    <2>4. Stops(p, q)
      BY <1>1, <1>8, <2>3, Zenon DEF Form!InitialBoundary, Form!Waits, Stops
    <2>5. q \in ParserType /\ q.buf = p.buf /\ q.refused = p.refused
          /\ q.parts = p.parts
      BY <1>3, <2>4, StopsIs, Zenon
    <2>6. AtStart(f, n, U, q, w)
      BY <1>3, <1>6, <2>4, StopsAt, Zenon
    <2>7. Wanting(q, 5)
      BY <1>4, <2>2, <2>5, Zenon DEF Wanting
    <2>8. Reads(f, n, U, q, q.buf \o r)
      BY <1>4, <1>5, <2>5, <2>6, <2>7, Zenon DEF Reads
    <2>9. FormHolds(f, n, U, q, r)
      BY <1>3, <2>5, <2>8, Zenon DEF FormHolds
    <2> QED
      BY <1>1, <2>9, Zenon
  <1> QED
    BY <1>10, <1>11

\* The headers of another part begin.
LEMMA EntryKept ==
  ASSUME NEW f, NEW n, NEW e, NEW U, FormGiven(f, n, e, U),
         FormHolds(f, n, U, parser, rest), Form!NewEntry, rest' = rest
  PROVE  FormHolds(f, n, U, parser', rest')
  <1>1. PICK p, q, r : p = parser /\ q = parser' /\ r = rest /\ r = rest'
    OBVIOUS
  <1>2. p.busy /\ p.state = "entry"
    BY <1>1, Zenon DEF Form!NewEntry, Form!In
  <1>3. /\ p \in ParserType /\ r \in Text /\ p.busy = TRUE /\ p.refused = FALSE
        /\ Len(p.parts) <= MaxParts /\ Reads(f, n, U, p, p.buf \o r)
    BY <1>1, <1>2, BusyReads, Zenon
  <1>4. PICK w : w = p.buf \o r
    OBVIOUS
  <1>5. PICK k \in Nat : AtEntry(f, n, U, p, w, k)
    BY <1>2, <1>3, <1>4, ReadsByState, Zenon
  <1>6. PICK h, s : h = "" /\ s = "headers" /\ h \in {"", "field", "file"}
                    /\ s \in FormStates
    BY Zenon DEF FormStates
  <1>7. PICK c : /\ c = [p EXCEPT !.state = s, !.head = h, !.type = FALSE]
                 /\ q = [c EXCEPT !.busy = c.buf # <<>>]
    BY <1>1, <1>6, Zenon DEF Form!NewEntry, Form!GoOn
  <1>8. /\ c \in ParserType /\ c.state = s /\ c.buf = p.buf /\ c.valid = p.valid
        /\ c.refused = p.refused /\ c.parts = p.parts /\ c.type = FALSE
    BY <1>3, <1>6, <1>7 DEF ParserType
  <1>9. /\ q \in ParserType /\ q.state = s /\ q.buf = p.buf /\ q.valid = p.valid
        /\ q.refused = p.refused /\ q.parts = p.parts /\ q.type = FALSE
    BY <1>7, <1>8 DEF ParserType
  <1>10. q.busy = (q.buf # <<>>)
    BY <1>7, <1>8, <1>9 DEF ParserType
  <1>11. Wanting(q, 3)
    <2>1. CASE q.buf = <<>>
      <3>1. Len(q.buf) = 0 /\ 0 < 3
        BY <2>1
      <3> QED
        BY <3>1, Zenon DEF Wanting
    <2>2. CASE q.buf # <<>>
      BY <1>10, <2>2, Zenon DEF Wanting
    <2> QED
      BY <2>1, <2>2
  <1>12. AtHead(f, n, U, q, w, k)
    <2>1. PartNext(f, n, q, k)
      BY <1>5, <1>9, Zenon DEF AtEntry, PartNext
    <2>2. InHeaders(q)
      BY <1>6, <1>9, Zenon DEF InHeaders
    <2> QED
      BY <1>5, <1>9, <2>1, <2>2, Zenon DEF AtEntry, AtHead
  <1>13. Reads(f, n, U, q, q.buf \o r)
    BY <1>4, <1>9, <1>11, <1>12, Zenon DEF Reads
  <1>14. FormHolds(f, n, U, q, r)
    BY <1>3, <1>9, <1>13, Zenon DEF FormHolds
  <1> QED
    BY <1>1, <1>14, Zenon

\* What the parser does with a line of the headers that has pos symbols, c being
\* what comes after it.
Line(p, q, pos, c) ==
  /\ pos = 0 /\ Len(p.parts) = MaxParts =>
       q = [p EXCEPT !.refused = TRUE, !.busy = FALSE, !.valid = FALSE]
  /\ pos = 0 /\ Len(p.parts) # MaxParts =>
       LET part == [head |-> p.head, type |-> p.type, content |-> <<>>]
           g == [p EXCEPT !.parts = Append(p.parts, part), !.buf = c, !.state = "body"]
       IN q = [g EXCEPT !.busy = g.buf # <<>>]
  /\ pos = 1 /\ p.buf[1] \in {"field", "file"} =>
       q = [p EXCEPT !.head = p.buf[1], !.buf = c, !.state = "more headers"]
  /\ pos = 1 /\ p.buf[1] = "content-type" =>
       q = [p EXCEPT !.type = TRUE, !.buf = c, !.state = "more headers"]

HeadersWait(p, q) == q = [p EXCEPT !.busy = FALSE, !.state = "headers"]

LineRead(p, q, r, x, t) ==
  \/ Len(p.buf) < Len(x) + 2 /\ HeadersWait(p, q)
  \/ \E c \in Text : /\ c \o r = t /\ SubSeq(p.buf, 1, Len(x)) = x
                     /\ Len(x) <= Len(p.buf) /\ Line(p, q, Len(x), c)

LEMMA LineReadIs ==
  ASSUME parser \in ParserType, Form!Headers,
         NEW r, NEW x \in Text, NEW t, Len(x) = 0 \/ Len(x) = 1,
         Searched(parser.buf, r, x, CrLf, t)
  PROVE  LineRead(parser, parser', r, x, t)
  <1>1. PICK p, q : p = parser /\ q = parser'
    OBVIOUS
  <1>2. PICK b \in Text : b = p.buf /\ b = parser.buf
    BY <1>1, ParserFields, Zenon
  <1>3. PICK pos : pos = FindIn(b, CrLf)
    OBVIOUS
  <1>4. PICK l \in Nat : l = Len(b)
    BY DEF Text
  <1>5. PICK k \in Nat : k = Len(x) /\ (k = 0 \/ k = 1)
    OBVIOUS
  <1>6. Len(CrLf) = 2
    BY Literals, Zenon
  <1>7. /\ Form!Find(Form!crlf) = pos
        /\ Form!Found(Form!crlf) <=> pos < Len(b)
        /\ Form!Without(pos + 2) = SubSeq(b, pos + 2 + 1, Len(b))
    BY <1>1, <1>2, <1>3, FindIs, FormLiterals, Zenon
  <1>8. HeaderMax > 1 /\ HeaderMax \in Nat
    <2>1. HeaderMax > 1
      BY FormsAssumption
    <2>2. HeaderMax \in Nat
      BY MessageAssumption
    <2> QED
      BY <2>1, <2>2
  <1>9. Form!HeaderLine
    BY Zenon DEF Form!Headers
  <1>10. CASE k + 2 <= l
    <2>1. Len(x) + Len(CrLf) <= Len(b)
      BY <1>4, <1>5, <1>6, <1>10, Zenon
    <2>2. PICK c : c = SubSeq(b, Len(x) + Len(CrLf) + 1, Len(b))
      OBVIOUS
    <2>3. /\ pos = k /\ pos < Len(b) /\ c \in Text /\ c \o r = t
          /\ SubSeq(b, 1, Len(x)) = x
      BY <1>2, <1>3, <1>5, <2>1, <2>2, Zenon DEF Searched
    <2>4. c = Form!Without(pos + 2)
      BY <1>5, <1>6, <1>7, <2>2, <2>3, Zenon
    <2>5. ~ (pos > HeaderMax)
      BY <1>5, <1>8, <2>3
    <2>6. Form!Found(Form!crlf)
      BY <1>7, <2>3, Zenon
    <2>7. Len(x) <= Len(b) /\ Len(x) = pos
      BY <1>4, <1>5, <1>10, <2>3
    <2>8. CASE pos = 0 /\ Len(p.parts) = MaxParts
      <3>1. q = [p EXCEPT !.refused = TRUE, !.busy = FALSE, !.valid = FALSE]
        BY <1>1, <1>7, <1>9, <2>5, <2>6, <2>8 DEF Form!HeaderLine, Form!Refuses
      <3>2. Line(p, q, pos, c)
        BY <2>8, <3>1 DEF Line
      <3> QED
        BY <1>1, <1>2, <2>3, <2>7, <3>2, Zenon DEF LineRead
    <2>9. CASE pos = 0 /\ Len(p.parts) # MaxParts
      <3>1. Form!GoOn([p EXCEPT !.parts = Form!NewPart, !.buf = c, !.state = "body"])
        BY <1>1, <1>7, <1>9, <2>4, <2>5, <2>6, <2>9 DEF Form!HeaderLine
      <3>2. Line(p, q, pos, c)
        BY <1>1, <2>9, <3>1 DEF Line, Form!GoOn, Form!NewPart
      <3> QED
        BY <1>1, <1>2, <2>3, <2>7, <3>2, Zenon DEF LineRead
    <2>10. CASE pos = 1
      <3>1. pos # 0
        BY <2>10
      <3>2. ASSUME b[1] \in {"field", "file"}
            PROVE  q = [p EXCEPT !.head = b[1], !.buf = c, !.state = "more headers"]
        BY <1>1, <1>2, <1>7, <1>9, <2>4, <2>5, <2>6, <2>10, <3>1, <3>2, Zenon
           DEF Form!HeaderLine
      <3>3. ASSUME b[1] = "content-type"
            PROVE  q = [p EXCEPT !.type = TRUE, !.buf = c, !.state = "more headers"]
        <4>1. b[1] \notin {"field", "file"}
          BY <3>3, Zenon
        <4> QED
          BY <1>1, <1>2, <1>7, <1>9, <2>4, <2>5, <2>6, <2>10, <3>1, <3>3, <4>1, Zenon
             DEF Form!HeaderLine
      <3>4. Line(p, q, pos, c)
        BY <1>2, <3>1, <3>2, <3>3, Zenon DEF Line
      <3> QED
        BY <1>1, <1>2, <2>3, <2>7, <3>4, Zenon DEF LineRead
    <2> QED
      BY <1>5, <2>3, <2>8, <2>9, <2>10
  <1>11. CASE ~ (k + 2 <= l)
    <2>1. ~ (Len(x) + Len(CrLf) <= Len(b))
      BY <1>4, <1>5, <1>6, <1>11, Zenon
    <2>2. pos = Len(b)
      BY <1>2, <1>3, <2>1, Zenon DEF Searched
    <2>3. ~ (pos > HeaderMax) /\ ~ (pos < Len(b)) /\ Len(b) < Len(x) + 2
      BY <1>4, <1>5, <1>8, <1>11, <2>2
    <2>4. ~ Form!Found(Form!crlf)
      BY <1>7, <2>3, Zenon
    <2>5. HeadersWait(p, q)
      BY <1>1, <1>7, <1>9, <2>3, <2>4, Zenon DEF Form!HeaderLine, HeadersWait
    <2> QED
      BY <1>1, <1>2, <2>3, <2>5, Zenon DEF LineRead
  <1> QED
    BY <1>10, <1>11

LEMMA HeadersWaitIs ==
  ASSUME NEW p \in ParserType, NEW q, HeadersWait(p, q)
  PROVE  /\ q \in ParserType /\ q.state = "headers" /\ q.buf = p.buf
         /\ q.valid = p.valid /\ q.refused = p.refused /\ q.parts = p.parts
         /\ q.head = p.head /\ q.type = p.type
  <1>1. PICK s \in FormStates : s = "headers"
    BY Zenon DEF FormStates
  <1>2. q = [p EXCEPT !.busy = FALSE, !.state = s]
    BY <1>1, Zenon DEF HeadersWait
  <1>3. /\ q \in ParserType /\ q.state = s /\ q.buf = p.buf
        /\ q.valid = p.valid /\ q.refused = p.refused /\ q.parts = p.parts
        /\ q.head = p.head /\ q.type = p.type
    BY <1>2 DEF ParserType
  <1> QED
    BY <1>1, <1>3, Zenon

TakesHead(p, h, c, q) ==
  q = [p EXCEPT !.head = h, !.buf = c, !.state = "more headers"]

LEMMA TakesHeadIs ==
  ASSUME NEW p \in ParserType, NEW q, NEW h \in {"field", "file"}, NEW c \in Text,
         TakesHead(p, h, c, q)
  PROVE  /\ q \in ParserType /\ InHeaders(q) /\ q.buf = c /\ q.busy = p.busy
         /\ q.valid = p.valid /\ q.refused = p.refused /\ q.parts = p.parts
         /\ q.head = h /\ q.type = p.type
  <1>1. PICK s \in FormStates : s = "more headers"
    BY Zenon DEF FormStates
  <1>2. q = [p EXCEPT !.head = h, !.buf = c, !.state = s]
    BY <1>1, Zenon DEF TakesHead
  <1>3. PICK H : H = {"", "field", "file"}
    OBVIOUS
  <1>4. h \in H
    BY <1>3, Zenon
  <1>5. /\ p \in [state : FormStates, buf : Text, busy : BOOLEAN, valid : BOOLEAN,
                  refused : BOOLEAN, parts : Seq(Item), head : H, type : BOOLEAN]
        /\ ParserType =
             [state : FormStates, buf : Text, busy : BOOLEAN, valid : BOOLEAN,
              refused : BOOLEAN, parts : Seq(Item), head : H, type : BOOLEAN]
    BY <1>3, Zenon DEF ParserType
  <1>6. /\ q \in ParserType /\ q.state = s /\ q.buf = c /\ q.busy = p.busy
        /\ q.valid = p.valid /\ q.refused = p.refused /\ q.parts = p.parts
        /\ q.head = h /\ q.type = p.type
    BY <1>2, <1>4, <1>5
  <1> QED
    BY <1>1, <1>6, Zenon DEF InHeaders

TakesType(p, c, q) ==
  q = [p EXCEPT !.type = TRUE, !.buf = c, !.state = "more headers"]

LEMMA TakesTypeIs ==
  ASSUME NEW p \in ParserType, NEW q, NEW c \in Text, TakesType(p, c, q)
  PROVE  /\ q \in ParserType /\ InHeaders(q) /\ q.buf = c /\ q.busy = p.busy
         /\ q.valid = p.valid /\ q.refused = p.refused /\ q.parts = p.parts
         /\ q.head = p.head /\ q.type = TRUE
  <1>1. PICK s \in FormStates : s = "more headers"
    BY Zenon DEF FormStates
  <1>2. q = [p EXCEPT !.type = TRUE, !.buf = c, !.state = s]
    BY <1>1, Zenon DEF TakesType
  <1>3. /\ q \in ParserType /\ q.state = s /\ q.buf = c /\ q.busy = p.busy
        /\ q.valid = p.valid /\ q.refused = p.refused /\ q.parts = p.parts
        /\ q.head = p.head /\ q.type = TRUE
    BY <1>2 DEF ParserType
  <1> QED
    BY <1>1, <1>3, Zenon DEF InHeaders

Refused(p, q) == q = [p EXCEPT !.refused = TRUE, !.busy = FALSE, !.valid = FALSE]

LEMMA RefusedIs ==
  ASSUME NEW p \in ParserType, NEW q, Refused(p, q)
  PROVE  /\ q \in ParserType /\ q.refused = TRUE /\ q.valid = FALSE
         /\ q.busy = FALSE
  BY DEF ParserType, Refused

BeginsPart(p, part, c, q) ==
  LET g == [p EXCEPT !.parts = Append(p.parts, part), !.buf = c, !.state = "body"]
  IN q = [g EXCEPT !.busy = g.buf # <<>>]

LEMMA BeginsPartIs ==
  ASSUME NEW p \in ParserType, NEW q, NEW part \in Item, NEW c \in Text,
         BeginsPart(p, part, c, q)
  PROVE  /\ q \in ParserType /\ q.state = "body" /\ q.buf = c /\ GoesOn(q)
         /\ q.valid = p.valid /\ q.refused = p.refused
         /\ Len(q.parts) = Len(p.parts) + 1
         /\ \A i \in 1 .. Len(p.parts) : q.parts[i] = p.parts[i]
         /\ q.parts[Len(p.parts) + 1] = part
  <1>1. PICK s \in FormStates : s = "body"
    BY Zenon DEF FormStates
  <1>2. PICK v \in Seq(Item) : v = p.parts
    BY ParserFields, Zenon
  <1>3. PICK y \in Seq(Item) : y = Append(v, part)
    <2>1. Append(v, part) \in Seq(Item)
      OBVIOUS
    <2> QED
      BY <2>1, Zenon
  <1>4. /\ Len(y) = Len(v) + 1 /\ \A i \in 1 .. Len(v) : y[i] = v[i]
        /\ y[Len(v) + 1] = part
    BY <1>3
  <1>5. PICK g : /\ g = [p EXCEPT !.parts = y, !.buf = c, !.state = s]
                 /\ q = [g EXCEPT !.busy = g.buf # <<>>]
    BY <1>1, <1>2, <1>3, Zenon DEF BeginsPart
  <1>6. /\ g \in ParserType /\ g.state = s /\ g.buf = c /\ g.valid = p.valid
        /\ g.refused = p.refused /\ g.parts = y
    BY <1>5 DEF ParserType
  <1>7. /\ q \in ParserType /\ q.state = s /\ q.buf = c /\ q.valid = p.valid
        /\ q.refused = p.refused /\ q.parts = y
    BY <1>5, <1>6 DEF ParserType
  <1>8. q.busy = (q.buf # <<>>)
    BY <1>5, <1>6, <1>7 DEF ParserType
  <1>9. GoesOn(q)
    <2>1. CASE q.buf = <<>>
      <3>1. Len(q.buf) = 0
        BY <2>1
      <3> QED
        BY <3>1, Zenon DEF GoesOn
    <2>2. CASE q.buf # <<>>
      BY <1>8, <2>2, Zenon DEF GoesOn
    <2> QED
      BY <2>1, <2>2
  <1> QED
    BY <1>1, <1>2, <1>4, <1>7, <1>9, Zenon

\* A line of the headers.
LEMMA HeadersKept ==
  ASSUME NEW f, NEW n, NEW e, NEW U, FormGiven(f, n, e, U),
         FormHolds(f, n, U, parser, rest), Form!Headers, rest' = rest
  PROVE  FormHolds(f, n, U, parser', rest')
  <1>1. PICK p, q, r : p = parser /\ q = parser' /\ r = rest /\ r = rest'
    OBVIOUS
  <1>2. p.busy /\ InHeaders(p)
    BY <1>1, Zenon DEF Form!Headers, Form!In, InHeaders
  <1>3. /\ p \in ParserType /\ r \in Text /\ p.busy = TRUE /\ p.refused = FALSE
        /\ Len(p.parts) <= MaxParts /\ Reads(f, n, U, p, p.buf \o r)
    BY <1>1, <1>2, BusyReads, Zenon
  <1>4. PICK b \in Text : b = p.buf
    BY <1>3, ParserFields, Zenon
  <1>5. PICK w : w = b \o r
    OBVIOUS
  <1>6. PICK k \in Nat : \/ AtHead(f, n, U, p, w, k)
                         \/ AtType(f, n, U, p, w, k)
                         \/ AtEmpty(f, n, U, p, w, k)
    BY <1>2, <1>3, <1>4, <1>5, ReadsByState, Zenon
  <1>7. PartNext(f, n, p, k)
    BY <1>6, Zenon DEF AtHead, AtType, AtEmpty
  <1>8. PICK item \in Item, u \in Text :
          item = f[k + 1] /\ u = U[k + 2] /\ Plain(item.content)
    <2>1. k + 1 <= n
      BY <1>7, Zenon DEF PartNext
    <2>2. BehindAt(f, n, e, U, k)
      BY BehindIs, Zenon
    <2> QED
      BY <2>1, <2>2, Zenon DEF BehindAt
  <1>9. ASSUME HeadersWait(p, q)
         PROVE  /\ q \in ParserType /\ q.buf = b /\ q.refused = FALSE
                /\ Len(q.parts) <= MaxParts
                /\ AtHead(f, n, U, p, w, k) => AtHead(f, n, U, q, w, k)
                /\ AtType(f, n, U, p, w, k) => AtType(f, n, U, q, w, k)
                /\ AtEmpty(f, n, U, p, w, k) => AtEmpty(f, n, U, q, w, k)
    <2>1. /\ q \in ParserType /\ q.state = "headers" /\ q.buf = p.buf
          /\ q.valid = p.valid /\ q.refused = p.refused /\ q.parts = p.parts
          /\ q.head = p.head /\ q.type = p.type
      BY <1>3, <1>9, HeadersWaitIs, Zenon
    <2>2. InHeaders(q) /\ PartNext(f, n, q, k)
      BY <1>7, <2>1, Zenon DEF InHeaders, PartNext
    <2>3. AtHead(f, n, U, p, w, k) => AtHead(f, n, U, q, w, k)
      BY <2>1, <2>2, Zenon DEF AtHead
    <2>4. AtType(f, n, U, p, w, k) => AtType(f, n, U, q, w, k)
      BY <2>1, <2>2, Zenon DEF AtType
    <2>5. AtEmpty(f, n, U, p, w, k) => AtEmpty(f, n, U, q, w, k)
      BY <2>1, <2>2, Zenon DEF AtEmpty
    <2> QED
      BY <1>3, <1>4, <2>1, <2>3, <2>4, <2>5, Zenon
  <1>10. CASE AtHead(f, n, U, p, w, k)
    <2>1. PICK x \in Text, t \in Text :
            /\ x = <<item.head>> /\ t = TypeLine(item, u)
            /\ w = x \o (CrLf \o t)
      BY <1>8, <1>10, LinesAreText, Zenon DEF AtHead, HeadLine
    <2>2. item.head \in Symbol /\ item.head # "cr"
          /\ item.head \in {"field", "file"}
      BY LinesAreText, Zenon DEF Item
    <2>3. Len(x) = 1 /\ x[1] = item.head
      BY <2>1, <2>2, OneIsText, Zenon
    <2>4. First(w, CrLf, 1)
      BY <2>1, <2>2, FirstBehindOne, Zenon
    <2>5. Searched(b, r, x, CrLf, t)
      <3>1. Len(CrLf) = 2 /\ CrLf \in Text
        BY Literals, Zenon
      <3>2. Len(CrLf) # 0
        BY <3>1
      <3>3. Searches(b, r, x, CrLf, t, w)
        BY <1>5, <2>1, <2>3, <2>4, <3>2, Zenon DEF Searches
      <3>4. r \in Text
        BY <1>3
      <3> QED
        BY <3>1, <3>3, <3>4, SearchedIs, Zenon
    <2>6. \/ Len(b) < Len(x) + 2 /\ HeadersWait(p, q)
          \/ \E c \in Text : /\ c \o r = t /\ SubSeq(b, 1, Len(x)) = x
                             /\ Len(x) <= Len(b) /\ Line(p, q, Len(x), c)
      <3>1. parser \in ParserType /\ Searched(parser.buf, r, x, CrLf, t)
        BY <1>1, <1>3, <1>4, <2>5, Zenon
      <3>2. LineRead(parser, parser', r, x, t)
        BY <3>1, <2>3, LineReadIs, Zenon
      <3> QED
        BY <1>1, <1>4, <3>2, Zenon DEF LineRead
    <2>7. CASE Len(b) < Len(x) + 2 /\ HeadersWait(p, q)
      <3>1. Wanting(q, 3)
        <4>1. Len(b) < 3
          BY <2>3, <2>7
        <4> QED
          BY <1>9, <2>7, <4>1, Zenon DEF Wanting
      <3>2. Reads(f, n, U, q, q.buf \o r)
        BY <1>5, <1>9, <1>10, <2>7, <3>1, Zenon DEF Reads
      <3>3. FormHolds(f, n, U, q, r)
        BY <1>3, <1>9, <2>7, <3>2, Zenon DEF FormHolds
      <3> QED
        BY <1>1, <3>3, Zenon
    <2>8. ASSUME NEW c \in Text, c \o r = t, SubSeq(b, 1, Len(x)) = x,
                 Len(x) <= Len(b), Line(p, q, Len(x), c)
          PROVE  FormHolds(f, n, U, q, r)
      <3>1. b[1] = item.head
        <4>1. SubSeq(b, 1, 1) = x /\ 1 <= Len(b)
          BY <2>3, <2>8, Zenon
        <4>2. SubSeq(b, 1, 1)[1] = b[1]
          BY <4>1 DEF Text
        <4> QED
          BY <2>3, <4>1, <4>2, Zenon
      <3>2. TakesHead(p, item.head, c, q)
        BY <1>4, <2>2, <2>3, <2>8, <3>1, Zenon DEF Line, TakesHead
      <3>3. /\ q \in ParserType /\ InHeaders(q) /\ q.buf = c /\ q.busy = p.busy
            /\ q.valid = p.valid /\ q.refused = p.refused /\ q.parts = p.parts
            /\ q.head = item.head /\ q.type = p.type
        BY <1>3, <2>2, <3>2, TakesHeadIs, Zenon
      <3>4. PartNext(f, n, q, k)
        BY <1>7, <3>3, Zenon DEF PartNext
      <3>5. \A i : Wanting(q, i)
        BY <1>3, <3>3, Zenon DEF Wanting
      <3>6. CASE item.type
        <4>1. item.type = TRUE
          BY <3>6, Zenon DEF Item
        <4>2. AtType(f, n, U, q, t, k)
          BY <1>8, <2>1, <3>3, <3>4, <4>1, Zenon DEF AtType, TypeLine
        <4> QED
          BY <1>3, <2>8, <3>3, <3>5, <4>2, Zenon DEF Reads, FormHolds
      <3>7. CASE ~ item.type
        <4>1. item.type = FALSE
          BY <3>7, Zenon DEF Item
        <4>2. q.type = FALSE
          BY <1>10, <3>3, Zenon DEF AtHead
        <4>3. t = EmptyLine(item, u)
          BY <2>1, <3>7, Zenon DEF TypeLine
        <4>4. AtEmpty(f, n, U, q, t, k)
          BY <1>8, <3>3, <3>4, <4>1, <4>2, <4>3, Zenon DEF AtEmpty
        <4> QED
          BY <1>3, <2>8, <3>3, <3>5, <4>4, Zenon DEF Reads, FormHolds
      <3> QED
        BY <3>6, <3>7
    <2> QED
      BY <1>1, <2>6, <2>7, <2>8, Zenon
  <1>11. CASE AtType(f, n, U, p, w, k)
    <2>1. PICK x \in Text, t \in Text :
            /\ x = <<"content-type">> /\ t = EmptyLine(item, u)
            /\ w = x \o (CrLf \o t)
      BY <1>8, <1>11, LinesAreText, Zenon DEF AtType
    <2>2. "content-type" \in Symbol /\ "content-type" # "cr"
      BY Symbols, Zenon
    <2>3. Len(x) = 1 /\ x[1] = "content-type"
      BY <2>1, <2>2, OneIsText, Zenon
    <2>4. First(w, CrLf, 1)
      BY <2>1, <2>2, FirstBehindOne, Zenon
    <2>5. Searched(b, r, x, CrLf, t)
      <3>1. Len(CrLf) = 2 /\ CrLf \in Text
        BY Literals, Zenon
      <3>2. Len(CrLf) # 0
        BY <3>1
      <3>3. Searches(b, r, x, CrLf, t, w)
        BY <1>5, <2>1, <2>3, <2>4, <3>2, Zenon DEF Searches
      <3>4. r \in Text
        BY <1>3
      <3> QED
        BY <3>1, <3>3, <3>4, SearchedIs, Zenon
    <2>6. \/ Len(b) < Len(x) + 2 /\ HeadersWait(p, q)
          \/ \E c \in Text : /\ c \o r = t /\ SubSeq(b, 1, Len(x)) = x
                             /\ Len(x) <= Len(b) /\ Line(p, q, Len(x), c)
      <3>1. parser \in ParserType /\ Searched(parser.buf, r, x, CrLf, t)
        BY <1>1, <1>3, <1>4, <2>5, Zenon
      <3>2. LineRead(parser, parser', r, x, t)
        BY <3>1, <2>3, LineReadIs, Zenon
      <3> QED
        BY <1>1, <1>4, <3>2, Zenon DEF LineRead
    <2>7. CASE Len(b) < Len(x) + 2 /\ HeadersWait(p, q)
      <3>1. Wanting(q, 3)
        <4>1. Len(b) < 3
          BY <2>3, <2>7
        <4> QED
          BY <1>9, <2>7, <4>1, Zenon DEF Wanting
      <3>2. Reads(f, n, U, q, q.buf \o r)
        BY <1>5, <1>9, <1>11, <2>7, <3>1, Zenon DEF Reads
      <3>3. FormHolds(f, n, U, q, r)
        BY <1>3, <1>9, <2>7, <3>2, Zenon DEF FormHolds
      <3> QED
        BY <1>1, <3>3, Zenon
    <2>8. ASSUME NEW c \in Text, c \o r = t, SubSeq(b, 1, Len(x)) = x,
                 Len(x) <= Len(b), Line(p, q, Len(x), c)
          PROVE  FormHolds(f, n, U, q, r)
      <3>1. b[1] = "content-type"
        <4>1. SubSeq(b, 1, 1) = x /\ 1 <= Len(b)
          BY <2>3, <2>8, Zenon
        <4>2. SubSeq(b, 1, 1)[1] = b[1]
          BY <4>1 DEF Text
        <4> QED
          BY <2>3, <4>1, <4>2, Zenon
      <3>2. TakesType(p, c, q)
        BY <1>4, <2>3, <2>8, <3>1, Zenon DEF Line, TakesType
      <3>3. /\ q \in ParserType /\ InHeaders(q) /\ q.buf = c /\ q.busy = p.busy
            /\ q.valid = p.valid /\ q.refused = p.refused /\ q.parts = p.parts
            /\ q.head = p.head /\ q.type = TRUE
        BY <1>3, <3>2, TakesTypeIs, Zenon
      <3>4. PartNext(f, n, q, k)
        BY <1>7, <3>3, Zenon DEF PartNext
      <3>5. \A i : Wanting(q, i)
        BY <1>3, <3>3, Zenon DEF Wanting
      <3>6. AtEmpty(f, n, U, q, t, k)
        BY <1>8, <1>11, <2>1, <3>3, <3>4, Zenon DEF AtEmpty, AtType
      <3> QED
        BY <1>3, <2>8, <3>3, <3>5, <3>6, Zenon DEF Reads, FormHolds
    <2> QED
      BY <1>1, <2>6, <2>7, <2>8, Zenon
  <1>12. CASE AtEmpty(f, n, U, p, w, k)
    <2>1. PICK x \in Text, t \in Text :
            /\ x = <<>> /\ t = ContentAnd(item, u) /\ w = x \o (CrLf \o t)
      <3>1. PICK t \in Text : t = ContentAnd(item, u) /\ CrLf \o t \in Text
        BY LinesAreText, Zenon DEF EmptyLine
      <3>2. w = CrLf \o t
        BY <1>8, <1>12, <3>1, Zenon DEF AtEmpty, EmptyLine
      <3> QED
        BY <3>1, <3>2, NothingBefore, Zenon
    <2>2. Len(x) = 0 /\ w = CrLf \o t
      <3>1. Len(<<>>) = 0
        OBVIOUS
      <3>2. CrLf \o t \in Text
        BY <2>1, LinesAreText, Zenon DEF EmptyLine
      <3> QED
        BY <2>1, <3>1, <3>2, NothingBefore, Zenon
    <2>3. First(w, CrLf, 0)
      BY <2>2, FirstAtOnce, Literals, Zenon
    <2>4. Searched(b, r, x, CrLf, t)
      <3>1. Len(CrLf) = 2 /\ CrLf \in Text
        BY Literals, Zenon
      <3>2. Len(CrLf) # 0
        BY <3>1
      <3>3. Searches(b, r, x, CrLf, t, w)
        BY <1>5, <2>1, <2>2, <2>3, <3>2, Zenon DEF Searches
      <3>4. r \in Text
        BY <1>3
      <3> QED
        BY <3>1, <3>3, <3>4, SearchedIs, Zenon
    <2>5. \/ Len(b) < Len(x) + 2 /\ HeadersWait(p, q)
          \/ \E c \in Text : /\ c \o r = t /\ SubSeq(b, 1, Len(x)) = x
                             /\ Len(x) <= Len(b) /\ Line(p, q, Len(x), c)
      <3>1. parser \in ParserType /\ Searched(parser.buf, r, x, CrLf, t)
        BY <1>1, <1>3, <1>4, <2>4, Zenon
      <3>2. LineRead(parser, parser', r, x, t)
        BY <3>1, <2>2, LineReadIs, Zenon
      <3> QED
        BY <1>1, <1>4, <3>2, Zenon DEF LineRead
    <2>6. CASE Len(b) < Len(x) + 2 /\ HeadersWait(p, q)
      <3>1. Wanting(q, 2)
        <4>1. Len(b) < 2
          BY <2>2, <2>6
        <4> QED
          BY <1>9, <2>6, <4>1, Zenon DEF Wanting
      <3>2. Reads(f, n, U, q, q.buf \o r)
        BY <1>5, <1>9, <1>12, <2>6, <3>1, Zenon DEF Reads
      <3>3. FormHolds(f, n, U, q, r)
        BY <1>3, <1>9, <2>6, <3>2, Zenon DEF FormHolds
      <3> QED
        BY <1>1, <3>3, Zenon
    <2>7. ASSUME NEW c \in Text, c \o r = t, Line(p, q, Len(x), c)
          PROVE  FormHolds(f, n, U, q, r)
      <3>1. n \in Nat /\ MaxParts \in Nat /\ k = Len(p.parts) /\ k + 1 <= n
        <4>1. MaxParts \in Nat
          BY MessageAssumption
        <4> QED
          BY <1>7, <4>1, Zenon DEF FormGiven, PartNext
      <3>2. CASE Len(p.parts) = MaxParts
        <4>1. Refused(p, q)
          BY <2>2, <2>7, <3>2, Zenon DEF Line, Refused
        <4>2. n > MaxParts
          BY <3>1, <3>2
        <4> QED
          BY <1>3, <4>1, <4>2, RefusedIs, Zenon DEF FormHolds
      <3>3. CASE Len(p.parts) # MaxParts
        <4>1. PICK part \in Item :
                /\ part = [head |-> p.head, type |-> p.type, content |-> <<>>]
                /\ part.head = item.head /\ part.type = item.type
                /\ part.content = <<>>
          <5>1. p.head = item.head /\ p.type = item.type
            BY <1>8, <1>12, Zenon DEF AtEmpty
          <5>2. item.head \in {"field", "file"} /\ item.type \in BOOLEAN
            BY Zenon DEF Item
          <5>3. PICK nothing \in Text : nothing = <<>>
            BY NothingBefore, Zenon
          <5>4. PICK hd \in {"field", "file"}, ty \in BOOLEAN :
                  hd = p.head /\ ty = p.type
            BY <5>1, <5>2, Zenon
          <5>5. PICK part : part = [head |-> hd, type |-> ty, content |-> nothing]
            OBVIOUS
          <5>6. /\ part \in Item /\ part.head = hd /\ part.type = ty
                /\ part.content = nothing
            BY <5>5 DEF Item
          <5> QED
            BY <5>1, <5>3, <5>4, <5>5, <5>6, Zenon
        <4>2. BeginsPart(p, part, c, q)
          BY <2>2, <2>7, <3>3, <4>1, Zenon DEF Line, BeginsPart
        <4>3. /\ q \in ParserType /\ q.state = "body" /\ q.buf = c /\ GoesOn(q)
              /\ q.valid = p.valid /\ q.refused = p.refused
              /\ Len(q.parts) = Len(p.parts) + 1
              /\ \A i \in 1 .. Len(p.parts) : q.parts[i] = p.parts[i]
              /\ q.parts[Len(p.parts) + 1] = part
          BY <1>3, <4>2, BeginsPartIs, Zenon
        <4>4. Came(q.parts, f, k)
          BY <1>7, <3>1, <4>3, Zenon DEF PartNext, Came
        <4>5. item.content \in Text /\ <<>> \o item.content = item.content
          BY LinesAreText, NothingBefore, Zenon
        <4>6. AtBody(f, n, U, q, t, k, item.content)
          <5>1. q.valid = FALSE
            BY <1>7, <4>3, Zenon DEF PartNext
          <5>2. q.parts[k + 1] = part /\ Len(q.parts) = k + 1
            BY <3>1, <4>3, Zenon
          <5>3. item.content = q.parts[k + 1].content \o item.content
            BY <4>1, <4>5, <5>2, Zenon
          <5>4. t = item.content \o (Delimiter \o u)
            BY <2>1, Zenon DEF ContentAnd
          <5> QED
            BY <1>8, <3>1, <4>1, <4>3, <4>4, <5>1, <5>2, <5>3, <5>4, Zenon DEF AtBody
        <4>7. Wanting(q, Len(item.content) + 5)
          <5>1. PICK l \in Nat : l = Len(item.content)
            BY <4>5 DEF Text
          <5>2. 0 < l + 5
            OBVIOUS
          <5> QED
            BY <4>3, <5>1, <5>2, Zenon DEF GoesOn, Wanting
        <4>8. Reads(f, n, U, q, t)
          BY <4>5, <4>6, <4>7, Zenon DEF Reads
        <4>9. Len(q.parts) <= MaxParts
          BY <1>3, <3>1, <3>3, <4>3
        <4> QED
          BY <1>3, <2>7, <4>3, <4>8, <4>9, Zenon DEF FormHolds
      <3> QED
        BY <3>2, <3>3
    <2> QED
      BY <1>1, <2>5, <2>6, <2>7, Zenon
  <1> QED
    BY <1>6, <1>10, <1>11, <1>12, Zenon

\* A part of the content that is added to the last part.
Added(v, y) == [v EXCEPT ![Len(v)].content = @ \o y]

IsAdded(v, k, y, z) ==
  /\ z \in Seq(Item) /\ Len(z) = k + 1 /\ \A i \in 1 .. k : z[i] = v[i]
  /\ z[k + 1].head = v[k + 1].head /\ z[k + 1].type = v[k + 1].type
  /\ z[k + 1].content = v[k + 1].content \o y

LEMMA AddedIs ==
  ASSUME NEW v \in Seq(Item), NEW k \in Nat, Len(v) = k + 1, NEW y \in Text
  PROVE  IsAdded(v, k, y, Added(v, y))
  <1>1. PICK a \in Item : a = v[k + 1]
    <2>1. k + 1 \in 1 .. Len(v)
      OBVIOUS
    <2> QED
      BY <2>1
  <1>2. PICK g \in Text : g = a.content \o y
    <2>1. a.content \in Text
      BY Zenon DEF Item
    <2> QED
      BY <2>1, Join, Zenon
  <1>3. PICK d : d = [a EXCEPT !.content = g]
    OBVIOUS
  <1>4. d \in Item /\ d.head = a.head /\ d.type = a.type /\ d.content = g
    BY <1>3 DEF Item
  <1>5. PICK z : z = [v EXCEPT ![k + 1] = d]
    OBVIOUS
  <1>6. z = Added(v, y)
    BY <1>1, <1>2, <1>3, <1>5, Zenon DEF Added
  <1>7. /\ z \in Seq(Item) /\ Len(z) = k + 1 /\ z[k + 1] = d
        /\ \A i \in 1 .. k : z[i] = v[i]
    BY <1>4, <1>5
  <1> QED
    BY <1>1, <1>2, <1>4, <1>6, <1>7, Zenon DEF IsAdded

\* What is left of a buffer when x has been taken from it.
IsCut(b, r, x, t) ==
  LET c == SubSeq(b, Len(x) + 1, Len(b))
  IN c \in Text /\ Len(c) = Len(b) - Len(x) /\ c \o r = t

LEMMA CutIs ==
  ASSUME NEW b \in Text, NEW r \in Text, NEW x \in Text, NEW t \in Text,
         b \o r = x \o t, Len(x) <= Len(b)
  PROVE  IsCut(b, r, x, t)
  BY Cut, Zenon DEF IsCut

MovesWith(p, z, s, c, q) ==
  LET g == [p EXCEPT !.parts = z, !.buf = c, !.state = s]
  IN q = [g EXCEPT !.busy = g.buf # <<>>]

LEMMA MovesWithIs ==
  ASSUME NEW p \in ParserType, NEW z \in Seq(Item), NEW s \in FormStates,
         NEW c \in Text, NEW q, MovesWith(p, z, s, c, q)
  PROVE  /\ q \in ParserType /\ q.state = s /\ q.buf = c /\ GoesOn(q)
         /\ q.valid = p.valid /\ q.refused = p.refused /\ q.parts = z
  <1>1. PICK g : /\ g = [p EXCEPT !.parts = z, !.buf = c, !.state = s]
                 /\ q = [g EXCEPT !.busy = g.buf # <<>>]
    BY Zenon DEF MovesWith
  <1>2. /\ g \in ParserType /\ g.state = s /\ g.buf = c /\ g.valid = p.valid
        /\ g.refused = p.refused /\ g.parts = z
    BY <1>1 DEF ParserType
  <1>3. /\ q \in ParserType /\ q.state = s /\ q.buf = c /\ q.valid = p.valid
        /\ q.refused = p.refused /\ q.parts = z
    BY <1>1, <1>2 DEF ParserType
  <1>4. q.busy = (q.buf # <<>>)
    BY <1>1, <1>2, <1>3 DEF ParserType
  <1>5. GoesOn(q)
    <2>1. CASE q.buf = <<>>
      <3>1. Len(q.buf) = 0
        BY <2>1
      <3> QED
        BY <3>1, Zenon DEF GoesOn
    <2>2. CASE q.buf # <<>>
      BY <1>4, <2>2, Zenon DEF GoesOn
    <2> QED
      BY <2>1, <2>2
  <1> QED
    BY <1>3, <1>5, Zenon

Keeps(p, z, c, q) == q = [p EXCEPT !.parts = z, !.buf = c, !.busy = FALSE]

LEMMA KeepsIs ==
  ASSUME NEW p \in ParserType, NEW z \in Seq(Item), NEW c \in Text, NEW q,
         Keeps(p, z, c, q)
  PROVE  /\ q \in ParserType /\ q.state = p.state /\ q.buf = c
         /\ q.valid = p.valid /\ q.refused = p.refused /\ q.parts = z
  BY DEF ParserType, Keeps

LEMMA SameItem ==
  ASSUME NEW a \in Item, NEW b \in Item, a.head = b.head, a.type = b.type,
         a.content = b.content
  PROVE  a = b
  BY DEF Item

\* A part of the content.
LEMMA BodyKept ==
  ASSUME NEW f, NEW n, NEW e, NEW U, FormGiven(f, n, e, U),
         FormHolds(f, n, U, parser, rest), Form!Body, rest' = rest
  PROVE  FormHolds(f, n, U, parser', rest')
  <1>1. PICK p, q, r : p = parser /\ q = parser' /\ r = rest /\ r = rest'
    OBVIOUS
  <1>2. p.busy /\ p.state = "body"
    BY <1>1, Zenon DEF Form!Body, Form!In
  <1>3. /\ p \in ParserType /\ r \in Text /\ p.busy = TRUE /\ p.refused = FALSE
        /\ Len(p.parts) <= MaxParts /\ Reads(f, n, U, p, p.buf \o r)
    BY <1>1, <1>2, BusyReads, Zenon
  <1>4. PICK b \in Text : b = p.buf
    BY <1>3, ParserFields, Zenon
  <1>5. PICK w : w = b \o r
    OBVIOUS
  <1>6. PICK k \in Nat, x \in Text : AtBody(f, n, U, p, w, k, x)
    BY <1>2, <1>3, <1>4, <1>5, ReadsByState, Zenon
  <1>7. PICK item \in Item, u \in Text : item = f[k + 1] /\ u = U[k + 2]
    <2>1. k + 1 <= n
      BY <1>6, Zenon DEF AtBody
    <2>2. BehindAt(f, n, e, U, k)
      BY BehindIs, Zenon
    <2> QED
      BY <2>1, <2>2, Zenon DEF BehindAt
  <1>8. PICK v \in Seq(Item) : v = p.parts /\ Len(v) = k + 1
    BY <1>3, <1>6, ParserFields, Zenon DEF AtBody
  <1>9. PICK d \in Text : /\ d = Delimiter /\ d = Form!crlf_dash_boundary
                          /\ Len(d) = 5
    BY Literals, FormLiterals, Zenon
  <1>10. w = x \o (d \o u) /\ Plain(x)
    BY <1>6, <1>7, <1>9, Zenon DEF AtBody
  <1>11. PICK l \in Nat, m \in Nat : l = Len(b) /\ m = Len(x)
    BY DEF Text
  <1>12. Searched(b, r, x, d, u)
    <2>1. First(w, d, Len(x))
      BY <1>9, <1>10, FirstBehindPlain, Zenon
    <2>2. Len(d) # 0
      BY <1>9
    <2>3. Searches(b, r, x, d, u, w)
      BY <1>5, <1>10, <2>1, <2>2, Zenon DEF Searches
    <2>4. r \in Text
      BY <1>3
    <2> QED
      BY <2>3, <2>4, SearchedIs, Zenon
  <1>13. PICK g \in Text : /\ g = v[k + 1].content /\ item.content = g \o x
                           /\ v[k + 1].head = item.head
                           /\ v[k + 1].type = item.type
    <2>1. k + 1 \in 1 .. Len(v)
      BY <1>8
    <2>2. v[k + 1] \in Item
      BY <2>1
    <2>3. v[k + 1].content \in Text
      BY <2>2, LinesAreText, Zenon DEF Item
    <2> QED
      BY <1>6, <1>7, <1>8, <2>3, Zenon DEF AtBody
  <1>14. \A i \in 1 .. k : v[i] = f[i]
    BY <1>6, <1>8, Zenon DEF AtBody, Came
  <1>15. k + 1 <= n /\ p.valid = FALSE
    BY <1>6, Zenon DEF AtBody
  <1>16. \A i : Form!WithContent(i) = Added(v, SubSeq(b, 1, i))
    BY <1>1, <1>4, <1>8, Zenon DEF Form!WithContent, Added
  <1>17. CASE 5 > l
    <2>1. Stops(p, q)
      BY <1>1, <1>4, <1>9, <1>11, <1>17, Zenon DEF Form!Body, Form!Waits, Stops
    <2>2. q \in ParserType /\ q.buf = p.buf /\ q.refused = p.refused
          /\ q.parts = p.parts
      BY <1>3, <2>1, StopsIs, Zenon
    <2>3. AtBody(f, n, U, q, w, k, x)
      BY <1>3, <1>6, <2>1, StopsAt, Zenon
    <2>4. l < m + 5
      BY <1>17
    <2>5. Wanting(q, Len(x) + 5)
      BY <1>4, <1>11, <2>2, <2>4, Zenon DEF Wanting
    <2>6. Reads(f, n, U, q, q.buf \o r)
      BY <1>4, <1>5, <2>2, <2>3, <2>5, Zenon DEF Reads
    <2>7. FormHolds(f, n, U, q, r)
      BY <1>3, <2>2, <2>6, Zenon DEF FormHolds
    <2> QED
      BY <1>1, <2>7, Zenon
  <1>18. CASE m + 5 <= l
    <2>1. PICK c : c = SubSeq(b, Len(x) + Len(d) + 1, Len(b))
      OBVIOUS
    <2>2. Len(x) + Len(d) <= Len(b)
      BY <1>9, <1>11, <1>18, Zenon
    <2>3. /\ FindIn(b, d) = Len(x) /\ FindIn(b, d) < Len(b)
          /\ c \in Text /\ c \o r = u /\ SubSeq(b, 1, Len(x)) = x
      BY <1>12, <2>1, <2>2, Zenon DEF Searched
    <2>4. PICK z : z = Added(v, x)
      OBVIOUS
    <2>5. /\ Form!Found(d) /\ c = Form!Without(Form!Find(d) + Len(d))
          /\ z = Form!WithContent(Form!Find(d))
      BY <1>1, <1>4, <1>16, <2>1, <2>3, <2>4, FindIs, Zenon
    <2>6. ~ (5 > l)
      BY <1>18
    <2>7. PICK s \in FormStates : s = "boundary"
      BY Zenon DEF FormStates
    <2>8. MovesWith(p, z, s, c, q)
      BY <1>1, <1>4, <1>9, <1>11, <2>5, <2>6, <2>7, Zenon
         DEF Form!Body, Form!GoOn, MovesWith
    <2>9. /\ z \in Seq(Item) /\ Len(z) = k + 1 /\ \A i \in 1 .. k : z[i] = v[i]
          /\ z[k + 1].head = v[k + 1].head /\ z[k + 1].type = v[k + 1].type
          /\ z[k + 1].content = v[k + 1].content \o x
      <3>1. IsAdded(v, k, x, Added(v, x))
        BY <1>8, AddedIs, Zenon
      <3> QED
        BY <2>4, <3>1, Zenon DEF IsAdded
    <2>10. /\ q \in ParserType /\ q.state = s /\ q.buf = c /\ GoesOn(q)
           /\ q.valid = p.valid /\ q.refused = p.refused /\ q.parts = z
      <3>1. p \in ParserType /\ z \in Seq(Item) /\ c \in Text
        BY <1>3, <2>3, <2>9, Zenon
      <3> QED
        BY <2>8, <3>1, MovesWithIs
    <2>11. z[k + 1] = item
      <3>1. k + 1 \in 1 .. Len(z)
        BY <2>9
      <3>2. z[k + 1] \in Item
        BY <2>9, <3>1
      <3> QED
        BY <1>13, <2>9, <3>2, SameItem, Zenon
    <2>12. Came(z, f, k + 1)
      <3>1. ASSUME NEW i \in 1 .. k + 1 PROVE z[i] = f[i]
        <4>1. CASE i = k + 1
          BY <1>7, <2>11, <4>1, Zenon
        <4>2. CASE i # k + 1
          <5>1. i \in 1 .. k
            BY <4>2
          <5> QED
            BY <1>14, <2>9, <5>1, Zenon
        <4> QED
          BY <4>1, <4>2
      <3> QED
        BY <3>1, Zenon DEF Came
    <2>13. k + 1 # 0 /\ k + 1 \in Nat /\ k + 1 + 1 = k + 2
      OBVIOUS
    <2>14. AtBoundary(f, n, U, q, u, k + 1)
      BY <1>7, <1>15, <2>7, <2>9, <2>10, <2>12, <2>13, Zenon DEF AtBoundary
    <2>15. Wanting(q, 2)
      <3>1. 0 < 2
        OBVIOUS
      <3> QED
        BY <2>10, <3>1, Zenon DEF GoesOn, Wanting
    <2>16. Reads(f, n, U, q, q.buf \o r)
      BY <2>3, <2>10, <2>13, <2>14, <2>15, Zenon DEF Reads
    <2>17. FormHolds(f, n, U, q, r)
      BY <1>3, <1>8, <2>9, <2>10, <2>16, Zenon DEF FormHolds
    <2> QED
      BY <1>1, <2>17, Zenon
  <1>19. CASE ~ (5 > l) /\ ~ (m + 5 <= l)
    <2>1. PICK i \in Nat, j \in Nat : i = l - 5 /\ i + 5 = l /\ i + j = m /\ j # 0
      <3>1. /\ l - 5 \in Nat /\ m - (l - 5) \in Nat /\ l - 5 + 5 = l
            /\ l - 5 + (m - (l - 5)) = m /\ m - (l - 5) # 0
        BY <1>19
      <3> QED
        BY <3>1
    <2>2. PICK x1 \in Text, x2 \in Text : Len(x1) = i /\ Len(x2) = j /\ x = x1 \o x2
      <3>1. PICK y1, y2 : y1 = SubSeq(x, 1, i) /\ y2 = SubSeq(x, i + 1, Len(x))
        OBVIOUS
      <3>2. i <= Len(x) /\ Len(x) - i = j
        BY <1>11, <2>1
      <3>3. /\ y1 \in Text /\ Len(y1) = i /\ y2 \in Text /\ Len(y2) = Len(x) - i
            /\ x = y1 \o y2
        BY <3>1, <3>2, Halves, Zenon
      <3> QED
        BY <3>2, <3>3, Zenon
    <2>3. PICK t \in Text : t = d \o u
      BY Join, Zenon
    <2>4. PICK y \in Text : y = x2 \o t
      BY Join, Zenon
    <2>5. b \o r = x1 \o y
      <3>1. Texts(x1, x2, t)
        BY Zenon DEF Texts
      <3>2. (x1 \o x2) \o t = x1 \o (x2 \o t)
        BY <3>1, AssocOf
      <3> QED
        BY <1>5, <1>10, <2>2, <2>3, <2>4, <3>2, Zenon
    <2>6. r \in Text /\ Len(x1) <= Len(b)
      <3>1. i <= l
        BY <2>1
      <3> QED
        BY <1>3, <1>11, <2>2, <3>1, Zenon
    <2>7. SubSeq(b, 1, i) = x1
      <3>1. SubSeq(b, 1, Len(x1)) = x1
        BY <2>5, <2>6, Front
      <3> QED
        BY <2>2, <3>1, Zenon
    <2>8. PICK c \in Text : /\ c = SubSeq(b, i + 1, Len(b)) /\ c \o r = y
                            /\ Len(c) = 5
      <3>1. PICK cc : cc = SubSeq(b, Len(x1) + 1, Len(b))
        OBVIOUS
      <3>2. cc \in Text /\ Len(cc) = Len(b) - Len(x1) /\ cc \o r = y
        <4>1. IsCut(b, r, x1, y)
          BY <2>5, <2>6, CutIs, Zenon
        <4> QED
          BY <3>1, <4>1, Zenon DEF IsCut
      <3>3. Len(b) - Len(x1) = 5
        BY <1>11, <2>1, <2>2
      <3> QED
        BY <2>2, <3>1, <3>2, <3>3, Zenon
    <2>9. PICK z : z = Added(v, x1)
      OBVIOUS
    <2>10. FindIn(b, d) = Len(b)
      <3>1. ~ (Len(x) + Len(d) <= Len(b))
        BY <1>9, <1>11, <1>19, Zenon
      <3> QED
        BY <1>12, <3>1, Zenon DEF Searched
    <2>11. ~ Form!Found(d) /\ c = Form!Without(i) /\ z = Form!WithContent(i)
      <3>1. ~ (Len(b) < Len(b))
        BY <1>11
      <3> QED
        BY <1>1, <1>4, <1>16, <2>7, <2>8, <2>9, <2>10, <3>1, FindIs, ZenonT(60)
    <2>12. i = Len(b) - Len(d)
      BY <1>9, <1>11, <2>1
    <2>13. Keeps(p, z, c, q)
      BY <1>1, <1>4, <1>9, <1>11, <1>19, <2>11, <2>12, Zenon DEF Form!Body, Keeps
    <2>14. /\ z \in Seq(Item) /\ Len(z) = k + 1 /\ \A a \in 1 .. k : z[a] = v[a]
           /\ z[k + 1].head = v[k + 1].head /\ z[k + 1].type = v[k + 1].type
           /\ z[k + 1].content = v[k + 1].content \o x1
      <3>1. IsAdded(v, k, x1, Added(v, x1))
        BY <1>8, AddedIs, Zenon
      <3> QED
        BY <2>9, <3>1, Zenon DEF IsAdded
    <2>15. /\ q \in ParserType /\ q.state = p.state /\ q.buf = c
           /\ q.valid = p.valid /\ q.refused = p.refused /\ q.parts = z
      <3>1. p \in ParserType /\ z \in Seq(Item)
        BY <1>3, <2>14, Zenon
      <3> QED
        BY <2>13, <3>1, KeepsIs
    <2>16. item.content = z[k + 1].content \o x2
      <3>1. Texts(g, x1, x2)
        BY Zenon DEF Texts
      <3>2. (g \o x1) \o x2 = g \o (x1 \o x2)
        BY <3>1, AssocOf
      <3> QED
        BY <1>13, <2>2, <2>14, <3>2, Zenon
    <2>17. Plain(x2)
      BY <1>10, <2>2, PlainRest, Zenon
    <2>18. Came(z, f, k)
      BY <1>14, <2>14, Zenon DEF Came
    <2>19. AtBody(f, n, U, q, y, k, x2)
      <3>1. y = x2 \o (Delimiter \o U[k + 2])
        BY <1>7, <1>9, <2>3, <2>4, Zenon
      <3>2. q.state = "body" /\ q.valid = FALSE
        BY <1>2, <1>15, <2>15, Zenon
      <3>3. z[k + 1].head = f[k + 1].head /\ z[k + 1].type = f[k + 1].type
            /\ f[k + 1].content = z[k + 1].content \o x2
        BY <1>7, <1>13, <2>14, <2>16, Zenon
      <3> QED
        BY <1>15, <2>14, <2>15, <2>17, <2>18, <3>1, <3>2, <3>3, Zenon DEF AtBody
    <2>20. Wanting(q, Len(x2) + 5)
      <3>1. 5 < j + 5
        BY <2>1
      <3> QED
        BY <2>2, <2>8, <2>15, <3>1, Zenon DEF Wanting
    <2>21. Reads(f, n, U, q, q.buf \o r)
      BY <2>8, <2>15, <2>19, <2>20, Zenon DEF Reads
    <2>22. FormHolds(f, n, U, q, r)
      BY <1>3, <1>8, <2>14, <2>15, <2>21, Zenon DEF FormHolds
    <2> QED
      BY <1>1, <2>22, Zenon
  <1> QED
    BY <1>17, <1>18, <1>19

LEMMA EmptyText ==
  ASSUME NEW a \in Text, Len(a) = 0
  PROVE  a = <<>>
  BY DEF Text

\* What is left of an epilogue.
Leftovers == {<<>>, <<"lf">>, CrLf}

IsLeft(c, r, e) == c \o r = e /\ (e = <<>> \/ e = CrLf)

LEMMA LeftoverIs ==
  ASSUME NEW c \in Text, NEW r \in Text, NEW e \in Text, IsLeft(c, r, e)
  PROVE  r \in Leftovers
  <1>1. PICK m \in Nat, n \in Nat : m = Len(c) /\ n = Len(r)
    BY DEF Text
  <1>2. Len(e) = m + n /\ \A i \in 1 .. n : e[m + i] = r[i]
    <2>1. PICK y : y = c \o r
      OBVIOUS
    <2>2. Len(y) = m + n /\ \A i \in 1 .. n : y[m + i] = r[i]
      BY <1>1, <2>1, Join
    <2> QED
      BY <2>1, <2>2, Zenon DEF IsLeft
  <1>3. CASE n = 0
    <2>1. r = <<>>
      BY <1>1, <1>3, EmptyText, Zenon
    <2> QED
      BY <2>1, Zenon DEF Leftovers
  <1>4. CASE n # 0
    <2>1. e = CrLf
      <3>1. Len(<<>>) = 0
        OBVIOUS
      <3>2. Len(e) # 0
        <4>1. Len(e) = m + n
          BY <1>2
        <4> QED
          BY <1>4, <4>1
      <3> QED
        BY <3>1, <3>2, Zenon DEF IsLeft
    <2>2. Len(e) = 2 /\ e[1] = "cr" /\ e[2] = "lf"
      BY <2>1, Literals, Zenon
    <2>3. CASE n = 1
      <3>1. m + 1 = 2 /\ 1 \in 1 .. n
        <4>1. Len(e) = m + n
          BY <1>2
        <4> QED
          BY <2>2, <2>3, <4>1
      <3>2. r[1] = "lf"
        <4>1. e[m + 1] = r[1]
          BY <1>2, <3>1
        <4> QED
          BY <2>2, <3>1, <4>1, Zenon
      <3>3. PICK s : s = <<"lf">>
        OBVIOUS
      <3>4. s \in Text /\ Len(s) = 1 /\ s[1] = "lf"
        BY <3>3, OneIsText, Symbols, Zenon
      <3>5. r = s
        <4>1. Len(r) = Len(s)
          BY <1>1, <2>3, <3>4
        <4>2. \A i \in 1 .. Len(r) : r[i] = s[i]
          BY <1>1, <2>3, <3>2, <3>4
        <4> QED
          BY <3>4, <4>1, <4>2, SameText
      <3> QED
        BY <3>3, <3>5, Zenon DEF Leftovers
    <2>4. CASE n # 1
      <3>1. n = 2 /\ m + 1 = 1 /\ m + 2 = 2 /\ 1 \in 1 .. n /\ 2 \in 1 .. n
        <4>1. Len(e) = m + n
          BY <1>2
        <4> QED
          BY <1>4, <2>2, <2>4, <4>1
      <3>2. r[1] = e[1] /\ r[2] = e[2]
        <4>1. e[m + 1] = r[1] /\ e[m + 2] = r[2]
          BY <1>2, <3>1
        <4> QED
          BY <3>1, <4>1, Zenon
      <3>3. r = e
        <4>1. Len(r) = Len(e)
          BY <1>1, <2>2, <3>1
        <4>2. \A i \in 1 .. Len(r) : r[i] = e[i]
          BY <1>1, <3>1, <3>2
        <4> QED
          BY <4>1, <4>2, SameText
      <3> QED
        BY <2>1, <3>3, Zenon DEF Leftovers
    <2> QED
      BY <2>3, <2>4
  <1> QED
    BY <1>3, <1>4

\* Two symbols that are taken from a buffer.
HasTwo(b, r, s, t) == Len(s) = 2 /\ b \o r = s \o t /\ ~ (Len(b) < 2)

TwoTaken(b, r, s, t) ==
  /\ SubSeq(b, 1, 2) = s
  /\ SubSeq(b, 3, Len(b)) \in Text /\ SubSeq(b, 3, Len(b)) \o r = t

LEMMA TwoAre ==
  ASSUME NEW b \in Text, NEW r \in Text, NEW s \in Text, NEW t \in Text,
         HasTwo(b, r, s, t)
  PROVE  TwoTaken(b, r, s, t)
  <1>1. Len(s) = 2 /\ Len(s) + 1 = 3
    <2>1. 2 + 1 = 3
      OBVIOUS
    <2> QED
      BY <2>1, Zenon DEF HasTwo
  <1>2. Len(s) <= Len(b)
    <2>1. PICK l \in Nat : l = Len(b)
      BY DEF Text
    <2>2. ~ (l < 2)
      BY <2>1, Zenon DEF HasTwo
    <2>3. 2 <= l
      BY <2>2
    <2> QED
      BY <1>1, <2>1, <2>3, Zenon
  <1>3. b \o r = s \o t
    BY Zenon DEF HasTwo
  <1>4. IsCut(b, r, s, t)
    BY <1>2, <1>3, CutIs, Zenon
  <1>5. SubSeq(b, 1, Len(s)) = s
    BY <1>2, <1>3, Front
  <1> QED
    BY <1>1, <1>4, <1>5, Zenon DEF IsCut, TwoTaken

Ends(p, q) ==
  LET g == [p EXCEPT !.buf = <<>>, !.valid = TRUE]
  IN q = [g EXCEPT !.busy = g.buf # <<>>]

LEMMA EndsIs ==
  ASSUME NEW p \in ParserType, NEW q, Ends(p, q)
  PROVE  /\ q \in ParserType /\ q.state = p.state /\ q.buf = <<>>
         /\ q.valid = TRUE /\ q.refused = p.refused /\ q.parts = p.parts
  <1>1. PICK t \in Text : t = <<>>
    BY Literals, NothingBefore, Zenon
  <1>2. PICK g : g = [p EXCEPT !.buf = t, !.valid = TRUE]
                 /\ q = [g EXCEPT !.busy = g.buf # t]
    BY <1>1, Zenon DEF Ends
  <1>3. /\ g \in ParserType /\ g.state = p.state /\ g.buf = t
        /\ g.valid = TRUE /\ g.refused = p.refused /\ g.parts = p.parts
    BY <1>2 DEF ParserType
  <1>4. /\ q \in ParserType /\ q.state = p.state /\ q.buf = t
        /\ q.valid = TRUE /\ q.refused = p.refused /\ q.parts = p.parts
    BY <1>2, <1>3 DEF ParserType
  <1> QED
    BY <1>1, <1>4, Zenon

\* What the parser does with the two symbols behind a delimiter.
AfterBoundary(p, q, b) ==
  LET two == SubSeq(b, 1, 2)
  IN /\ Len(b) < 2 => Stops(p, q)
     /\ ~ (Len(b) < 2) /\ two = CrLf =>
          \E s \in FormStates :
             s = "entry" /\ MovesTo(p, s, SubSeq(b, 3, Len(b)), q)
     /\ ~ (Len(b) < 2) /\ two = Dashes => Ends(p, q)

LEMMA CrLfNotDashes == CrLf # Dashes
  BY Literals, Zenon

LEMMA AfterBoundaryIs ==
  ASSUME parser \in ParserType, Form!Boundary, NEW b, b = parser.buf
  PROVE  parser.state = "boundary" /\ AfterBoundary(parser, parser', b)
  <1>1. PICK p, q : p = parser /\ q = parser'
    OBVIOUS
  <1>2. PICK two, c : two = SubSeq(b, 1, 2) /\ c = SubSeq(b, 3, Len(b))
    OBVIOUS
  <1>3. c = Form!Without(2)
    <2>1. 2 + 1 = 3
      OBVIOUS
    <2> QED
      BY <1>2, <2>1, FindIs, Zenon
  <1>4. PICK s \in FormStates : s = "entry"
    BY Zenon DEF FormStates
  <1>5. p.state = "boundary"
    BY <1>1, Zenon DEF Form!Boundary, Form!In
  <1>6. CASE Len(b) < 2
    <2>1. Stops(p, q)
      BY <1>1, <1>6, Zenon DEF Form!Boundary, Form!Waits, Stops
    <2> QED
      BY <1>1, <1>5, <1>6, <2>1, Zenon DEF AfterBoundary
  <1>7. CASE ~ (Len(b) < 2) /\ two = CrLf
    <2>1. MovesTo(p, s, c, q)
      BY <1>1, <1>2, <1>3, <1>4, <1>7, FormLiterals, CrLfNotDashes, Zenon
         DEF Form!Boundary, Form!GoOn, MovesTo
    <2> QED
      BY <1>1, <1>2, <1>4, <1>5, <1>7, <2>1, CrLfNotDashes, ZenonT(60) DEF AfterBoundary
  <1>8. CASE ~ (Len(b) < 2) /\ two = Dashes
    <2>1. Ends(p, q)
      BY <1>1, <1>2, <1>8, FormLiterals, CrLfNotDashes, Zenon
         DEF Form!Boundary, Form!GoOn, Ends
    <2> QED
      BY <1>1, <1>2, <1>5, <1>8, <2>1, CrLfNotDashes, Zenon DEF AfterBoundary
  <1>9. CASE ~ (Len(b) < 2) /\ two # CrLf /\ two # Dashes
    BY <1>1, <1>2, <1>5, <1>9, Zenon DEF AfterBoundary
  <1> QED
    BY <1>6, <1>7, <1>8, <1>9

\* A delimiter that another part follows, or the end.
LEMMA BoundaryKept ==
  ASSUME NEW f, NEW n, NEW e, NEW U, FormGiven(f, n, e, U),
         FormHolds(f, n, U, parser, rest), Form!Boundary, rest' = rest
  PROVE  FormHolds(f, n, U, parser', rest')
  <1>1. PICK p, q, r : p = parser /\ q = parser' /\ r = rest /\ r = rest'
    OBVIOUS
  <1>2. p.busy
    BY <1>1, Zenon DEF Form!Boundary, Form!In
  <1>3. /\ p \in ParserType /\ r \in Text /\ p.busy = TRUE /\ p.refused = FALSE
        /\ Len(p.parts) <= MaxParts /\ Reads(f, n, U, p, p.buf \o r)
    BY <1>1, <1>2, BusyReads, Zenon
  <1>4. PICK b \in Text : b = p.buf
    BY <1>3, ParserFields, Zenon
  <1>5. PICK w : w = b \o r
    OBVIOUS
  <1>6. p.state = "boundary" /\ AfterBoundary(p, q, b)
    BY <1>1, <1>3, <1>4, AfterBoundaryIs, Zenon
  <1>7. \/ \E k \in Nat : AtBoundary(f, n, U, p, w, k)
        \/ AtEnd(f, n, U, p, w)
    BY <1>3, <1>4, <1>5, <1>6, ReadsByState, Zenon
  <1>8. e \in Text /\ (e = <<>> \/ e = CrLf)
    BY Literals, NothingBefore, Zenon DEF FormGiven
  <1>9. CASE Len(b) < 2
    <2>1. Stops(p, q)
      BY <1>6, <1>9, Zenon DEF AfterBoundary
    <2>2. q \in ParserType /\ q.buf = p.buf /\ q.refused = p.refused
          /\ q.parts = p.parts
      BY <1>3, <2>1, StopsIs, Zenon
    <2>3. Wanting(q, 2)
      BY <1>4, <1>9, <2>2, Zenon DEF Wanting
    <2>4. \/ \E k \in Nat : AtBoundary(f, n, U, q, w, k)
          \/ AtEnd(f, n, U, q, w)
      BY <1>3, <1>7, <2>1, StopsAt, Zenon
    <2>5. Reads(f, n, U, q, q.buf \o r)
      BY <1>4, <1>5, <2>2, <2>3, <2>4, Zenon DEF Reads
    <2>6. FormHolds(f, n, U, q, r)
      BY <1>3, <2>2, <2>5, Zenon DEF FormHolds
    <2> QED
      BY <1>1, <2>6, Zenon
  <1>10. CASE ~ (Len(b) < 2) /\ \E k \in Nat : AtBoundary(f, n, U, p, w, k)
    <2>1. PICK k \in Nat : AtBoundary(f, n, U, p, w, k)
      BY <1>10
    <2>2. BehindAt(f, n, e, U, k)
      BY BehindIs, Zenon
    <2>3. /\ p.valid = FALSE /\ k # 0 /\ k = Len(p.parts) /\ k <= n
          /\ Came(p.parts, f, k) /\ w = U[k + 1]
      BY <2>1, Zenon DEF AtBoundary
    <2>4. CASE k + 1 <= n
      <3>1. PICK h \in Text : h = HeadLine(f[k + 1], U[k + 2]) /\ w = CrLf \o h
        BY <2>2, <2>3, <2>4, LinesAreText, Zenon DEF BehindAt
      <3>2. PICK c : c = SubSeq(b, 3, Len(b))
        OBVIOUS
      <3>3. SubSeq(b, 1, 2) = CrLf /\ c \in Text /\ c \o r = h
        <4>1. CrLf \in Text /\ Len(CrLf) = 2 /\ r \in Text /\ ~ (Len(b) < 2)
          BY <1>3, <1>10, Literals, Zenon
        <4>2. b \o r = CrLf \o h
          BY <1>5, <3>1, Zenon
        <4>3. HasTwo(b, r, CrLf, h)
          BY <4>1, <4>2, Zenon DEF HasTwo
        <4>4. TwoTaken(b, r, CrLf, h)
          BY <4>1, <4>3, TwoAre, Zenon
        <4> QED
          BY <3>2, <4>4, Zenon DEF TwoTaken
      <3>4. PICK s \in FormStates : s = "entry" /\ MovesTo(p, s, c, q)
        BY <1>6, <1>10, <3>2, <3>3, Zenon DEF AfterBoundary
      <3>5. /\ q \in ParserType /\ q.state = s /\ q.buf = c /\ GoesOn(q)
            /\ q.valid = p.valid /\ q.refused = p.refused /\ q.parts = p.parts
        <4>1. p \in ParserType /\ c \in Text /\ MovesTo(p, s, c, q)
          BY <1>3, <3>3, <3>4
        <4> QED
          BY <4>1, MovesToIs
      <3>6. PartNext(f, n, q, k)
        BY <2>3, <2>4, <3>5, Zenon DEF PartNext
      <3>7. AtEntry(f, n, U, q, h, k)
        BY <3>1, <3>4, <3>5, <3>6, Zenon DEF AtEntry
      <3>8. Wanting(q, 1)
        BY <3>5 DEF GoesOn, Wanting
      <3>9. Reads(f, n, U, q, q.buf \o r)
        BY <3>3, <3>5, <3>7, <3>8, Zenon DEF Reads
      <3>10. FormHolds(f, n, U, q, r)
        BY <1>3, <3>5, <3>9, Zenon DEF FormHolds
      <3> QED
        BY <1>1, <3>10, Zenon
    <2>5. CASE ~ (k + 1 <= n)
      <3>1. k = n
        <4>1. n \in Nat
          BY Zenon DEF FormGiven
        <4> QED
          BY <2>3, <2>5, <4>1
      <3>2. w = Dashes \o e
        BY <2>2, <2>3, <3>1, Zenon DEF BehindAt
      <3>3. PICK c : c = SubSeq(b, 3, Len(b))
        OBVIOUS
      <3>4. SubSeq(b, 1, 2) = Dashes /\ c \in Text /\ c \o r = e
        <4>1. Dashes \in Text /\ Len(Dashes) = 2 /\ r \in Text /\ ~ (Len(b) < 2)
          BY <1>3, <1>10, Literals, Zenon
        <4>2. b \o r = Dashes \o e
          BY <1>5, <3>2, Zenon
        <4>3. HasTwo(b, r, Dashes, e)
          BY <4>1, <4>2, Zenon DEF HasTwo
        <4>4. TwoTaken(b, r, Dashes, e)
          BY <1>8, <4>1, <4>3, TwoAre, Zenon
        <4> QED
          BY <3>3, <4>4, Zenon DEF TwoTaken
      <3>5. r \in Leftovers
        <4>1. r \in Text /\ c \in Text
          BY <1>3, <3>4
        <4> QED
          BY <1>8, <3>4, <4>1, LeftoverIs, Zenon DEF IsLeft
      <3>6. Ends(p, q)
        BY <1>6, <1>10, <3>4, Zenon DEF AfterBoundary
      <3>7. /\ q \in ParserType /\ q.state = p.state /\ q.buf = <<>>
            /\ q.valid = TRUE /\ q.refused = p.refused /\ q.parts = p.parts
        BY <1>3, <3>6, EndsIs, Zenon
      <3>8. q.buf \o r = r
        BY <1>3, <3>7, NothingBefore, Zenon
      <3>9. AtEnd(f, n, U, q, r)
        BY <1>6, <2>3, <3>1, <3>5, <3>7, Zenon DEF AtEnd, Leftovers
      <3>10. Reads(f, n, U, q, q.buf \o r)
        BY <3>8, <3>9, Zenon DEF Reads
      <3>11. FormHolds(f, n, U, q, r)
        BY <1>3, <3>7, <3>10, Zenon DEF FormHolds
      <3> QED
        BY <1>1, <3>11, Zenon
    <2> QED
      BY <2>4, <2>5
  <1>11. CASE ~ (Len(b) < 2) /\ AtEnd(f, n, U, p, w)
    <2>1. p.valid = TRUE /\ Len(p.parts) = n /\ Came(p.parts, f, n) /\ w \in Leftovers
      BY <1>11, Zenon DEF AtEnd, Leftovers
    <2>2. r \in Text
      BY <1>3
    <2>3. PICK i \in Nat, j \in Nat : i = Len(b) /\ j = Len(r)
      BY <2>2 DEF Text
    <2>4. Len(w) = i + j
      BY <1>5, <2>2, <2>3, Join
    <2>5. w = CrLf /\ i = 2 /\ j = 0
      <3>1. ~ (i < 2)
        BY <1>11, <2>3
      <3>2. w # <<>>
        <4>1. Len(<<>>) = 0
          OBVIOUS
        <4>2. Len(w) # 0
          BY <2>4, <3>1
        <4> QED
          BY <4>1, <4>2, Zenon
      <3>3. w # <<"lf">>
        <4>1. Len(<<"lf">>) = 1
          OBVIOUS
        <4>2. Len(w) # 1
          BY <2>4, <3>1
        <4> QED
          BY <4>1, <4>2, Zenon
      <3>4. w = CrLf
        BY <2>1, <3>2, <3>3, Zenon DEF Leftovers
      <3>5. Len(w) = 2
        BY <3>4, Literals, Zenon
      <3> QED
        BY <2>4, <3>1, <3>4, <3>5
    <2>6. r = <<>>
      BY <2>2, <2>3, <2>5, EmptyText, Zenon
    <2>7. PICK c : c = SubSeq(b, 3, Len(b))
      OBVIOUS
    <2>8. SubSeq(b, 1, 2) = CrLf /\ c = <<>>
      <3>1. PICK t \in Text : t = <<>>
        BY <2>2, NothingBefore, Zenon
      <3>2. CrLf \o t = CrLf
        BY <3>1, Literals DEF Text
      <3>3. b \o r = CrLf \o t
        BY <1>5, <2>5, <3>2, Zenon
      <3>4. CrLf \in Text /\ Len(CrLf) = 2 /\ ~ (Len(b) < 2)
        BY <1>11, Literals, Zenon
      <3>5. TwoTaken(b, r, CrLf, t)
        BY <2>2, <3>3, <3>4, TwoAre, Zenon DEF HasTwo
      <3>6. c \in Text /\ c \o r = t /\ SubSeq(b, 1, 2) = CrLf
        BY <2>7, <3>5, Zenon DEF TwoTaken
      <3>7. c \o r = <<>>
        BY <3>1, <3>6, Zenon
      <3>8. Len(c \o r) = Len(c) + Len(r)
        BY <2>2, <3>6, Join, Zenon
      <3>9. Len(c) = 0
        <4>1. PICK a \in Nat : a = Len(c)
          BY <3>6 DEF Text
        <4>2. a + 0 = Len(<<>>)
          BY <2>3, <2>5, <3>7, <3>8, <4>1, Zenon
        <4> QED
          BY <4>1, <4>2
      <3>10. c = <<>>
        BY <3>6, <3>9, EmptyText, Zenon
      <3> QED
        BY <3>6, <3>10
    <2>9. PICK s \in FormStates : s = "entry" /\ MovesTo(p, s, c, q)
      BY <1>6, <1>11, <2>7, <2>8, Zenon DEF AfterBoundary
    <2>10. /\ q \in ParserType /\ q.state = s /\ q.buf = c
           /\ q.valid = p.valid /\ q.refused = p.refused /\ q.parts = p.parts
      <3>1. p \in ParserType /\ c \in Text /\ MovesTo(p, s, c, q)
        BY <1>3, <2>2, <2>6, <2>8, <2>9, Zenon
      <3> QED
        BY <3>1, MovesToIs
    <2>11. q.busy = FALSE
      <3>1. PICK g : /\ g = [p EXCEPT !.state = s, !.buf = c]
                     /\ q = [g EXCEPT !.busy = g.buf # <<>>]
        BY <2>9, Zenon DEF MovesTo
      <3>2. p \in ParserType
        BY <1>3
      <3>3. g.buf = c /\ q.busy = (g.buf # <<>>)
        BY <3>1, <3>2 DEF ParserType
      <3>4. g.buf = <<>>
        BY <2>8, <3>3, Zenon
      <3>5. q.busy \in BOOLEAN
        BY <2>10, ParserFields, Zenon
      <3> QED
        BY <3>3, <3>4, <3>5
    <2>12. q.buf \o r = <<>>
      BY <2>2, <2>6, <2>8, <2>10, NothingBefore, Zenon
    <2>13. AtEnd(f, n, U, q, <<>>)
      BY <2>1, <2>9, <2>10, <2>11, Zenon DEF AtEnd
    <2>14. Reads(f, n, U, q, q.buf \o r)
      BY <2>12, <2>13, Zenon DEF Reads
    <2>15. FormHolds(f, n, U, q, r)
      BY <1>3, <2>10, <2>14, Zenon DEF FormHolds
    <2> QED
      BY <1>1, <2>15, Zenon
  <1> QED
    BY <1>7, <1>9, <1>10, <1>11

\* How much is still to be read, in every place but the last one.
LEMMA JoinedIsLong ==
  ASSUME NEW a \in Text, NEW b \in Text, NEW c \in Text, NEW k \in Nat,
         Len(a) + Len(b) = k
  PROVE  k <= Len(a \o (b \o c))
  <1>1. PICK d \in Text : d = b \o c /\ Len(d) = Len(b) + Len(c)
    BY Join, Zenon
  <1>2. Len(a \o d) = Len(a) + Len(d)
    BY Join, Zenon
  <1>3. PICK i \in Nat, j \in Nat, l \in Nat : i = Len(a) /\ j = Len(b) /\ l = Len(c)
    BY DEF Text
  <1>4. Len(a \o d) = i + (j + l) /\ i + j = k
    BY <1>1, <1>2, <1>3, Zenon
  <1>5. k <= Len(a \o d)
    BY <1>4
  <1> QED
    BY <1>1, <1>5, Zenon

\* What a line takes.
LongLines(item, u) ==
  /\ 1 <= Len(HeadLine(item, u)) /\ 3 <= Len(HeadLine(item, u))
  /\ 3 <= Len(<<"content-type">> \o (CrLf \o EmptyLine(item, u)))
  /\ 2 <= Len(EmptyLine(item, u))
  /\ 2 <= Len(CrLf \o HeadLine(item, u))
  /\ 5 <= Len(Opening \o (CrLf \o HeadLine(item, u)))

LEMMA LinesAreLong ==
  ASSUME NEW item \in Item, NEW u \in Text
  PROVE  LongLines(item, u)
  <1>1. PICK h \in Text, y \in Text : /\ h = <<item.head>> /\ Len(h) = 1
                                      /\ y = <<"content-type">> /\ Len(y) = 1
    <2>1. Len(<<item.head>>) = 1 /\ Len(<<"content-type">>) = 1
      OBVIOUS
    <2> QED
      BY <2>1, LinesAreText, Zenon
  <1>2. PICK C \in Text, O \in Text : /\ C = CrLf /\ Len(C) = 2
                                      /\ O = Opening /\ Len(O) = 3
    BY Literals, Zenon
  <1>3. PICK t \in Text, a \in Text, k \in Text :
          t = TypeLine(item, u) /\ a = EmptyLine(item, u) /\ k = ContentAnd(item, u)
    BY LinesAreText, Zenon
  <1>4. PICK z \in Text : z = <<>> /\ Len(z) = 0
    <2>1. Len(<<>>) = 0
      OBVIOUS
    <2> QED
      BY <1>1, <2>1, NothingBefore, Zenon
  <1>5. PICK l \in Text : l = HeadLine(item, u) /\ l = h \o (C \o t)
    BY <1>1, <1>2, <1>3, LinesAreText, Zenon DEF HeadLine
  <1>6. 3 <= Len(h \o (C \o t)) /\ 3 <= Len(y \o (C \o a))
    <2>1. Len(h) + Len(C) = 3 /\ Len(y) + Len(C) = 3
      BY <1>1, <1>2
    <2>2. 3 <= Len(h \o (C \o t))
      BY <2>1, JoinedIsLong
    <2>3. 3 <= Len(y \o (C \o a))
      BY <2>1, JoinedIsLong
    <2> QED
      BY <2>2, <2>3
  <1>7. 2 <= Len(C \o (z \o k)) /\ 2 <= Len(C \o (z \o l))
    <2>1. Len(C) + Len(z) = 2
      BY <1>2, <1>4
    <2>2. 2 <= Len(C \o (z \o k))
      BY <2>1, JoinedIsLong
    <2>3. 2 <= Len(C \o (z \o l))
      BY <2>1, JoinedIsLong
    <2> QED
      BY <2>2, <2>3
  <1>8. z \o k = k /\ z \o l = l
    BY <1>4, NothingBefore, Zenon
  <1>9. 5 <= Len(O \o (C \o l))
    <2>1. Len(O) + Len(C) = 5
      BY <1>2
    <2> QED
      BY <2>1, JoinedIsLong
  <1>10. 1 <= Len(l)
    <2>1. 3 <= Len(l)
      BY <1>5, <1>6, Zenon
    <2>2. Len(l) \in Nat
      BY DEF Text
    <2> QED
      BY <2>1, <2>2
  <1> QED
    BY <1>1, <1>2, <1>3, <1>5, <1>6, <1>7, <1>8, <1>9, <1>10, Zenon
       DEF LongLines, EmptyLine

\* A parser that has been given everything does not wait where there is enough.
LEMMA NotWaiting ==
  ASSUME NEW p, p.buf \in Text, p.busy = FALSE, NEW k \in Nat, k <= Len(p.buf)
  PROVE  ~ Wanting(p, k)
  <1>1. ~ (Len(p.buf) < k)
    <2>1. PICK b \in Text : b = p.buf
      OBVIOUS
    <2>2. PICK l \in Nat : l = Len(b)
      BY DEF Text
    <2> QED
      BY <2>1, <2>2
  <1> QED
    BY <1>1, Zenon DEF Wanting

\* When everything has been parsed, the end has been reached.
LEMMA ParsedIsAtEnd ==
  ASSUME NEW f, NEW n, NEW e, NEW U, FormGiven(f, n, e, U), NEW p,
         p \in ParserType, p.busy = FALSE, NEW w, w = p.buf, Reads(f, n, U, p, w)
  PROVE  AtEnd(f, n, U, p, w)
  <1>1. w \in Text
    BY ParserFields, Zenon
  <1>2. \A k \in Nat : k <= Len(w) => ~ Wanting(p, k)
    BY <1>1, NotWaiting, Zenon
  <1>3. 1 \in Nat /\ 2 \in Nat /\ 3 \in Nat /\ 5 \in Nat
    OBVIOUS
  <1>4. ASSUME NEW k \in Nat, k + 1 <= n
        PROVE  LongLines(f[k + 1], U[k + 2])
    <2>1. BehindAt(f, n, e, U, k)
      BY BehindIs, Zenon
    <2> QED
      BY <1>4, <2>1, LinesAreLong, Zenon DEF BehindAt
  <1>5. ASSUME AtStart(f, n, U, p, w) PROVE ~ Wanting(p, 5)
    <2>1. PICK k \in Nat : k = 0 /\ k + 1 = 1 /\ k + 1 <= n
      <3>1. 0 \in Nat /\ 0 + 1 = 1
        OBVIOUS
      <3>2. 0 + 1 <= n
        BY DEF FormGiven
      <3> QED
        BY <3>1, <3>2, Zenon
    <2>2. U[1] = CrLf \o HeadLine(f[k + 1], U[k + 2])
      <3>1. BehindAt(f, n, e, U, k)
        BY BehindIs, Zenon
      <3> QED
        BY <2>1, <3>1, Zenon DEF BehindAt
    <2>3. w = Opening \o (CrLf \o HeadLine(f[k + 1], U[k + 2]))
      BY <1>5, <2>2, Zenon DEF AtStart
    <2>4. 5 <= Len(w)
      BY <1>4, <2>1, <2>3, Zenon DEF LongLines
    <2> QED
      BY <1>2, <1>3, <2>4, Zenon
  <1>6. ASSUME NEW k \in Nat, AtEntry(f, n, U, p, w, k) PROVE ~ Wanting(p, 1)
    BY <1>2, <1>3, <1>4, <1>6, Zenon DEF AtEntry, PartNext, LongLines
  <1>7. ASSUME NEW k \in Nat, AtHead(f, n, U, p, w, k) PROVE ~ Wanting(p, 3)
    BY <1>2, <1>3, <1>4, <1>7, Zenon DEF AtHead, PartNext, LongLines
  <1>8. ASSUME NEW k \in Nat, AtType(f, n, U, p, w, k) PROVE ~ Wanting(p, 3)
    BY <1>2, <1>3, <1>4, <1>8, Zenon DEF AtType, PartNext, LongLines
  <1>9. ASSUME NEW k \in Nat, AtEmpty(f, n, U, p, w, k) PROVE ~ Wanting(p, 2)
    BY <1>2, <1>3, <1>4, <1>9, Zenon DEF AtEmpty, PartNext, LongLines
  <1>10. ASSUME NEW k \in Nat, NEW x \in Text, AtBody(f, n, U, p, w, k, x)
         PROVE  ~ Wanting(p, Len(x) + 5)
    <2>1. PICK u \in Text : u = U[k + 2]
      <3>1. k + 1 <= n
        BY <1>10, Zenon DEF AtBody
      <3>2. BehindAt(f, n, e, U, k)
        BY BehindIs, Zenon
      <3> QED
        BY <3>1, <3>2, Zenon DEF BehindAt
    <2>2. PICK d \in Text : d = Delimiter /\ Len(d) = 5
      BY Literals, Zenon
    <2>3. w = x \o (d \o u)
      BY <1>10, <2>1, <2>2, Zenon DEF AtBody
    <2>4. PICK l \in Nat : l = Len(x) + 5 /\ Len(x) + Len(d) = l
      <3>1. Len(x) + 5 \in Nat /\ Len(x) + Len(d) = Len(x) + 5
        BY <2>2 DEF Text
      <3> QED
        BY <3>1
    <2>5. l <= Len(w)
      <3>1. l <= Len(x \o (d \o u))
        BY <2>4, JoinedIsLong, Zenon
      <3> QED
        BY <2>3, <3>1, Zenon
    <2> QED
      BY <1>2, <2>4, <2>5, Zenon
  <1>11. ASSUME NEW k \in Nat, AtBoundary(f, n, U, p, w, k) PROVE ~ Wanting(p, 2)
    <2>1. k <= n /\ w = U[k + 1] /\ n \in Nat
      BY <1>11, Zenon DEF AtBoundary, FormGiven
    <2>2. BehindAt(f, n, e, U, k)
      BY BehindIs, Zenon
    <2>3. CASE k + 1 <= n
      <3>1. w = CrLf \o HeadLine(f[k + 1], U[k + 2])
        BY <2>1, <2>2, <2>3, Zenon DEF BehindAt
      <3>2. 2 <= Len(w)
        BY <1>4, <2>3, <3>1, Zenon DEF LongLines
      <3> QED
        BY <1>2, <1>3, <3>2, Zenon
    <2>4. CASE ~ (k + 1 <= n)
      <3>1. k = n
        BY <2>1, <2>4
      <3>2. PICK d \in Text, t \in Text : /\ d = Dashes /\ Len(d) = 2 /\ t = e
                                          /\ w = d \o t
        BY <2>1, <2>2, <3>1, Literals, Zenon DEF BehindAt
      <3>3. Len(w) = Len(d) + Len(t)
        <4>1. Len(d \o t) = Len(d) + Len(t)
          BY Join, Zenon
        <4> QED
          BY <3>2, <4>1, Zenon
      <3>4. PICK l \in Nat : l = Len(t)
        BY DEF Text
      <3>5. Len(w) = 2 + l
        BY <3>2, <3>3, <3>4, Zenon
      <3>6. 2 <= Len(w)
        BY <3>5
      <3> QED
        BY <1>2, <1>3, <3>6, Zenon
    <2> QED
      BY <2>3, <2>4
  <1> QED
    BY <1>5, <1>6, <1>7, <1>8, <1>9, <1>10, <1>11, Zenon DEF Reads

\* The form is valid only at its end.
LEMMA ValidAtEnd ==
  ASSUME NEW f, NEW n, NEW U, NEW p, NEW w, Reads(f, n, U, p, w), p.valid = TRUE
  PROVE  AtEnd(f, n, U, p, w)
  <1>1. ~ AtStart(f, n, U, p, w)
    BY Zenon DEF AtStart
  <1>2. \A k : ~ PartNext(f, n, p, k)
    BY Zenon DEF PartNext
  <1>3. \A k : /\ ~ AtEntry(f, n, U, p, w, k) /\ ~ AtHead(f, n, U, p, w, k)
               /\ ~ AtType(f, n, U, p, w, k) /\ ~ AtEmpty(f, n, U, p, w, k)
    BY <1>2, Zenon DEF AtEntry, AtHead, AtType, AtEmpty
  <1>4. \A k, x : ~ AtBody(f, n, U, p, w, k, x)
    BY Zenon DEF AtBody
  <1>5. \A k : ~ AtBoundary(f, n, U, p, w, k)
    BY Zenon DEF AtBoundary
  <1> QED
    BY <1>1, <1>3, <1>4, <1>5, Zenon DEF Reads

-----------------------------------------------------------------------------
\* The inductive invariant.
FormInv ==
  subject = "form" =>
    \E n, e, U : FormGiven(items, n, e, U) /\ FormHolds(items, n, U, parser, rest)

\* What is assumed of the forms.
LEMMA FormsAre ==
  ASSUME NEW f \in Forms
  PROVE  /\ f \in Seq(Item) /\ f # <<>>
         /\ \A i \in 1 .. Len(f) : Plain(f[i].content)
  <1>1. PICK A : A = [head : {"field", "file"}, type : BOOLEAN, content : Seq(STRING)]
    OBVIOUS
  <1>2. f \in Seq(A) /\ f # <<>>
    BY <1>1, FormsAssumption, Zenon
  <1>3. Seq(STRING) \subseteq Text
    <2>1. PICK Z : Z = STRING
      OBVIOUS
    <2>2. Z \subseteq Symbol
      BY <2>1, Zenon DEF Symbol
    <2>3. Seq(Z) \subseteq Seq(Symbol)
      BY <2>2
    <2> QED
      BY <2>1, <2>3, Zenon DEF Text
  <1>4. A \subseteq Item
    <2>1. PICK Z : Z = Seq(STRING)
      OBVIOUS
    <2>2. A = [head : {"field", "file"}, type : BOOLEAN, content : Z]
      BY <1>1, <2>1, Zenon
    <2>3. Z \subseteq Text
      BY <1>3, <2>1, Zenon
    <2> QED
      BY <2>2, <2>3 DEF Item
  <1>5. f \in Seq(Item)
    BY <1>2, <1>4
  <1>6. ASSUME NEW i \in 1 .. Len(f) PROVE Plain(f[i].content)
    <2>1. PICK c \in Text : c = f[i].content
      <3>1. f[i] \in Item
        BY <1>5
      <3> QED
        BY <3>1, LinesAreText, Zenon DEF Item
    <2>2. PICK d \in Text : d = Delimiter /\ Len(d) = 5
      BY Literals, Zenon
    <2>3. i \in DOMAIN f
      BY <1>2
    <2>4. \A j \in 0 .. Len(c) - 5 : SubSeq(c, j + 1, j + 5) # d
      BY <2>1, <2>2, <2>3, FormsAssumption, Zenon DEF Delimiter
    <2>5. ASSUME NEW j \in Nat, At(c, d, j) PROVE FALSE
      <3>1. j + Len(d) <= Len(c)
        BY <2>5, Zenon DEF At
      <3>2. SubSeq(c, j + 1, j + Len(d)) = d
        BY <2>5, <3>1, AtIsSubSeq, Zenon
      <3>3. j \in 0 .. Len(c) - 5
        <4>1. PICK l \in Nat : l = Len(c)
          BY DEF Text
        <4>2. j + 5 <= l
          BY <2>2, <3>1, <4>1, Zenon
        <4>3. j \in 0 .. l - 5
          BY <4>2
        <4> QED
          BY <4>1, <4>3, Zenon
      <3> QED
        BY <2>2, <2>4, <3>2, <3>3, Zenon
    <2> QED
      BY <2>1, <2>2, <2>5, Zenon DEF Plain
  <1> QED
    BY <1>2, <1>5, <1>6, Zenon

Begins(p) ==
  p = [state |-> "initial", buf |-> <<>>, busy |-> FALSE, valid |-> FALSE,
       refused |-> FALSE, parts |-> <<>>, head |-> "", type |-> FALSE]

LEMMA ParserBegins ==
  ASSUME NEW p, Begins(p)
  PROVE  /\ p \in ParserType /\ p.state = "initial" /\ p.buf = <<>>
         /\ p.valid = FALSE /\ p.refused = FALSE
         /\ Len(p.parts) = 0 /\ Len(p.buf) = 0
  <1>1. PICK h, s : h = "" /\ s = "initial" /\ h \in {"", "field", "file"}
                    /\ s \in FormStates
    BY Zenon DEF FormStates
  <1>2. p = [state |-> s, buf |-> <<>>, busy |-> FALSE,
             valid |-> FALSE, refused |-> FALSE, parts |-> <<>>,
             head |-> h, type |-> FALSE]
    BY <1>1, Zenon DEF Begins
  <1>3. /\ p.state = s /\ p.buf = <<>> /\ p.busy = FALSE
        /\ p.valid = FALSE /\ p.refused = FALSE
        /\ p.parts = <<>> /\ p.head = h /\ p.type = FALSE
    BY <1>2
  <1>4. <<>> \in Text /\ <<>> \in Seq(Item)
    <2>1. <<>> \in Text
      BY DEF Text
    <2>2. <<>> \in Seq(Item)
      OBVIOUS
    <2> QED
      BY <2>1, <2>2, Zenon
  <1>5. p \in ParserType
    <2>1. PICK b, z : b = <<>> /\ b \in Text /\ z = <<>> /\ z \in Seq(Item)
      BY <1>4, Zenon
    <2>2. p = [state |-> s, buf |-> b, busy |-> FALSE,
               valid |-> FALSE, refused |-> FALSE, parts |-> z,
               head |-> h, type |-> FALSE]
      BY <1>2, <2>1, Zenon
    <2> QED
      BY <1>1, <2>1, <2>2 DEF ParserType
  <1>6. Len(<<>>) = 0
    OBVIOUS
  <1> QED
    BY <1>1, <1>3, <1>5, <1>6, Zenon

LEMMA FormBegins == MessageInit => FormInv
  <1> SUFFICES ASSUME MessageInit, subject = "form"
               PROVE  \E n, e, U : /\ FormGiven(items, n, e, U)
                                   /\ FormHolds(items, n, U, parser, rest)
    BY Zenon DEF FormInv
  <1>1. PICK f \in Forms : f = items
    BY Zenon DEF MessageInit, Form!FormInit
  <1>2. PICK e \in Epilogues : rest = Form!Serialized(f) \o e
    BY <1>1, Zenon DEF MessageInit, Form!FormInit
  <1>3. e \in Text /\ (e = <<>> \/ e = CrLf)
    BY <1>2, FormsAssumption, Literals, NothingBefore, Zenon DEF CrLf
  <1>4. PICK p : p = parser /\ Begins(p)
    BY Zenon DEF MessageInit, Form!FormInit, Begins
  <1>5. PICK n \in Nat : Len(f) = n /\ n # 0
    <2>1. f \in Seq(Item) /\ f # <<>>
      BY <1>1, FormsAre, Zenon
    <2> QED
      BY <2>1
  <1>6. f \in Seq(Item) /\ \A i \in 1 .. n : Plain(f[i].content)
    BY <1>1, <1>5, FormsAre, Zenon
  <1>7. PICK m : From(m, f, n, 1) /\ Form!Serialized(f) = m[1]
    BY <1>5, SerializedFrom, Zenon
  <1>8. PICK U : Behind(U, f, n, e) /\ m[1] \o e = Opening \o U[1]
    <2>1. f \in Seq(Item) /\ Len(f) = n /\ e \in Text /\ From(m, f, n, 1)
      BY <1>3, <1>5, <1>6, <1>7, Zenon
    <2>2. HasBehind(f, n, e, m)
      BY <2>1, BehindExists, Zenon
    <2> QED
      BY <2>2, Zenon DEF HasBehind
  <1>9. FormGiven(f, n, e, U)
    BY <1>3, <1>5, <1>6, <1>8, Zenon DEF FormGiven
  <1>10. PICK r \in Text : r = rest /\ r = Opening \o U[1]
    <2>1. 1 \in 1 .. n + 1
      BY <1>5
    <2>2. U[1] \in Text
      BY <1>8, <2>1, Zenon DEF Behind
    <2>3. Opening \o U[1] \in Text
      BY <2>2, Literals, Join, Zenon
    <2> QED
      BY <1>2, <1>7, <1>8, <2>3, Zenon
  <1>11. /\ p \in ParserType /\ p.state = "initial" /\ p.buf = <<>>
         /\ p.valid = FALSE /\ p.refused = FALSE
         /\ Len(p.parts) = 0 /\ Len(p.buf) = 0
    BY <1>4, ParserBegins, Zenon
  <1>12. p.buf \o r = r
    BY <1>11, NothingBefore, Zenon
  <1>13. AtStart(f, n, U, p, r)
    BY <1>10, <1>11, Zenon DEF AtStart
  <1>14. Wanting(p, 5)
    <2>1. 0 < 5
      OBVIOUS
    <2> QED
      BY <1>11, <2>1, Zenon DEF Wanting
  <1>15. Reads(f, n, U, p, p.buf \o r)
    BY <1>12, <1>13, <1>14, Zenon DEF Reads
  <1>16. Len(p.parts) <= MaxParts
    <2>1. MaxParts \in Nat
      BY MessageAssumption
    <2>2. 0 <= MaxParts
      BY <2>1
    <2> QED
      BY <1>11, <2>2, Zenon
  <1>17. FormHolds(f, n, U, p, r)
    BY <1>11, <1>15, <1>16, Zenon DEF FormHolds
  <1> QED
    BY <1>1, <1>4, <1>9, <1>10, <1>17, Zenon

\* Every step of the parser keeps what is known of it.
LEMMA FormStepKept ==
  ASSUME NEW f, NEW n, NEW e, NEW U, FormGiven(f, n, e, U),
         FormHolds(f, n, U, parser, rest), Form!FormNext
  PROVE  FormHolds(f, n, U, parser', rest')
  <1>1. CASE Form!Feed
    BY <1>1, FeedKept, Zenon
  <1>2. CASE Form!InitialBoundary /\ rest' = rest
    BY <1>2, InitialKept, Zenon
  <1>3. CASE Form!NewEntry /\ rest' = rest
    BY <1>3, EntryKept, Zenon
  <1>4. CASE Form!Headers /\ rest' = rest
    BY <1>4, HeadersKept, Zenon
  <1>5. CASE Form!Body /\ rest' = rest
    BY <1>5, BodyKept, Zenon
  <1>6. CASE Form!Boundary /\ rest' = rest
    BY <1>6, BoundaryKept, Zenon
  <1> QED
    BY <1>1, <1>2, <1>3, <1>4, <1>5, <1>6, Zenon DEF Form!FormNext

LEMMA FormKept ==
  ASSUME FormInv, [MessageNext]_messageVars PROVE FormInv'
  <1>1. CASE FormStep
    <2>1. subject = "form" /\ Form!FormNext /\ items' = items /\ subject' = subject
      BY <1>1, Zenon DEF FormStep, Form!FormStep
    <2>2. PICK n, e, U : FormGiven(items, n, e, U)
                         /\ FormHolds(items, n, U, parser, rest)
      BY <2>1, Zenon DEF FormInv
    <2>3. FormHolds(items, n, U, parser', rest')
      BY <2>1, <2>2, FormStepKept, Zenon
    <2>4. FormGiven(items', n, e, U) /\ FormHolds(items', n, U, parser', rest')
      BY <2>1, <2>2, <2>3, Zenon
    <2> QED
      BY <2>4, Zenon DEF FormInv
  <1>2. CASE UNCHANGED <<subject, items, rest, parser>>
    BY <1>2, Zenon DEF FormInv
  <1>3. CASE ContentStep \/ RangesStep \/ TargetStep
    BY <1>2, <1>3 DEF ContentStep, RangesStep, TargetStep, formVars
  <1>4. CASE RoutingStep \/ EventsStep
    BY <1>2, <1>4 DEF RoutingStep, EventsStep, formVars
  <1>5. CASE UNCHANGED messageVars
    BY <1>2, <1>5 DEF messageVars, formVars
  <1> QED
    BY <1>1, <1>2, <1>3, <1>4, <1>5 DEF MessageNext

LEMMA FormIsAsSent == FormInv => FormAsSent
  <1> SUFFICES ASSUME FormInv, subject = "form" PROVE Form!FormAsSent
    BY Zenon DEF FormAsSent
  <1>1. PICK f, p, r : f = items /\ p = parser /\ r = rest
    OBVIOUS
  <1>2. PICK n, e, U : FormGiven(f, n, e, U) /\ FormHolds(f, n, U, p, r)
    BY <1>1, Zenon DEF FormInv
  <1>3. n \in Nat /\ f \in Seq(Item) /\ Len(f) = n
    BY <1>2, Zenon DEF FormGiven
  <1>4. p \in ParserType /\ r \in Text
    BY <1>2, Zenon DEF FormHolds
  <1>5. PICK v \in Seq(Item) : v = p.parts
    BY <1>4, ParserFields, Zenon
  <1>6. CASE p.refused = TRUE
    <2>1. n > MaxParts /\ p.valid = FALSE
      BY <1>2, <1>6, Zenon DEF FormHolds
    <2> QED
      BY <1>1, <1>3, <1>6, <2>1, Zenon DEF Form!FormAsSent
  <1>7. CASE p.refused = FALSE
    <2>1. Len(v) <= MaxParts /\ Reads(f, n, U, p, p.buf \o r)
      BY <1>2, <1>5, <1>7, Zenon DEF FormHolds
    <2>2. ASSUME n > MaxParts PROVE ~ p.valid
      <3>1. SUFFICES ASSUME p.valid PROVE FALSE
        OBVIOUS
      <3>2. p.valid = TRUE
        <4>1. p.valid \in BOOLEAN
          BY <1>4, ParserFields, Zenon
        <4> QED
          BY <3>1, <4>1, Zenon
      <3>3. Len(v) = n
        BY <1>5, <2>1, <3>2, ValidAtEnd, Zenon DEF AtEnd
      <3>4. MaxParts \in Nat
        BY MessageAssumption
      <3> QED
        BY <1>3, <2>1, <2>2, <3>3, <3>4
    <2>3. ASSUME r = <<>>, ~ p.busy
          PROVE  p.valid /\ v = f
      <3>1. PICK b \in Text : b = p.buf
        BY <1>4, ParserFields, Zenon
      <3>2. b \o r = b
        BY <2>3, <3>1 DEF Text
      <3>3. p.busy = FALSE
        <4>1. p.busy \in BOOLEAN
          BY <1>4, ParserFields, Zenon
        <4> QED
          BY <2>3, <4>1, Zenon
      <3>4. AtEnd(f, n, U, p, b)
        BY <1>2, <1>4, <2>1, <3>1, <3>2, <3>3, ParsedIsAtEnd, Zenon
      <3>5. p.valid /\ Len(v) = n /\ Came(v, f, n)
        BY <1>5, <3>4, Zenon DEF AtEnd
      <3>6. v = f
        <4>1. \A i \in 1 .. n : v[i] = f[i]
          BY <3>5, Zenon DEF Came
        <4>2. Len(v) = n
          BY <3>5
        <4> QED
          BY <1>3, <4>1, <4>2
      <3> QED
        BY <3>5, <3>6
    <2> QED
      BY <1>1, <1>3, <1>5, <1>7, <2>2, <2>3, Zenon DEF Form!FormAsSent, Form!Parsed
  <1>8. p.refused \in BOOLEAN
    BY <1>4, ParserFields, Zenon
  <1> QED
    BY <1>6, <1>7, <1>8, Zenon

\* However a form is cut into pieces, its parts are read in their order and with
\* their contents, and it is refused exactly when it has too many parts.
THEOREM FormAsSentCorrect == MessageSpec => []FormAsSent
  BY FormBegins, FormKept, FormIsAsSent, PTL DEF MessageSpec

=============================================================================
