----------------------------- MODULE UartProofs -----------------------------
(***************************************************************************)
(* Proofs about UartConsole, for every size of the rings, the queues, the  *)
(* line and the history, and whatever is received: no event for a received *)
(* byte is lost, the characters that the console accepted go to the wire   *)
(* in order, and the lines that are submitted are the ones that were typed.*)
(***************************************************************************)
EXTENDS UartConsole, NumberProofs

-----------------------------------------------------------------------------
(* The inductive invariant *)

Line == {l \in Seq(Bytes) : Len(l) <= LineMax}
Hist == {h \in Seq(Line) : Len(h) <= HistMax}
Shell ==
  [line : Line, hist : Hist, nav : Nat, scratch : Line, esc : 0 .. 2,
   eol : {"NONE", "AFTER_CR", "AFTER_CRCR"}]

\* The lengths of the messages that the line editor hands to the console
Out == Seq(Nat \ {0})

ShellOK(sh) == sh \in Shell /\ sh.nav <= Len(sh.hist)

\* While the rest of an end of line is expected the line is empty
EolOK(sh) == sh.eol # "NONE" => sh.line = <<>>

-----------------------------------------------------------------------------
(* The line editor *)

\* A new state of the escape sequence or of the end of the line, a new line
WithEol(sh, e) == [sh EXCEPT !.eol = e]
WithEsc(sh, e) == [sh EXCEPT !.esc = e]
WithLine(sh, l) == [sh EXCEPT !.line = l]

\* What is edited stays within the line's buffer
LEMMA LineFacts ==
  /\ <<>> \in Line
  /\ \A l \in Line : l \in Seq(Bytes) /\ Len(l) \in 0 .. LineMax /\ (l # <<>> => Len(l) \in Nat \ {0})
  /\ \A l \in Line, c \in Bytes : Len(l) < LineMax => Append(l, c) \in Line
  /\ \A l \in Line : l # <<>> => Front(l) \in Line
<1>1. LineMax \in Nat
  BY ShellAssumption
<1>2. <<>> \in Line
  BY <1>1 DEF Line
<1>3. ASSUME NEW l \in Line
      PROVE  l \in Seq(Bytes) /\ Len(l) \in 0 .. LineMax /\ (l # <<>> => Len(l) \in Nat \ {0})
  BY <1>1 DEF Line
<1>4. ASSUME NEW l \in Line, NEW c \in Bytes, Len(l) < LineMax PROVE Append(l, c) \in Line
  BY <1>1, <1>4 DEF Line
<1>5. ASSUME NEW l \in Line, l # <<>> PROVE Front(l) \in Line
  BY <1>1, <1>5 DEF Line, Front
<1> QED BY <1>2, <1>3, <1>4, <1>5

\* The history has lines
LEMMA HistFacts ==
  \A h \in Hist : Len(h) \in Nat /\ \A i \in 1 .. Len(h) : h[i] \in Line
BY DEF Hist

\* The flags of the line editor leave line and history alone
LEMMA ShellFlags ==
  ASSUME NEW sh, ShellOK(sh)
  PROVE  /\ \A e \in {"NONE", "AFTER_CR", "AFTER_CRCR"} :
              ShellOK(WithEol(sh, e)) /\ WithEol(sh, e).eol = e
         /\ \A e \in 0 .. 2 : /\ ShellOK(WithEsc(sh, e)) /\ WithEsc(sh, e).esc = e
                              /\ WithEsc(sh, e).eol = sh.eol
         /\ \A l \in Line : ShellOK(WithLine(sh, l)) /\ WithLine(sh, l).eol = sh.eol
BY DEF ShellOK, Shell, WithEol, WithEsc, WithLine

\* The history keeps lines and its bound
LEMMA HistoryPush ==
  ASSUME NEW hist \in Hist, NEW line \in Line
  PROVE  shell_history_push(hist, line) \in Hist
<1> DEFINE n == IF Len(hist) < HistMax THEN Len(hist) + 1 ELSE HistMax
<1>1. <<line>> \o hist \in Seq(Line) /\ Len(<<line>> \o hist) = Len(hist) + 1
  BY DEF Hist
<1>2. n \in Nat /\ n <= Len(hist) + 1 /\ n <= HistMax
  BY ShellAssumption DEF Hist
<1> HIDE DEF n
<1>3. SubSeq(<<line>> \o hist, 1, n) \in Seq(Line) /\ Len(SubSeq(<<line>> \o hist, 1, n)) = n
  BY <1>1, <1>2
<1>4. SubSeq(<<line>> \o hist, 1, n) \in Hist
  BY <1>2, <1>3 DEF Hist
<1> QED BY <1>4 DEF shell_history_push, n

\* The result of a byte that submits nothing and leaves the line's end alone
StaysIn(r, e) == ShellOK(r.sh) /\ r.sh.eol = e /\ r.out \in Out /\ r.submit = FALSE

\* What a redrawn line prints
LEMMA RedrawKeeps ==
  ASSUME NEW sh, ShellOK(sh), NEW line \in Line
  PROVE  StaysIn(shell_redraw_line(sh, line), sh.eol)
<1> DEFINE row == <<1, PromptLen>> \o (IF line = <<>> THEN <<>> ELSE <<Len(line)>>)
           pad == [i \in 1 .. Len(sh.line) - Len(line) |-> 1]
           r == shell_redraw_line(sh, line)
<1>1. r.sh = WithLine(sh, line) /\ r.submit = FALSE
  BY DEF shell_redraw_line, WithLine
<1>2. r.out = IF pad = <<>> THEN row ELSE row \o pad \o row
  BY DEF shell_redraw_line
<1>3. row \in Out
  <2>1. <<1, PromptLen>> \in Out
    BY ShellAssumption DEF Out
  <2>2. (IF line = <<>> THEN <<>> ELSE <<Len(line)>>) \in Out
    <3>1. CASE line = <<>>
      BY <3>1 DEF Out
    <3>2. CASE line # <<>>
      <4>1. PICK n \in Nat \ {0} : n = Len(line)
        BY <3>2, LineFacts
      <4> QED BY <3>2, <4>1 DEF Out
    <3> QED BY <3>1, <3>2
  <2> QED BY <2>1, <2>2 DEF Out
<1>4. pad \in Out
  <2>1. PICK n \in Int : n = Len(sh.line) - Len(line)
    <3>1. sh.line \in Line
      BY DEF ShellOK, Shell
    <3>2. Len(sh.line) \in Int /\ Len(line) \in Int
      BY <3>1, LineFacts, ShellAssumption
    <3> QED BY <3>2
  <2>2. CASE n < 0
    <3>1. 1 .. n = 1 .. 0
      BY <2>2
    <3> QED BY <2>1, <3>1 DEF Out
  <2>3. CASE n >= 0
    BY <2>1, <2>3 DEF Out
  <2> QED BY <2>1, <2>2, <2>3
<1> HIDE DEF row, pad
<1>5. r.out \in Out
  BY <1>2, <1>3, <1>4 DEF Out
<1> HIDE DEF r
<1>6. ShellOK(r.sh) /\ r.sh.eol = sh.eol
  BY <1>1, ShellFlags
<1> QED BY <1>1, <1>5, <1>6 DEF r, StaysIn

\* A byte without an effect on the screen
LEMMA QuietKeeps ==
  ASSUME NEW sh, ShellOK(sh)
  PROVE  StaysIn(Quiet(sh), sh.eol)
BY DEF StaysIn, Quiet, Out

\* shell_history_up stays in the history
LEMMA HistoryUp ==
  ASSUME NEW sh, ShellOK(sh)
  PROVE  StaysIn(shell_history_up(sh), sh.eol)
<1>1. /\ sh \in Shell /\ sh.nav \in Nat /\ sh.hist \in Hist /\ sh.nav <= Len(sh.hist)
      /\ sh.line \in Line /\ Len(sh.hist) \in Nat
  BY HistFacts DEF ShellOK, Shell
<1>2. CASE sh.hist = <<>>
  <2>1. shell_history_up(sh) = Quiet(sh)
    BY <1>2 DEF shell_history_up
  <2> QED BY <2>1, QuietKeeps
<1>3. CASE sh.hist # <<>>
  <2> DEFINE new == IF sh.nav = 0 THEN [sh EXCEPT !.nav = 1, !.scratch = sh.line]
                    ELSE IF sh.nav < Len(sh.hist) THEN [sh EXCEPT !.nav = @ + 1]
                    ELSE sh
  <2>1. new \in Shell /\ new.nav \in 1 .. Len(sh.hist) /\ new.hist = sh.hist /\ new.eol = sh.eol
    <3>1. CASE sh.nav = 0
      <4>1. Len(sh.hist) >= 1
        BY <1>1, <1>3 DEF Hist
      <4>2. new = [sh EXCEPT !.nav = 1, !.scratch = sh.line]
        BY <3>1
      <4>3. /\ [sh EXCEPT !.nav = 1, !.scratch = sh.line] \in Shell
            /\ [sh EXCEPT !.nav = 1, !.scratch = sh.line].nav = 1
            /\ [sh EXCEPT !.nav = 1, !.scratch = sh.line].hist = sh.hist
            /\ [sh EXCEPT !.nav = 1, !.scratch = sh.line].eol = sh.eol
        BY <1>1 DEF Shell
      <4> HIDE DEF new
      <4> QED BY <1>1, <4>1, <4>2, <4>3
    <3>2. CASE sh.nav # 0 /\ sh.nav < Len(sh.hist)
      BY <1>1, <1>3, <3>2 DEF Shell
    <3>3. CASE sh.nav # 0 /\ ~(sh.nav < Len(sh.hist))
      BY <1>1, <1>3, <3>3 DEF Shell
    <3> QED BY <3>1, <3>2, <3>3
  <2>2. shell_history_up(sh) = shell_redraw_line(new, sh.hist[new.nav])
    BY <1>3 DEF shell_history_up
  <2> HIDE DEF new
  <2>3. sh.hist[new.nav] \in Line
    BY <1>1, <2>1, HistFacts
  <2>4. ShellOK(new)
    BY <2>1 DEF ShellOK
  <2> QED BY <2>1, <2>2, <2>3, <2>4, RedrawKeeps
<1> QED BY <1>2, <1>3

\* shell_history_down stays in the history
LEMMA HistoryDown ==
  ASSUME NEW sh, ShellOK(sh)
  PROVE  StaysIn(shell_history_down(sh), sh.eol)
<1>1. /\ sh \in Shell /\ sh.nav \in Nat /\ sh.hist \in Hist /\ sh.nav <= Len(sh.hist)
      /\ sh.scratch \in Line /\ Len(sh.hist) \in Nat
  BY HistFacts DEF ShellOK, Shell
<1>2. CASE sh.nav = 0
  <2>1. shell_history_down(sh) = Quiet(sh)
    BY <1>2 DEF shell_history_down
  <2> QED BY <2>1, QuietKeeps
<1>3. CASE sh.nav # 0
  <2> DEFINE new == [sh EXCEPT !.nav = @ - 1]
             text == IF sh.nav = 1 THEN sh.scratch ELSE sh.hist[new.nav]
  <2>1. new \in Shell /\ new.nav = sh.nav - 1 /\ new.hist = sh.hist /\ new.eol = sh.eol
    BY <1>1, <1>3 DEF Shell
  <2>2. shell_history_down(sh) = shell_redraw_line(new, text)
    <3>1. CASE sh.nav = 1
      BY <3>1 DEF shell_history_down
    <3>2. CASE sh.nav # 1
      <4>1. sh.nav > 1
        BY <1>1, <1>3, <3>2
      <4> QED BY <1>3, <3>2, <4>1 DEF shell_history_down
    <3> QED BY <3>1, <3>2
  <2> HIDE DEF new
  <2>3. text \in Line
    <3>1. sh.nav # 1 => new.nav \in 1 .. Len(sh.hist)
      BY <1>1, <1>3, <2>1
    <3> QED BY <1>1, <3>1, HistFacts
  <2> HIDE DEF text
  <2>4. ShellOK(new)
    BY <1>1, <2>1 DEF ShellOK
  <2> QED BY <2>1, <2>2, <2>3, <2>4, RedrawKeeps
<1> QED BY <1>2, <1>3

\* shell_submit_line empties the line
LEMMA SubmitIs ==
  ASSUME NEW sh, ShellOK(sh)
  PROVE  LET r == shell_submit_line(sh)
         IN  /\ ShellOK(r.sh) /\ r.out \in Out /\ r.submit = TRUE
             /\ r.sh.line = <<>> /\ r.sh.nav = 0 /\ r.sh.esc = sh.esc
<1> DEFINE hist == shell_history_push(sh.hist, sh.line)
           r == shell_submit_line(sh)
<1>1. sh \in Shell /\ sh.hist \in Hist /\ sh.line \in Line
  BY DEF ShellOK, Shell
<1>2. hist \in Hist /\ <<>> \in Line /\ Len(hist) \in Nat
  BY <1>1, HistoryPush, LineFacts, HistFacts
<1>3. /\ r.sh = [sh EXCEPT !.hist = hist, !.nav = 0, !.scratch = <<>>, !.line = <<>>]
      /\ r.out = <<1>> /\ r.submit = TRUE
  BY DEF shell_submit_line
<1> HIDE DEF r, hist
<1>4. r.sh \in Shell /\ r.sh.hist = hist /\ r.sh.line = <<>> /\ r.sh.nav = 0 /\ r.sh.esc = sh.esc
  <2> DEFINE x == [sh EXCEPT !.hist = hist, !.nav = 0, !.scratch = <<>>, !.line = <<>>]
  <2>1. x \in Shell
    BY <1>1, <1>2 DEF Shell
  <2>2. x.hist = hist /\ x.line = <<>> /\ x.nav = 0 /\ x.esc = sh.esc
    BY <1>1 DEF Shell
  <2> HIDE DEF x
  <2> QED BY <1>3, <2>1, <2>2 DEF x
<1>5. ShellOK(r.sh)
  BY <1>2, <1>4 DEF ShellOK
<1>6. <<1>> \in Out
  BY DEF Out
<1> QED BY <1>3, <1>4, <1>5, <1>6 DEF r

\* The line after a byte is edited into it
Edited(line, c) ==
  IF c = "BS" THEN (IF line = <<>> THEN line ELSE Front(line))
  ELSE IF Len(line) < LineMax THEN Append(line, c) ELSE line

\* shell_edit changes the line and nothing else
LEMMA EditIs ==
  ASSUME NEW sh, ShellOK(sh), NEW c \in Bytes
  PROVE  /\ StaysIn(shell_edit(sh, c), sh.eol)
         /\ shell_edit(sh, c).sh = WithLine(sh, Edited(sh.line, c))
<1>1. sh \in Shell /\ sh.line \in Line
  BY DEF ShellOK, Shell
<1>2. Edited(sh.line, c) \in Line
  BY <1>1, LineFacts DEF Edited
<1>3. ShellOK(WithLine(sh, Edited(sh.line, c))) /\ WithLine(sh, Edited(sh.line, c)).eol = sh.eol
  BY <1>2, ShellFlags
<1>4. <<>> \in Out /\ <<1>> \in Out /\ <<1, 1, 1>> \in Out
  BY DEF Out
<1>5. WithLine(sh, sh.line) = sh
  BY <1>1 DEF WithLine, Shell
<1>6. CASE c = "BS" /\ sh.line = <<>>
  <2>1. shell_edit(sh, c) = Quiet(sh)
    BY <1>6 DEF shell_edit
  <2>2. Edited(sh.line, c) = sh.line
    BY <1>6 DEF Edited
  <2> QED BY <1>3, <1>4, <1>5, <2>1, <2>2 DEF Quiet, StaysIn
<1>7. CASE c = "BS" /\ sh.line # <<>>
  <2>1. Edited(sh.line, c) = Front(sh.line)
    BY <1>7 DEF Edited
  <2>2. shell_edit(sh, c) = [Quiet(WithLine(sh, Front(sh.line))) EXCEPT !.out = <<1, 1, 1>>]
    BY <1>7, Zenon DEF shell_edit, WithLine
  <2>3. /\ shell_edit(sh, c).sh = WithLine(sh, Front(sh.line))
        /\ shell_edit(sh, c).out = <<1, 1, 1>> /\ shell_edit(sh, c).submit = FALSE
    BY <2>2 DEF Quiet
  <2> QED BY <1>3, <1>4, <2>1, <2>3 DEF StaysIn
<1>8. CASE c # "BS"
  <2>1. Edited(sh.line, c) = IF Len(sh.line) < LineMax THEN Append(sh.line, c) ELSE sh.line
    BY <1>8 DEF Edited
  <2>2. shell_edit(sh, c) = [Quiet(WithLine(sh, Edited(sh.line, c))) EXCEPT !.out = <<1>>]
    BY <1>8, <2>1, Zenon DEF shell_edit, WithLine
  <2>3. /\ shell_edit(sh, c).sh = WithLine(sh, Edited(sh.line, c))
        /\ shell_edit(sh, c).out = <<1>> /\ shell_edit(sh, c).submit = FALSE
    BY <2>2 DEF Quiet
  <2> QED BY <1>3, <1>4, <2>3 DEF StaysIn
<1> QED BY <1>6, <1>7, <1>8

\* What any byte keeps
TickOK(t) == ShellOK(t.sh) /\ EolOK(t.sh) /\ t.out \in Out /\ t.submit \in BOOLEAN

\* Outside an escape sequence shell_tick does one of these
LEMMA TickCases ==
  ASSUME NEW sh, NEW c
  PROVE  LET s == WithEol(sh, "NONE")
         IN  /\ Swallowed(sh, c) =>
                  shell_tick(sh, c) = Quiet(WithEol(sh, IF c = "CR" THEN "AFTER_CRCR" ELSE "NONE"))
             /\ ~Swallowed(sh, c) /\ sh.esc = 1 =>
                  shell_tick(sh, c) = Quiet(WithEsc(s, IF c = "[" THEN 2 ELSE 0))
             /\ ~Swallowed(sh, c) /\ sh.esc = 2 =>
                  shell_tick(sh, c) = CASE c = "A" -> shell_history_up(WithEsc(s, 0))
                                        [] c = "B" -> shell_history_down(WithEsc(s, 0))
                                        [] OTHER -> Quiet(WithEsc(s, 0))
             /\ ~Swallowed(sh, c) /\ sh.esc = 0 =>
                  shell_tick(sh, c) = CASE c = "ESC" -> Quiet(WithEsc(s, 1))
                                        [] c = "CR" -> shell_submit_line(WithEol(s, "AFTER_CR"))
                                        [] c = "LF" -> shell_submit_line(s)
                                        [] OTHER -> shell_edit(s, c)
<1> DEFINE s == WithEol(sh, "NONE")
<1>1. Swallowed(sh, c) =>
        shell_tick(sh, c) = Quiet(WithEol(sh, IF c = "CR" THEN "AFTER_CRCR" ELSE "NONE"))
  BY DEF shell_tick, WithEol
<1>2. ~Swallowed(sh, c) /\ sh.esc = 1 =>
        shell_tick(sh, c) = Quiet(WithEsc(s, IF c = "[" THEN 2 ELSE 0))
  BY DEF shell_tick, WithEol, WithEsc
<1>3. ASSUME ~Swallowed(sh, c), sh.esc = 2
      PROVE  shell_tick(sh, c) = CASE c = "A" -> shell_history_up(WithEsc(s, 0))
                                   [] c = "B" -> shell_history_down(WithEsc(s, 0))
                                   [] OTHER -> Quiet(WithEsc(s, 0))
  <2>1. sh.esc # 1 /\ sh.esc # 0
    BY <1>3
  <2> QED BY <1>3, <2>1, Zenon DEF shell_tick, WithEol, WithEsc
<1>4. ASSUME ~Swallowed(sh, c), sh.esc = 0
      PROVE  shell_tick(sh, c) = CASE c = "ESC" -> Quiet(WithEsc(s, 1))
                                   [] c = "CR" -> shell_submit_line(WithEol(s, "AFTER_CR"))
                                   [] c = "LF" -> shell_submit_line(s)
                                   [] OTHER -> shell_edit(s, c)
  <2>1. sh.esc # 1 /\ sh.esc # 2
    BY <1>4
  <2> QED BY <1>4, <2>1, Zenon DEF shell_tick, WithEol, WithEsc
<1> QED BY <1>1, <1>2, <1>3, <1>4, Zenon

\* Staying where the end of a line is not under way is fine
LEMMA StaysTick ==
  ASSUME NEW r, StaysIn(r, "NONE") PROVE TickOK(r)
BY DEF StaysIn, TickOK, EolOK

\* A byte keeps line, history and the place in the history in bounds
LEMMA ShellTick ==
  ASSUME NEW sh, ShellOK(sh), EolOK(sh), NEW c \in Bytes
  PROVE  TickOK(shell_tick(sh, c))
<1> DEFINE s == WithEol(sh, "NONE")
<1>1. ShellOK(s) /\ s.eol = "NONE"
  BY ShellFlags
<1>2. sh.esc \in 0 .. 2 /\ sh.eol \in {"NONE", "AFTER_CR", "AFTER_CRCR"}
  BY DEF ShellOK, Shell
<1> HIDE DEF s
<1>3. CASE Swallowed(sh, c)
  <2> DEFINE e == IF c = "CR" THEN "AFTER_CRCR" ELSE "NONE"
  <2>1. shell_tick(sh, c) = Quiet(WithEol(sh, e))
    BY <1>3, TickCases
  <2>2. ShellOK(WithEol(sh, e)) /\ WithEol(sh, e).line = sh.line
    BY ShellFlags DEF WithEol, ShellOK, Shell
  <2>3. sh.line = <<>>
    BY <1>3 DEF Swallowed, EolOK
  <2>4. EolOK(WithEol(sh, e))
    BY <2>2, <2>3 DEF EolOK
  <2> HIDE DEF e
  <2> QED BY <2>1, <2>2, <2>4 DEF Quiet, TickOK, Out
<1>4. CASE ~Swallowed(sh, c) /\ sh.esc = 1
  <2> DEFINE x == WithEsc(s, IF c = "[" THEN 2 ELSE 0)
  <2>1. shell_tick(sh, c) = Quiet(x)
    BY <1>4, TickCases DEF s
  <2>2. ShellOK(x) /\ x.eol = "NONE"
    BY <1>1, ShellFlags
  <2> HIDE DEF x
  <2> QED BY <2>1, <2>2, QuietKeeps, StaysTick
<1>5. CASE ~Swallowed(sh, c) /\ sh.esc = 2
  <2> DEFINE t == WithEsc(s, 0)
  <2>1. ShellOK(t) /\ t.eol = "NONE"
    BY <1>1, ShellFlags
  <2>2. shell_tick(sh, c) = CASE c = "A" -> shell_history_up(t)
                              [] c = "B" -> shell_history_down(t)
                              [] OTHER -> Quiet(t)
    BY <1>5, TickCases, Zenon DEF s
  <2> HIDE DEF t
  <2>3. CASE c = "A"
    BY <2>1, <2>2, <2>3, HistoryUp, StaysTick
  <2>4. CASE c = "B"
    BY <2>1, <2>2, <2>4, HistoryDown, StaysTick
  <2>5. CASE c # "A" /\ c # "B"
    <3>1. shell_tick(sh, c) = Quiet(t)
      BY <2>2, <2>5, Zenon
    <3> QED BY <2>1, <3>1, QuietKeeps, StaysTick
  <2> QED BY <2>3, <2>4, <2>5
<1>6. CASE ~Swallowed(sh, c) /\ sh.esc = 0
  <2>1. shell_tick(sh, c) = CASE c = "ESC" -> Quiet(WithEsc(s, 1))
                              [] c = "CR" -> shell_submit_line(WithEol(s, "AFTER_CR"))
                              [] c = "LF" -> shell_submit_line(s)
                              [] OTHER -> shell_edit(s, c)
    BY <1>6, TickCases, Zenon DEF s
  <2>2. ShellOK(WithEsc(s, 1)) /\ WithEsc(s, 1).eol = "NONE" /\ ShellOK(WithEol(s, "AFTER_CR"))
    BY <1>1, ShellFlags
  <2>3. CASE c = "ESC"
    <3>1. shell_tick(sh, c) = Quiet(WithEsc(s, 1))
      BY <2>1, <2>3
    <3> QED BY <2>2, <3>1, QuietKeeps, StaysTick
  <2>4. CASE c = "CR"
    <3>1. shell_tick(sh, c) = shell_submit_line(WithEol(s, "AFTER_CR"))
      BY <2>1, <2>4
    <3> QED BY <2>2, <3>1, SubmitIs DEF TickOK, EolOK
  <2>5. CASE c = "LF"
    <3>1. shell_tick(sh, c) = shell_submit_line(s)
      BY <2>1, <2>5
    <3> QED BY <1>1, <3>1, SubmitIs DEF TickOK, EolOK
  <2>6. CASE c \notin {"ESC", "CR", "LF"}
    <3>1. shell_tick(sh, c) = shell_edit(s, c)
      BY <2>1, <2>6
    <3> QED BY <1>1, <3>1, EditIs, StaysTick
  <2> QED BY <2>3, <2>4, <2>5, <2>6
<1> QED BY <1>2, <1>3, <1>4, <1>5, <1>6

\* Outside the history and without escape sequences shell_tick does to the line
\* what LinesOf says: an end of line is acted on once
LEMMA PlainTick ==
  ASSUME NEW sh, ShellOK(sh), EolOK(sh), sh.esc = 0, sh.nav = 0,
         NEW c \in Bytes, c # "ESC", NEW all
  PROVE  LET t == shell_tick(sh, c)
         IN  /\ t.sh.esc = 0 /\ t.sh.nav = 0
             /\ NextByte([line |-> sh.line, all |-> all], c)
                  = [line |-> t.sh.line,
                     all |-> IF t.submit /\ sh.line # <<>> THEN Append(all, sh.line) ELSE all]
<1> DEFINE s == WithEol(sh, "NONE")
           t == shell_tick(sh, c)
           a == [line |-> sh.line, all |-> all]
           b == [line |-> t.sh.line,
                 all |-> IF t.submit /\ sh.line # <<>> THEN Append(all, sh.line) ELSE all]
<1>1. /\ sh \in Shell /\ ShellOK(s) /\ s.eol = "NONE" /\ s.line = sh.line
      /\ s.esc = 0 /\ s.nav = 0 /\ sh.line \in Line
  BY ShellFlags DEF ShellOK, Shell, WithEol
<1>2. a.line = sh.line /\ a.all = all
  OBVIOUS
<1>3. CASE Swallowed(sh, c)
  <2> DEFINE e == IF c = "CR" THEN "AFTER_CRCR" ELSE "NONE"
  <2>1. t = Quiet(WithEol(sh, e))
    BY <1>3, TickCases
  <2>2. WithEol(sh, e).esc = 0 /\ WithEol(sh, e).nav = 0 /\ WithEol(sh, e).line = sh.line
    BY <1>1 DEF WithEol, Shell
  <2>3. sh.line = <<>> /\ c \in {"CR", "LF"}
    BY <1>3 DEF Swallowed, EolOK
  <2>4. t.sh = WithEol(sh, e) /\ t.submit = FALSE
    BY <2>1 DEF Quiet
  <2> HIDE DEF e, t
  <2>5. NextByte(a, c) = [line |-> <<>>, all |-> all]
    BY <1>2, <2>3 DEF NextByte
  <2> QED BY <2>2, <2>3, <2>4, <2>5 DEF t
<1>4. CASE ~Swallowed(sh, c)
  <2>1. t = CASE c = "ESC" -> Quiet(WithEsc(s, 1))
              [] c = "CR" -> shell_submit_line(WithEol(s, "AFTER_CR"))
              [] c = "LF" -> shell_submit_line(s)
              [] OTHER -> shell_edit(s, c)
    BY <1>4, TickCases, Zenon
  <2> HIDE DEF s
  <2>2. CASE c \in {"CR", "LF"}
    <3>1. PICK x : /\ t = shell_submit_line(x) /\ ShellOK(x) /\ x.esc = 0
      <4>1. CASE c = "CR"
        <5>1. t = shell_submit_line(WithEol(s, "AFTER_CR"))
          BY <2>1, <4>1
        <5>2. ShellOK(WithEol(s, "AFTER_CR")) /\ WithEol(s, "AFTER_CR").esc = 0
          BY <1>1, ShellFlags DEF WithEol, ShellOK, Shell
        <5> QED BY <5>1, <5>2
      <4>2. CASE c = "LF"
        BY <1>1, <2>1, <4>2
      <4> QED BY <2>2, <4>1, <4>2
    <3>2. t.sh.line = <<>> /\ t.sh.esc = 0 /\ t.sh.nav = 0 /\ t.submit = TRUE
      BY <3>1, SubmitIs
    <3> HIDE DEF t
    <3>3. NextByte(a, c) = [line |-> <<>>, all |-> IF sh.line = <<>> THEN all ELSE Append(all, sh.line)]
      BY <1>2, <2>2 DEF NextByte
    <3> QED BY <3>2, <3>3 DEF t
  <2>3. CASE c \notin {"CR", "LF"}
    <3>1. t = shell_edit(s, c)
      BY <2>1, <2>3
    <3>2. t.sh = WithLine(s, Edited(sh.line, c)) /\ t.submit = FALSE
      <4>1. StaysIn(shell_edit(s, c), "NONE") /\ shell_edit(s, c).sh = WithLine(s, Edited(s.line, c))
        BY <1>1, EditIs
      <4>2. shell_edit(s, c).submit = FALSE
        BY <4>1 DEF StaysIn
      <4> HIDE DEF t
      <4> QED BY <1>1, <3>1, <4>1, <4>2
    <3> HIDE DEF t
    <3>3. t.sh.esc = 0 /\ t.sh.nav = 0 /\ t.sh.line = Edited(sh.line, c)
      BY <1>1, <3>2 DEF WithLine, ShellOK, Shell
    <3>4. NextByte(a, c) = [a EXCEPT !.line = Edited(sh.line, c)]
      BY <1>2, <2>3, Zenon DEF NextByte, Edited
    <3>5. [a EXCEPT !.line = Edited(sh.line, c)] = [line |-> Edited(sh.line, c), all |-> all]
      OBVIOUS
    <3> QED BY <3>2, <3>3, <3>4, <3>5 DEF t
  <2> QED BY <2>2, <2>3
<1> QED BY <1>3, <1>4

-----------------------------------------------------------------------------
(* The console *)

Msg == [off : Nat \ {0}, end : Nat]
Events == {"KICK", "TX_READY"}
Console == [slots : Seq(Msg), wake : BOOLEAN, q : Seq(Events), next : Nat]

\* The messages follow each other without a gap, and the last one ends with the
\* last number that was given out
Chain(slots, next) ==
  /\ \A i \in 1 .. Len(slots) : slots[i].off <= slots[i].end
  /\ \A i \in 1 .. Len(slots) - 1 : slots[i + 1].off = slots[i].end + 1
  /\ slots # <<>> => slots[Len(slots)].end = next

\* The last number that the console has handed on
From(slots, next) == IF slots = <<>> THEN next ELSE slots[1].off - 1

ConAt(c, p) ==
  /\ c \in Console /\ Len(c.slots) <= Slots /\ Len(c.q) <= ConsoleQ
  /\ Chain(c.slots, c.next) /\ From(c.slots, c.next) = p

\* A console with another flag and another queue
LEMMA ConQueue ==
  ASSUME NEW c, NEW p, ConAt(c, p), NEW d \in Console, Len(d.q) <= ConsoleQ,
         d.slots = c.slots, d.next = c.next
  PROVE  ConAt(d, p)
BY DEF ConAt

\* A message goes behind the others
LEMMA ChainAppend ==
  ASSUME NEW slots \in Seq(Msg), NEW next \in Nat, NEW len \in Nat \ {0}, NEW p,
         Chain(slots, next), From(slots, next) = p
  PROVE  LET new == Append(slots, [off |-> next + 1, end |-> next + len])
         IN  new \in Seq(Msg) /\ Chain(new, next + len) /\ From(new, next + len) = p
<1> DEFINE m == [off |-> next + 1, end |-> next + len]
           new == Append(slots, m)
<1>1. m \in Msg /\ m.off = next + 1 /\ m.end = next + len
  BY DEF Msg
<1> HIDE DEF m
<1>2. /\ new \in Seq(Msg) /\ Len(new) = Len(slots) + 1 /\ Len(slots) \in Nat
      /\ new[Len(slots) + 1] = m /\ \A i \in 1 .. Len(slots) : new[i] = slots[i]
  BY <1>1
<1>3. new # <<>>
  BY <1>2
<1> HIDE DEF new
<1>4. ASSUME NEW i \in 1 .. Len(new) PROVE new[i].off <= new[i].end
  BY <1>1, <1>2, <1>4 DEF Chain
<1>5. ASSUME NEW i \in 1 .. Len(new) - 1 PROVE new[i + 1].off = new[i].end + 1
  <2>1. i \in 1 .. Len(slots) /\ new[i] = slots[i]
    BY <1>2
  <2>2. CASE i = Len(slots)
    <3>1. slots # <<>>
      BY <2>1, <2>2
    <3>2. slots[i].end = next
      BY <2>2, <3>1 DEF Chain
    <3> QED BY <1>1, <1>2, <2>1, <2>2, <3>2
  <2>3. CASE i # Len(slots)
    <3>1. i \in 1 .. Len(slots) - 1 /\ i + 1 \in 1 .. Len(slots)
      BY <1>2, <2>1, <2>3
    <3> QED BY <1>2, <2>1, <3>1 DEF Chain
  <2> QED BY <2>2, <2>3
<1>6. new[Len(new)].end = next + len
  BY <1>1, <1>2
<1>7. Chain(new, next + len)
  BY <1>4, <1>5, <1>6 DEF Chain
<1>8. From(new, next + len) = p
  <2>1. CASE slots = <<>>
    <3>1. new[1] = m
      BY <1>2, <2>1
    <3> QED BY <1>1, <1>3, <2>1, <3>1 DEF From
  <2>2. CASE slots # <<>>
    <3>1. new[1] = slots[1]
      BY <1>2, <2>2
    <3> QED BY <1>3, <2>2, <3>1 DEF From
  <2> QED BY <2>1, <2>2
<1> QED BY <1>2, <1>7, <1>8 DEF new, m

\* console_kick posts within the queue
LEMMA KickKeeps ==
  ASSUME NEW c, NEW p, ConAt(c, p)
  PROVE  ConAt(console_kick(c), p)
<1>1. CASE c.wake \/ Len(c.q) >= ConsoleQ
  BY <1>1 DEF console_kick
<1>2. CASE ~(c.wake \/ Len(c.q) >= ConsoleQ)
  <2> DEFINE d == [c EXCEPT !.wake = TRUE, !.q = Append(@, "KICK")]
  <2>1. c \in Console /\ c.q \in Seq(Events) /\ ConsoleQ \in Nat
    BY UartAssumption DEF ConAt, Console
  <2>2. Append(c.q, "KICK") \in Seq(Events) /\ Len(Append(c.q, "KICK")) = Len(c.q) + 1
    BY <2>1 DEF Events
  <2>3. d \in Console /\ d.q = Append(c.q, "KICK") /\ d.slots = c.slots /\ d.next = c.next
    BY <2>1, <2>2 DEF Console
  <2>4. console_kick(c) = d
    BY <1>2 DEF console_kick
  <2> HIDE DEF d
  <2>5. Len(d.q) <= ConsoleQ
    BY <1>2, <2>1, <2>2, <2>3
  <2> QED BY <2>3, <2>4, <2>5, ConQueue
<1> QED BY <1>1, <1>2

\* console_enqueue numbers the characters of a message in order
LEMMA EnqueueKeeps ==
  ASSUME NEW c, NEW p, ConAt(c, p), NEW len \in Nat \ {0}
  PROVE  ConAt(console_enqueue(c, len), p)
<1>1. CASE Len(c.slots) >= Slots
  BY <1>1 DEF console_enqueue
<1>2. CASE ~(Len(c.slots) >= Slots)
  <2> DEFINE new == Append(c.slots, [off |-> c.next + 1, end |-> c.next + len])
             d == [c EXCEPT !.slots = new, !.next = @ + len]
  <2>1. c \in Console /\ c.slots \in Seq(Msg) /\ c.next \in Nat /\ Slots \in Nat
    BY UartAssumption DEF ConAt, Console
  <2>2. new \in Seq(Msg) /\ Chain(new, c.next + len) /\ From(new, c.next + len) = p
    BY <2>1, ChainAppend DEF ConAt
  <2>3. Len(new) = Len(c.slots) + 1
    BY <2>1
  <2>4. console_enqueue(c, len) = console_kick(d)
    BY <1>2, Zenon DEF console_enqueue
  <2> HIDE DEF new
  <2>5. d \in Console /\ d.slots = new /\ d.next = c.next + len /\ d.q = c.q
    <3>1. PICK k \in Nat : k = c.next + len
      BY <2>1
    <3>2. PICK x \in Seq(Msg) : x = new
      BY <2>2, Zenon
    <3>3. /\ [c EXCEPT !.slots = x, !.next = k] \in Console /\ [c EXCEPT !.slots = x, !.next = k].slots = x
          /\ [c EXCEPT !.slots = x, !.next = k].next = k /\ [c EXCEPT !.slots = x, !.next = k].q = c.q
      BY <2>1 DEF Console
    <3> QED BY <3>1, <3>2, <3>3, Zenon
  <2> HIDE DEF d
  <2>6. ConAt(d, p)
    BY <1>2, <2>1, <2>2, <2>3, <2>5 DEF ConAt
  <2> QED BY <2>4, <2>6, KickKeeps
<1> QED BY <1>1, <1>2

\* The same for several messages
LEMMA PrintedKeeps ==
  ASSUME NEW c, NEW p, ConAt(c, p), NEW out \in Out
  PROVE  ConAt(Printed(c, out), p)
<1> DEFINE V == {d \in Console : ConAt(d, p)}
           Step(f, s) == IF s = {} THEN c ELSE console_enqueue(f[s \ {Max(s)}], out[Max(s)])
           Q(f) == f = [s \in SUBSET DOMAIN out |-> Step(f, s)]
           iter == CHOOSE f : Q(f)
<1>1. Printed(c, out) = iter[DOMAIN out]
  BY Zenon DEF Printed, FoldLeft, MapThenFoldSet
<1>2. PICK n \in Nat : DOMAIN out = 1 .. n /\ \A i \in 1 .. n : out[i] \in Nat \ {0}
  BY DEF Out
<1>3. \A v \in V, i \in 1 .. n : console_enqueue(v, out[i]) \in V
  <2> SUFFICES ASSUME NEW v \in V, NEW i \in 1 .. n PROVE console_enqueue(v, out[i]) \in V
    OBVIOUS
  <2>1. ConAt(console_enqueue(v, out[i]), p)
    BY <1>2, EnqueueKeeps
  <2> QED BY <2>1 DEF ConAt
<1>4. c \in V
  BY DEF ConAt
<1> DEFINE g == [i \in 1 .. n |-> [v \in V |-> console_enqueue(v, out[i])]]
<1>5. g \in [1 .. n -> [V -> V]]
  BY <1>3
<1>6. PICK f \in [SUBSET (1 .. n) -> V] : IsFold(f, n, c, g)
  <2> HIDE DEF g, V
  <2> QED BY <1>4, <1>5, FoldExists
<1>7. Q(f)
  <2>1. ASSUME NEW s \in SUBSET (1 .. n) PROVE f[s] = Step(f, s)
    <3>1. CASE s = {}
      BY <1>6, <3>1 DEF IsFold
    <3>2. CASE s # {}
      <4>1. Max(s) \in 1 .. n /\ f[s \ {Max(s)}] \in V
        BY <3>2, MaxIn
      <4> HIDE DEF V
      <4> QED BY <1>6, <3>2, <4>1 DEF IsFold
    <3> QED BY <3>1, <3>2
  <2>2. f = [s \in SUBSET (1 .. n) |-> f[s]]
    OBVIOUS
  <2> HIDE DEF Step
  <2>3. f = [s \in SUBSET (1 .. n) |-> Step(f, s)]
    BY <2>1, <2>2
  <2> QED BY <1>2, <2>3
<1>8. Q(iter)
  <2> HIDE DEF Q
  <2> QED BY <1>7
<1>9. \A s \in SUBSET (1 .. n) : iter[s] = Step(iter, s)
  <2> HIDE DEF iter, Step
  <2> QED BY <1>2, <1>8
<1> HIDE DEF iter
<1>10. FoldsIn(iter, n, V, c, g)
  <2>1. iter[{}] = c
    BY <1>9
  <2>2. ASSUME NEW s \in SUBSET (1 .. n), s # {}, iter[s \ {Max(s)}] \in V
        PROVE  iter[s] = g[Max(s)][iter[s \ {Max(s)}]]
    <3>1. Max(s) \in 1 .. n
      BY <2>2, MaxIn
    <3> HIDE DEF V
    <3> QED BY <1>9, <2>2, <3>1
  <2> HIDE DEF g, V
  <2> QED BY <2>1, <2>2 DEF FoldsIn
<1>11. iter[1 .. n] \in V
  <2> HIDE DEF g, V
  <2> QED BY <1>4, <1>5, <1>10, FoldPrefix
<1> QED BY <1>1, <1>2, <1>11

-----------------------------------------------------------------------------
(* The characters on their way *)

\* The numbers after p up to e
Numbers(p, e) == [j \in 1 .. e - p |-> p + j]

\* Their length and their elements
LEMMA NumbersIs ==
  ASSUME NEW p \in Nat, NEW e \in Nat, p <= e
  PROVE  /\ Numbers(p, e) \in Seq(Nat) /\ Len(Numbers(p, e)) = e - p
         /\ \A j \in 1 .. e - p : Numbers(p, e)[j] = p + j
<1>1. PICK n \in Nat : n = e - p
  OBVIOUS
<1>2. [j \in 1 .. n |-> p + j] \in Seq(Nat) /\ Len([j \in 1 .. n |-> p + j]) = n
  OBVIOUS
<1> QED BY <1>1, <1>2 DEF Numbers

\* A sequence of consecutive numbers is one of these
LEMMA NumbersAre ==
  ASSUME NEW p \in Nat, NEW s \in Seq(Nat), \A j \in 1 .. Len(s) : s[j] = p + j
  PROVE  s = Numbers(p, p + Len(s))
<1>1. PICK n \in Nat : n = Len(s)
  OBVIOUS
<1>2. p + n \in Nat /\ (p + n) - p = n
  OBVIOUS
<1>3. s = [j \in 1 .. n |-> s[j]]
  BY <1>1
<1>4. s = [j \in 1 .. n |-> p + j]
  BY <1>1, <1>3
<1> QED BY <1>1, <1>2, <1>4 DEF Numbers

\* One run of numbers behind the other
LEMMA NumbersCat ==
  ASSUME NEW p \in Nat, NEW e \in Nat, NEW f \in Nat, p <= e, e <= f
  PROVE  Numbers(p, e) \o Numbers(e, f) = Numbers(p, f)
<1> DEFINE a == Numbers(p, e)
           b == Numbers(e, f)
<1>1. /\ a \in Seq(Nat) /\ Len(a) = e - p /\ \A j \in 1 .. e - p : a[j] = p + j
      /\ b \in Seq(Nat) /\ Len(b) = f - e /\ \A j \in 1 .. f - e : b[j] = e + j
  BY NumbersIs
<1> HIDE DEF a, b
<1>2. a \o b \in Seq(Nat) /\ Len(a \o b) = f - p
  <2>1. \A q \in Seq(Nat), r \in Seq(Nat) : q \o r \in Seq(Nat) /\ Len(q \o r) = Len(q) + Len(r)
    OBVIOUS
  <2>2. a \o b \in Seq(Nat) /\ Len(a \o b) = Len(a) + Len(b)
    BY <1>1, <2>1, Zenon
  <2>3. (e - p) + (f - e) = f - p
    OBVIOUS
  <2> QED BY <1>1, <2>2, <2>3
<1>3. \A j \in 1 .. f - p : (a \o b)[j] = p + j
  <2> SUFFICES ASSUME NEW j \in 1 .. f - p PROVE (a \o b)[j] = p + j
    OBVIOUS
  <2>1. CASE j <= e - p
    BY <1>1, <2>1
  <2>2. CASE ~(j <= e - p)
    <3>1. (a \o b)[j] = b[j - (e - p)] /\ j - (e - p) \in 1 .. f - e
      BY <1>1, <2>2
    <3> QED BY <1>1, <3>1
  <2> QED BY <2>1, <2>2
<1>4. p + (f - p) = f
  OBVIOUS
<1>5. a \o b = Numbers(p, p + Len(a \o b))
  BY <1>2, <1>3, NumbersAre
<1> QED BY <1>2, <1>4, <1>5 DEF a, b

\* A message has the numbers from off to end
LEMMA CharsIs ==
  ASSUME NEW m \in Msg, m.off <= m.end
  PROVE  chars(m) = Numbers(m.off - 1, m.end)
<1>1. m.off \in Nat \ {0} /\ m.end \in Nat
  BY DEF Msg
<1>2. m.end - m.off + 1 = m.end - (m.off - 1)
  BY <1>1
<1>3. \A i \in 1 .. m.end - m.off + 1 : m.off + i - 1 = (m.off - 1) + i
  BY <1>1
<1> QED BY <1>2, <1>3 DEF chars, Numbers

\* The messages of the console are the numbers that it has yet to hand on
LEMMA TextsIs ==
  ASSUME NEW slots \in Seq(Msg), NEW next \in Nat, Chain(slots, next)
  PROVE  /\ From(slots, next) \in Nat /\ From(slots, next) <= next
         /\ Texts(slots) = Numbers(From(slots, next), next)
<1> DEFINE V == Seq(Nat)
           Step(f, s) == IF s = {} THEN <<>> ELSE f[s \ {Max(s)}] \o chars(slots[Max(s)])
           Q(f) == f = [s \in SUBSET DOMAIN slots |-> Step(f, s)]
           iter == CHOOSE f : Q(f)
           End(k) == IF k = 0 THEN From(slots, next) ELSE slots[k].end
<1>1. Texts(slots) = iter[DOMAIN slots]
  BY Zenon DEF Texts, FoldLeft, MapThenFoldSet
<1>2. PICK n \in Nat : n = Len(slots) /\ DOMAIN slots = 1 .. n
  OBVIOUS
<1>3. \A i \in 1 .. n : /\ slots[i] \in Msg /\ slots[i].off \in Nat \ {0} /\ slots[i].end \in Nat
                        /\ slots[i].off <= slots[i].end
  <2>1. \A i \in 1 .. n : slots[i] \in Msg
    BY <1>2
  <2>2. \A i \in 1 .. n : slots[i].off <= slots[i].end
    BY <1>2 DEF Chain
  <2> QED BY <2>1, <2>2 DEF Msg
<1>4. /\ From(slots, next) \in Nat
      /\ \A k \in 0 .. n : End(k) \in Nat /\ From(slots, next) <= End(k)
      /\ \A k \in 1 .. n : slots[k].off - 1 = End(k - 1) /\ End(k - 1) <= End(k)
      /\ End(n) = next
  <2>1. From(slots, next) \in Nat
    <3>1. CASE slots = <<>>
      BY <3>1 DEF From
    <3>2. CASE slots # <<>>
      <4>1. 1 \in 1 .. n
        BY <1>2, <3>2
      <4> QED BY <1>3, <3>2, <4>1 DEF From
    <3> QED BY <3>1, <3>2
  <2>2. ASSUME NEW k \in 1 .. n PROVE slots[k].off - 1 = End(k - 1) /\ End(k - 1) <= End(k)
    <3>1. CASE k = 1
      <4>1. slots # <<>>
        BY <1>2, <3>1
      <4> QED BY <1>3, <3>1, <4>1 DEF From
    <3>2. CASE k # 1
      <4>1. k - 1 \in 1 .. Len(slots) - 1 /\ (k - 1) + 1 = k
        BY <1>2, <3>2
      <4>2. slots[k].off = slots[k - 1].end + 1
        BY <4>1 DEF Chain
      <4>3. slots[k - 1].end \in Nat /\ slots[k].off \in Nat /\ slots[k].end \in Nat /\ slots[k].off <= slots[k].end
        BY <1>2, <1>3, <4>1
      <4> QED BY <4>1, <4>2, <4>3
    <3> QED BY <3>1, <3>2
  <2>3. \A k \in 0 .. n : End(k) \in Nat
    BY <1>3, <2>1
  <2>4. \A k \in 0 .. n : From(slots, next) <= End(k)
    <3> DEFINE K == {k \in Nat : k <= n => From(slots, next) <= End(k)}
    <3>1. 0 \in K
      BY <2>1
    <3>2. ASSUME NEW k \in K PROVE k + 1 \in K
      <4>1. CASE k + 1 <= n
        <5>1. k + 1 \in 1 .. n /\ (k + 1) - 1 = k /\ k \in 0 .. n /\ k + 1 \in 0 .. n
          BY <4>1
        <5>2. End(k) <= End(k + 1) /\ End(k) \in Nat /\ End(k + 1) \in Nat
          <6> HIDE DEF End
          <6> QED BY <2>2, <2>3, <5>1
        <5>3. From(slots, next) <= End(k)
          BY <4>1
        <5> HIDE DEF End
        <5> QED BY <2>1, <5>2, <5>3
      <4>2. CASE ~(k + 1 <= n)
        BY <4>2
      <4> QED BY <4>1, <4>2
    <3>3. K \in SUBSET Nat
      OBVIOUS
    <3> HIDE DEF K
    <3>4. K = Nat
      BY <3>1, <3>2, <3>3, NatSets
    <3> QED BY <3>4 DEF K
  <2>5. End(n) = next
    <3>1. CASE n = 0
      <4>1. slots = <<>>
        BY <1>2, <3>1
      <4> QED BY <3>1, <4>1 DEF From
    <3>2. CASE n # 0
      <4>1. slots # <<>>
        BY <1>2, <3>2
      <4> QED BY <1>2, <3>2, <4>1 DEF Chain
    <3> QED BY <3>1, <3>2
  <2> QED BY <2>1, <2>2, <2>3, <2>4, <2>5
<1>5. \A i \in 1 .. n : chars(slots[i]) = Numbers(End(i - 1), End(i)) /\ chars(slots[i]) \in V
  <2> SUFFICES ASSUME NEW i \in 1 .. n
               PROVE  chars(slots[i]) = Numbers(End(i - 1), End(i)) /\ chars(slots[i]) \in V
    OBVIOUS
  <2>1. chars(slots[i]) = Numbers(slots[i].off - 1, slots[i].end)
    BY <1>3, CharsIs
  <2>2. slots[i].off - 1 = End(i - 1) /\ slots[i].end = End(i)
    BY <1>4
  <2>3. i - 1 \in 0 .. n /\ i \in 0 .. n
    OBVIOUS
  <2> HIDE DEF End
  <2>4. Numbers(End(i - 1), End(i)) \in V
    BY <1>4, <2>3, NumbersIs
  <2> QED BY <2>1, <2>2, <2>4
<1> DEFINE g == [i \in 1 .. n |-> [v \in V |-> v \o chars(slots[i])]]
<1>6. g \in [1 .. n -> [V -> V]]
  <2>1. \A v \in V, i \in 1 .. n : v \o chars(slots[i]) \in V
    BY <1>5
  <2> HIDE DEF V
  <2> QED BY <2>1
<1>7. <<>> \in V
  OBVIOUS
<1> HIDE DEF V
<1>8. PICK f \in [SUBSET (1 .. n) -> V] : IsFold(f, n, <<>>, g)
  <2> HIDE DEF g
  <2> QED BY <1>6, <1>7, FoldExists
<1>9. Q(f)
  <2>1. ASSUME NEW s \in SUBSET (1 .. n) PROVE f[s] = Step(f, s)
    <3>1. CASE s = {}
      BY <1>8, <3>1 DEF IsFold
    <3>2. CASE s # {}
      <4>1. Max(s) \in 1 .. n /\ f[s \ {Max(s)}] \in V
        BY <3>2, MaxIn
      <4> QED BY <1>8, <3>2, <4>1 DEF IsFold
    <3> QED BY <3>1, <3>2
  <2>2. f = [s \in SUBSET (1 .. n) |-> f[s]]
    OBVIOUS
  <2> HIDE DEF Step
  <2>3. f = [s \in SUBSET (1 .. n) |-> Step(f, s)]
    BY <2>1, <2>2
  <2> QED BY <1>2, <2>3
<1>10. Q(iter)
  <2> HIDE DEF Q
  <2> QED BY <1>9
<1>11. \A s \in SUBSET (1 .. n) : iter[s] = Step(iter, s)
  <2> HIDE DEF iter, Step
  <2> QED BY <1>2, <1>10
<1> HIDE DEF iter
<1>12. FoldsIn(iter, n, V, <<>>, g)
  <2>1. iter[{}] = <<>>
    BY <1>11
  <2>2. ASSUME NEW s \in SUBSET (1 .. n), s # {}, iter[s \ {Max(s)}] \in V
        PROVE  iter[s] = g[Max(s)][iter[s \ {Max(s)}]]
    <3>1. Max(s) \in 1 .. n
      BY <2>2, MaxIn
    <3> QED BY <1>11, <2>2, <3>1
  <2> HIDE DEF g
  <2> QED BY <2>1, <2>2 DEF FoldsIn
<1>13. PICK h \in [0 .. n -> V] :
         h[0] = <<>> /\ h[n] = iter[1 .. n] /\ \A k \in 1 .. n : h[k] = g[k][h[k - 1]]
  <2> HIDE DEF g
  <2>1. PICK base \in V : base = <<>>
    BY <1>7
  <2>2. FoldsIn(iter, n, V, base, g)
    BY <1>12, <2>1
  <2>3. PICK h \in [0 .. n -> V] :
          h[0] = base /\ h[n] = iter[1 .. n] /\ \A k \in 1 .. n : h[k] = g[k][h[k - 1]]
    <3>1. FoldValues(iter[1 .. n], n, V, base, g)
      BY <1>6, <2>2, FoldRun
    <3> QED BY <3>1 DEF FoldValues
  <2> QED BY <2>1, <2>3
<1> DEFINE K == {k \in Nat : k <= n => h[k] = Numbers(From(slots, next), End(k))}
<1>14. 0 \in K
  <2>1. Numbers(From(slots, next), From(slots, next)) = <<>>
    <3>1. From(slots, next) - From(slots, next) = 0
      BY <1>4
    <3> QED BY <3>1 DEF Numbers
  <2> QED BY <1>13, <2>1
<1>15. ASSUME NEW k \in K PROVE k + 1 \in K
  <2>1. CASE k + 1 <= n
    <3>1. k + 1 \in 1 .. n /\ (k + 1) - 1 = k /\ k \in 0 .. n /\ k + 1 \in 0 .. n
      BY <2>1
    <3>2. h[k] = Numbers(From(slots, next), End(k))
      BY <2>1
    <3> HIDE DEF End
    <3>3. h[k + 1] = h[k] \o chars(slots[k + 1])
      <4>1. h[k] \in V /\ h[k + 1] = g[k + 1][h[k]]
        <5> HIDE DEF g
        <5> QED BY <1>13, <3>1
      <4> QED BY <3>1, <4>1
    <3>4. chars(slots[k + 1]) = Numbers(End(k), End(k + 1))
      BY <1>5, <3>1
    <3>5. /\ End(k) \in Nat /\ End(k + 1) \in Nat /\ From(slots, next) \in Nat
          /\ From(slots, next) <= End(k) /\ End(k) <= End(k + 1)
      BY <1>4, <3>1
    <3>6. Numbers(From(slots, next), End(k)) \o Numbers(End(k), End(k + 1))
            = Numbers(From(slots, next), End(k + 1))
      BY <3>5, NumbersCat
    <3>7. h[k + 1] = Numbers(From(slots, next), End(k + 1))
      BY <3>2, <3>3, <3>4, <3>6, Zenon
    <3> QED BY <3>1, <3>7
  <2>2. CASE ~(k + 1 <= n)
    BY <2>2
  <2> QED BY <2>1, <2>2
<1>16. n \in K
  <2>1. K \in SUBSET Nat
    OBVIOUS
  <2> HIDE DEF K
  <2> QED BY <1>14, <1>15, <2>1, NatSets
<1>17. iter[1 .. n] = Numbers(From(slots, next), End(n))
  BY <1>13, <1>16
<1> HIDE DEF End
<1>18. n \in 0 .. n
  OBVIOUS
<1> QED BY <1>1, <1>2, <1>4, <1>17, <1>18

-----------------------------------------------------------------------------
(* The lines of the bytes that were read *)

Read == [line : Seq(Bytes), all : Seq(Seq(Bytes))]
NothingRead == [line |-> <<>>, all |-> <<>>]

\* The lines after each of the bytes bs
IsReading(h, bs) ==
  /\ h \in [0 .. Len(bs) -> Read] /\ h[0] = NothingRead /\ h[Len(bs)] = LinesOf(bs)
  /\ \A k \in 1 .. Len(bs) : h[k] = NextByte(h[k - 1], bs[k])

\* A byte makes lines of lines
LEMMA NextByteType ==
  ASSUME NEW a \in Read, NEW b \in Bytes
  PROVE  NextByte(a, b) \in Read
<1>1. a.line \in Seq(Bytes) /\ a.all \in Seq(Seq(Bytes)) /\ <<>> \in Seq(Bytes)
  BY DEF Read
<1>2. CASE b \in {"CR", "LF"}
  <2> DEFINE x == IF a.line = <<>> THEN a.all ELSE Append(a.all, a.line)
  <2>1. NextByte(a, b) = [line |-> <<>>, all |-> x]
    BY <1>2 DEF NextByte
  <2>2. x \in Seq(Seq(Bytes))
    BY <1>1
  <2> HIDE DEF x
  <2> QED BY <1>1, <2>1, <2>2 DEF Read
<1>3. CASE b \notin {"CR", "LF"}
  <2>1. NextByte(a, b) = [a EXCEPT !.line = Edited(a.line, b)]
    BY <1>3, Zenon DEF NextByte, Edited
  <2>2. Edited(a.line, b) \in Seq(Bytes)
    <3>1. a.line # <<>> => Front(a.line) \in Seq(Bytes)
      BY <1>1 DEF Front
    <3> QED BY <1>1, <3>1 DEF Edited
  <2>3. \A l \in Seq(Bytes) : [a EXCEPT !.line = l] \in Read
    BY DEF Read
  <2> QED BY <2>1, <2>2, <2>3
<1> QED BY <1>2, <1>3

\* LinesOf goes through the bytes from the first to the last
LEMMA Reading ==
  ASSUME NEW bs \in Seq(Bytes)
  PROVE  \E h : IsReading(h, bs)
<1> DEFINE V == Read
           Step(f, s) == IF s = {} THEN NothingRead ELSE NextByte(f[s \ {Max(s)}], bs[Max(s)])
           Q(f) == f = [s \in SUBSET DOMAIN bs |-> Step(f, s)]
           iter == CHOOSE f : Q(f)
<1>1. LinesOf(bs) = iter[DOMAIN bs]
  BY Zenon DEF LinesOf, FoldLeft, MapThenFoldSet, NothingRead
<1>2. PICK n \in Nat : n = Len(bs) /\ DOMAIN bs = 1 .. n /\ \A i \in 1 .. n : bs[i] \in Bytes
  OBVIOUS
<1>3. \A v \in V, i \in 1 .. n : NextByte(v, bs[i]) \in V
  BY <1>2, NextByteType
<1>4. NothingRead \in V
  <2>1. <<>> \in Seq(Bytes) /\ <<>> \in Seq(Seq(Bytes))
    OBVIOUS
  <2> QED BY <2>1 DEF NothingRead, Read
<1> HIDE DEF V
<1> DEFINE g == [i \in 1 .. n |-> [v \in V |-> NextByte(v, bs[i])]]
<1>5. g \in [1 .. n -> [V -> V]]
  BY <1>3
<1>6. PICK f \in [SUBSET (1 .. n) -> V] : IsFold(f, n, NothingRead, g)
  <2> HIDE DEF g
  <2> QED BY <1>4, <1>5, FoldExists
<1>7. Q(f)
  <2>1. ASSUME NEW s \in SUBSET (1 .. n) PROVE f[s] = Step(f, s)
    <3>1. CASE s = {}
      BY <1>6, <3>1 DEF IsFold
    <3>2. CASE s # {}
      <4>1. Max(s) \in 1 .. n /\ f[s \ {Max(s)}] \in V
        BY <3>2, MaxIn
      <4> QED BY <1>6, <3>2, <4>1 DEF IsFold
    <3> QED BY <3>1, <3>2
  <2>2. f = [s \in SUBSET (1 .. n) |-> f[s]]
    OBVIOUS
  <2> HIDE DEF Step
  <2>3. f = [s \in SUBSET (1 .. n) |-> Step(f, s)]
    BY <2>1, <2>2
  <2> QED BY <1>2, <2>3
<1>8. Q(iter)
  <2> HIDE DEF Q
  <2> QED BY <1>7
<1>9. \A s \in SUBSET (1 .. n) : iter[s] = Step(iter, s)
  <2> HIDE DEF iter, Step
  <2> QED BY <1>2, <1>8
<1> HIDE DEF iter
<1>10. FoldsIn(iter, n, V, NothingRead, g)
  <2>1. iter[{}] = NothingRead
    BY <1>9
  <2>2. ASSUME NEW s \in SUBSET (1 .. n), s # {}, iter[s \ {Max(s)}] \in V
        PROVE  iter[s] = g[Max(s)][iter[s \ {Max(s)}]]
    <3>1. Max(s) \in 1 .. n
      BY <2>2, MaxIn
    <3> QED BY <1>9, <2>2, <3>1
  <2> HIDE DEF g
  <2> QED BY <2>1, <2>2 DEF FoldsIn
<1>11. FoldValues(iter[1 .. n], n, V, NothingRead, g)
  <2> HIDE DEF g
  <2> QED BY <1>4, <1>5, <1>10, FoldRun
<1>12. PICK h \in [0 .. n -> V] :
         h[0] = NothingRead /\ h[n] = iter[1 .. n] /\ \A k \in 1 .. n : h[k] = g[k][h[k - 1]]
  BY <1>11 DEF FoldValues
<1>13. \A k \in 1 .. n : h[k] = NextByte(h[k - 1], bs[k])
  <2> SUFFICES ASSUME NEW k \in 1 .. n PROVE h[k] = NextByte(h[k - 1], bs[k])
    OBVIOUS
  <2>1. k - 1 \in 0 .. n
    OBVIOUS
  <2> QED BY <1>12, <2>1
<1>14. h[n] = LinesOf(bs)
  BY <1>1, <1>2, <1>12
<1>15. IsReading(h, bs)
  BY <1>2, <1>12, <1>13, <1>14 DEF IsReading, V
<1> QED BY <1>15

\* LinesOf is a function of the bytes that takes one more byte at a time
LEMMA LinesOfIs ==
  /\ LinesOf(<<>>) = NothingRead
  /\ \A bs \in Seq(Bytes) : LinesOf(bs) \in Read
  /\ \A bs \in Seq(Bytes), b \in Bytes : LinesOf(Append(bs, b)) = NextByte(LinesOf(bs), b)
<1>1. LinesOf(<<>>) = NothingRead
  <2>1. <<>> \in Seq(Bytes) /\ Len(<<>>) = 0
    OBVIOUS
  <2>2. PICK h : IsReading(h, <<>>)
    BY <2>1, Reading
  <2> QED BY <2>1, <2>2 DEF IsReading
<1>2. ASSUME NEW bs \in Seq(Bytes) PROVE LinesOf(bs) \in Read
  <2>1. PICK h : IsReading(h, bs)
    BY Reading
  <2>2. Len(bs) \in 0 .. Len(bs)
    OBVIOUS
  <2> QED BY <2>1, <2>2 DEF IsReading
<1>3. ASSUME NEW bs \in Seq(Bytes), NEW b \in Bytes
      PROVE  LinesOf(Append(bs, b)) = NextByte(LinesOf(bs), b)
  <2> DEFINE cs == Append(bs, b)
  <2>1. PICK n \in Nat : n = Len(bs)
    OBVIOUS
  <2>2. /\ cs \in Seq(Bytes) /\ Len(cs) = n + 1 /\ cs[n + 1] = b
        /\ \A k \in 1 .. n : cs[k] = bs[k]
    BY <2>1
  <2> HIDE DEF cs
  <2>3. PICK h : IsReading(h, bs)
    BY Reading
  <2>4. PICK i : IsReading(i, cs)
    BY <2>2, Reading
  <2> DEFINE K == {k \in Nat : k <= n => h[k] = i[k]}
  <2>5. 0 \in K
    BY <2>3, <2>4 DEF IsReading
  <2>6. ASSUME NEW k \in K PROVE k + 1 \in K
    <3>1. CASE k + 1 <= n
      <4>1. k + 1 \in 1 .. n /\ (k + 1) - 1 = k /\ h[k] = i[k] /\ k + 1 \in 1 .. n + 1
        BY <3>1
      <4>2. h[k + 1] = NextByte(h[k], bs[k + 1])
        BY <2>1, <2>3, <4>1 DEF IsReading
      <4>3. i[k + 1] = NextByte(i[k], cs[k + 1])
        BY <2>2, <2>4, <4>1 DEF IsReading
      <4>4. h[k + 1] = i[k + 1]
        BY <2>2, <4>1, <4>2, <4>3
      <4> QED BY <4>4
    <3>2. CASE ~(k + 1 <= n)
      BY <3>2
    <3> QED BY <3>1, <3>2
  <2>7. n \in K
    <3>1. K \in SUBSET Nat
      OBVIOUS
    <3> HIDE DEF K
    <3> QED BY <2>5, <2>6, <3>1, NatSets
  <2>8. h[n] = i[n]
    BY <2>7
  <2>9. h[n] = LinesOf(bs)
    BY <2>1, <2>3 DEF IsReading
  <2>10. i[n + 1] = LinesOf(cs) /\ i[n + 1] = NextByte(i[n], b)
    <3>1. n + 1 \in 1 .. n + 1 /\ (n + 1) - 1 = n
      OBVIOUS
    <3> QED BY <2>2, <2>4, <3>1 DEF IsReading
  <2> QED BY <2>8, <2>9, <2>10 DEF cs
<1> QED BY <1>1, <1>2, <1>3

-----------------------------------------------------------------------------
(* The transmitter *)

Uart ==
  [rdr : Bytes \cup {None}, tdr : Nat, shift : Nat, txeie : BOOLEAN, tcie : BOOLEAN, tc : BOOLEAN]

\* The last number in the transmitter
Loaded(h, s) == s + (IF h.shift = 0 THEN 0 ELSE 1) + (IF h.tdr = 0 THEN 0 ELSE 1)

\* The transmitter h, the ring t and the wire s have all numbers up to p in order
WireOK(h, t, s, p) ==
  /\ h \in Uart /\ t \in Seq(Nat) /\ Len(t) <= TxCap /\ s \in Nat
  /\ h.tdr # 0 => h.shift # 0
  /\ h.shift # 0 => h.shift = s + 1
  /\ h.tdr # 0 => h.tdr = s + 2
  /\ \A i \in 1 .. Len(t) : t[i] = Loaded(h, s) + i
  /\ p = Loaded(h, s) + Len(t)

\* Flags and the received byte do not matter
LEMMA WireFlags ==
  ASSUME NEW h, NEW t, NEW s, NEW p, WireOK(h, t, s, p),
         NEW d \in Uart, d.tdr = h.tdr, d.shift = h.shift
  PROVE  WireOK(d, t, s, p)
BY DEF WireOK, Loaded

\* uart_async_putc
LEMMA WirePut ==
  ASSUME NEW h, NEW t, NEW s, NEW p, WireOK(h, t, s, p), Len(t) < TxCap
  PROVE  WireOK(h, Append(t, p + 1), s, p + 1)
<1>1. /\ h \in Uart /\ h.shift \in Nat /\ h.tdr \in Nat /\ t \in Seq(Nat) /\ s \in Nat
      /\ Len(t) \in Nat /\ TxCap \in Nat
  BY UartAssumption DEF WireOK, Uart
<1>2. PICK l \in Nat : l = Loaded(h, s)
  BY <1>1 DEF Loaded
<1>3. p = l + Len(t) /\ \A i \in 1 .. Len(t) : t[i] = l + i
  BY <1>2 DEF WireOK
<1>4. /\ Append(t, p + 1) \in Seq(Nat) /\ Len(Append(t, p + 1)) = Len(t) + 1
      /\ Append(t, p + 1)[Len(t) + 1] = p + 1
      /\ \A i \in 1 .. Len(t) : Append(t, p + 1)[i] = t[i]
  BY <1>1, <1>3
<1> DEFINE new == Append(t, p + 1)
<1> HIDE DEF new
<1>5. \A i \in 1 .. Len(new) : new[i] = l + i
  <2> SUFFICES ASSUME NEW i \in 1 .. Len(new) PROVE new[i] = l + i
    OBVIOUS
  <2>1. CASE i = Len(t) + 1
    BY <1>1, <1>3, <1>4, <2>1 DEF new
  <2>2. CASE i # Len(t) + 1
    <3>1. i \in 1 .. Len(t)
      BY <1>1, <1>4, <2>2 DEF new
    <3> QED BY <1>3, <1>4, <3>1 DEF new
  <2> QED BY <2>1, <2>2
<1>6. p + 1 = l + Len(new) /\ Len(new) <= TxCap /\ new \in Seq(Nat)
  BY <1>1, <1>3, <1>4 DEF new
<1>7. WireOK(h, new, s, p + 1)
  BY <1>2, <1>5, <1>6 DEF WireOK
<1> QED BY <1>7 DEF new

\* The TXE branch of the interrupt takes the next character
LEMMA WireTxe ==
  ASSUME NEW h, NEW t, NEW s, NEW p, WireOK(h, t, s, p), h.tdr = 0, t # <<>>
  PROVE  WireOK(WriteTdr(h, Head(t)), Tail(t), s, p)
<1>1. /\ h \in Uart /\ h.shift \in Nat /\ t \in Seq(Nat) /\ s \in Nat
      /\ Len(t) \in Nat /\ Len(t) >= 1 /\ TxCap \in Nat
  BY UartAssumption DEF WireOK, Uart
<1>2. PICK l \in Nat : l = Loaded(h, s)
  BY <1>1 DEF Loaded
<1>3. p = l + Len(t) /\ \A i \in 1 .. Len(t) : t[i] = l + i
  BY <1>2 DEF WireOK
<1>4. Head(t) = l + 1
  BY <1>1, <1>3
<1>5. /\ Tail(t) \in Seq(Nat) /\ Len(Tail(t)) = Len(t) - 1
      /\ \A i \in 1 .. Len(t) - 1 : Tail(t)[i] = t[i + 1]
  BY <1>1
<1> DEFINE new == Tail(t)
<1>6. /\ new \in Seq(Nat) /\ Len(new) <= TxCap /\ p = (l + 1) + Len(new)
      /\ \A i \in 1 .. Len(new) : new[i] = (l + 1) + i
  <2>1. ASSUME NEW i \in 1 .. Len(new) PROVE new[i] = (l + 1) + i
    <3>1. i \in 1 .. Len(t) - 1 /\ i + 1 \in 1 .. Len(t)
      BY <1>1, <1>5
    <3> QED BY <1>3, <1>5, <3>1
  <2>2. Len(t) <= TxCap
    BY DEF WireOK
  <2> QED BY <1>1, <1>3, <1>5, <2>1, <2>2
<1> HIDE DEF new
<1> DEFINE k == Head(t)
           d == WriteTdr(h, k)
<1>7. k = l + 1 /\ k \in Nat
  BY <1>4
<1> HIDE DEF k
<1>8. CASE h.shift = 0
  <2>1. l = s
    BY <1>1, <1>2, <1>8 DEF Loaded
  <2>2. d \in Uart /\ d.shift = k /\ d.tdr = 0
    BY <1>1, <1>7, <1>8 DEF WriteTdr, Uart
  <2> HIDE DEF d
  <2>3. Loaded(d, s) = l + 1 /\ d.shift = s + 1
    BY <1>1, <1>7, <2>1, <2>2 DEF Loaded
  <2>4. WireOK(d, new, s, p)
    BY <1>1, <1>6, <2>2, <2>3 DEF WireOK
  <2> QED BY <2>4 DEF d, new, k
<1>9. CASE h.shift # 0
  <2>1. l = s + 1 /\ h.shift = s + 1
    BY <1>1, <1>2, <1>9 DEF Loaded, WireOK
  <2>2. d \in Uart /\ d.shift = h.shift /\ d.tdr = k
    BY <1>1, <1>7, <1>9 DEF WriteTdr, Uart
  <2> HIDE DEF d
  <2>3. Loaded(d, s) = l + 1 /\ d.tdr = s + 2
    BY <1>1, <1>7, <1>9, <2>1, <2>2 DEF Loaded
  <2>4. WireOK(d, new, s, p)
    BY <1>1, <1>6, <1>9, <2>1, <2>2, <2>3 DEF WireOK
  <2> QED BY <2>4 DEF d, new, k
<1> QED BY <1>8, <1>9

\* A character leaves the shift register
LEMMA WireTransmit ==
  ASSUME NEW h, NEW t, NEW s, NEW p, WireOK(h, t, s, p), h.shift # 0
  PROVE  WireOK([h EXCEPT !.shift = h.tdr, !.tdr = 0, !.tc = h.tdr = 0], t, h.shift, p)
<1> DEFINE d == [h EXCEPT !.shift = h.tdr, !.tdr = 0, !.tc = h.tdr = 0]
<1>1. h \in Uart /\ h.shift \in Nat /\ h.tdr \in Nat /\ s \in Nat /\ h.shift = s + 1
  BY DEF WireOK, Uart
<1>2. d \in Uart /\ d.shift = h.tdr /\ d.tdr = 0
  BY <1>1 DEF Uart
<1> HIDE DEF d
<1>3. h.tdr # 0 => h.tdr = h.shift + 1
  BY <1>1 DEF WireOK
<1>4. Loaded(d, h.shift) = Loaded(h, s)
  BY <1>1, <1>2, <1>3 DEF Loaded
<1>5. WireOK(d, t, h.shift, p)
  BY <1>1, <1>2, <1>3, <1>4 DEF WireOK
<1> QED BY <1>5 DEF d

\* The console hands on the character after the last one
LEMMA ConPut ==
  ASSUME NEW c, NEW p \in Nat, ConAt(c, p), c.slots # <<>>
  PROVE  Head(c.slots).off = p + 1 /\ ConAt([c EXCEPT !.slots = Advanced(@)], p + 1)
<1> DEFINE q == c.slots
           m == Head(q)
           new == IF m.off = m.end THEN Tail(q) ELSE [q EXCEPT ![1].off = @ + 1]
<1>1. /\ c \in Console /\ q \in Seq(Msg) /\ c.next \in Nat /\ Len(q) <= Slots /\ Slots \in Nat
      /\ Chain(q, c.next) /\ From(q, c.next) = p
  BY UartAssumption DEF ConAt, Console
<1>2. m = q[1] /\ m \in Msg /\ Len(q) \in Nat /\ Len(q) >= 1
  BY <1>1
<1>3. m.off \in Nat \ {0} /\ m.end \in Nat /\ m.off <= m.end
  BY <1>1, <1>2 DEF Msg, Chain
<1>4. m.off = p + 1
  BY <1>1, <1>2, <1>3 DEF From
<1>5. new \in Seq(Msg) /\ Len(new) <= Len(q) /\ Chain(new, c.next) /\ From(new, c.next) = p + 1
  <2>1. CASE m.off = m.end
    <3> DEFINE r == Tail(q)
    <3>1. new = r
      BY <2>1
    <3>2. r \in Seq(Msg) /\ Len(r) = Len(q) - 1 /\ \A i \in 1 .. Len(q) - 1 : r[i] = q[i + 1]
      BY <1>1, <1>2
    <3> HIDE DEF r, new
    <3>3. ASSUME NEW i \in 1 .. Len(r) PROVE r[i].off <= r[i].end
      <4>1. r[i] = q[i + 1] /\ i + 1 \in 1 .. Len(q)
        BY <1>2, <3>2
      <4> QED BY <1>1, <4>1 DEF Chain
    <3>4. ASSUME NEW i \in 1 .. Len(r) - 1 PROVE r[i + 1].off = r[i].end + 1
      <4>1. r[i] = q[i + 1] /\ r[i + 1] = q[(i + 1) + 1] /\ i + 1 \in 1 .. Len(q) - 1
        BY <1>2, <3>2
      <4> QED BY <1>1, <4>1 DEF Chain
    <3>5. r # <<>> => r[Len(r)].end = c.next
      <4> SUFFICES ASSUME r # <<>> PROVE r[Len(r)].end = c.next
        OBVIOUS
      <4>1. r[Len(r)] = q[Len(q)]
        BY <1>2, <3>2
      <4> QED BY <1>1, <1>2, <4>1 DEF Chain
    <3>6. From(r, c.next) = p + 1
      <4>1. CASE r = <<>>
        <5>1. Len(q) = 1
          BY <1>2, <3>2, <4>1
        <5>2. q[1].end = c.next
          BY <1>1, <5>1 DEF Chain
        <5> QED BY <1>2, <1>4, <2>1, <4>1, <5>2 DEF From
      <4>2. CASE r # <<>>
        <5>1. r[1] = q[2] /\ 1 \in 1 .. Len(q) - 1
          BY <1>2, <3>2, <4>2
        <5>2. q[1 + 1].off = q[1].end + 1
          BY <1>1, <5>1 DEF Chain
        <5>3. r[1].off = m.end + 1
          BY <1>2, <5>1, <5>2
        <5> QED BY <1>3, <1>4, <2>1, <4>2, <5>3 DEF From
      <4> QED BY <4>1, <4>2
    <3>7. Chain(r, c.next)
      BY <3>3, <3>4, <3>5 DEF Chain
    <3> QED BY <1>2, <3>1, <3>2, <3>6, <3>7
  <2>2. CASE m.off # m.end
    <3> DEFINE k == [m EXCEPT !.off = @ + 1]
               r == [q EXCEPT ![1].off = @ + 1]
    <3>1. new = r
      BY <2>2
    <3>2. k \in Msg /\ k.off = m.off + 1 /\ k.end = m.end
      BY <1>2, <1>3 DEF Msg
    <3>3. r = [q EXCEPT ![1] = k]
      BY <1>2, Zenon
    <3> HIDE DEF k, r, new
    <3>4. r \in Seq(Msg) /\ Len(r) = Len(q) /\ r[1] = k /\ \A i \in 2 .. Len(q) : r[i] = q[i]
      BY <1>1, <1>2, <3>2, <3>3
    <3>5. \A i \in 1 .. Len(q) : r[i].end = q[i].end
      BY <1>2, <3>2, <3>4
    <3>6. ASSUME NEW i \in 1 .. Len(r) PROVE r[i].off <= r[i].end
      <4>1. CASE i = 1
        BY <1>3, <2>2, <3>2, <3>4, <4>1
      <4>2. CASE i # 1
        <5>1. i \in 2 .. Len(q) /\ i \in 1 .. Len(q)
          BY <1>2, <3>4, <4>2
        <5> QED BY <1>1, <3>4, <5>1 DEF Chain
      <4> QED BY <4>1, <4>2
    <3>7. ASSUME NEW i \in 1 .. Len(r) - 1 PROVE r[i + 1].off = r[i].end + 1
      <4>1. i \in 1 .. Len(q) /\ i + 1 \in 2 .. Len(q) /\ i \in 1 .. Len(q) - 1
        BY <1>2, <3>4
      <4> QED BY <1>1, <3>4, <3>5, <4>1 DEF Chain
    <3>8. r # <<>> /\ r[Len(r)].end = c.next
      <4>1. Len(q) \in 1 .. Len(q) /\ r # <<>>
        BY <1>2, <3>4
      <4> QED BY <1>1, <3>4, <3>5, <4>1 DEF Chain
    <3>9. From(r, c.next) = p + 1
      BY <1>3, <1>4, <3>2, <3>4, <3>8 DEF From
    <3>10. Chain(r, c.next)
      BY <3>6, <3>7, <3>8 DEF Chain
    <3> QED BY <1>2, <3>1, <3>4, <3>9, <3>10
  <2> QED BY <2>1, <2>2
<1> HIDE DEF new
<1> DEFINE d == [c EXCEPT !.slots = new]
<1>6. d \in Console /\ d.slots = new /\ d.next = c.next /\ d.q = c.q
  BY <1>1, <1>5 DEF Console
<1> HIDE DEF d
<1>7. Len(d.slots) <= Slots
  BY <1>1, <1>2, <1>5, <1>6
<1>8. ConAt(d, p + 1)
  BY <1>5, <1>6, <1>7 DEF ConAt
<1>9. new = Advanced(q)
  BY DEF new, Advanced
<1> QED BY <1>4, <1>8, <1>9 DEF d

-----------------------------------------------------------------------------
(* The queue of the terminal *)

Signals == {"RX_READY", "REPRINT_PROMPT"}

\* There is an event of the interrupt in the queue
Asked(q) == \E i \in 1 .. Len(q) : q[i] = "RX_READY"

\* One event of the interrupt at most, and the prompts of the n programs that
\* run have their places
QueueOK(q, n) ==
  /\ q \in Seq(Signals) /\ n \in 0 .. MaxPrograms
  /\ \A i, j \in 1 .. Len(q) : q[i] = "RX_READY" /\ q[j] = "RX_READY" => i = j
  /\ Len(q) + n <= MaxPrograms + 1 + (IF Asked(q) THEN 1 ELSE 0)

\* The queue never overflows
LEMMA QueueBound ==
  ASSUME NEW q, NEW n, QueueOK(q, n)
  PROVE  Len(q) <= TerminalQ /\ (~Asked(q) => Len(q) < TerminalQ)
BY UartAssumption DEF QueueOK

\* What is in the queue after a post
LEMMA AskedAppend ==
  ASSUME NEW q \in Seq(Signals), NEW x \in Signals
  PROVE  /\ Append(q, x) \in Seq(Signals) /\ Len(Append(q, x)) = Len(q) + 1
         /\ Asked(Append(q, x)) <=> Asked(q) \/ x = "RX_READY"
<1>1. /\ Append(q, x) \in Seq(Signals) /\ Len(Append(q, x)) = Len(q) + 1 /\ Len(q) \in Nat
      /\ Append(q, x)[Len(q) + 1] = x /\ \A i \in 1 .. Len(q) : Append(q, x)[i] = q[i]
  OBVIOUS
<1>2. \A i \in 1 .. Len(q) + 1 : i \in 1 .. Len(q) \/ i = Len(q) + 1
  BY <1>1
<1>3. \A i \in 1 .. Len(q) : i \in 1 .. Len(q) + 1
  BY <1>1
<1>4. Len(q) + 1 \in 1 .. Len(q) + 1
  BY <1>1
<1> QED BY <1>1, <1>2, <1>3, <1>4 DEF Asked

\* The interrupt posts when it has not asked yet
LEMMA QueueReady ==
  ASSUME NEW q, NEW n, QueueOK(q, n), ~Asked(q)
  PROVE  QueueOK(Append(q, "RX_READY"), n) /\ Asked(Append(q, "RX_READY"))
<1> DEFINE r == Append(q, "RX_READY")
<1>1. q \in Seq(Signals) /\ Len(q) \in Nat /\ "RX_READY" \in Signals /\ n \in Nat /\ MaxPrograms \in Nat
  BY UartAssumption DEF QueueOK, Signals
<1>2. r \in Seq(Signals) /\ Len(r) = Len(q) + 1 /\ Asked(r)
  BY <1>1, AskedAppend
<1>3. \A i \in 1 .. Len(q) : r[i] # "RX_READY"
  BY <1>1 DEF Asked
<1> HIDE DEF r
<1>4. \A i, j \in 1 .. Len(r) : r[i] = "RX_READY" /\ r[j] = "RX_READY" => i = j
  BY <1>1, <1>2, <1>3
<1>5. Len(q) + n <= MaxPrograms + 1
  BY <1>1 DEF QueueOK
<1>6. Len(r) + n <= MaxPrograms + 1 + (IF Asked(r) THEN 1 ELSE 0)
  BY <1>1, <1>2, <1>5
<1>7. QueueOK(r, n)
  BY <1>2, <1>4, <1>6 DEF QueueOK
<1> QED BY <1>2, <1>7 DEF r

\* A program that ends asks for a prompt
LEMMA QueuePrompt ==
  ASSUME NEW q, NEW n, QueueOK(q, n), n > 0
  PROVE  LET r == IF Len(q) < TerminalQ THEN Append(q, "REPRINT_PROMPT") ELSE q
         IN  QueueOK(r, n - 1) /\ (Asked(r) <=> Asked(q))
<1>1. /\ q \in Seq(Signals) /\ Len(q) \in Nat /\ "REPRINT_PROMPT" \in Signals /\ n \in Nat
      /\ n - 1 \in 0 .. MaxPrograms /\ MaxPrograms \in Nat
  BY UartAssumption DEF QueueOK, Signals
<1>2. Len(q) + n <= MaxPrograms + 1 + (IF Asked(q) THEN 1 ELSE 0)
  BY DEF QueueOK
<1>3. CASE Len(q) < TerminalQ
  <2> DEFINE r == Append(q, "REPRINT_PROMPT")
  <2>1. r \in Seq(Signals) /\ Len(r) = Len(q) + 1 /\ (Asked(r) <=> Asked(q))
    BY <1>1, AskedAppend
  <2>2. r[Len(q) + 1] = "REPRINT_PROMPT" /\ \A i \in 1 .. Len(q) : r[i] = q[i]
    BY <1>1
  <2> HIDE DEF r
  <2>3. \A i, j \in 1 .. Len(r) : r[i] = "RX_READY" /\ r[j] = "RX_READY" => i = j
    <3> SUFFICES ASSUME NEW i \in 1 .. Len(r), NEW j \in 1 .. Len(r),
                        r[i] = "RX_READY", r[j] = "RX_READY"
                 PROVE  i = j
      OBVIOUS
    <3>1. i # Len(q) + 1 /\ j # Len(q) + 1
      BY <2>2
    <3>2. i \in 1 .. Len(q) /\ j \in 1 .. Len(q)
      BY <1>1, <2>1, <3>1
    <3>3. q[i] = "RX_READY" /\ q[j] = "RX_READY"
      BY <2>2, <3>2
    <3> QED BY <3>2, <3>3 DEF QueueOK
  <2>4. Len(r) + (n - 1) <= MaxPrograms + 1 + (IF Asked(r) THEN 1 ELSE 0)
    BY <1>1, <1>2, <2>1
  <2>5. QueueOK(r, n - 1)
    BY <1>1, <2>1, <2>3, <2>4 DEF QueueOK
  <2> QED BY <1>3, <2>1, <2>5 DEF r
<1>4. CASE ~(Len(q) < TerminalQ)
  <2>1. Len(q) + (n - 1) <= MaxPrograms + 1 + (IF Asked(q) THEN 1 ELSE 0)
    BY <1>1, <1>2
  <2>2. QueueOK(q, n - 1)
    BY <1>1, <2>1 DEF QueueOK
  <2> QED BY <1>4, <2>2
<1> QED BY <1>3, <1>4

\* The terminal takes the oldest event
LEMMA QueueTail ==
  ASSUME NEW q, NEW n, QueueOK(q, n), q # <<>>
  PROVE  /\ QueueOK(Tail(q), n)
         /\ Head(q) = "RX_READY" => Asked(q) /\ ~Asked(Tail(q))
         /\ Head(q) # "RX_READY" => (Asked(Tail(q)) <=> Asked(q))
<1> DEFINE r == Tail(q)
<1>1. q \in Seq(Signals) /\ Len(q) \in Nat /\ Len(q) >= 1 /\ n \in 0 .. MaxPrograms /\ MaxPrograms \in Nat
  BY UartAssumption DEF QueueOK
<1>2. /\ r \in Seq(Signals) /\ Len(r) = Len(q) - 1 /\ \A i \in 1 .. Len(q) - 1 : r[i] = q[i + 1]
      /\ Head(q) = q[1]
  BY <1>1
<1> HIDE DEF r
<1>3. \A i, j \in 1 .. Len(r) : r[i] = "RX_READY" /\ r[j] = "RX_READY" => i = j
  <2> SUFFICES ASSUME NEW i \in 1 .. Len(r), NEW j \in 1 .. Len(r),
                      r[i] = "RX_READY", r[j] = "RX_READY"
               PROVE  i = j
    OBVIOUS
  <2>1. i + 1 \in 1 .. Len(q) /\ j + 1 \in 1 .. Len(q) /\ r[i] = q[i + 1] /\ r[j] = q[j + 1]
    BY <1>1, <1>2
  <2>2. i + 1 = j + 1
    BY <2>1 DEF QueueOK
  <2> QED BY <2>2
<1>4. Head(q) = "RX_READY" => Asked(q) /\ ~Asked(r)
  <2> SUFFICES ASSUME q[1] = "RX_READY" PROVE Asked(q) /\ ~Asked(r)
    BY <1>2
  <2>1. 1 \in 1 .. Len(q)
    BY <1>1
  <2>2. ASSUME NEW i \in 1 .. Len(r), r[i] = "RX_READY" PROVE FALSE
    <3>1. i + 1 \in 1 .. Len(q) /\ q[i + 1] = "RX_READY" /\ i + 1 # 1
      BY <1>1, <1>2, <2>2
    <3> QED BY <2>1, <3>1 DEF QueueOK
  <2> QED BY <2>1, <2>2 DEF Asked
<1>5. Head(q) # "RX_READY" => (Asked(r) <=> Asked(q))
  <2> SUFFICES ASSUME q[1] # "RX_READY" PROVE Asked(r) <=> Asked(q)
    BY <1>2
  <2>1. ASSUME NEW i \in 1 .. Len(r), r[i] = "RX_READY" PROVE Asked(q)
    <3>1. i + 1 \in 1 .. Len(q) /\ q[i + 1] = "RX_READY"
      BY <1>1, <1>2, <2>1
    <3> QED BY <3>1 DEF Asked
  <2>2. ASSUME NEW i \in 1 .. Len(q), q[i] = "RX_READY" PROVE Asked(r)
    <3>1. i # 1
      BY <2>2
    <3>2. i - 1 \in 1 .. Len(r) /\ (i - 1) + 1 = i
      BY <1>1, <1>2, <3>1
    <3>3. r[i - 1] = "RX_READY"
      BY <1>2, <2>2, <3>2
    <3> QED BY <3>2, <3>3 DEF Asked
  <2> QED BY <2>1, <2>2 DEF Asked
<1>6. Len(q) + n <= MaxPrograms + 1 + (IF Asked(q) THEN 1 ELSE 0)
  BY DEF QueueOK
<1>7. Len(r) + n <= MaxPrograms + 1 + (IF Asked(r) THEN 1 ELSE 0)
  <2>1. CASE Head(q) = "RX_READY"
    BY <1>1, <1>2, <1>4, <1>6, <2>1
  <2>2. CASE Head(q) # "RX_READY"
    BY <1>1, <1>2, <1>5, <1>6, <2>2
  <2> QED BY <2>1, <2>2
<1>8. QueueOK(r, n)
  BY <1>1, <1>2, <1>3, <1>7 DEF QueueOK
<1> QED BY <1>4, <1>5, <1>8 DEF r

\* A program more or less, with an empty queue or one with a prompt
LEMMA QueueShort ==
  ASSUME NEW n \in 0 .. MaxPrograms
  PROVE  /\ QueueOK(<<>>, n) /\ ~Asked(<<>>)
         /\ QueueOK(<<"REPRINT_PROMPT">>, n) /\ ~Asked(<<"REPRINT_PROMPT">>)
<1>1. MaxPrograms \in Nat
  BY UartAssumption
<1>2. <<>> \in Seq(Signals) /\ Len(<<>>) = 0
  OBVIOUS
<1>3. <<"REPRINT_PROMPT">> \in Seq(Signals) /\ Len(<<"REPRINT_PROMPT">>) = 1
  BY DEF Signals
<1>4. ~Asked(<<>>) /\ ~Asked(<<"REPRINT_PROMPT">>)
  BY DEF Asked
<1>5. QueueOK(<<>>, n)
  BY <1>1, <1>2, <1>4 DEF QueueOK
<1>6. QueueOK(<<"REPRINT_PROMPT">>, n)
  BY <1>1, <1>3, <1>4 DEF QueueOK
<1> QED BY <1>4, <1>5, <1>6

-----------------------------------------------------------------------------
(* The inductive invariant *)

Runs == {"boot", "bound", "idle", "console", "console_full", "reboot", "reset"} \cup Waiting

\* The console has the numbers that the transmitter has not
OutputOK ==
  /\ \E p \in Nat : ConAt(con, p) /\ WireOK(hw, tx, sent, p)
  /\ busy \in BOOLEAN /\ run \in Runs
  /\ run = "boot" => con = ConsoleReset

\* The flag of the interrupt is set as long as its event is in the queue or
\* being handled
ReceiveOK ==
  /\ rx \in Seq(Bytes) /\ Len(rx) <= RxCap /\ input \in Seq(Bytes)
  /\ pending \in BOOLEAN /\ early \in BOOLEAN
  /\ QueueOK(termq, progs)
  /\ pending <=> Asked(termq) \/ run \in Waiting
  /\ run \in Waiting => ~Asked(termq)
  /\ run \in {"boot", "bound"} => termq = <<>> /\ (rx # <<>> => early)
  /\ rx # <<>> /\ Registered /\ ~early => pending

\* Without escape sequences the line and the lines are those of the bytes
LinesOK ==
  /\ ShellOK(shell) /\ EolOK(shell) /\ read \in Seq(Bytes)
  /\ cmds \in Seq(Seq(Bytes)) /\ Len(cmds) <= Mailbox
  /\ (\A i \in 1 .. Len(read) : read[i] # "ESC") =>
       shell.esc = 0 /\ shell.nav = 0 /\ LinesOf(read) = [line |-> shell.line, all |-> lines]

IInv == OutputOK /\ ReceiveOK /\ LinesOK

-----------------------------------------------------------------------------
(* Output *)

\* After a reset there is nothing to send
LEMMA QuietReset ==
  ConAt(ConsoleReset, 0) /\ WireOK(QuietUart, <<>>, 0, 0)
<1>1. <<>> \in Seq(Msg) /\ <<>> \in Seq(Events) /\ <<>> \in Seq(Nat) /\ Len(<<>>) = 0
  OBVIOUS
<1>2. Slots \in Nat /\ ConsoleQ \in Nat /\ TxCap \in Nat
  BY UartAssumption
<1>3. ConsoleReset \in Console /\ ConsoleReset.slots = <<>> /\ ConsoleReset.q = <<>> /\ ConsoleReset.next = 0
  BY <1>1 DEF ConsoleReset, Console
<1>4. Chain(<<>>, 0) /\ From(<<>>, 0) = 0
  BY <1>1 DEF Chain, From
<1>5. ConAt(ConsoleReset, 0)
  BY <1>1, <1>2, <1>3, <1>4 DEF ConAt
<1>6. QuietUart \in Uart /\ QuietUart.tdr = 0 /\ QuietUart.shift = 0
  BY DEF QuietUart, Uart
<1>7. Loaded(QuietUart, 0) = 0
  BY <1>6 DEF Loaded
<1>8. WireOK(QuietUart, <<>>, 0, 0)
  BY <1>1, <1>2, <1>6, <1>7 DEF WireOK
<1> QED BY <1>5, <1>8

\* A handler that prints
LEMMA PrintStep ==
  ASSUME OutputOK, NEW out \in Out, con' = Printed(con, out), UNCHANGED <<hw, tx, sent, busy>>,
         run' \in Runs, run' # "boot"
  PROVE  OutputOK'
<1>1. PICK p \in Nat : ConAt(con, p) /\ WireOK(hw, tx, sent, p)
  BY DEF OutputOK
<1>2. ConAt(con', p)
  BY <1>1, PrintedKeeps
<1>3. WireOK(hw', tx', sent', p)
  BY <1>1
<1> QED BY <1>2, <1>3 DEF OutputOK

\* A handler that does not print
LEMMA SilentStep ==
  ASSUME OutputOK, UNCHANGED <<hw, tx, sent, busy, con>>, run' \in Runs, run' # "boot"
  PROVE  OutputOK'
BY DEF OutputOK

\* A step that changes flags of the console or its queue
LEMMA FlagStep ==
  ASSUME OutputOK, UNCHANGED <<hw, tx, sent, busy>>, con' \in Console, Len(con'.q) <= ConsoleQ,
         con'.slots = con.slots, con'.next = con.next, run' \in Runs, run' # "boot"
  PROVE  OutputOK'
<1>1. PICK p \in Nat : ConAt(con, p) /\ WireOK(hw, tx, sent, p)
  BY DEF OutputOK
<1>2. ConAt(con', p)
  BY <1>1, ConQueue
<1>3. WireOK(hw', tx', sent', p)
  BY <1>1
<1> QED BY <1>2, <1>3 DEF OutputOK

\* The hardware that the interrupt handler leaves
LEMMA IrqWire ==
  ASSUME NEW p, WireOK(hw, tx, sent, p), USART6_IRQHandler
  PROVE  WireOK(hw', tx', sent', p)
<1> DEFINE clear == [hw EXCEPT !.rdr = None]
           txe == IF TxeIrq THEN TxeHandler(clear) ELSE clear
           rest == IF TxeIrq /\ tx # <<>> THEN Tail(tx) ELSE tx
<1>1. hw' = (IF TcIrq THEN TcHandler(txe) ELSE txe) /\ tx' = rest /\ sent' = sent
  BY DEF USART6_IRQHandler
<1>2. hw \in Uart
  BY DEF WireOK
<1>3. clear \in Uart /\ clear.tdr = hw.tdr /\ clear.shift = hw.shift
  BY <1>2 DEF Uart
<1> HIDE DEF clear
<1>4. WireOK(clear, tx, sent, p)
  BY <1>3, WireFlags
<1>5. WireOK(txe, rest, sent, p)
  <2>1. CASE ~TxeIrq
    BY <1>4, <2>1
  <2>2. CASE TxeIrq /\ tx = <<>>
    <3> DEFINE d == [clear EXCEPT !.txeie = FALSE, !.tcie = TRUE]
    <3>1. txe = d /\ rest = tx
      BY <2>2 DEF TxeHandler
    <3>2. d \in Uart /\ d.tdr = clear.tdr /\ d.shift = clear.shift
      BY <1>3 DEF Uart
    <3> HIDE DEF d, txe, rest
    <3> QED BY <1>4, <3>1, <3>2, WireFlags
  <2>3. CASE TxeIrq /\ tx # <<>>
    <3>1. txe = WriteTdr(clear, Head(tx)) /\ rest = Tail(tx)
      BY <2>3 DEF TxeHandler
    <3>2. clear.tdr = 0
      BY <1>3, <2>3 DEF TxeIrq
    <3> HIDE DEF txe, rest
    <3> QED BY <1>4, <2>3, <3>1, <3>2, WireTxe
  <2> QED BY <2>1, <2>2, <2>3
<1> HIDE DEF txe, rest
<1>6. CASE TcIrq
  <2> DEFINE d == [txe EXCEPT !.tc = FALSE, !.tcie = FALSE]
  <2>1. txe \in Uart
    BY <1>5 DEF WireOK
  <2>2. d \in Uart /\ d.tdr = txe.tdr /\ d.shift = txe.shift
    BY <2>1 DEF Uart
  <2>3. hw' = d
    BY <1>1, <1>6 DEF TcHandler
  <2> HIDE DEF d
  <2> QED BY <1>1, <1>5, <2>2, <2>3, WireFlags
<1>7. CASE ~TcIrq
  BY <1>1, <1>5, <1>7
<1> QED BY <1>6, <1>7

\* The interrupt keeps the order of the output
LEMMA IrqOutput ==
  ASSUME OutputOK, USART6_IRQHandler
  PROVE  OutputOK'
<1>1. PICK p \in Nat : ConAt(con, p) /\ WireOK(hw, tx, sent, p)
  BY DEF OutputOK
<1>2. WireOK(hw', tx', sent', p)
  BY <1>1, IrqWire
<1>3. run' = run /\ busy' = (busy /\ ~TcIrq)
  BY DEF USART6_IRQHandler
<1>4. busy' \in BOOLEAN
  BY <1>3
<1>5. CASE TcIrq /\ Len(con.q) < ConsoleQ /\ run # "boot"
  <2> DEFINE d == [con EXCEPT !.q = Append(@, "TX_READY")]
  <2>1. con' = d
    BY <1>5 DEF USART6_IRQHandler
  <2>2. con \in Console /\ con.q \in Seq(Events) /\ ConsoleQ \in Nat
    BY <1>1, UartAssumption DEF ConAt, Console
  <2>3. Append(con.q, "TX_READY") \in Seq(Events) /\ Len(Append(con.q, "TX_READY")) = Len(con.q) + 1
    BY <2>2 DEF Events
  <2>4. d \in Console /\ d.q = Append(con.q, "TX_READY") /\ d.slots = con.slots /\ d.next = con.next
    BY <2>2, <2>3 DEF Console
  <2> HIDE DEF d
  <2>5. Len(d.q) <= ConsoleQ
    BY <1>5, <2>2, <2>3, <2>4
  <2>6. ConAt(d, p)
    BY <1>1, <2>4, <2>5, ConQueue
  <2> QED BY <1>2, <1>3, <1>4, <1>5, <2>1, <2>6 DEF OutputOK
<1>6. CASE ~(TcIrq /\ Len(con.q) < ConsoleQ /\ run # "boot")
  <2>1. con' = con
    BY <1>6 DEF USART6_IRQHandler
  <2> QED BY <1>1, <1>2, <1>3, <1>4, <2>1 DEF OutputOK
<1> QED BY <1>5, <1>6

\* The messages of the handlers are not empty
LEMMA Messages ==
  /\ <<>> \in Out /\ <<1>> \in Out /\ <<PromptLen>> \in Out /\ <<OutputLen, PromptLen>> \in Out
  /\ <<OutputLen>> \in Out
  /\ \A a \in Out, b \in Out : a \o b \in Out
  /\ \A n \in Nat \ {0} : <<n>> \in Out
<1>1. PromptLen \in Nat \ {0} /\ OutputLen \in Nat \ {0}
  BY ShellAssumption, UartAssumption
<1> QED BY <1>1 DEF Out

\* Every step keeps the order of the output
LEMMA OutputStep ==
  ASSUME IInv, [Next]_vars
  PROVE  OutputOK'
<1>1. OutputOK /\ LinesOK
  BY DEF IInv
<1>2. PICK p \in Nat : ConAt(con, p) /\ WireOK(hw, tx, sent, p)
  BY <1>1 DEF OutputOK
<1>3. con \in Console /\ con.q \in Seq(Events) /\ Len(con.q) <= ConsoleQ /\ ConsoleQ \in Nat
  BY <1>2, UartAssumption DEF ConAt, Console
<1>4. CASE USART6_IRQHandler
  BY <1>1, <1>4, IrqOutput
<1>5. CASE Transmit
  <2>1. WireOK(hw', tx', sent', p)
    BY <1>2, <1>5, WireTransmit DEF Transmit
  <2> QED BY <1>1, <1>2, <1>5, <2>1 DEF Transmit, tasks, OutputOK
<1>6. CASE Receive
  <2>1. hw \in Uart /\ input \in Seq(Bytes) /\ input # <<>>
    BY <1>2, <1>6 DEF WireOK, Receive, IInv, ReceiveOK
  <2>2. Head(input) \in Bytes
    BY <2>1
  <2>3. PICK b \in Bytes \cup {None} : hw' = [hw EXCEPT !.rdr = b]
    <3>1. (IF hw.rdr = None THEN Head(input) ELSE hw.rdr) \in Bytes \cup {None}
      BY <2>1, <2>2 DEF Uart
    <3>2. hw' = [hw EXCEPT !.rdr = IF hw.rdr = None THEN Head(input) ELSE hw.rdr]
      BY <1>6, Zenon DEF Receive
    <3> QED BY <3>1, <3>2, Zenon
  <2>4. hw' \in Uart /\ hw'.tdr = hw.tdr /\ hw'.shift = hw.shift
    BY <2>1, <2>3 DEF Uart
  <2>5. WireOK(hw', tx, sent, p)
    BY <1>2, <2>4, WireFlags
  <2> QED BY <1>1, <1>2, <1>6, <2>5 DEF Receive, tasks, OutputOK
<1>7. CASE ConsoleDispatch
  <2>1. con' \in Console /\ con'.slots = con.slots /\ con'.next = con.next /\ con'.q = Tail(con.q)
    <3>1. Tail(con.q) \in Seq(Events) /\ con' = [con EXCEPT !.q = Tail(con.q)]
      BY <1>3, <1>7 DEF ConsoleDispatch
    <3> QED BY <1>3, <3>1 DEF Console
  <2>2. Len(con'.q) <= ConsoleQ
    <3>1. con.q # <<>>
      BY <1>7 DEF ConsoleDispatch
    <3>2. Len(Tail(con.q)) = Len(con.q) - 1 /\ Len(con.q) \in Nat
      BY <1>3, <3>1
    <3> QED BY <1>3, <2>1, <3>2
  <2>3. run' \in Runs /\ run' # "boot" /\ UNCHANGED <<hw, tx, sent, busy>>
    BY <1>7 DEF ConsoleDispatch, Runs, TaskStep, io
  <2> QED BY <1>1, <2>1, <2>2, <2>3, FlagStep
<1>8. CASE ConsolePut
  <2> DEFINE m == Head(con.slots)
             new == Advanced(con.slots)
             d == [hw EXCEPT !.txeie = TRUE]
  <2>1. con.slots # <<>> /\ Len(tx) < TxCap /\ run' = run /\ run = "console" /\ sent' = sent
    BY <1>8 DEF ConsolePut
  <2>2. tx' = Append(tx, m.off) /\ con' = [con EXCEPT !.slots = new] /\ busy' = TRUE /\ hw' = d
    <3>1. con' = [con EXCEPT !.slots = new]
      BY <1>8, Zenon DEF ConsolePut
    <3> QED BY <1>8, <3>1 DEF ConsolePut
  <2>3. m.off = p + 1 /\ ConAt([con EXCEPT !.slots = new], p + 1)
    BY <1>2, <2>1, ConPut
  <2>4. hw \in Uart
    BY <1>2 DEF WireOK
  <2>5. d \in Uart /\ d.tdr = hw.tdr /\ d.shift = hw.shift
    BY <2>4 DEF Uart
  <2> HIDE DEF m, new, d
  <2>6. WireOK(d, tx, sent, p)
    BY <1>2, <2>5, WireFlags
  <2>7. WireOK(d, Append(tx, p + 1), sent, p + 1)
    BY <2>1, <2>6, WirePut
  <2>8. ConAt(con', p + 1) /\ WireOK(hw', tx', sent', p + 1) /\ p + 1 \in Nat
    BY <2>1, <2>2, <2>3, <2>7
  <2>9. run' \in Runs /\ run' # "boot" /\ busy' \in BOOLEAN
    BY <2>1, <2>2 DEF Runs
  <2> QED BY <2>8, <2>9 DEF OutputOK
<1>9. CASE ConsoleSeesFull
  BY <1>1, <1>9, SilentStep DEF ConsoleSeesFull, TaskStep, io, tasks, Runs
<1>10. CASE ConsoleReturns
  <2>1. con' \in Console /\ con'.slots = con.slots /\ con'.next = con.next /\ con'.q = con.q
    BY <1>3, <1>10 DEF ConsoleReturns, Console
  <2>2. run' \in Runs /\ run' # "boot" /\ UNCHANGED <<hw, tx, sent, busy>>
    BY <1>10 DEF ConsoleReturns, Runs, TaskStep, io
  <2> QED BY <1>1, <1>3, <2>1, <2>2, FlagStep
<1>11. CASE TerminalDispatch
  <2>1. run' \in Runs /\ run' # "boot" /\ UNCHANGED <<hw, tx, sent, busy>>
    BY <1>11 DEF TerminalDispatch, Runs, Waiting, TaskStep, io
  <2>2. CASE Head(termq) = "RX_READY"
    BY <1>1, <1>11, <2>1, <2>2, SilentStep DEF TerminalDispatch
  <2>3. CASE Head(termq) # "RX_READY"
    <3> DEFINE out == <<PromptLen>> \o (IF shell.line = <<>> THEN <<>> ELSE <<Len(shell.line)>>)
    <3>1. con' = Printed(con, out)
      BY <1>11, <2>3 DEF TerminalDispatch
    <3>2. shell.line \in Line
      BY <1>1 DEF LinesOK, ShellOK, Shell
    <3>3. (IF shell.line = <<>> THEN <<>> ELSE <<Len(shell.line)>>) \in Out
      BY <3>2, LineFacts, Messages
    <3>4. out \in Out
      <4> HIDE <1>11
      <4> QED BY <3>3, Messages
    <3> HIDE DEF out
    <3> QED BY <1>1, <2>1, <3>1, <3>4, PrintStep
  <2> QED BY <2>2, <2>3
<1>12. CASE TerminalByte
  <2> DEFINE t == shell_tick(shell, Head(rx))
             d == IF t.submit THEN Dispatched(shell.line) ELSE [out |-> <<>>, cmds |-> cmds]
  <2>1. /\ con' = Printed(con, t.out \o d.out) /\ rx # <<>> /\ run = "terminal" /\ run' = run
        /\ UNCHANGED <<hw, tx, sent, busy>>
    BY <1>12 DEF TerminalByte
  <2>2. Head(rx) \in Bytes
    <3>1. rx \in Seq(Bytes)
      BY DEF IInv, ReceiveOK
    <3> QED BY <2>1, <3>1
  <2>3. t.out \in Out
    BY <1>1, <2>2, ShellTick DEF LinesOK, TickOK
  <2> HIDE DEF t
  <2>4. d.out \in Out
    <3>1. Dispatched(shell.line).out \in Out
      BY Messages DEF Dispatched
    <3> QED BY <3>1, Messages
  <2> HIDE DEF d
  <2>5. t.out \o d.out \in Out
    BY <2>3, <2>4, Messages
  <2>6. run' \in Runs /\ run' # "boot"
    BY <2>1 DEF Runs, Waiting
  <2> QED BY <1>1, <2>1, <2>5, <2>6, PrintStep
<1>13. CASE TerminalSeesEmpty
  BY <1>1, <1>13, SilentStep DEF TerminalSeesEmpty, io, tasks, Runs, Waiting
<1>14. CASE RxEventFinish
  <2>1. run' \in Runs /\ run' # "boot"
    BY <1>14 DEF RxEventFinish, Runs, Waiting
  <2> QED BY <1>1, <1>14, <2>1, SilentStep DEF RxEventFinish
<1>15. CASE Command
  <2>1. UNCHANGED <<hw, tx, sent, busy>> /\ run = "idle"
    BY <1>15 DEF Command, TaskStep, io
  <2>2. CASE Head(cmds) = RebootLine
    BY <1>1, <1>15, <2>1, <2>2, SilentStep DEF Command, Runs
  <2>3. CASE Head(cmds) # RebootLine
    <3>1. run' \in Runs /\ run' # "boot"
      BY <1>15, <2>1, <2>3 DEF Command, Runs
    <3>2. PICK out \in Out : con' = Printed(con, out)
      <4>1. con' = Printed(con, <<OutputLen, PromptLen>>) \/ con' = Printed(con, <<OutputLen>>)
        BY <1>15, <2>3 DEF Command
      <4> QED BY <4>1, Messages
    <3> QED BY <1>1, <2>1, <3>1, <3>2, PrintStep
  <2> QED BY <2>2, <2>3
<1>16. CASE Reboot
  BY <1>1, <1>16, SilentStep DEF Reboot, TaskStep, io, tasks, Runs
<1>17. CASE TaskStops
  <2>1. con' = Printed(con, <<1>>) /\ UNCHANGED <<hw, tx, sent, busy>> /\ run' = "idle"
    BY <1>17 DEF TaskStops, io
  <2>2. run' \in Runs /\ run' # "boot" /\ <<1>> \in Out
    BY <2>1, Messages DEF Runs
  <2> QED BY <1>1, <2>1, <2>2, PrintStep
<1>18. CASE BindUart
  <2>1. con = ConsoleReset /\ UNCHANGED <<hw, tx, sent, busy>>
    BY <1>1, <1>18 DEF BindUart, OutputOK
  <2>2. con' = Printed(con, <<PromptLen>>) /\ run' \in Runs /\ run' # "boot"
    BY <1>18, <2>1 DEF BindUart, Runs
  <2> QED BY <1>1, <2>1, <2>2, Messages, PrintStep
<1>19. CASE RegisterTerminal
  BY <1>1, <1>19, SilentStep DEF RegisterTerminal, io, tasks, Runs
<1>20. CASE Resume
  <2>1. hw' = QuietUart /\ tx' = <<>> /\ sent' = 0 /\ con' = ConsoleReset /\ busy' = FALSE /\ run' = "idle"
    BY <1>20 DEF Resume
  <2>2. ConAt(ConsoleReset, 0) /\ WireOK(QuietUart, <<>>, 0, 0)
    BY QuietReset
  <2>3. busy' \in BOOLEAN /\ run' \in Runs /\ run' # "boot"
    BY <2>1 DEF Runs
  <2>4. ConAt(con', 0) /\ WireOK(hw', tx', sent', 0)
    BY <2>1, <2>2, Zenon
  <2> QED BY <2>3, <2>4 DEF OutputOK
<1>21. CASE UNCHANGED vars
  BY <1>1, <1>21 DEF vars, io, tasks, OutputOK
<1> QED BY <1>4, <1>5, <1>6, <1>7, <1>8, <1>9, <1>10, <1>11, <1>12, <1>13, <1>14, <1>15, <1>16,
           <1>17, <1>18, <1>19, <1>20, <1>21 DEF Next

-----------------------------------------------------------------------------
(* Input *)

\* A step of a handler that is not the terminal's
LEMMA OtherHandler ==
  ASSUME ReceiveOK, UNCHANGED <<rx, pending, early, termq, progs, input>>,
         run \notin {"boot", "bound"} \cup Waiting, run' \notin {"boot", "bound"} \cup Waiting
  PROVE  ReceiveOK'
BY DEF ReceiveOK, Registered

\* A step that leaves the receive side alone
LEMMA NothingReceived ==
  ASSUME ReceiveOK, UNCHANGED <<rx, pending, early, termq, progs, input, run>>
  PROVE  ReceiveOK'
BY DEF ReceiveOK, Registered

\* The receive branch of the interrupt handler: it posts when it has to, and
\* the post does not fail
LEMMA IrqReceive ==
  ASSUME ReceiveOK, hw \in Uart, RxHandler, UNCHANGED <<progs, input, run>>
  PROVE  ReceiveOK'
<1>1. CASE ~(RxIrq /\ hw.rdr # "NOISE" /\ RxRoom)
  BY <1>1, NothingReceived DEF RxHandler
<1>2. CASE RxIrq /\ hw.rdr # "NOISE" /\ RxRoom
  <2>1. /\ rx' = Append(rx, hw.rdr) /\ (pending' <=> pending \/ RxPost)
        /\ termq' = IF RxPost THEN Append(termq, "RX_READY") ELSE termq
        /\ (early' <=> ~RxPost /\ ~pending /\ (early \/ ~Registered))
        /\ pending' \in BOOLEAN /\ early' \in BOOLEAN
    BY <1>2 DEF RxHandler
  <2>2. rx' \in Seq(Bytes) /\ Len(rx') <= RxCap /\ rx' # <<>> /\ input' \in Seq(Bytes)
    <3>1. hw.rdr \in Bytes /\ rx \in Seq(Bytes) /\ Len(rx) < RxCap /\ RxCap \in Nat
      BY <1>2, UartAssumption DEF Uart, RxIrq, RxRoom, ReceiveOK
    <3>2. PICK b \in Bytes : b = hw.rdr
      BY <3>1
    <3>3. Append(rx, b) \in Seq(Bytes) /\ Len(Append(rx, b)) = Len(rx) + 1 /\ Append(rx, b) # <<>>
      BY <3>1
    <3>4. Len(Append(rx, b)) <= RxCap
      BY <3>1, <3>3
    <3> QED BY <2>1, <3>2, <3>3, <3>4 DEF ReceiveOK
  <2>3. QueueOK(termq, progs) /\ (pending <=> Asked(termq) \/ run \in Waiting)
    BY DEF ReceiveOK
  <2>4. CASE RxPost
    <3>1. ~Asked(termq) /\ run \notin Waiting /\ Registered
      BY <2>3, <2>4 DEF RxPost
    <3>2. QueueOK(termq', progs') /\ Asked(termq')
      BY <2>1, <2>3, <2>4, <3>1, QueueReady
    <3>3. pending' /\ run' \notin Waiting /\ run' \notin {"boot", "bound"}
      BY <2>1, <2>4, <3>1 DEF Registered
    <3> QED BY <2>1, <2>2, <3>2, <3>3 DEF ReceiveOK
  <2>5. CASE ~RxPost
    <3>1. termq' = termq /\ (pending' <=> pending) /\ (early' <=> ~pending /\ (early \/ ~Registered))
      BY <2>1, <2>5
    <3>2. CASE Registered
      <4>1. pending
        <5>1. SUFFICES ASSUME ~pending PROVE FALSE
          OBVIOUS
        <5>2. Len(termq) < TerminalQ
          BY <2>3, <5>1, QueueBound
        <5>3. RxBound
          BY <3>2 DEF Registered, RxBound
        <5> QED BY <1>2, <2>5, <3>2, <5>1, <5>2, <5>3 DEF RxPost
      <4>2. Registered' /\ run' \notin {"boot", "bound"} /\ (run' \in Waiting <=> run \in Waiting)
        BY <3>2 DEF Registered
      <4>3. run \in Waiting => ~Asked(termq)
        BY DEF ReceiveOK
      <4>4. QueueOK(termq', progs') /\ (Asked(termq') <=> Asked(termq))
        BY <2>3, <3>1
      <4> QED BY <2>1, <2>2, <2>3, <3>1, <4>1, <4>2, <4>3, <4>4 DEF ReceiveOK
    <3>3. CASE ~Registered
      <4>1. run \in {"boot", "bound"} /\ run' = run /\ run' \notin Waiting
        BY <3>3 DEF Registered, Waiting
      <4>2. termq = <<>> /\ ~Asked(<<>>)
        <5>1. progs \in 0 .. MaxPrograms
          BY <2>3 DEF QueueOK
        <5> QED BY <4>1, <5>1, QueueShort DEF ReceiveOK
      <4>3. ~pending
        BY <2>3, <4>1, <4>2
      <4>4. early' /\ ~pending' /\ ~Registered'
        BY <3>1, <3>3, <4>3 DEF Registered
      <4>5. QueueOK(termq', progs') /\ ~Asked(termq') /\ termq' = <<>>
        BY <2>3, <3>1, <4>2
      <4> QED BY <2>1, <2>2, <4>1, <4>4, <4>5 DEF ReceiveOK
    <3> QED BY <3>2, <3>3
  <2> QED BY <2>4, <2>5
<1> QED BY <1>1, <1>2

\* Every step keeps the event of a received byte
LEMMA ReceiveStep ==
  ASSUME IInv, [Next]_vars
  PROVE  ReceiveOK'
<1>1. ReceiveOK /\ hw \in Uart
  BY DEF IInv, OutputOK, WireOK
<1>2. /\ rx \in Seq(Bytes) /\ Len(rx) <= RxCap /\ input \in Seq(Bytes) /\ QueueOK(termq, progs)
      /\ progs \in 0 .. MaxPrograms /\ RxCap \in Nat
  BY <1>1, UartAssumption DEF ReceiveOK, QueueOK
<1>3. CASE USART6_IRQHandler
  BY <1>1, <1>3, IrqReceive DEF USART6_IRQHandler
<1>4. CASE Transmit
  BY <1>1, <1>4, NothingReceived DEF Transmit, tasks
<1>5. CASE Receive
  <2>1. input' \in Seq(Bytes) /\ UNCHANGED <<rx, pending, early, termq, progs, run>>
    BY <1>2, <1>5 DEF Receive, tasks
  <2> QED BY <1>1, <2>1 DEF ReceiveOK, Registered
<1>6. CASE ConsoleDispatch
  BY <1>1, <1>6, OtherHandler DEF ConsoleDispatch, TaskStep, io, Waiting
<1>7. CASE ConsolePut
  BY <1>1, <1>7, NothingReceived DEF ConsolePut
<1>8. CASE ConsoleSeesFull
  BY <1>1, <1>8, OtherHandler DEF ConsoleSeesFull, TaskStep, io, tasks, Waiting
<1>9. CASE ConsoleReturns
  BY <1>1, <1>9, OtherHandler DEF ConsoleReturns, TaskStep, io, Waiting
<1>10. CASE TerminalDispatch
  <2>1. /\ termq # <<>> /\ termq' = Tail(termq) /\ run = "idle"
        /\ UNCHANGED <<rx, pending, early, progs, input>>
    BY <1>10 DEF TerminalDispatch, TaskStep, io
  <2>2. /\ QueueOK(termq', progs')
        /\ Head(termq) = "RX_READY" => Asked(termq) /\ ~Asked(termq')
        /\ Head(termq) # "RX_READY" => (Asked(termq') <=> Asked(termq))
    BY <1>2, <2>1, QueueTail
  <2>3. run' = IF Head(termq) = "RX_READY" THEN "terminal" ELSE "idle"
    BY <1>10, <2>1 DEF TerminalDispatch
  <2>4. run \notin Waiting /\ Registered /\ Registered' /\ run' \notin {"boot", "bound"}
    BY <2>1, <2>3 DEF Waiting, Registered
  <2>5. run' \in Waiting <=> Head(termq) = "RX_READY"
    BY <2>3 DEF Waiting
  <2> QED BY <1>1, <2>1, <2>2, <2>4, <2>5 DEF ReceiveOK
<1>11. CASE TerminalByte
  <2>1. /\ rx # <<>> /\ run = "terminal" /\ rx' = Tail(rx)
        /\ (early' <=> early /\ Tail(rx) # <<>>) /\ early' \in BOOLEAN
        /\ UNCHANGED <<run, pending, termq, progs, input>>
    BY <1>11 DEF TerminalByte
  <2>2. rx' \in Seq(Bytes) /\ Len(rx') <= RxCap
    BY <1>2, <2>1
  <2>3. pending /\ run' \notin {"boot", "bound"}
    BY <1>1, <2>1 DEF ReceiveOK, Waiting
  <2> QED BY <1>1, <2>1, <2>2, <2>3 DEF ReceiveOK
<1>12. CASE TerminalSeesEmpty
  <2>1. run = "terminal" /\ run' = "finish" /\ UNCHANGED <<rx, pending, early, termq, progs, input>>
    BY <1>12 DEF TerminalSeesEmpty, io, tasks
  <2> QED BY <1>1, <2>1 DEF ReceiveOK, Registered, Waiting
<1>13. CASE RxEventFinish
  <2>1. run = "finish" /\ UNCHANGED <<rx, early, termq, progs, input>>
    BY <1>13 DEF RxEventFinish
  <2>2. CASE rx # <<>>
    <3>1. run' = "terminal" /\ pending' = pending
      BY <1>13, <2>2 DEF RxEventFinish
    <3> QED BY <1>1, <2>1, <3>1 DEF ReceiveOK, Registered, Waiting
  <2>3. CASE rx = <<>>
    <3>1. run' = "idle" /\ pending' = FALSE
      BY <1>13, <2>3 DEF RxEventFinish
    <3>2. pending' \in BOOLEAN /\ ~pending' /\ rx' = <<>>
      BY <2>1, <2>3, <3>1
    <3>3. ~Asked(termq') /\ run' \notin {"boot", "bound"} \cup Waiting
      BY <1>1, <2>1, <3>1 DEF ReceiveOK, Waiting
    <3> QED BY <1>1, <2>1, <3>2, <3>3 DEF ReceiveOK
  <2> QED BY <2>2, <2>3
<1>14. CASE Command
  <2>1. run = "idle" /\ termq = <<>> /\ UNCHANGED <<rx, pending, early, termq, input>>
    BY <1>14 DEF Command, TaskStep, io
  <2>2. run' \in {"idle", "reboot"} /\ progs' \in 0 .. MaxPrograms
    BY <1>2, <1>14, <2>1, UartAssumption DEF Command
  <2>3. QueueOK(termq', progs') /\ (Asked(termq') <=> Asked(termq))
    BY <2>1, <2>2, QueueShort
  <2> QED BY <1>1, <2>1, <2>2, <2>3 DEF ReceiveOK, Registered, Waiting
<1>15. CASE Reboot
  BY <1>1, <1>15, OtherHandler DEF Reboot, TaskStep, io, tasks, Waiting
<1>16. CASE TaskStops
  <2>1. /\ run = "idle" /\ progs > 0 /\ progs' = progs - 1
        /\ termq' = IF Len(termq) < TerminalQ THEN Append(termq, "REPRINT_PROMPT") ELSE termq
        /\ UNCHANGED <<run, rx, pending, early, input>>
    BY <1>16 DEF TaskStops, io
  <2>2. QueueOK(termq', progs') /\ (Asked(termq') <=> Asked(termq))
    BY <1>2, <2>1, QueuePrompt
  <2> QED BY <1>1, <2>1, <2>2 DEF ReceiveOK, Registered, Waiting
<1>17. CASE BindUart
  <2>1. run = "boot" /\ run' = "bound" /\ UNCHANGED <<rx, early, termq, progs, input>> /\ pending' = FALSE
    BY <1>17 DEF BindUart
  <2>2. pending' \in BOOLEAN /\ ~pending'
    BY <2>1
  <2>3. termq = <<>> /\ ~Asked(<<>>)
    BY <1>1, <1>2, <2>1, QueueShort DEF ReceiveOK
  <2>4. ~Asked(termq')
    BY <2>1, <2>3
  <2> QED BY <1>1, <2>1, <2>2, <2>4 DEF ReceiveOK, Registered, Waiting
<1>18. CASE RegisterTerminal
  <2>1. run = "bound" /\ run' = "idle" /\ UNCHANGED <<rx, pending, early, termq, progs, input>>
    BY <1>18 DEF RegisterTerminal, io, tasks
  <2> QED BY <1>1, <2>1 DEF ReceiveOK, Registered, Waiting
<1>19. CASE Resume
  <2>1. /\ rx' = <<>> /\ pending' = FALSE /\ early' = FALSE /\ termq' = <<"REPRINT_PROMPT">>
        /\ run' = "idle" /\ UNCHANGED <<input, progs>>
    BY <1>19 DEF Resume
  <2>2. pending' \in BOOLEAN /\ early' \in BOOLEAN /\ ~pending'
    BY <2>1
  <2>3. rx' \in Seq(Bytes) /\ Len(rx') <= RxCap /\ rx' = <<>>
    BY <1>2, <2>1
  <2>4. QueueOK(termq', progs') /\ ~Asked(termq')
    BY <1>2, <2>1, QueueShort
  <2>5. run' \notin {"boot", "bound"} \cup Waiting
    BY <2>1 DEF Waiting
  <2> QED BY <1>2, <2>1, <2>2, <2>3, <2>4, <2>5 DEF ReceiveOK
<1>20. CASE UNCHANGED vars
  BY <1>1, <1>20, NothingReceived DEF vars, io, tasks
<1> QED BY <1>3, <1>4, <1>5, <1>6, <1>7, <1>8, <1>9, <1>10, <1>11, <1>12, <1>13, <1>14, <1>15,
           <1>16, <1>17, <1>18, <1>19, <1>20 DEF Next

-----------------------------------------------------------------------------
(* Lines *)

\* A step that reads no byte
LEMMA NoByteRead ==
  ASSUME LinesOK, UNCHANGED <<shell, read, lines>>, cmds' \in Seq(Seq(Bytes)), Len(cmds') <= Mailbox
  PROVE  LinesOK'
BY DEF LinesOK

\* The mailbox after a line is submitted
LEMMA DispatchedKeeps ==
  ASSUME cmds \in Seq(Seq(Bytes)), Len(cmds) <= Mailbox, NEW line \in Seq(Bytes)
  PROVE  Dispatched(line).cmds \in Seq(Seq(Bytes)) /\ Len(Dispatched(line).cmds) <= Mailbox
<1>1. Mailbox \in Nat
  BY UartAssumption
<1>2. Append(cmds, line) \in Seq(Seq(Bytes)) /\ Len(Append(cmds, line)) = Len(cmds) + 1
  OBVIOUS
<1> QED BY <1>1, <1>2 DEF Dispatched

\* A byte goes to the line
LEMMA ByteLines ==
  ASSUME LinesOK, rx \in Seq(Bytes), TerminalByte
  PROVE  LinesOK'
<1> DEFINE c == Head(rx)
           t == shell_tick(shell, c)
           d == IF t.submit THEN Dispatched(shell.line) ELSE [out |-> <<>>, cmds |-> cmds]
<1>1. /\ shell' = t.sh /\ cmds' = d.cmds /\ read' = Append(read, c) /\ rx # <<>>
      /\ lines' = IF t.submit /\ shell.line # <<>> THEN Append(lines, shell.line) ELSE lines
  BY DEF TerminalByte
<1>2. c \in Bytes /\ read \in Seq(Bytes)
  BY <1>1 DEF LinesOK
<1> HIDE DEF c
<1>3. ShellOK(shell) /\ EolOK(shell)
  BY DEF LinesOK
<1>4. TickOK(t)
  BY <1>2, <1>3, ShellTick
<1>5. shell.line \in Seq(Bytes)
  <2>1. shell.line \in Line
    BY <1>3 DEF ShellOK, Shell
  <2> QED BY <2>1, LineFacts
<1>6. cmds' \in Seq(Seq(Bytes)) /\ Len(cmds') <= Mailbox
  <2>1. cmds \in Seq(Seq(Bytes)) /\ Len(cmds) <= Mailbox
    BY DEF LinesOK
  <2>2. Dispatched(shell.line).cmds \in Seq(Seq(Bytes)) /\ Len(Dispatched(shell.line).cmds) <= Mailbox
    BY <1>5, <2>1, DispatchedKeeps
  <2> HIDE DEF t
  <2> QED BY <1>1, <2>1, <2>2
<1>7. /\ read' \in Seq(Bytes) /\ Len(read') = Len(read) + 1 /\ read'[Len(read) + 1] = c
      /\ \A i \in 1 .. Len(read) : read'[i] = read[i]
  BY <1>1, <1>2
<1>8. ASSUME \A i \in 1 .. Len(read') : read'[i] # "ESC"
      PROVE  /\ shell'.esc = 0 /\ shell'.nav = 0
             /\ LinesOf(read') = [line |-> shell'.line, all |-> lines']
  <2>1. Len(read) \in Nat
    BY <1>2
  <2>2. c # "ESC"
    <3>1. Len(read) + 1 \in 1 .. Len(read')
      BY <1>7, <2>1
    <3> QED BY <1>7, <1>8, <3>1
  <2>3. \A i \in 1 .. Len(read) : read[i] # "ESC"
    <3>1. \A i \in 1 .. Len(read) : i \in 1 .. Len(read')
      BY <1>7, <2>1
    <3> QED BY <1>7, <1>8, <3>1
  <2>4. shell.esc = 0 /\ shell.nav = 0 /\ LinesOf(read) = [line |-> shell.line, all |-> lines]
    BY <2>3 DEF LinesOK
  <2>5. LinesOf(read') = NextByte(LinesOf(read), c)
    BY <1>1, <1>2, LinesOfIs
  <2>6. /\ t.sh.esc = 0 /\ t.sh.nav = 0
        /\ NextByte([line |-> shell.line, all |-> lines], c)
             = [line |-> t.sh.line,
                all |-> IF t.submit /\ shell.line # <<>> THEN Append(lines, shell.line) ELSE lines]
    BY <1>2, <1>3, <2>2, <2>4, PlainTick
  <2> HIDE DEF t
  <2> QED BY <1>1, <2>4, <2>5, <2>6
<1>9. ShellOK(shell') /\ EolOK(shell')
  <2> HIDE DEF t
  <2> QED BY <1>1, <1>4 DEF TickOK
<1> QED BY <1>6, <1>7, <1>8, <1>9 DEF LinesOK

\* Every step keeps the lines
LEMMA LinesStep ==
  ASSUME IInv, [Next]_vars
  PROVE  LinesOK'
<1>1. LinesOK /\ rx \in Seq(Bytes) /\ cmds \in Seq(Seq(Bytes)) /\ Len(cmds) <= Mailbox /\ Mailbox \in Nat
  BY UartAssumption DEF IInv, ReceiveOK, LinesOK
<1>2. CASE UNCHANGED <<shell, read, lines, cmds>>
  BY <1>1, <1>2, NoByteRead
<1>3. CASE TerminalByte
  BY <1>1, <1>3, ByteLines
<1>4. CASE RxEventFinish
  <2>1. UNCHANGED <<read, lines, cmds>>
    BY <1>4 DEF RxEventFinish
  <2>2. CASE rx # <<>>
    BY <1>2, <1>4, <2>1, <2>2 DEF RxEventFinish
  <2>3. CASE rx = <<>>
    <3>1. shell' = WithEol(shell, "NONE")
      BY <1>4, <2>3 DEF RxEventFinish, shell_rx_idle, WithEol
    <3>2. ShellOK(shell) /\ shell \in Shell
      BY <1>1 DEF LinesOK, ShellOK
    <3>3. ShellOK(shell') /\ shell'.eol = "NONE"
      BY <3>1, <3>2, ShellFlags
    <3>4. shell'.line = shell.line /\ shell'.esc = shell.esc /\ shell'.nav = shell.nav
      BY <3>1, <3>2 DEF WithEol, Shell
    <3>5. EolOK(shell')
      BY <3>3 DEF EolOK
    <3> QED BY <1>1, <2>1, <3>3, <3>4, <3>5 DEF LinesOK
  <2> QED BY <2>2, <2>3
<1>5. CASE Command
  <2>1. UNCHANGED <<shell, read, lines>> /\ cmds' = Tail(cmds) /\ cmds # <<>>
    BY <1>5 DEF Command
  <2>2. cmds' \in Seq(Seq(Bytes)) /\ Len(cmds') <= Mailbox
    BY <1>1, <2>1
  <2> QED BY <1>1, <2>1, <2>2, NoByteRead
<1>6. CASE Resume
  <2>1. UNCHANGED <<shell, read, lines>> /\ cmds' = <<>>
    BY <1>6 DEF Resume
  <2>2. cmds' \in Seq(Seq(Bytes)) /\ Len(cmds') <= Mailbox
    BY <1>1, <2>1
  <2> QED BY <1>1, <2>1, <2>2, NoByteRead
<1>7. CASE \/ USART6_IRQHandler \/ Transmit \/ Receive
           \/ ConsoleDispatch \/ ConsolePut \/ ConsoleSeesFull \/ ConsoleReturns
           \/ TerminalDispatch \/ TerminalSeesEmpty \/ Reboot \/ TaskStops
           \/ BindUart \/ RegisterTerminal
  <2>1. UNCHANGED <<shell, read, lines, cmds>>
    BY <1>7 DEF USART6_IRQHandler, Transmit, Receive, ConsoleDispatch, ConsolePut,
         ConsoleSeesFull, ConsoleReturns, TerminalDispatch, TerminalSeesEmpty, Reboot, TaskStops,
         BindUart, RegisterTerminal, tasks
  <2> QED BY <1>2, <2>1
<1>8. CASE UNCHANGED vars
  BY <1>2, <1>8 DEF vars, tasks
<1> QED BY <1>3, <1>4, <1>5, <1>6, <1>7, <1>8 DEF Next

-----------------------------------------------------------------------------
(* The theorems *)

\* The received bytes are sequences of bytes
LEMMA InputsType == Inputs \subseteq Seq(Bytes)
<1> SUFFICES ASSUME NEW i \in Inputs PROVE i \in Seq(Bytes)
  OBVIOUS
<1>1. i \in Seq(STRING)
  BY UartAssumption
<1>2. PICK n \in Nat : n = Len(i) /\ DOMAIN i = 1 .. n /\ i = [k \in 1 .. n |-> i[k]]
  BY <1>1
<1>3. \A k \in 1 .. n : i[k] \in Bytes
  BY <1>2 DEF Bytes, Range
<1>4. [k \in 1 .. n |-> i[k]] \in Seq(Bytes)
  BY <1>3
<1> QED BY <1>2, <1>4

\* The invariant holds after uart_async_init
LEMMA InitIInv ==
  ASSUME Init
  PROVE  IInv
<1>1. OutputOK
  <2>1. /\ hw = QuietUart /\ tx = <<>> /\ sent = 0 /\ con = ConsoleReset /\ busy = FALSE /\ run = "boot"
    BY DEF Init
  <2>2. ConAt(con, 0) /\ WireOK(hw, tx, sent, 0)
    BY <2>1, QuietReset, Zenon
  <2>3. busy \in BOOLEAN /\ run \in Runs
    BY <2>1 DEF Runs
  <2> QED BY <2>1, <2>2, <2>3 DEF OutputOK
<1>2. ReceiveOK
  <2>1. /\ rx = <<>> /\ pending = FALSE /\ early = FALSE /\ termq = <<>> /\ progs = 0 /\ run = "boot"
        /\ input \in Inputs
    BY DEF Init
  <2>2. pending \in BOOLEAN /\ early \in BOOLEAN /\ ~pending
    BY <2>1
  <2>3. rx \in Seq(Bytes) /\ Len(rx) <= RxCap /\ input \in Seq(Bytes)
    BY <2>1, UartAssumption, InputsType
  <2>4. QueueOK(termq, progs) /\ ~Asked(termq)
    <3>1. progs \in 0 .. MaxPrograms
      BY <2>1, UartAssumption
    <3> QED BY <2>1, <3>1, QueueShort
  <2>5. run \notin Waiting
    BY <2>1 DEF Waiting
  <2> QED BY <2>1, <2>2, <2>3, <2>4, <2>5 DEF ReceiveOK
<1>3. LinesOK
  <2>1. shell = ShellInit /\ read = <<>> /\ lines = <<>> /\ cmds = <<>>
    BY DEF Init
  <2>2. <<>> \in Line /\ <<>> \in Hist /\ Len(<<>>) = 0
    BY LineFacts, ShellAssumption DEF Hist
  <2>3. /\ ShellInit \in Shell /\ ShellInit.hist = <<>> /\ ShellInit.nav = 0 /\ ShellInit.line = <<>>
        /\ ShellInit.esc = 0
    BY <2>2 DEF ShellInit, Shell
  <2>4. ShellOK(shell) /\ EolOK(shell) /\ shell.esc = 0 /\ shell.nav = 0 /\ shell.line = <<>>
    BY <2>1, <2>2, <2>3 DEF ShellOK, EolOK
  <2>5. read \in Seq(Bytes) /\ cmds \in Seq(Seq(Bytes)) /\ Len(cmds) <= Mailbox
    BY <2>1, UartAssumption
  <2>6. LinesOf(read) = [line |-> shell.line, all |-> lines]
    <3>1. LinesOf(<<>>) = NothingRead
      BY LinesOfIs
    <3> QED BY <2>1, <2>4, <3>1, Zenon DEF NothingRead
  <2> QED BY <2>4, <2>5, <2>6 DEF LinesOK
<1> QED BY <1>1, <1>2, <1>3 DEF IInv

\* What is on its way to the wire, from the invariant
LEMMA InvOutput ==
  ASSUME IInv PROVE OutputInOrder
<1>1. PICK p \in Nat : ConAt(con, p) /\ WireOK(hw, tx, sent, p)
  BY DEF IInv, OutputOK
<1>2. /\ con.slots \in Seq(Msg) /\ con.next \in Nat /\ Chain(con.slots, con.next)
      /\ From(con.slots, con.next) = p
  BY <1>1 DEF ConAt, Console
<1>3. p <= con.next /\ Texts(con.slots) = Numbers(p, con.next)
  BY <1>2, TextsIs
<1>4. hw.shift \in Nat /\ hw.tdr \in Nat /\ sent \in Nat /\ tx \in Seq(Nat) /\ Len(tx) \in Nat
  BY <1>1 DEF WireOK, Uart
<1>5. PICK l \in Nat : l = Loaded(hw, sent) /\ p = l + Len(tx)
  BY <1>1, <1>4 DEF Loaded, WireOK
<1>6. tx = Numbers(l, p)
  <2>1. \A i \in 1 .. Len(tx) : tx[i] = l + i
    BY <1>1, <1>5 DEF WireOK
  <2> QED BY <1>4, <1>5, <2>1, NumbersAre
<1>7. sent <= l /\ l <= p
  BY <1>4, <1>5 DEF Loaded
<1>8. held(hw.shift) \o held(hw.tdr) = Numbers(sent, l)
  <2>1. \A n \in Nat : <<>> = Numbers(n, n) /\ <<n + 1>> = Numbers(n, n + 1)
    <3> SUFFICES ASSUME NEW n \in Nat PROVE <<>> = Numbers(n, n) /\ <<n + 1>> = Numbers(n, n + 1)
      OBVIOUS
    <3>1. n - n = 0
      OBVIOUS
    <3>2. <<>> = Numbers(n, n)
      BY <3>1 DEF Numbers
    <3>3. PICK q \in Seq(Nat) : q = <<n + 1>>
      <4>1. \A k \in Nat : <<k>> \in Seq(Nat)
        OBVIOUS
      <4>2. n + 1 \in Nat
        OBVIOUS
      <4> QED BY <4>1, <4>2, Zenon
    <3>4. Len(q) = 1 /\ q[1] = n + 1
      BY <3>3
    <3>5. \A j \in 1 .. Len(q) : q[j] = n + j
      BY <3>4
    <3>6. q = Numbers(n, n + Len(q))
      BY <3>5, NumbersAre
    <3> QED BY <3>2, <3>3, <3>4, <3>6
  <2>2. CASE hw.shift = 0
    <3>1. hw.tdr = 0 /\ l = sent
      BY <1>1, <1>4, <1>5, <2>2 DEF WireOK, Loaded
    <3>2. <<>> \o <<>> = <<>>
      OBVIOUS
    <3> QED BY <1>4, <2>1, <2>2, <3>1, <3>2 DEF held
  <2>3. CASE hw.shift # 0 /\ hw.tdr = 0
    <3>1. hw.shift = sent + 1 /\ l = sent + 1
      BY <1>1, <1>4, <1>5, <2>3 DEF WireOK, Loaded
    <3>2. <<sent + 1>> \o <<>> = <<sent + 1>>
      BY <1>4
    <3> QED BY <1>4, <2>1, <2>3, <3>1, <3>2 DEF held
  <2>4. CASE hw.shift # 0 /\ hw.tdr # 0
    <3>1. hw.shift = sent + 1 /\ hw.tdr = sent + 2 /\ l = sent + 2
      BY <1>1, <1>4, <1>5, <2>4 DEF WireOK, Loaded
    <3>2. PICK m \in Nat, k \in Nat : m = sent + 1 /\ k = sent + 2 /\ k = m + 1 /\ sent <= m /\ m <= k
      BY <1>4
    <3>3. <<m>> = Numbers(sent, m) /\ <<k>> = Numbers(m, k)
      BY <1>4, <2>1, <3>2
    <3>4. Numbers(sent, m) \o Numbers(m, k) = Numbers(sent, k)
      BY <1>4, <3>2, NumbersCat
    <3>5. held(hw.shift) = <<m>> /\ held(hw.tdr) = <<k>> /\ l = k
      BY <2>4, <3>1, <3>2 DEF held
    <3> QED BY <3>3, <3>4, <3>5, Zenon
  <2> QED BY <2>2, <2>3, <2>4
<1>9. Pipe = Numbers(sent, con.next)
  <2>1. Numbers(sent, l) \o Numbers(l, p) = Numbers(sent, p)
    BY <1>4, <1>7, NumbersCat
  <2>2. Numbers(sent, p) \o Numbers(p, con.next) = Numbers(sent, con.next)
    <3>1. sent <= p
      BY <1>4, <1>7
    <3> QED BY <1>2, <1>3, <1>4, <3>1, NumbersCat
  <2>3. Pipe = ((held(hw.shift) \o held(hw.tdr)) \o tx) \o Texts(con.slots)
    BY DEF Pipe
  <2> QED BY <1>3, <1>6, <1>8, <2>1, <2>2, <2>3, Zenon
<1>10. /\ Len(Pipe) = con.next - sent
       /\ \A j \in 1 .. con.next - sent : Pipe[j] = sent + j
  <2>1. sent <= con.next
    BY <1>2, <1>3, <1>4, <1>7
  <2> QED BY <1>2, <1>4, <1>9, <2>1, NumbersIs
<1> QED BY <1>2, <1>4, <1>10 DEF OutputInOrder

\* Bounds and events, from the invariant
LEMMA InvReceive ==
  ASSUME IInv PROVE ReceiveSound
<1>1. PICK p \in Nat : ConAt(con, p) /\ WireOK(hw, tx, sent, p)
  BY DEF IInv, OutputOK
<1>2. Len(con.slots) <= Slots /\ Len(con.q) <= ConsoleQ /\ con.wake \in BOOLEAN
  BY <1>1 DEF ConAt, Console
<1>3. hw \in Uart /\ Len(tx) <= TxCap
  BY <1>1 DEF WireOK
<1>4. run \in Runs /\ busy \in BOOLEAN /\ pending \in BOOLEAN /\ early \in BOOLEAN /\ Len(rx) <= RxCap
  BY DEF IInv, OutputOK, ReceiveOK
<1>5. Len(termq) <= TerminalQ
  BY QueueBound DEF IInv, ReceiveOK
<1>6. Len(cmds) <= Mailbox /\ shell.line \in Line /\ shell.hist \in Hist
  BY DEF IInv, LinesOK, ShellOK, Shell
<1>7. Len(shell.line) <= LineMax /\ Len(shell.hist) <= HistMax
  BY <1>6 DEF Line, Hist
<1>8. TypeOK
  BY <1>2, <1>3, <1>4, <1>5, <1>6, <1>7 DEF TypeOK, Runs, Uart
<1>9. RxWakesTerminal
  BY DEF IInv, ReceiveOK, RxWakesTerminal, Asked
<1> QED BY <1>8, <1>9 DEF ReceiveSound

\* The lines, from the invariant
LEMMA InvLines ==
  ASSUME IInv PROVE LinesAsTyped
BY DEF IInv, LinesOK, LinesAsTyped

\* The invariant is inductive
LEMMA Inductive == Spec => []IInv
<1>1. Init => IInv
  BY InitIInv
<1>2. IInv /\ [Next]_vars => IInv'
  BY OutputStep, ReceiveStep, LinesStep DEF IInv
<1> QED BY <1>1, <1>2, PTL DEF Spec

\* Rings and queues stay within their bounds, a post to the terminal never
\* fails, and clearing the flag in uart_async_rx_event_finish never races with
\* the interrupt: a received byte has an event or a handler that will see it.
THEOREM NoReceivedByteForgotten == Spec => []ReceiveSound
<1>1. IInv => ReceiveSound
  BY InvReceive
<1> QED BY <1>1, Inductive, PTL

\* The characters that the console accepted are on the wire, in the transmitter,
\* in the ring and in the messages in the order of their acceptance, each once,
\* however the interrupt and console_task_dispatch interleave.
THEOREM OutputStaysInOrder == Spec => []OutputInOrder
<1>1. IInv => OutputInOrder
  BY InvOutput
<1> QED BY <1>1, Inductive, PTL

\* Without escape sequences the submitted lines and the line being edited are
\* the ones that were typed, however CR LF is spread over events and idle times.
THEOREM TypedLines == Spec => []LinesAsTyped
<1>1. IInv => LinesAsTyped
  BY InvLines
<1> QED BY <1>1, Inductive, PTL

=============================================================================
