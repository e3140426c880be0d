----------------------------- MODULE ShellInput -----------------------------
(***************************************************************************)
(* The line editor of src/common_io/lineio_async.c as functions of the     *)
(* shell's state sh: the line, the history (newest first), the place in    *)
(* the history (0: not in it), the line that was being edited when the     *)
(* user went into the history, and the states of the escape sequence and   *)
(* of the end of a line.                                                   *)
(*                                                                         *)
(* What the editor prints is a sequence of the lengths of the messages it  *)
(* hands to the console.                                                   *)
(***************************************************************************)
EXTENDS Integers, Sequences, SequencesExt

CONSTANTS
  LineMax,     \* SHELL_LINE_MAX - 1
  HistMax,     \* SHELL_HISTORY_MAX
  PromptLen    \* the length of the prompt

ASSUME ShellAssumption ==
  LineMax \in Nat \ {0} /\ HistMax \in Nat \ {0} /\ PromptLen \in Nat \ {0}

ShellInit ==
  [line |-> <<>>, hist |-> <<>>, nav |-> 0, scratch |-> <<>>, esc |-> 0, eol |-> "NONE"]

Quiet(sh) == [sh |-> sh, out |-> <<>>, submit |-> FALSE]

\* shell_redraw_line: the row is painted, and again when it got shorter
shell_redraw_line(sh, line) ==
  LET row == <<1, PromptLen>> \o (IF line = <<>> THEN <<>> ELSE <<Len(line)>>)
      pad == [i \in 1 .. Len(sh.line) - Len(line) |-> 1]
  IN  [sh |-> [sh EXCEPT !.line = line], submit |-> FALSE,
       out |-> IF pad = <<>> THEN row ELSE row \o pad \o row]

\* shell_history_push: not an empty line, nor the one pushed last
shell_history_push(hist, line) ==
  IF line = <<>> \/ (hist # <<>> /\ hist[1] = line) THEN hist
  ELSE SubSeq(<<line>> \o hist, 1, IF Len(hist) < HistMax THEN Len(hist) + 1 ELSE HistMax)

shell_history_up(sh) ==
  LET at == IF sh.nav = 0 THEN [sh EXCEPT !.nav = 1, !.scratch = sh.line]
            ELSE IF sh.nav < Len(sh.hist) THEN [sh EXCEPT !.nav = @ + 1]
            ELSE sh
  IN  IF sh.hist = <<>> THEN Quiet(sh) ELSE shell_redraw_line(at, sh.hist[at.nav])

shell_history_down(sh) ==
  LET at == [sh EXCEPT !.nav = @ - 1]
  IN  CASE sh.nav = 0 -> Quiet(sh)
        [] sh.nav = 1 -> shell_redraw_line(at, sh.scratch)
        [] sh.nav > 1 -> shell_redraw_line(at, sh.hist[at.nav])

\* shell_submit_line, but for the call of dispatch
shell_submit_line(sh) ==
  [sh |-> [sh EXCEPT !.hist = shell_history_push(@, sh.line), !.nav = 0,
                     !.scratch = <<>>, !.line = <<>>],
   out |-> <<1>>, submit |-> TRUE]

\* A byte that neither ends a line nor belongs to an escape sequence
shell_edit(sh, c) ==
  IF c = "BS"
  THEN IF sh.line = <<>> THEN Quiet(sh)
       ELSE [Quiet([sh EXCEPT !.line = Front(@)]) EXCEPT !.out = <<1, 1, 1>>]
  ELSE [Quiet([sh EXCEPT !.line = IF Len(@) < LineMax THEN Append(@, c) ELSE @])
          EXCEPT !.out = <<1>>]

\* The byte is the rest of an end of line that has been acted on
Swallowed(sh, c) ==
  \/ sh.eol = "AFTER_CR" /\ c \in {"CR", "LF"}
  \/ sh.eol = "AFTER_CRCR" /\ c = "LF"

\* shell_tick once it has byte c; the result tells whether the line is
\* submitted, the line is that of sh
shell_tick(sh, c) ==
  LET s == [sh EXCEPT !.eol = "NONE"]
  IN  CASE Swallowed(sh, c) ->
             Quiet([sh EXCEPT !.eol = IF c = "CR" THEN "AFTER_CRCR" ELSE "NONE"])
        [] ~Swallowed(sh, c) /\ sh.esc = 1 ->
             Quiet([s EXCEPT !.esc = IF c = "[" THEN 2 ELSE 0])
        [] ~Swallowed(sh, c) /\ sh.esc = 2 ->
             LET t == [s EXCEPT !.esc = 0]
             IN  CASE c = "A" -> shell_history_up(t)
                   [] c = "B" -> shell_history_down(t)
                   [] OTHER -> Quiet(t)
        [] ~Swallowed(sh, c) /\ sh.esc = 0 ->
             CASE c = "ESC" -> Quiet([s EXCEPT !.esc = 1])
               [] c = "CR" -> shell_submit_line([s EXCEPT !.eol = "AFTER_CR"])
               [] c = "LF" -> shell_submit_line(s)
               [] OTHER -> shell_edit(s, c)

\* Mutant: an idle line is forgotten
shell_rx_idle_clears(sh) == [sh EXCEPT !.eol = "NONE", !.line = <<>>]

\* shell_rx_idle
shell_rx_idle(sh) == [sh EXCEPT !.eol = "NONE"]
=============================================================================
