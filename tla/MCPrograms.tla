----------------------------- MODULE MCPrograms -----------------------------
(* Instances of Programs for TLC *)
EXTENDS Programs

Start(p, n) == [cmd |-> "start", prog |-> p, bg |-> FALSE, limit |-> n]
StartBg(n) == [cmd |-> "start", prog |-> "COUNTER", bg |-> TRUE, limit |-> n]
Kill(p) == [cmd |-> "kill", prog |-> p]
Cmd(name) == [cmd |-> name]
RestoreSim(n, v, bg, ops) ==
  [cmd |-> "restoresim", limit |-> n, value |-> v, bg |-> bg, ops |-> ops]
Op(name, n) == [op |-> name, operand |-> n]

\* One game or one counter after the other, with every key
GameLines == {Start("SNAKE", 0), Start("LINE", 0), Start("COUNTER", 2)}
GameKeys == [p \in Programs |->
  CASE p = "SNAKE" -> {"q", "r", "p", "w", "a", "s", "d"}
    [] p = "LINE"  -> {"q", "a", "d", "h", "s", "p", "f", "x"}
    [] p = "COUNTER" -> {"q"}]

\* Every command, one game and the counter
AllLines ==
  {Start("LINE", 0), Start("COUNTER", 1), Kill("COUNTER"), Cmd("snapnow"),
   [cmd |-> "ckptsave", ops |-> <<Op("MUL", 2)>>], Cmd("ckptload"),
   RestoreSim(1, 1, TRUE, <<>>), Cmd("ckptsave_sd"), Cmd("ckptload_sd")}
FewKeys == [p \in Programs |-> IF p = "LINE" THEN {"s"} ELSE {}]

ProgramTimers == Programs
AllTimers == AOs \ {"SNAKE"}
\* The image counts only as long as there may be another boot
LiveView == <<ram, card, IF boots < MaxBoots THEN image ELSE Nothing,
              tty, resumed, typed, snapshots, boots>>
=============================================================================
