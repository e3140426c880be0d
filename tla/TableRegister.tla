---------------------------- MODULE TableRegister ----------------------------
(***************************************************************************)
(* What the disk table promises to the boot menu and to the application,   *)
(* whatever the card does to single sectors: one register.  An update that *)
(* is reported as done is the value of the register; one that is reported  *)
(* as failed is either lost, or done, or stays in doubt, and only the last *)
(* failed update can be in doubt.  An update changes the field it is for   *)
(* and keeps the rest of a value the register really had.                  *)
(***************************************************************************)
EXTENDS Naturals

CONSTANTS Formats,   \* values a format writes
          Targets,   \* boot targets
          Seqs,      \* snapshot numbers
          Unformatted

VARIABLES value,     \* what the table certainly says
          doubt,     \* what it may say instead after a failed update
          report     \* how the last update was reported

Init == value = Unformatted /\ doubt = {} /\ report = "ok"

Base == ({value} \cup doubt) \ {Unformatted}

\* An update to v is done and reported so, or it fails
Write(v) ==
  \/ value' = v /\ doubt' = {} /\ report' = "ok"
  \/ /\ report' = "err"
     /\ \/ value' = v /\ doubt' = {}
        \/ value' = value /\ doubt' = {v} \ {value}
        \/ UNCHANGED <<value, doubt>>

Format == \E v \in Formats : Write(v)
SetTarget == \E b \in Base, t \in Targets : Write([b EXCEPT !.target = t])
SetLastSnap == \E b \in Base, n \in Seqs : Write([b EXCEPT !.last = n])

Next == Format \/ SetTarget \/ SetLastSnap

Spec == Init /\ [][Next]_<<value, doubt, report>>
=============================================================================
