--------------------------- MODULE AssemblyLineTask ---------------------------
(***************************************************************************)
(* The assembly line program of src/scheduler/assembly_line_task.c as      *)
(* functions of its context c: g_assembly_line_ctx together with           *)
(* tick_pending, state_restored and restore_needs_stdin_rebind.  Parts are *)
(* numbered by their place in parts[]; part i has part_id i + 1, so that   *)
(* the parts with an even number pass the scan.  next_tick is left out: an *)
(* operation that is pending has a deadline, and a deadline that wraps to  *)
(* tick 0 (assembly_line_task.c:322), which line 645 reads as none, is not *)
(* modelled.  Rendering is left out.  A program that is not active is kept *)
(* at its reset value.                                                     *)
(***************************************************************************)
EXTENDS Naturals, FiniteSets

CONSTANT Parts    \* ASSEMBLY_LINE_PARTS: 4

ASSUME PartsAssumption == Parts \in Nat \ {0}

PartIds == 0 .. Parts - 1      \* also the input slots
NoSlot == Parts                \* ASSEMBLY_LINE_NO_SLOT
Fixture == Parts               \* locations other than the slots
GoodBin == Parts + 1
RejectBin == Parts + 2
Done == {"DONE_GOOD", "DONE_REJECT"}

NewPart(i) == [scan |-> "UNKNOWN", loc |-> i, state |-> "RAW"]

\* assembly_line_task_reset_state
line_reset(c) ==
  [active |-> FALSE, mode |-> "RUNNING", selected |-> 0, robot |-> "HOME",
   needs_home |-> FALSE, op |-> "NONE", fixture |-> NoSlot, completed |-> 0,
   rejected |-> 0, parts |-> [i \in PartIds |-> NewPart(i)],
   pending |-> FALSE, restored |-> c.restored, rebind |-> FALSE]

LineInit == line_reset([restored |-> FALSE])

\* assembly_line_seed_new_run
line_seed(c) == [line_reset(c) EXCEPT !.active = TRUE]

\* assembly_line_state_valid, with the tests that the types of the fields leave
line_state_valid(c) ==
  /\ c.mode \in {"RUNNING", "COMPLETE"} /\ c.selected \in PartIds
  /\ c.fixture \in PartIds \cup {NoSlot}

\* assembly_line_task_register, but for sched_register_task
line_register(c) ==
  LET r == IF c.restored THEN c ELSE line_reset(c)
  IN  [r EXCEPT !.restored = FALSE, !.rebind = @ \/ r.active]

\* assembly_line_find_part_in_location: the parts it may return, one at most
line_find(c, location) ==
  {i \in PartIds : c.parts[i].loc = location /\ c.parts[i].state \notin Done}

\* assembly_line_check_complete
line_check_complete(c) ==
  IF /\ \A i \in PartIds : c.parts[i].state \in Done
     /\ c.fixture = NoSlot /\ c.op = "NONE"
  THEN [c EXCEPT !.mode = "COMPLETE", !.robot = "HOME", !.needs_home = FALSE]
  ELSE c

\* assembly_line_begin_op
line_begin_op(c, op) == [c EXCEPT !.op = op, !.robot = "BUSY", !.pending = FALSE]

\* assembly_line_finish_scan
line_finish_scan(c) ==
  LET part == line_find(c, c.selected)
      ok(i) == i % 2 = 0
  IN  IF \A i \in part : c.parts[i].state # "RAW" THEN c
      ELSE [c EXCEPT !.robot = "HOME",
                     !.parts = [i \in PartIds |->
              IF i \notin part THEN c.parts[i]
              ELSE [c.parts[i] EXCEPT
                      !.scan = IF ok(i) THEN "PASS" ELSE "FAIL",
                      !.state = IF ok(i) THEN "SCANNED_OK" ELSE "SCANNED_BAD"]]]

\* Moves the parts in S to a location
MoveTo(c, S, location, state) ==
  [i \in PartIds |-> IF i \in S THEN [c.parts[i] EXCEPT !.loc = location, !.state = state]
                     ELSE c.parts[i]]

\* Mutant: a part is put on the fixture without looking whether it is free
line_finish_pick_unchecked(c) ==
  LET part == line_find(c, c.selected)
  IN  IF \A i \in part : c.parts[i].state \notin {"SCANNED_OK", "SCANNED_BAD"} THEN c
      ELSE [c EXCEPT !.parts = MoveTo(c, part, Fixture, "AT_FIXTURE"),
                     !.fixture = c.selected, !.robot = "FIXTURE"]

\* assembly_line_finish_pick
line_finish_pick(c) ==
  LET part == line_find(c, c.selected)
  IN  IF \/ c.fixture # NoSlot
         \/ \A i \in part : c.parts[i].state \notin {"SCANNED_OK", "SCANNED_BAD"}
      THEN c
      ELSE [c EXCEPT !.parts = MoveTo(c, part, Fixture, "AT_FIXTURE"),
                     !.fixture = c.selected, !.robot = "FIXTURE"]

\* assembly_line_finish_good
line_finish_good(c) ==
  LET part == line_find(c, Fixture)
  IN  IF \A i \in part : c.parts[i].scan # "PASS" THEN c
      ELSE [c EXCEPT !.parts = MoveTo(c, part, GoodBin, "DONE_GOOD"),
                     !.fixture = NoSlot, !.completed = @ + 1, !.robot = "HOME"]

\* assembly_line_finish_reject: the part on the fixture, or else a bad one in
\* the selected slot
line_finish_reject(c) ==
  LET atFixture == line_find(c, Fixture)
      bad == {i \in line_find(c, c.selected) : c.parts[i].state = "SCANNED_BAD"}
      reject(S, fixture) ==
        [c EXCEPT !.parts = MoveTo(c, S, RejectBin, "DONE_REJECT"),
                  !.fixture = fixture, !.rejected = @ + 1, !.robot = "HOME"]
  IN  IF atFixture # {} THEN reject(atFixture, NoSlot)
      ELSE IF bad # {} THEN reject(bad, c.fixture)
      ELSE c

\* Mutant: the operation is done but stays pending
line_complete_op_stays(c) == c

\* assembly_line_complete_pending_op
line_complete_pending_op(c) ==
  LET idle == [c EXCEPT !.op = "NONE", !.pending = FALSE]
      finished ==
        CASE c.op = "HOME"   -> [idle EXCEPT !.robot = "HOME", !.needs_home = FALSE]
          [] c.op = "SCAN"   -> line_finish_scan(idle)
          [] c.op = "PICK"   -> line_finish_pick(idle)
          [] c.op = "FINISH" -> line_finish_good(idle)
          [] c.op = "REJECT" -> line_finish_reject(idle)
          [] OTHER -> idle
  IN  line_check_complete(finished)

\* A raw key in assembly_line_task_dispatch; q ends in assembly_line_stop
line_key(c, key) ==
  CASE key = "q" -> line_reset(c)
    [] key # "q" /\ c.op # "NONE" -> c
    [] key = "a" /\ c.op = "NONE" -> [c EXCEPT !.selected = (@ + Parts - 1) % Parts]
    [] key = "d" /\ c.op = "NONE" -> [c EXCEPT !.selected = (@ + 1) % Parts]
    [] key = "h" /\ c.op = "NONE" -> line_begin_op(c, "HOME")
    [] /\ key \in {"s", "p", "f", "x"} /\ c.op = "NONE"
       /\ ~c.needs_home /\ c.mode # "COMPLETE" ->
         line_begin_op(c, CASE key = "s" -> "SCAN"   [] key = "p" -> "PICK"
                            [] key = "f" -> "FINISH" [] key = "x" -> "REJECT")
    [] OTHER -> c

\* assembly_line_task_dispatch: the contexts it may leave
line_dispatch(c, e) ==
  { IF e.sig = "START" THEN (IF c.active THEN c ELSE line_seed(c))
    ELSE IF ~c.active THEN c
    ELSE IF e.sig = "TICK" THEN line_complete_pending_op(c)
    ELSE line_key(c, e.key) }

\* assembly_line_task_systick_hook: the guard of its post
line_due(c) == c.active /\ c.op # "NONE" /\ ~c.pending

\* assembly_line_task_encode_state_blob
line_encode(c) == [c EXCEPT !.pending = FALSE, !.restored = FALSE, !.rebind = FALSE]

\* Mutant: the operation that was in progress is taken up again
line_restore_busy(c, blob, lock) ==
  [blob EXCEPT !.robot = "HOME_REQUIRED", !.needs_home = blob.mode # "COMPLETE",
               !.pending = FALSE, !.restored = TRUE, !.rebind = lock]

\* assembly_line_task_restore_state and assembly_line_restore_apply_state_fn for
\* an active line: the operation in progress is dropped and the robot must be
\* homed; lock: the acquisition of stdin returned neither OK nor EXISTS
line_restore(c, blob, lock) ==
  [blob EXCEPT !.op = "NONE",
               !.robot = IF blob.mode = "COMPLETE" THEN "HOME" ELSE "HOME_REQUIRED",
               !.needs_home = blob.mode # "COMPLETE",
               !.pending = FALSE, !.restored = TRUE, !.rebind = lock]
=============================================================================
