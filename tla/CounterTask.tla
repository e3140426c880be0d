----------------------------- MODULE CounterTask -----------------------------
(***************************************************************************)
(* The counter program of src/scheduler/counter_task.c as functions of its *)
(* context c: g_counter_ctx together with the flags state_restored and     *)
(* restore_needs_stdin_rebind.  next_tick is left to the module that       *)
(* composes the programs: there a tick is due at any time.  The data of a  *)
(* counter that is not active is read by nobody (START, register and       *)
(* restore overwrite it), so it is kept at its reset value.                *)
(***************************************************************************)
EXTENDS Naturals, SequencesExt

CONSTANT WordMod    \* 2^32 in the code: value and operand are uint32_t

ASSUME WordAssumption == WordMod \in Nat /\ WordMod > 1

Word == 0 .. WordMod - 1

\* A restore operation as it is decoded: a bad one may have any code
Operation == [op : STRING, operand : Word]

\* counter_task_reset_state
counter_reset(c) ==
  [active |-> FALSE, bg |-> FALSE, pending |-> FALSE, limit |-> 0, value |-> 0,
   restored |-> c.restored, rebind |-> FALSE]

CounterInit == counter_reset([restored |-> FALSE])

\* counter_task_register, but for sched_register_task: a context that was not
\* just restored is reset, also when the counter is running
counter_register(c) ==
  LET r == IF c.restored THEN c ELSE counter_reset(c)
  IN  [r EXCEPT !.restored = FALSE, !.rebind = @ \/ (r.active /\ ~r.bg)]

\* COUNTER_SIG_START
counter_start(c, e) ==
  IF c.active THEN c
  ELSE [c EXCEPT !.active = TRUE, !.bg = e.bg, !.pending = FALSE, !.value = 1,
                 !.limit = IF e.limit = 0 THEN 1 ELSE e.limit]

\* Mutant: a step leaves step_pending set
counter_step_pending(c) ==
  IF ~c.active THEN c
  ELSE IF c.value >= c.limit THEN counter_reset(c) ELSE [c EXCEPT !.value = @ + 1]

\* COUNTER_SIG_STEP; the last one stops the counter
counter_step(c) ==
  IF ~c.active THEN c
  ELSE IF c.value >= c.limit THEN counter_reset(c)
  ELSE [c EXCEPT !.value = @ + 1, !.pending = FALSE]

\* counter_task_dispatch; raw keys are ignored
counter_dispatch(c, e) ==
  CASE e.sig = "START" -> {counter_start(c, e)}
    [] e.sig = "TICK"  -> {counter_step(c)}
    [] OTHER -> {c}

\* counter_task_systick_hook: the guard of its post
counter_due(c) == c.active /\ ~c.pending

-----------------------------------------------------------------------------
(* Restore envelopes: a base state and operations on its value *)

\* One COUNTER_RESTORE_ACTION_APPLY_OP entry
counter_apply_op(v, limit, op) ==
  LET w == CASE op.op = "ADD" -> (v + op.operand) % WordMod
             [] op.op = "SUB" -> IF v > op.operand THEN v - op.operand ELSE 1
             [] op.op = "MUL" -> (v * op.operand) % WordMod
             [] op.op = "DIV" -> IF v \div op.operand = 0 THEN 1 ELSE v \div op.operand
  IN  IF w > limit /\ limit # 0 THEN limit ELSE w

\* counter_task_encode_restore_envelope
counter_encode(c, ops) ==
  [active |-> c.active, bg |-> c.bg, limit |-> c.limit, value |-> c.value, ops |-> ops]

\* What counter_restore_apply_state_fn refuses: an envelope of another version,
\* an unknown action, a short operand, a division by zero
counter_blob_valid(blob) ==
  \A i \in 1 .. Len(blob.ops) :
    /\ blob.ops[i].op \in {"ADD", "SUB", "MUL", "DIV"}
    /\ blob.ops[i].op = "DIV" => blob.ops[i].operand # 0

counter_blob_value(blob) ==
  FoldLeft(LAMBDA v, op : counter_apply_op(v, blob.limit, op), blob.value, blob.ops)

\* counter_restore_apply_state_fn for an active state, but for the acquisition
\* of stdin; lock: it was tried and returned neither OK nor EXISTS
counter_restore(c, blob, lock) ==
  [active |-> TRUE, bg |-> blob.bg, pending |-> FALSE, limit |-> blob.limit,
   value |-> counter_blob_value(blob), restored |-> TRUE, rebind |-> ~blob.bg /\ lock]
=============================================================================
