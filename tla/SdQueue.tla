------------------------------ MODULE SdQueue ------------------------------
(***************************************************************************)
(* The queue of SD card reads: the SD task of src/scheduler/sd_task.c and  *)
(* the interrupt-driven transfer of src/drivers/sd/sd_async.c, as          *)
(* functions of their state sd:                                            *)
(*   op      the request the task is working on (g_sd_task_ctx.op),        *)
(*   oper    the driver's operation (g_sd_ctx.operation),                  *)
(*   status  the driver's status (g_sd_ctx.status),                        *)
(*   left    the blocks of the transfer still to come,                     *)
(*   q       the events in the queue of the task.                          *)
(* A request is the kind of the command and the number of blocks it reads. *)
(***************************************************************************)
EXTENDS Integers, Sequences

CONSTANTS
  SdQueueCap,  \* the capacity of the queue of the SD task
  MaxBlocks    \* SD_TASK_MAX_BLOCKS

ASSUME SdAssumption == SdQueueCap \in Nat /\ SdQueueCap > 1 /\ MaxBlocks \in Nat \ {0}

Request(kind, blocks) == [sig |-> kind, blocks |-> blocks]
SdDone == [sig |-> "DONE", blocks |-> 0]
SdError == [sig |-> "ERROR", blocks |-> 0]
SdEvent == [sig : {"READ", "TEST", "DONE", "ERROR"}, blocks : 0 .. MaxBlocks]

SdState ==
  [op : {"NONE", "READ", "TEST"}, oper : {"NONE", "READ"},
   status : {"IDLE", "IN_PROGRESS", "COMPLETE", "ERROR"},
   left : 0 .. MaxBlocks, q : Seq(SdEvent)]

\* sd_task_register after sd_async_init
SdInit == [op |-> "NONE", oper |-> "NONE", status |-> "IDLE", left |-> 0, q |-> <<>>]

\* sd_async_init: the transfer, if any, is forgotten; the task is not told
sd_async_init(sd) == [sd EXCEPT !.oper = "NONE", !.status = "IDLE", !.left = 0]

\* sd_task_request_read_dump and sd_task_request_test; a full queue refuses
sd_request(sd, r) == IF Len(sd.q) < SdQueueCap THEN [sd EXCEPT !.q = Append(@, r)] ELSE sd

\* sd_task_start_read and sd_async_read_start
sd_async_read_start(sd, blocks) ==
  [sd EXCEPT !.oper = "READ", !.status = "IN_PROGRESS", !.left = blocks]

\* Mutant: a request does not look whether one is being served
sd_task_request_unguarded(sd, ok) ==
  LET r == Head(sd.q)
      clean == [sd_async_init(sd) EXCEPT !.q = Tail(@)]
  IN  IF ok THEN [sd_async_read_start(clean, r.blocks) EXCEPT !.op = r.sig]
      ELSE [clean EXCEPT !.op = "NONE"]

\* sd_task_dispatch of a request; ok: the card comes up and the read starts
sd_task_request(sd, ok) ==
  LET r == Head(sd.q)
      clean == [sd_async_init(sd) EXCEPT !.q = Tail(@)]
  IN  IF sd.op # "NONE" THEN [sd EXCEPT !.q = Tail(@)]
      ELSE IF ok THEN [sd_async_read_start(clean, r.blocks) EXCEPT !.op = r.sig]
      ELSE clean

\* sd_task_dispatch of SD_SIG_TRANSFER_DONE and SD_SIG_TRANSFER_ERROR: the
\* driver keeps its operation until somebody calls sd_async_init
sd_task_complete(sd) == [sd EXCEPT !.q = Tail(@), !.op = "NONE"]

\* SDMMC1_IRQHandler at the end of a block: the next one, or the event
sd_irq_data_end(sd) ==
  IF sd.left > 1 THEN [sd EXCEPT !.left = @ - 1]
  ELSE [sd EXCEPT !.left = 0, !.status = "COMPLETE", !.q = Append(@, SdDone)]

\* SDMMC1_IRQHandler with an error flag
sd_irq_error(sd) == [sd EXCEPT !.status = "ERROR", !.q = Append(@, SdError)]

\* Nobody else may use the card: the guard of jrnl_append_record,
\* snapshot_write_one and rwfs.c
sd_in_use(sd) == sd.oper # "NONE" \/ sd.status = "IN_PROGRESS"
=============================================================================
