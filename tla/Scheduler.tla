------------------------------ MODULE Scheduler ------------------------------
(***************************************************************************)
(* The cooperative scheduler of src/scheduler/scheduler.c: thread code     *)
(* (main, then sched_run and the handlers it dispatches) and interrupt     *)
(* handlers that post events.  Interrupts are masked only inside eq_push,  *)
(* eq_pop and eq_drain.  Everything else interleaves, so every             *)
(* read-modify-write of ready_bitmap is a load step and a store step.      *)
(***************************************************************************)
EXTENDS Integers, EventQueue

CONSTANTS N,         \* SCHED_MAX_AO: AO ids and priorities are 0 .. N-1
          Prio,      \* Prio[x]: the fixed priority of AO x, higher is more urgent
          Capacity,  \* Capacity[x]: the queue capacity in the task_spec_t of x
          Events,    \* the events that are posted
          NoEvent,   \* the content of storage that was never written
          Isr,       \* the interrupt handlers that post events
          Urgency,   \* Urgency[i]: NVIC priority of i, higher preempts lower
          Targets,   \* Targets[i]: the AOs that handler i posts to
          MaxOps     \* bound: scheduler calls made by one run-to-completion step

AO == 0 .. N - 1
NoAO == N

ASSUME ConstantsAssumption ==
  /\ N \in Nat \ {0}
  /\ Prio \in [AO -> 0 .. N - 1]
  /\ Capacity \in [AO -> Nat \ {0}]
  /\ NoEvent \notin Events
  /\ Urgency \in [Isr -> Nat]
  /\ Targets \in [Isr -> SUBSET AO]
  /\ MaxOps \in Nat

\* USART6, SDMMC1 and SysTick have different NVIC priorities and post to
\* different AOs, so a push that preempts a push never meets the same queue.
ASSUME IsrAssumption ==
  \A i, j \in Isr : i # j => /\ Urgency[i] # Urgency[j]
                             /\ Targets[i] \cap Targets[j] = {}

VARIABLES
  registered,   \* the x with table[x] # 0 (and then table[x]->dispatch # 0)
  accept,       \* the x with AO_FLAG_ACCEPT_EVENTS set
  q,            \* q[x]: the event_queue_t of x
  ready,        \* ready_bitmap as the set of its bits
  rr,           \* rr_cursor, indexed by priority
  tpc,          \* where the thread is
  ev,           \* the event_t e of sched_run
  cur,          \* ao in sched_run; NoAO while main() runs before sched_run
  scanId,       \* loop counter of highest_ready_prio and pick_ready_rr
  best,         \* highest priority found so far, -1 for none
  arg,          \* AO of the scheduler call in progress
  reg,          \* CPU register holding the loaded ready_bitmap
  ops,          \* scheduler calls made by the running step
  ipc,          \* ipc[i]: where interrupt handler i is
  iarg,         \* iarg[i]: the AO it posts to
  ireg,         \* ireg[i]: its loaded ready_bitmap
  observed      \* history: ready_bitmap when the current scan started

shared == <<registered, accept, q, ready>>
loop   == <<rr, cur, ev, scanId, best, observed>>
thread == <<tpc, arg, reg, ops>>
isrs   == <<ipc, iarg, ireg>>
vars   == <<shared, loop, thread, isrs>>

ThreadPC == {"handler", "post_load", "post_store", "reg_check", "unreg_off",
             "unreg_load", "unreg_store", "flush_store", "scan", "wfi", "pick",
             "pop", "done", "done_load", "done_store", "panic"}

IsrPC == {"idle", "load", "store"}

\* sched_init, then main() starts to register tasks and to post
Init ==
  /\ registered = {} /\ accept = {} /\ ready = {}
  /\ q = [x \in AO |-> eq_init([k \in 0 .. Capacity[x] - 1 |-> NoEvent], Capacity[x])]
  /\ rr = [p \in AO |-> 0]
  /\ tpc = "handler" /\ cur = NoAO /\ ev = NoEvent /\ scanId = 0 /\ best = -1
  /\ arg = NoAO /\ reg = {} /\ ops = 0 /\ observed = {}
  /\ ipc = [i \in Isr |-> "idle"]
  /\ iarg = [i \in Isr |-> NoAO]
  /\ ireg = [i \in Isr |-> {}]

-----------------------------------------------------------------------------
(* Interrupt handlers.  A handler runs when no handler of the same or a    *)
(* higher urgency is active, and runs to its end before what it preempted. *)

Active == {i \in Isr : ipc[i] # "idle"}

IsrRuns(i) == i \in Active /\ \A j \in Active : Urgency[j] <= Urgency[i]

CanPost(x) == x \in registered /\ x \in accept /\ ~eq_is_full(q[x])

\* sched_post_isr up to and including eq_push_isr; a refused post (unknown AO,
\* not accepting, queue full) changes nothing.  A handler that makes several
\* posts is several activations in a row.
IsrPost(i, x, e) ==
  /\ \A j \in Active : Urgency[j] < Urgency[i]
  /\ x \in Targets[i] /\ CanPost(x)
  /\ q' = [q EXCEPT ![x] = eq_push(@, e)]
  /\ ipc' = [ipc EXCEPT ![i] = "load"]
  /\ iarg' = [iarg EXCEPT ![i] = x]
  /\ UNCHANGED <<registered, accept, ready, loop, thread, ireg>>

\* ready_bitmap |= bit: the load ...
IsrLoad(i) ==
  /\ IsrRuns(i) /\ ipc[i] = "load"
  /\ ireg' = [ireg EXCEPT ![i] = ready]
  /\ ipc' = [ipc EXCEPT ![i] = "store"]
  /\ UNCHANGED <<shared, loop, thread, iarg>>

\* ... and the store
IsrStore(i) ==
  /\ IsrRuns(i) /\ ipc[i] = "store"
  /\ ready' = ireg[i] \cup {iarg[i]}
  /\ ipc' = [ipc EXCEPT ![i] = "idle"]
  /\ iarg' = [iarg EXCEPT ![i] = NoAO]
  /\ ireg' = [ireg EXCEPT ![i] = {}]
  /\ UNCHANGED <<registered, accept, q, loop, thread>>

-----------------------------------------------------------------------------
(* Thread code.  It runs only while no interrupt handler is active.        *)

ThreadAt(pc) == tpc = pc /\ Active = {}

\* A call of the scheduler API by main() or by the dispatched handler
Call(x, pc) ==
  /\ ThreadAt("handler") /\ ops < MaxOps
  /\ ops' = ops + 1 /\ arg' = x /\ tpc' = pc /\ reg' = reg

\* sched_post up to and including eq_push; a refused post changes nothing
SchedPost(x, e) ==
  /\ Call(x, "post_load") /\ CanPost(x)
  /\ q' = [q EXCEPT ![x] = eq_push(@, e)]
  /\ UNCHANGED <<registered, accept, ready, loop, isrs>>

PostLoad ==
  /\ ThreadAt("post_load")
  /\ reg' = ready /\ tpc' = "post_store"
  /\ UNCHANGED <<shared, loop, arg, ops, isrs>>

\* Mutant: the store forgets the bits that were set when it was loaded
PostStoreDropsBits ==
  /\ ThreadAt("post_store")
  /\ ready' = {arg} /\ reg' = {} /\ arg' = NoAO /\ tpc' = "handler"
  /\ UNCHANGED <<registered, accept, q, loop, ops, isrs>>

PostStore ==
  /\ ThreadAt("post_store")
  /\ ready' = reg \cup {arg} /\ reg' = {} /\ arg' = NoAO /\ tpc' = "handler"
  /\ UNCHANGED <<registered, accept, q, loop, ops, isrs>>

\* sched_register_task and sched_register up to the store into table[x]
SchedRegister(x) ==
  /\ Call(x, "reg_check") /\ x \notin registered
  /\ q' = [q EXCEPT ![x] = eq_init(@.buf, Capacity[x])]
  /\ registered' = registered \cup {x}
  /\ accept' = accept \cup {x}
  /\ UNCHANGED <<ready, loop, isrs>>

\* "if (ao->q.count > 0u)": an interrupt may have posted since
RegisterCheck ==
  /\ ThreadAt("reg_check")
  /\ IF eq_is_empty(q[arg]) THEN tpc' = "handler" /\ arg' = NoAO
                            ELSE tpc' = "post_load" /\ arg' = arg
  /\ UNCHANGED <<shared, loop, reg, ops, isrs>>

\* sched_unregister: drain, then clear flags and table[x], then the ready bit
SchedUnregister(x) ==
  /\ Call(x, "unreg_off") /\ x \in registered
  /\ q' = [q EXCEPT ![x] = eq_drain(@)]
  /\ UNCHANGED <<registered, accept, ready, loop, isrs>>

UnregisterOff ==
  /\ ThreadAt("unreg_off")
  /\ registered' = registered \ {arg}
  /\ accept' = accept \ {arg}
  /\ tpc' = "unreg_load"
  /\ UNCHANGED <<q, ready, loop, arg, reg, ops, isrs>>

UnregisterLoad ==
  /\ ThreadAt("unreg_load")
  /\ reg' = ready /\ tpc' = "unreg_store"
  /\ UNCHANGED <<shared, loop, arg, ops, isrs>>

UnregisterStore ==
  /\ ThreadAt("unreg_store")
  /\ ready' = reg \ {arg} /\ reg' = {} /\ arg' = NoAO /\ tpc' = "handler"
  /\ UNCHANGED <<registered, accept, q, loop, ops, isrs>>

SchedPauseAccept(x) ==
  /\ Call(NoAO, "handler") /\ x \in registered
  /\ accept' = accept \ {x}
  /\ UNCHANGED <<registered, q, ready, loop, isrs>>

SchedResumeAccept(x) ==
  /\ Call(NoAO, "handler") /\ x \in registered
  /\ accept' = accept \cup {x}
  /\ UNCHANGED <<registered, q, ready, loop, isrs>>

\* sched_flush_all, made before sched_run only: every queue, then the bitmap
SchedFlushAll ==
  /\ Call(NoAO, "flush_store") /\ cur = NoAO
  /\ q' = [x \in AO |-> IF x \in registered THEN eq_drain(q[x]) ELSE q[x]]
  /\ UNCHANGED <<registered, accept, ready, loop, isrs>>

FlushStore ==
  /\ ThreadAt("flush_store")
  /\ ready' = {} /\ tpc' = "handler"
  /\ UNCHANGED <<registered, accept, q, loop, arg, reg, ops, isrs>>

\* main() enters sched_run, or the handler returns to it
HandlerReturn ==
  /\ ThreadAt("handler")
  /\ tpc' = IF cur = NoAO THEN "scan" ELSE "done"
  /\ ops' = 0 /\ ev' = NoEvent
  /\ UNCHANGED <<shared, rr, cur, scanId, best, observed, arg, reg, isrs>>

-----------------------------------------------------------------------------
(* sched_run *)

\* Mutant: the last ready AO wins, whatever its priority
ScanStepLastReady ==
  /\ ThreadAt("scan") /\ scanId < N
  /\ best' = IF scanId \in ready \cap registered THEN Prio[scanId] ELSE best
  /\ observed' = IF scanId = 0 THEN ready ELSE observed
  /\ scanId' = scanId + 1
  /\ UNCHANGED <<shared, rr, cur, ev, thread, isrs>>

\* One iteration of highest_ready_prio: the bitmap is read again for each id
ScanStep ==
  /\ ThreadAt("scan") /\ scanId < N
  /\ best' = IF scanId \in ready \cap registered /\ Prio[scanId] > best
               THEN Prio[scanId] ELSE best
  /\ observed' = IF scanId = 0 THEN ready ELSE observed
  /\ scanId' = scanId + 1
  /\ UNCHANGED <<shared, rr, cur, ev, thread, isrs>>

\* Mutant: pick_ready_rr starts its loop at 1, so it skips one AO
ScanEndSkipsOne ==
  /\ ThreadAt("scan") /\ scanId = N
  /\ tpc' = IF best = -1 THEN "wfi" ELSE "pick"
  /\ scanId' = IF best = -1 THEN 0 ELSE 1
  /\ UNCHANGED <<shared, rr, cur, ev, best, observed, arg, reg, ops, isrs>>

\* Nothing ready: idle_hook.  Otherwise pick_ready_rr starts.
ScanEnd ==
  /\ ThreadAt("scan") /\ scanId = N
  /\ tpc' = IF best = -1 THEN "wfi" ELSE "pick"
  /\ scanId' = 0
  /\ UNCHANGED <<shared, rr, cur, ev, best, observed, arg, reg, ops, isrs>>

\* WFI returns after the next interrupt; SysTick never stops
Wake ==
  /\ ThreadAt("wfi")
  /\ tpc' = "scan"
  /\ UNCHANGED <<shared, loop, arg, reg, ops, isrs>>

\* Mutant: the ready bit of the candidate is not tested
PickStepIgnoresReady ==
  LET id == (rr[best] + 1 + scanId) % N IN
  /\ ThreadAt("pick")
  /\ IF scanId = N
       THEN tpc' = "scan" /\ scanId' = 0 /\ best' = -1 /\ UNCHANGED <<rr, cur>>
     ELSE IF id \in registered /\ Prio[id] = best
       THEN /\ tpc' = "pop" /\ scanId' = 0 /\ best' = -1
            /\ cur' = id /\ rr' = [rr EXCEPT ![best] = id]
       ELSE scanId' = scanId + 1 /\ UNCHANGED <<tpc, best, rr, cur>>
  /\ UNCHANGED <<shared, ev, observed, arg, reg, ops, isrs>>

\* Mutant: rr_cursor is not advanced
PickStepKeepsCursor ==
  LET id == (rr[best] + 1 + scanId) % N IN
  /\ ThreadAt("pick")
  /\ IF scanId = N
       THEN tpc' = "scan" /\ scanId' = 0 /\ best' = -1 /\ cur' = cur
     ELSE IF id \in registered /\ Prio[id] = best /\ id \in ready
       THEN tpc' = "pop" /\ scanId' = 0 /\ best' = -1 /\ cur' = id
       ELSE scanId' = scanId + 1 /\ UNCHANGED <<tpc, best, cur>>
  /\ UNCHANGED <<shared, rr, ev, observed, arg, reg, ops, isrs>>

\* One iteration of pick_ready_rr; running off the end restarts the loop
PickStep ==
  LET id == (rr[best] + 1 + scanId) % N IN
  /\ ThreadAt("pick")
  /\ IF scanId = N
       THEN tpc' = "scan" /\ scanId' = 0 /\ best' = -1 /\ UNCHANGED <<rr, cur>>
     ELSE IF id \in registered /\ Prio[id] = best /\ id \in ready
       THEN /\ tpc' = "pop" /\ scanId' = 0 /\ best' = -1
            /\ cur' = id /\ rr' = [rr EXCEPT ![best] = id]
       ELSE scanId' = scanId + 1 /\ UNCHANGED <<tpc, best, rr, cur>>
  /\ UNCHANGED <<shared, ev, observed, arg, reg, ops, isrs>>

\* PANIC_IF(ao->dispatch == 0), eq_pop and the call of dispatch
Pop ==
  /\ ThreadAt("pop")
  /\ IF cur \notin registered THEN tpc' = "panic" /\ UNCHANGED <<q, ev>>
     ELSE IF eq_is_empty(q[cur]) THEN tpc' = "done" /\ UNCHANGED <<q, ev>>
     ELSE /\ tpc' = "handler"
          /\ ev' = eq_front(q[cur])
          /\ q' = [q EXCEPT ![cur] = eq_pop(@)]
  /\ UNCHANGED <<registered, accept, ready, rr, cur, scanId, best, observed,
                 arg, reg, ops, isrs>>

\* Mutant: the ready bit is never cleared
DoneCheckNeverClears ==
  /\ ThreadAt("done")
  /\ tpc' = "scan"
  /\ UNCHANGED <<shared, loop, arg, reg, ops, isrs>>

\* "if (eq_is_empty(&ao->q))": the test, the load and the store are separate
DoneCheck ==
  /\ ThreadAt("done")
  /\ tpc' = IF eq_is_empty(q[cur]) THEN "done_load" ELSE "scan"
  /\ UNCHANGED <<shared, loop, arg, reg, ops, isrs>>

DoneLoad ==
  /\ ThreadAt("done_load")
  /\ reg' = ready /\ tpc' = "done_store"
  /\ UNCHANGED <<shared, loop, arg, ops, isrs>>

DoneStore ==
  /\ ThreadAt("done_store")
  /\ ready' = reg \ {cur} /\ reg' = {} /\ tpc' = "scan"
  /\ UNCHANGED <<registered, accept, q, loop, arg, ops, isrs>>

-----------------------------------------------------------------------------
SchedRun == ScanStep \/ ScanEnd \/ Wake \/ PickStep \/ Pop
              \/ DoneCheck \/ DoneLoad \/ DoneStore

ApiCall(x) == \/ \E e \in Events : SchedPost(x, e)
              \/ SchedRegister(x) \/ SchedUnregister(x)
              \/ SchedPauseAccept(x) \/ SchedResumeAccept(x)

ApiStep == PostLoad \/ PostStore \/ RegisterCheck \/ UnregisterOff
             \/ UnregisterLoad \/ UnregisterStore \/ SchedFlushAll \/ FlushStore

Thread == SchedRun \/ HandlerReturn \/ ApiStep \/ \E x \in AO : ApiCall(x)

IsrRun(i) == IsrLoad(i) \/ IsrStore(i)

Next == \/ Thread
        \/ \E i \in Isr : IsrRun(i) \/ \E x \in AO, e \in Events : IsrPost(i, x, e)

Spec == Init /\ [][Next]_vars

\* Interrupt handlers end, and leave the thread time to run
Fairness == SF_vars(Thread) /\ \A i \in Isr : WF_vars(IsrRun(i))

FairSpec == Spec /\ Fairness

-----------------------------------------------------------------------------
(* Properties *)

Storable == Events \cup {NoEvent}

\* Every queue is a ring: what lies between its tail and its head are count
\* events, whatever the order of eq_push, eq_pop, eq_drain and eq_init.
QueuesOK == /\ q \in [AO -> UNION {QueueType(Capacity[x], Storable) : x \in AO}]
            /\ \A x \in AO : Ring(q[x], Capacity[x], Storable)

SharedOK == registered \in SUBSET AO /\ accept \in SUBSET AO /\ ready \in SUBSET AO

LoopOK == /\ rr \in [AO -> AO] /\ cur \in AO \cup {NoAO} /\ ev \in Storable
          /\ scanId \in 0 .. N /\ best \in -1 .. N - 1 /\ observed \in SUBSET AO

ThreadOK == /\ tpc \in ThreadPC /\ arg \in AO \cup {NoAO}
            /\ reg \in SUBSET AO /\ ops \in 0 .. MaxOps

IsrsOK == /\ ipc \in [Isr -> IsrPC] /\ iarg \in [Isr -> AO \cup {NoAO}]
          /\ ireg \in [Isr -> SUBSET AO]

\* Every variable has its type, and every queue is a ring
TypeOK == QueuesOK /\ SharedOK /\ LoopOK /\ ThreadOK /\ IsrsOK

\* Where the thread is between eq_pop and the end of the loop body
InBody == {"handler", "post_load", "post_store", "reg_check", "unreg_off",
           "unreg_load", "unreg_store", "done", "done_load", "done_store"}

Unregistering(x) == arg = x /\ tpc \in {"unreg_off", "unreg_load", "unreg_store"}

\* The queue of x may be empty although its ready bit is set: its event is
\* being handled, it is being removed, or all queues are being flushed.
EmptyAllowed(x) == \/ cur = x /\ tpc \in InBody
                   \/ Unregistering(x)
                   \/ tpc = "flush_store"

HasWork(x) == /\ x \in registered \/ Unregistering(x)
              /\ ~eq_is_empty(q[x]) \/ EmptyAllowed(x)

\* A ready bit promises an event (scheduler.h: "bit(id)=queue non-empty", read
\* from left to right), whatever the interrupt handlers do to the bitmap
\* between the loads and stores of sched_post, sched_unregister and sched_run.
ReadyHasWork == \A x \in ready : HasWork(x)

\* The AO that pick_ready_rr returned is registered when sched_run uses it, so
\* PANIC_IF(ao->dispatch == 0) never fires, and eq_pop finds an event.
PickedCanRun == /\ tpc = "pop" => cur \in registered /\ ~eq_is_empty(q[cur])
                /\ tpc # "panic"

\* What makes ReadyHasWork and PickedCanRun inductive: the same promise for
\* every bitmap that was loaded and will be stored, and an event in the queue
\* of every AO whose bit is about to be set.
PostedHasWork ==
  /\ tpc \in {"post_load", "post_store"} => arg \in registered /\ ~eq_is_empty(q[arg])
  /\ tpc \in {"reg_check", "unreg_off"} => arg \in registered
  /\ \A i \in Active : iarg[i] \in registered /\ ~eq_is_empty(q[iarg[i]])

LoadedHasWork ==
  /\ tpc \in {"post_store", "unreg_store", "done_store"} => \A x \in reg : HasWork(x)
  /\ \A i \in Isr : ipc[i] = "store" => \A x \in ireg[i] : HasWork(x)

ReadyInv == TypeOK /\ ReadyHasWork /\ PickedCanRun /\ PostedHasWork /\ LoadedHasWork

\* The id that iteration k of pick_ready_rr looks at
Candidate(k) == (rr[best] + 1 + k) % N

\* pick_ready_rr always finds an AO of the priority highest_ready_prio found:
\* no interrupt between the two scans takes back the bit the first one saw.
PickFindsOne ==
  tpc = "pick" => \E k \in scanId .. N - 1 :
                    Candidate(k) \in ready \cap registered /\ Prio[Candidate(k)] = best

\* Strict priority: an AO is picked only if no AO of a higher priority was
\* ready when the scan began (docs/scheduler.md: "Priority is strict").
StrictPriority ==
  tpc = "pop" => \A x \in observed \cap registered : Prio[x] <= Prio[cur]

\* Round-robin starves no peer: an AO of the highest priority that a scan saw
\* ready is dispatched or unregistered, even while interrupts keep its peers
\* busy (pick_ready_rr starts after the AO served last).
TopPriorityServed ==
  \A x \in AO : (\A y \in AO : Prio[y] <= Prio[x]) =>
    (tpc = "pick" /\ x \in observed ~> (cur = x /\ tpc = "handler")
                                         \/ x \notin registered)

\* scheduler.h: "bit(id)=queue non-empty", read from right to left: the thread
\* goes to sleep only when every queue is empty.
IdleMeansNoWork ==
  tpc = "wfi" /\ Active = {} =>
    \A x \in registered : ~eq_is_empty(q[x]) => x \in ready

\* The windows in which a post to x by an interrupt handler can be lost: code that
\* was interrupted has loaded ready_bitmap, or has found the queue of x empty, or
\* has drained all queues, and has yet to store what it made of that.
InWindow(x) == \/ tpc = "post_store" /\ arg # x
               \/ tpc \in {"unreg_store", "done_store", "flush_store"}
               \/ tpc = "done_load" /\ cur = x
               \/ \E j \in Active : ipc[j] = "store"

\* A step in which no interrupt handler posts to an AO of S inside its windows
PostsOutside(S) ==
  \A i \in Isr, x \in S, e \in Events : IsrPost(i, x, e) => ~InWindow(x)

\* The rings implement bounded first-in first-out channels
Channels == INSTANCE EventChannels
              WITH chan <- [x \in AO |-> Contents(q[x])], handed <- ev

\* Events are delivered in order and exactly once, or discarded by a drain
QueuesAreFifo == Channels!Spec
=============================================================================
