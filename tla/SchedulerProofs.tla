--------------------------- MODULE SchedulerProofs ---------------------------
(***************************************************************************)
(* Proofs about Scheduler, for every number of AOs, every assignment of    *)
(* priorities and capacities, and every set of interrupt handlers:         *)
(*   - what the ring-buffer operators of EventQueue do, for every          *)
(*     capacity: they keep the ring a ring, and on Contents they are       *)
(*     Append, Tail and the empty sequence;                                *)
(*   - types, FIFO order, the ready bits and the guard of sched_idle;      *)
(*   - the two scans of sched_run agree and priority is strict, whatever   *)
(*     the interrupt handlers do to ready_bitmap between the iterations of *)
(*     highest_ready_prio and pick_ready_rr;                               *)
(*   - a wake-up is lost only when a handler posts while the code that it  *)
(*     interrupts is in one of the windows of InWindow.                    *)
(***************************************************************************)
EXTENDS Scheduler, TLAPS

-----------------------------------------------------------------------------
(* Indices.  An index that ran past the end of the storage at most once.   *)

Wrap(a, c) == IF a < c THEN a ELSE a - c

\* Such an index wraps by one subtraction
LEMMA ModSmall ==
  ASSUME NEW c \in Nat \ {0}, NEW a \in 0 .. 2 * c - 1
  PROVE  a % c = Wrap(a, c) /\ a % c \in 0 .. c - 1
  BY DEF Wrap

\* Moving head by one slot is counting one more event from tail
LEMMA NextSlot ==
  ASSUME NEW c \in Nat \ {0}, NEW t \in 0 .. c - 1, NEW n \in 0 .. c - 1
  PROVE  (((t + n) % c) + 1) % c = (t + (n + 1)) % c
<1>1. t + n \in 0 .. 2 * c - 1 /\ t + (n + 1) \in 0 .. 2 * c - 1
  OBVIOUS
<1>2. (t + n) % c = Wrap(t + n, c) /\ (t + (n + 1)) % c = Wrap(t + (n + 1), c)
  BY <1>1, ModSmall, Zenon
<1>3. Wrap(t + n, c) + 1 \in 0 .. 2 * c - 1
  BY DEF Wrap
<1>4. (Wrap(t + n, c) + 1) % c = Wrap(Wrap(t + n, c) + 1, c)
  BY <1>3, ModSmall, Zenon
<1>5. Wrap(Wrap(t + n, c) + 1, c) = Wrap(t + (n + 1), c)
  BY DEF Wrap
<1> QED BY <1>2, <1>4, <1>5, Zenon

\* Moving tail by one slot shifts the k-th event to position k - 1
LEMMA ShiftSlot ==
  ASSUME NEW c \in Nat \ {0}, NEW t \in 0 .. c - 1, NEW k \in 0 .. c - 1
  PROVE  (((t + 1) % c) + k) % c = (t + (k + 1)) % c
<1>1. t + 1 \in 0 .. 2 * c - 1 /\ t + (k + 1) \in 0 .. 2 * c - 1
  OBVIOUS
<1>2. (t + 1) % c = Wrap(t + 1, c) /\ (t + (k + 1)) % c = Wrap(t + (k + 1), c)
  BY <1>1, ModSmall, Zenon
<1>3. Wrap(t + 1, c) + k \in 0 .. 2 * c - 1
  BY DEF Wrap
<1>4. (Wrap(t + 1, c) + k) % c = Wrap(Wrap(t + 1, c) + k, c)
  BY <1>3, ModSmall, Zenon
<1>5. Wrap(Wrap(t + 1, c) + k, c) = Wrap(t + (k + 1), c)
  BY DEF Wrap
<1> QED BY <1>2, <1>4, <1>5, Zenon

\* The slot head writes is none of the slots in use
LEMMA SlotsDiffer ==
  ASSUME NEW c \in Nat \ {0}, NEW t \in 0 .. c - 1, NEW n \in 0 .. c - 1,
         NEW k \in 0 .. n - 1
  PROVE  (t + k) % c # (t + n) % c
<1>1. t + n \in 0 .. 2 * c - 1 /\ t + k \in 0 .. 2 * c - 1
  OBVIOUS
<1>2. (t + n) % c = Wrap(t + n, c) /\ (t + k) % c = Wrap(t + k, c)
  BY <1>1, ModSmall, Zenon
<1>3. Wrap(t + k, c) # Wrap(t + n, c)
  BY DEF Wrap
<1> QED BY <1>2, <1>3, Zenon

\* One turn around a ring of c places visits every place
LEMMA OneTurn ==
  ASSUME NEW c \in Nat \ {0}, NEW a \in 0 .. c - 1, NEW x \in 0 .. c - 1
  PROVE  \E k \in 0 .. c - 1 : (a + 1 + k) % c = x
<1>1. CASE x > a
  <2>1. x - a - 1 \in 0 .. c - 1 /\ a + 1 + (x - a - 1) = x
    BY <1>1
  <2>2. x \in 0 .. 2 * c - 1 /\ Wrap(x, c) = x
    BY DEF Wrap
  <2>3. x % c = x
    BY <2>2, ModSmall, Zenon
  <2>4. (a + 1 + (x - a - 1)) % c = x
    BY <2>1, <2>3, Zenon
  <2> QED BY <2>1, <2>4, Zenon
<1>2. CASE x <= a
  <2>1. x + c - a - 1 \in 0 .. c - 1 /\ a + 1 + (x + c - a - 1) = x + c
    BY <1>2
  <2>2. x + c \in 0 .. 2 * c - 1 /\ Wrap(x + c, c) = x
    BY DEF Wrap
  <2>3. (x + c) % c = x
    BY <2>2, ModSmall, Zenon
  <2>4. (a + 1 + (x + c - a - 1)) % c = x
    BY <2>1, <2>3, Zenon
  <2> QED BY <2>1, <2>4, Zenon
<1>3. x > a \/ x <= a
  OBVIOUS
<1> QED BY <1>1, <1>2, <1>3, Zenon

-----------------------------------------------------------------------------
(* Rings stay rings *)

\* The fields of a ring have their types
LEMMA RingFields ==
  ASSUME NEW c \in Nat \ {0}, NEW E, NEW r, Ring(r, c, E)
  PROVE  /\ r.buf \in [0 .. c - 1 -> E] /\ r.cap = c /\ r.count \in 0 .. c
         /\ r.head \in 0 .. c - 1 /\ r.tail \in 0 .. c - 1
         /\ r.head = (r.tail + r.count) % c
  BY DEF Ring, QueueType

\* eq_push keeps a ring that is not full a ring, one event longer
LEMMA PushRing ==
  ASSUME NEW c \in Nat \ {0}, NEW E, NEW r, Ring(r, c, E),
         NEW e \in E, ~eq_is_full(r)
  PROVE  /\ Ring(eq_push(r, e), c, E)
         /\ eq_push(r, e).count = r.count + 1
         /\ eq_push(r, e).tail = r.tail
         /\ eq_push(r, e).buf = [r.buf EXCEPT ![r.head] = e]
<1> DEFINE s == eq_push(r, e)
           h == (r.head + 1) % c
<1>1. /\ r.buf \in [0 .. c - 1 -> E] /\ r.cap = c /\ r.count \in 0 .. c - 1
      /\ r.head \in 0 .. c - 1 /\ r.tail \in 0 .. c - 1
      /\ r.head = (r.tail + r.count) % c
  BY RingFields DEF eq_is_full
<1>2. h \in 0 .. c - 1 /\ h = (r.tail + (r.count + 1)) % c
  <2>0. (((r.tail + r.count) % c) + 1) % c = (r.tail + (r.count + 1)) % c
    BY <1>1, NextSlot, Zenon
  <2>1. h = (r.tail + (r.count + 1)) % c
    BY <1>1, <2>0
  <2>2. r.tail + (r.count + 1) \in 0 .. 2 * c - 1
    BY <1>1
  <2> QED BY <2>1, <2>2, ModSmall, Zenon
<1>3. s = [buf |-> [r.buf EXCEPT ![r.head] = e], cap |-> c, head |-> h,
           tail |-> r.tail, count |-> r.count + 1]
  BY <1>1 DEF eq_push, Ring, QueueType
<1> HIDE DEF h, s
<1>4. s \in QueueType(c, E)
  BY <1>1, <1>2, <1>3 DEF QueueType
<1> QED BY <1>1, <1>2, <1>3, <1>4 DEF Ring, s

\* eq_pop keeps a non-empty ring a ring, one event shorter
LEMMA PopRing ==
  ASSUME NEW c \in Nat \ {0}, NEW E, NEW r, Ring(r, c, E), ~eq_is_empty(r)
  PROVE  /\ Ring(eq_pop(r), c, E)
         /\ eq_pop(r).count = r.count - 1
         /\ eq_pop(r).tail = (r.tail + 1) % c
         /\ eq_pop(r).buf = r.buf
         /\ eq_front(r) \in E
<1> DEFINE s == eq_pop(r)
           t == (r.tail + 1) % c
<1>1. /\ r.buf \in [0 .. c - 1 -> E] /\ r.cap = c /\ r.count \in 1 .. c
      /\ r.head \in 0 .. c - 1 /\ r.tail \in 0 .. c - 1
      /\ r.head = (r.tail + r.count) % c
  BY RingFields DEF eq_is_empty
<1>2. t \in 0 .. c - 1
  <2>1. r.tail + 1 \in 0 .. 2 * c - 1
    BY <1>1
  <2> QED BY <2>1, ModSmall, Zenon
<1>3. (t + (r.count - 1)) % c = (r.tail + r.count) % c
  <2>1. r.count - 1 \in 0 .. c - 1 /\ (r.count - 1) + 1 = r.count
    BY <1>1
  <2>2. (t + (r.count - 1)) % c = (r.tail + ((r.count - 1) + 1)) % c
    BY <1>1, <2>1, ShiftSlot, Zenon
  <2> QED BY <2>1, <2>2
<1>4. s = [buf |-> r.buf, cap |-> c, head |-> r.head, tail |-> t,
           count |-> r.count - 1]
  BY <1>1 DEF eq_pop, Ring, QueueType
<1> HIDE DEF t, s
<1>5. s \in QueueType(c, E)
  BY <1>1, <1>2, <1>4 DEF QueueType
<1>6. eq_front(r) \in E
  BY <1>1 DEF eq_front
<1> QED BY <1>1, <1>3, <1>4, <1>5, <1>6 DEF Ring, s, t

\* eq_init on storage of the right size gives an empty ring
LEMMA InitRing ==
  ASSUME NEW c \in Nat \ {0}, NEW E, NEW b \in [0 .. c - 1 -> E]
  PROVE  Ring(eq_init(b, c), c, E) /\ eq_is_empty(eq_init(b, c))
  BY DEF Ring, QueueType, eq_init, eq_is_empty

\* eq_drain empties a ring
LEMMA DrainRing ==
  ASSUME NEW c \in Nat \ {0}, NEW E, NEW r, Ring(r, c, E)
  PROVE  Ring(eq_drain(r), c, E) /\ eq_is_empty(eq_drain(r))
<1>1. eq_drain(r) = eq_init(r.buf, c)
  BY DEF Ring, QueueType, eq_drain, eq_init
<1>2. r.buf \in [0 .. c - 1 -> E]
  BY RingFields
<1>3. Ring(eq_init(r.buf, c), c, E) /\ eq_is_empty(eq_init(r.buf, c))
  BY <1>2, InitRing, Zenon
<1> QED BY <1>1, <1>3, Zenon

-----------------------------------------------------------------------------
(* Rings are first-in first-out *)

\* Contents is a sequence of count events
LEMMA ContentsType ==
  ASSUME NEW c \in Nat \ {0}, NEW E, NEW r, Ring(r, c, E)
  PROVE  Contents(r) \in Seq(E) /\ Len(Contents(r)) = r.count
<1>1. r.count \in Nat /\ r.tail \in 0 .. c - 1 /\ r.cap = c /\ r.count <= c
      /\ r.buf \in [0 .. c - 1 -> E]
  BY RingFields
<1>2. ASSUME NEW k \in 1 .. r.count
      PROVE  r.buf[(r.tail + k - 1) % r.cap] \in E
  <2>1. r.tail + k - 1 \in 0 .. 2 * c - 1
    BY <1>1
  <2>2. (r.tail + k - 1) % c \in 0 .. c - 1
    BY <2>1, ModSmall, Zenon
  <2> QED BY <1>1, <2>2
<1>3. Contents(r) \in [1 .. r.count -> E]
  BY <1>2 DEF Contents
<1> QED BY <1>1, <1>3

\* An empty ring has no contents
LEMMA EmptyContents ==
  ASSUME NEW c \in Nat \ {0}, NEW E, NEW r, Ring(r, c, E), eq_is_empty(r)
  PROVE  Contents(r) = << >>
  BY ContentsType DEF eq_is_empty

\* eq_push appends to the contents
LEMMA PushContents ==
  ASSUME NEW c \in Nat \ {0}, NEW E, NEW r, Ring(r, c, E),
         NEW e \in E, ~eq_is_full(r)
  PROVE  Contents(eq_push(r, e)) = Append(Contents(r), e)
<1> DEFINE s == eq_push(r, e)
<1>1. /\ r.buf \in [0 .. c - 1 -> E] /\ r.cap = c /\ r.count \in 0 .. c - 1
      /\ r.head \in 0 .. c - 1 /\ r.tail \in 0 .. c - 1
      /\ r.head = (r.tail + r.count) % c
  BY RingFields DEF eq_is_full
<1>2. /\ Ring(s, c, E) /\ s.tail = r.tail /\ s.count = r.count + 1
      /\ s.cap = c /\ s.buf = [r.buf EXCEPT ![r.head] = e]
  BY PushRing, RingFields
<1> HIDE DEF s
<1>3. ASSUME NEW k \in 1 .. r.count
      PROVE  Contents(s)[k] = Contents(r)[k]
  <2>1. k - 1 \in 0 .. r.count - 1 /\ r.tail + (k - 1) = r.tail + k - 1
        /\ r.tail + k - 1 \in 0 .. 2 * c - 1
    BY <1>1
  <2>2. (r.tail + (k - 1)) % c # r.head
    BY <1>1, <2>1, SlotsDiffer, Zenon
  <2>3. (r.tail + k - 1) % c \in 0 .. c - 1
    BY <2>1, ModSmall, Zenon
  <2>4. Contents(s)[k] = s.buf[(r.tail + k - 1) % c]
    BY <1>1, <1>2 DEF Contents
  <2>5. Contents(r)[k] = r.buf[(r.tail + k - 1) % c]
    BY <1>1 DEF Contents
  <2> QED BY <1>1, <1>2, <2>1, <2>2, <2>3, <2>4, <2>5
<1>4. Contents(s)[r.count + 1] = e
  <2>1. r.tail + (r.count + 1) - 1 = r.tail + r.count
    BY <1>1
  <2>2. Contents(s)[r.count + 1] = s.buf[(r.tail + (r.count + 1) - 1) % c]
    BY <1>1, <1>2 DEF Contents
  <2> QED BY <1>1, <1>2, <2>1, <2>2
<1>5. Contents(s) \in Seq(E) /\ Len(Contents(s)) = r.count + 1
  BY <1>2, ContentsType
<1>6. Contents(r) \in Seq(E) /\ Len(Contents(r)) = r.count
  BY ContentsType
<1>7. Contents(s) = Append(Contents(r), e)
  BY <1>1, <1>3, <1>4, <1>5, <1>6
<1> QED BY <1>7 DEF s

\* eq_pop hands out the first event and leaves the rest
LEMMA PopContents ==
  ASSUME NEW c \in Nat \ {0}, NEW E, NEW r, Ring(r, c, E), ~eq_is_empty(r)
  PROVE  /\ Contents(r) # << >> /\ Head(Contents(r)) = eq_front(r)
         /\ Contents(eq_pop(r)) = Tail(Contents(r))
<1> DEFINE s == eq_pop(r)
<1>1. r.tail \in 0 .. c - 1 /\ r.count \in 1 .. c /\ r.cap = c
  BY RingFields DEF eq_is_empty
<1>2. /\ Ring(s, c, E) /\ s.tail = (r.tail + 1) % c /\ s.count = r.count - 1
      /\ s.cap = c /\ s.buf = r.buf
  <2>1. /\ Ring(s, c, E) /\ s.tail = (r.tail + 1) % c /\ s.count = r.count - 1
        /\ s.buf = r.buf
    BY PopRing, Zenon
  <2> HIDE DEF s
  <2>2. s.cap = c
    BY <2>1, RingFields
  <2> QED BY <2>1, <2>2
<1> HIDE DEF s
<1>3. ASSUME NEW k \in 1 .. r.count - 1
      PROVE  Contents(s)[k] = Contents(r)[k + 1]
  <2>1. /\ k - 1 \in 0 .. c - 1 /\ (k - 1) + 1 = (k + 1) - 1
        /\ r.tail + ((k - 1) + 1) = r.tail + (k + 1) - 1
        /\ s.tail + (k - 1) = s.tail + k - 1
    BY <1>1, <1>2, RingFields
  <2>2. (s.tail + (k - 1)) % c = (r.tail + ((k - 1) + 1)) % c
    BY <1>1, <1>2, <2>1, ShiftSlot, Zenon
  <2>3. Contents(s)[k] = s.buf[(s.tail + k - 1) % c]
    BY <1>1, <1>2 DEF Contents
  <2>4. Contents(r)[k + 1] = r.buf[(r.tail + (k + 1) - 1) % c]
    BY <1>1 DEF Contents
  <2> QED BY <1>2, <2>1, <2>2, <2>3, <2>4
<1>4. Contents(s) \in Seq(E) /\ Len(Contents(s)) = r.count - 1
  BY <1>2, ContentsType
<1>5. Contents(r) \in Seq(E) /\ Len(Contents(r)) = r.count
  BY ContentsType
<1>6. Contents(r)[1] = eq_front(r)
  <2>1. r.tail + 1 - 1 = r.tail /\ r.tail \in 0 .. 2 * c - 1
    BY <1>1
  <2>2. r.tail % c = r.tail
    BY <1>1
  <2>3. Contents(r)[1] = r.buf[(r.tail + 1 - 1) % c]
    BY <1>1 DEF Contents
  <2> QED BY <2>1, <2>2, <2>3 DEF eq_front
<1>7. Contents(s) = Tail(Contents(r))
  BY <1>1, <1>3, <1>4, <1>5
<1> QED BY <1>1, <1>5, <1>6, <1>7 DEF s

USE ConstantsAssumption

-----------------------------------------------------------------------------
(* What a step does to the queues *)

Pushes(x, e) == /\ ~eq_is_full(q[x]) /\ e \in Events
                /\ q' = [q EXCEPT ![x] = eq_push(q[x], e)] /\ ev' = ev

Pops(x) == /\ ~eq_is_empty(q[x]) /\ ev' = eq_front(q[x])
           /\ q' = [q EXCEPT ![x] = eq_pop(q[x])]

Drains(X) == /\ q' = [x \in AO |-> IF x \in X THEN eq_drain(q[x]) ELSE q[x]]
             /\ ev' = ev

QueueStep == \/ q' = q /\ ev' \in {ev, NoEvent}
             \/ \E x \in AO, e \in Events : Pushes(x, e)
             \/ \E x \in AO : Pops(x)
             \/ \E X \in SUBSET AO : Drains(X)

\* Every step of the scheduler is a push, a pop or a drain, or leaves the
\* queues alone
LEMMA QueueSteps == TypeOK /\ [Next]_vars => QueueStep
<1> SUFFICES ASSUME TypeOK, [Next]_vars PROVE QueueStep
  OBVIOUS
<1> USE DEF vars, shared, loop, thread, isrs
<1>1. ASSUME NEW x \in AO, NEW e \in Events, SchedPost(x, e) PROVE QueueStep
  BY <1>1 DEF SchedPost, Call, CanPost, QueueStep, Pushes
<1>2. ASSUME NEW i \in Isr, NEW x \in AO, NEW e \in Events, IsrPost(i, x, e)
      PROVE  QueueStep
  BY <1>2 DEF IsrPost, CanPost, QueueStep, Pushes
<1>3. ASSUME NEW x \in AO, SchedRegister(x) \/ SchedUnregister(x) PROVE QueueStep
  <2>1. eq_init(q[x].buf, Capacity[x]) = eq_drain(q[x])
    BY RingFields DEF TypeOK, QueuesOK, eq_drain
  <2>2. q' = [q EXCEPT ![x] = eq_drain(q[x])] /\ ev' = ev
    BY <1>3, <2>1 DEF SchedRegister, SchedUnregister
  <2>3. Drains({x})
    BY <2>2 DEF Drains, TypeOK, QueuesOK
  <2> QED BY <2>3 DEF QueueStep
<1>4. CASE SchedFlushAll
  <2>1. Drains(registered)
    BY <1>4 DEF SchedFlushAll, Drains
  <2> QED BY <2>1 DEF QueueStep, TypeOK, SharedOK
<1>5. CASE Pop
  <2>1. CASE cur \in registered /\ ~eq_is_empty(q[cur])
    BY <1>5, <2>1 DEF Pop, QueueStep, Pops, TypeOK, SharedOK
  <2>2. CASE ~(cur \in registered /\ ~eq_is_empty(q[cur]))
    BY <1>5, <2>2 DEF Pop, QueueStep
  <2> QED BY <2>1, <2>2
<1>6. CASE ScanStep \/ ScanEnd \/ Wake \/ PickStep \/ DoneCheck \/ DoneLoad
             \/ DoneStore \/ HandlerReturn
  BY <1>6 DEF ScanStep, ScanEnd, Wake, PickStep, DoneCheck, DoneLoad,
              DoneStore, HandlerReturn, QueueStep
<1>7. CASE PostLoad \/ PostStore \/ RegisterCheck \/ UnregisterOff
             \/ UnregisterLoad \/ UnregisterStore \/ FlushStore
  BY <1>7 DEF PostLoad, PostStore, RegisterCheck, UnregisterOff,
              UnregisterLoad, UnregisterStore, FlushStore, QueueStep
<1>8. ASSUME NEW x \in AO, SchedPauseAccept(x) \/ SchedResumeAccept(x)
      PROVE  QueueStep
  BY <1>8 DEF SchedPauseAccept, SchedResumeAccept, QueueStep
<1>9. ASSUME NEW i \in Isr, IsrRun(i) PROVE QueueStep
  BY <1>9 DEF IsrRun, IsrLoad, IsrStore, QueueStep
<1>10. CASE UNCHANGED vars
  BY <1>10 DEF QueueStep
<1> QED
  BY <1>1, <1>2, <1>3, <1>4, <1>5, <1>6, <1>7, <1>8, <1>9, <1>10
  DEF Next, Thread, SchedRun, ApiCall, ApiStep

\* Such a step keeps every queue a ring
LEMMA QueuesStayRings == QueuesOK /\ QueueStep => QueuesOK'
<1> SUFFICES ASSUME QueuesOK, QueueStep PROVE QueuesOK'
  OBVIOUS
<1> DEFINE QT == UNION {QueueType(Capacity[y], Storable) : y \in AO}
<1>0. ASSUME NEW x \in AO, NEW r, Ring(r, Capacity[x], Storable) PROVE r \in QT
  BY <1>0 DEF Ring
<1>1. CASE q' = q
  BY <1>1 DEF QueuesOK
<1>2. ASSUME NEW x \in AO, NEW e \in Events, Pushes(x, e) PROVE QueuesOK'
  <2>1. Ring(eq_push(q[x], e), Capacity[x], Storable)
    BY <1>2, PushRing DEF Pushes, QueuesOK, Storable
  <2> QED BY <1>0, <1>2, <2>1 DEF Pushes, QueuesOK
<1>3. ASSUME NEW x \in AO, Pops(x) PROVE QueuesOK'
  <2>1. Ring(eq_pop(q[x]), Capacity[x], Storable)
    BY <1>3, PopRing DEF Pops, QueuesOK
  <2> QED BY <1>0, <1>3, <2>1 DEF Pops, QueuesOK
<1>4. ASSUME NEW X \in SUBSET AO, Drains(X) PROVE QueuesOK'
  <2>1. \A x \in AO : Ring(eq_drain(q[x]), Capacity[x], Storable)
    BY DrainRing DEF QueuesOK
  <2>2. \A x \in AO : Ring(q'[x], Capacity[x], Storable)
    BY <1>4, <2>1 DEF Drains, QueuesOK
  <2>3. \A x \in AO : q'[x] \in QT
    BY <1>0, <2>2
  <2> QED BY <1>4, <2>2, <2>3 DEF Drains, QueuesOK
<1> QED BY <1>1, <1>2, <1>3, <1>4 DEF QueueStep

-----------------------------------------------------------------------------
(* Type correctness *)

\* Initially the queues are empty rings
LEMMA InitRings == Init => QueuesOK /\ \A x \in AO : eq_is_empty(q[x])
<1> SUFFICES ASSUME Init PROVE QueuesOK /\ \A x \in AO : eq_is_empty(q[x])
  OBVIOUS
<1> DEFINE storage(x) == [k \in 0 .. Capacity[x] - 1 |-> NoEvent]
<1>1. \A x \in AO : storage(x) \in [0 .. Capacity[x] - 1 -> Storable]
  BY DEF Storable
<1>2. \A x \in AO : q[x] = eq_init(storage(x), Capacity[x])
  BY DEF Init
<1>3. \A x \in AO : Ring(q[x], Capacity[x], Storable) /\ eq_is_empty(q[x])
  <2> SUFFICES ASSUME NEW x \in AO
               PROVE  Ring(q[x], Capacity[x], Storable) /\ eq_is_empty(q[x])
    OBVIOUS
  <2>1. Capacity[x] \in Nat \ {0} /\ storage(x) \in [0 .. Capacity[x] - 1 -> Storable]
    BY <1>1
  <2>2. q[x] = eq_init(storage(x), Capacity[x])
    BY <1>2
  <2>3. \A b \in [0 .. Capacity[x] - 1 -> Storable] :
          /\ Ring(eq_init(b, Capacity[x]), Capacity[x], Storable)
          /\ eq_is_empty(eq_init(b, Capacity[x]))
    BY <2>1, InitRing, Zenon
  <2> HIDE DEF storage
  <2> QED BY <2>1, <2>2, <2>3
<1>4. q \in [AO -> UNION {QueueType(Capacity[x], Storable) : x \in AO}]
  BY <1>3 DEF Init, Ring
<1> QED BY <1>3, <1>4 DEF QueuesOK

\* Every step keeps TypeOK, given that the bits about to be set are those of AOs
LEMMA TypeStep == TypeOK /\ PostedHasWork /\ [Next]_vars => TypeOK'
<1> SUFFICES ASSUME QueuesOK, SharedOK, LoopOK, ThreadOK, IsrsOK,
                    PostedHasWork, [Next]_vars
             PROVE  TypeOK'
  BY DEF TypeOK
<1>q. QueuesOK'
  BY QueueSteps, QueuesStayRings DEF TypeOK
<1>u. /\ UNCHANGED <<registered, accept, ready>> => SharedOK'
      /\ UNCHANGED loop => LoopOK'
      /\ UNCHANGED thread => ThreadOK'
      /\ UNCHANGED isrs => IsrsOK'
  BY DEF SharedOK, LoopOK, ThreadOK, IsrsOK, loop, thread, isrs
<1> USE <1>q, <1>u DEF TypeOK, shared
<1>1. ASSUME NEW x \in AO, NEW pc \in ThreadPC, Call(x, pc) PROVE ThreadOK'
  BY <1>1 DEF Call, ThreadOK
<1>2. ASSUME NEW pc \in ThreadPC, Call(NoAO, pc) PROVE ThreadOK'
  BY <1>2 DEF Call, ThreadOK
<1>3. ASSUME NEW x \in AO, ApiCall(x) PROVE TypeOK'
  <2>1. CASE \E e \in Events : SchedPost(x, e)
    BY <1>1, <2>1 DEF SchedPost, ThreadPC
  <2>2. CASE SchedRegister(x)
    BY <1>1, <2>2 DEF SchedRegister, ThreadPC, SharedOK
  <2>3. CASE SchedUnregister(x)
    BY <1>1, <2>3 DEF SchedUnregister, ThreadPC
  <2>4. CASE SchedPauseAccept(x)
    BY <1>2, <2>4 DEF SchedPauseAccept, ThreadPC, SharedOK
  <2>5. CASE SchedResumeAccept(x)
    BY <1>2, <2>5 DEF SchedResumeAccept, ThreadPC, SharedOK
  <2> QED BY <1>3, <2>1, <2>2, <2>3, <2>4, <2>5 DEF ApiCall
<1>4. ASSUME NEW i \in Isr, NEW x \in AO, NEW e \in Events, IsrPost(i, x, e)
      PROVE  TypeOK'
  <2>1. IsrsOK'
    BY <1>4 DEF IsrPost, IsrPC, IsrsOK
  <2> QED BY <1>4, <2>1 DEF IsrPost
<1>5. ASSUME NEW i \in Isr, IsrRun(i) PROVE TypeOK'
  <2>1. CASE IsrLoad(i)
    <3>1. IsrsOK'
      BY <2>1 DEF IsrLoad, IsrPC, IsrsOK, SharedOK
    <3> QED BY <2>1, <3>1 DEF IsrLoad
  <2>2. CASE IsrStore(i)
    <3>1. iarg[i] \in AO
      BY <2>2 DEF IsrStore, IsrRuns, PostedHasWork, SharedOK
    <3>2. SharedOK'
      BY <2>2, <3>1 DEF IsrStore, SharedOK, IsrsOK
    <3>3. IsrsOK'
      BY <2>2 DEF IsrStore, IsrPC, IsrsOK
    <3> QED BY <2>2, <3>2, <3>3 DEF IsrStore
  <2> QED BY <1>5, <2>1, <2>2 DEF IsrRun
<1>6. CASE ApiStep
  <2>1. CASE PostLoad
    BY <2>1 DEF PostLoad, ThreadPC, ThreadOK, SharedOK
  <2>2. CASE PostStore
    BY <2>2 DEF PostStore, ThreadAt, ThreadPC, PostedHasWork, ThreadOK, SharedOK
  <2>3. CASE RegisterCheck
    BY <2>3 DEF RegisterCheck, ThreadPC, ThreadOK
  <2>4. CASE UnregisterOff
    BY <2>4 DEF UnregisterOff, ThreadPC, ThreadOK, SharedOK
  <2>5. CASE UnregisterLoad
    BY <2>5 DEF UnregisterLoad, ThreadPC, ThreadOK, SharedOK
  <2>6. CASE UnregisterStore
    BY <2>6 DEF UnregisterStore, ThreadPC, ThreadOK, SharedOK
  <2>7. CASE SchedFlushAll
    BY <1>2, <2>7 DEF SchedFlushAll, ThreadPC
  <2>8. CASE FlushStore
    BY <2>8 DEF FlushStore, ThreadPC, ThreadOK, SharedOK
  <2> QED BY <1>6, <2>1, <2>2, <2>3, <2>4, <2>5, <2>6, <2>7, <2>8 DEF ApiStep
<1>7. CASE HandlerReturn
  <2>1. LoopOK'
    BY <1>7 DEF HandlerReturn, LoopOK, Storable
  <2>2. ThreadOK'
    BY <1>7 DEF HandlerReturn, ThreadPC, ThreadOK
  <2> QED BY <1>7, <2>1, <2>2 DEF HandlerReturn
<1>8. CASE PickStep
  <2> DEFINE id == (rr[best] + 1 + scanId) % N
  <2>1. ThreadOK'
    BY <1>8 DEF PickStep, ThreadPC, ThreadOK
  <2>2. CASE scanId = N
    <3>1. LoopOK'
      BY <1>8, <2>2 DEF PickStep, LoopOK
    <3> QED BY <1>8, <2>1, <3>1 DEF PickStep
  <2>3. CASE scanId # N /\ id \in registered /\ Prio[id] = best /\ id \in ready
    <3>1. LoopOK'
      BY <1>8, <2>3 DEF PickStep, LoopOK, SharedOK
    <3> QED BY <1>8, <2>1, <3>1 DEF PickStep
  <2>4. CASE scanId # N /\ ~(id \in registered /\ Prio[id] = best /\ id \in ready)
    <3>1. LoopOK'
      BY <1>8, <2>4 DEF PickStep, LoopOK
    <3> QED BY <1>8, <2>1, <3>1 DEF PickStep
  <2> QED BY <2>2, <2>3, <2>4
<1>9. CASE Pop
  <2>1. ev' \in Storable
    <3>1. CASE cur \in registered /\ ~eq_is_empty(q[cur])
      <4>1. cur \in AO /\ ev' = eq_front(q[cur])
        BY <1>9, <3>1 DEF Pop, SharedOK
      <4> QED BY <3>1, <4>1, PopRing DEF QueuesOK
    <3>2. CASE ~(cur \in registered /\ ~eq_is_empty(q[cur]))
      BY <1>9, <3>2 DEF Pop, LoopOK
    <3> QED BY <3>1, <3>2
  <2>2. LoopOK'
    BY <1>9, <2>1 DEF Pop, LoopOK
  <2>3. ThreadOK'
    BY <1>9 DEF Pop, ThreadPC, ThreadOK
  <2> QED BY <1>9, <2>2, <2>3 DEF Pop
<1>10. CASE ScanStep
  <2>a. scanId \in AO /\ scanId + 1 \in 0 .. N
    BY <1>10 DEF ScanStep, LoopOK, AO
  <2>b. Prio[scanId] \in 0 .. N - 1
    BY <2>a
  <2>1. scanId \in AO /\ Prio[scanId] \in -1 .. N - 1 /\ scanId + 1 \in 0 .. N
    BY <2>a, <2>b
  <2>2. best' \in -1 .. N - 1 /\ observed' \in SUBSET AO /\ scanId' \in 0 .. N
    BY <1>10, <2>1 DEF ScanStep, LoopOK, SharedOK
  <2>3. LoopOK'
    BY <1>10, <2>2 DEF ScanStep, LoopOK
  <2> QED BY <1>10, <2>3 DEF ScanStep
<1>11. CASE ScanEnd
  <2>1. LoopOK' /\ ThreadOK'
    BY <1>11 DEF ScanEnd, LoopOK, ThreadOK, ThreadPC
  <2> QED BY <1>11, <2>1 DEF ScanEnd
<1>12. CASE Wake
  BY <1>12 DEF Wake, ThreadOK, ThreadPC
<1>13. CASE DoneCheck
  BY <1>13 DEF DoneCheck, ThreadOK, ThreadPC
<1>14. CASE DoneLoad
  BY <1>14 DEF DoneLoad, ThreadOK, ThreadPC, SharedOK
<1>15. CASE DoneStore
  BY <1>15 DEF DoneStore, ThreadOK, ThreadPC, SharedOK
<1>16. CASE UNCHANGED vars
  BY <1>16 DEF vars
<1> QED BY <1>3, <1>4, <1>5, <1>6, <1>7, <1>8, <1>9, <1>10, <1>11, <1>12, <1>13,
           <1>14, <1>15, <1>16 DEF Next, Thread, SchedRun

-----------------------------------------------------------------------------
(* A ready bit promises an event *)

\* A push leaves work in the queue it extends, and in all that had some
LEMMA PushKeepsWork ==
  ASSUME QueuesOK, NEW x \in AO, NEW e \in Events, Pushes(x, e)
  PROVE  \A y \in AO : y = x \/ ~eq_is_empty(q[y]) => ~eq_is_empty(q'[y])
<1>1. Ring(q[x], Capacity[x], Storable) /\ Capacity[x] \in Nat \ {0} /\ e \in Storable
  BY DEF QueuesOK, Storable
<1>2. eq_push(q[x], e).count = q[x].count + 1 /\ q[x].count \in Nat
  <2>1. eq_push(q[x], e).count = q[x].count + 1
    BY DEF eq_push
  <2>2. q[x].count \in 0 .. Capacity[x]
    BY <1>1, RingFields, Zenon
  <2> QED BY <2>1, <2>2
<1>3. ~eq_is_empty(eq_push(q[x], e))
  BY <1>2 DEF eq_is_empty
<1> QED BY <1>3 DEF Pushes, QueuesOK

\* An interrupt handler takes nothing away: it only pushes
LEMMA IsrKeepsWork ==
  ASSUME UNCHANGED <<registered, cur, tpc, arg>>,
         \A y \in AO : ~eq_is_empty(q[y]) => ~eq_is_empty(q'[y])
  PROVE  \A x \in AO : HasWork(x) => HasWork(x)'
  BY DEF HasWork, Unregistering, EmptyAllowed

\* The handlers are idle after a thread step, as they were before it
LEMMA ThreadSteps == Thread => Active = {} /\ Active' = {} /\ UNCHANGED isrs
<1> SUFFICES ASSUME Thread PROVE Active = {} /\ UNCHANGED isrs
  BY DEF Active, isrs
<1> USE DEF ThreadAt, Call
<1>1. CASE SchedRun
  BY <1>1 DEF SchedRun, ScanStep, ScanEnd, Wake, PickStep, Pop, DoneCheck,
              DoneLoad, DoneStore
<1>2. CASE HandlerReturn
  BY <1>2 DEF HandlerReturn
<1>3. CASE ApiStep
  BY <1>3 DEF ApiStep, PostLoad, PostStore, RegisterCheck, UnregisterOff,
              UnregisterLoad, UnregisterStore, SchedFlushAll, FlushStore
<1>4. ASSUME NEW x \in AO, ApiCall(x) PROVE Active = {} /\ UNCHANGED isrs
  BY <1>4 DEF ApiCall, SchedPost, SchedRegister, SchedUnregister,
              SchedPauseAccept, SchedResumeAccept
<1> QED BY <1>1, <1>2, <1>3, <1>4 DEF Thread

\* Interrupt handlers keep the promise of every bit, stored or loaded
LEMMA ReadyIsrStep ==
  ASSUME ReadyInv, NEW i \in Isr,
         IsrRun(i) \/ \E x \in AO, e \in Events : IsrPost(i, x, e)
  PROVE  ReadyHasWork' /\ PickedCanRun' /\ PostedHasWork' /\ LoadedHasWork'
<1> USE DEF ReadyInv
<1>1. CASE \E x \in AO, e \in Events : IsrPost(i, x, e)
  <2>1. PICK x \in AO, e \in Events : IsrPost(i, x, e)
    BY <1>1
  <2>2. Pushes(x, e) /\ x \in registered /\ UNCHANGED <<registered, ready, cur, tpc, arg, reg, ireg>>
    BY <2>1 DEF IsrPost, CanPost, Pushes, loop, thread
  <2>3. \A y \in AO : y = x \/ ~eq_is_empty(q[y]) => ~eq_is_empty(q'[y])
    BY <2>2, PushKeepsWork DEF TypeOK
  <2>4. \A y \in AO : HasWork(y) => HasWork(y)'
    BY <2>2, <2>3, IsrKeepsWork
  <2>5. ReadyHasWork'
    BY <2>2, <2>4 DEF ReadyHasWork, TypeOK, SharedOK
  <2>6. PickedCanRun'
    BY <2>2, <2>3 DEF PickedCanRun, TypeOK, SharedOK
  <2>7. \A j \in Active' :
          (j = i /\ iarg'[j] = x) \/ (j \in Active /\ iarg'[j] = iarg[j])
    BY <2>1 DEF IsrPost, Active, TypeOK, IsrsOK
  <2>8. PostedHasWork'
    BY <2>2, <2>3, <2>7 DEF PostedHasWork, TypeOK, SharedOK
  <2>9. \A j \in Isr : ipc'[j] = "store" => ipc[j] = "store" \/ j = i
    BY <2>1 DEF IsrPost, TypeOK, IsrsOK
  <2>10. ipc'[i] = "load"
    BY <2>1 DEF IsrPost, TypeOK, IsrsOK
  <2>11. LoadedHasWork'
    BY <2>2, <2>4, <2>9, <2>10 DEF LoadedHasWork, TypeOK, ThreadOK, IsrsOK
  <2> QED BY <2>5, <2>6, <2>8, <2>11
<1>2. CASE IsrLoad(i)
  <2>1. UNCHANGED <<registered, ready, q, cur, tpc, arg, reg, iarg>>
    BY <1>2 DEF IsrLoad, shared, loop, thread
  <2>2. \A y \in AO : HasWork(y) => HasWork(y)'
    BY <2>1, IsrKeepsWork
  <2>3. Active' = Active
    BY <1>2 DEF IsrLoad, Active, TypeOK, IsrsOK
  <2>4. ReadyHasWork' /\ PickedCanRun' /\ PostedHasWork'
    BY <2>1, <2>2, <2>3 DEF ReadyHasWork, PickedCanRun, PostedHasWork, TypeOK, SharedOK
  <2>5. \A j \in Isr : ipc'[j] = "store" =>
          (ipc[j] = "store" /\ ireg'[j] = ireg[j]) \/ ireg'[j] = ready
    BY <1>2 DEF IsrLoad, TypeOK, IsrsOK
  <2>6. LoadedHasWork'
    BY <2>1, <2>2, <2>5 DEF LoadedHasWork, ReadyHasWork, TypeOK, SharedOK, ThreadOK, IsrsOK
  <2> QED BY <2>4, <2>6
<1>3. CASE IsrStore(i)
  <2>1. UNCHANGED <<registered, q, cur, tpc, arg, reg>> /\ ready' = ireg[i] \cup {iarg[i]}
    BY <1>3 DEF IsrStore, loop, thread
  <2>2. \A y \in AO : HasWork(y) => HasWork(y)'
    BY <2>1, IsrKeepsWork
  <2>3. HasWork(iarg[i]) /\ iarg[i] \in AO
    BY <1>3 DEF IsrStore, IsrRuns, PostedHasWork, HasWork, TypeOK, SharedOK
  <2>4. \A y \in ireg[i] : HasWork(y) /\ y \in AO
    BY <1>3 DEF IsrStore, LoadedHasWork, TypeOK, IsrsOK
  <2>5. ReadyHasWork'
    BY <2>1, <2>2, <2>3, <2>4 DEF ReadyHasWork
  <2>6. \A j \in Isr : ipc'[j] # "idle" => ipc'[j] = ipc[j] /\ iarg'[j] = iarg[j] /\ ireg'[j] = ireg[j]
    BY <1>3 DEF IsrStore, TypeOK, IsrsOK
  <2>7. PickedCanRun' /\ PostedHasWork'
    BY <2>1, <2>6 DEF PickedCanRun, PostedHasWork, Active
  <2>8. LoadedHasWork'
    BY <2>1, <2>2, <2>6 DEF LoadedHasWork, TypeOK, ThreadOK, IsrsOK
  <2> QED BY <2>5, <2>7, <2>8
<1> QED BY <1>1, <1>2, <1>3 DEF IsrRun

\* Calls of the scheduler API keep it
LEMMA ReadyApiStep ==
  ASSUME ReadyInv, ApiStep \/ HandlerReturn \/ \E x \in AO : ApiCall(x)
  PROVE  ReadyHasWork' /\ PickedCanRun' /\ PostedHasWork' /\ LoadedHasWork'
<1> USE DEF ReadyInv, TypeOK, SharedOK
<1>i. /\ Active' = {} /\ (\A i \in Isr : ipc'[i] # "store")
      /\ UNCHANGED isrs
  BY ThreadSteps DEF Thread, Active
<1>n. NoAO \notin AO
  BY DEF NoAO, AO
<1> USE <1>i DEF ReadyHasWork, PickedCanRun, PostedHasWork, LoadedHasWork,
                 HasWork, Unregistering, EmptyAllowed, InBody, ThreadAt, shared, loop
<1>1. ASSUME NEW x \in AO, NEW e \in Events, SchedPost(x, e)
      PROVE  ReadyHasWork' /\ PickedCanRun' /\ PostedHasWork' /\ LoadedHasWork'
  <2>1. Pushes(x, e) /\ x \in registered
    BY <1>1 DEF SchedPost, CanPost, Pushes
  <2>2. \A y \in AO : y = x \/ ~eq_is_empty(q[y]) => ~eq_is_empty(q'[y])
    BY <2>1, PushKeepsWork
  <2> QED BY <1>1, <2>1, <2>2 DEF SchedPost, Call
<1>2. ASSUME NEW x \in AO, SchedRegister(x)
      PROVE  ReadyHasWork' /\ PickedCanRun' /\ PostedHasWork' /\ LoadedHasWork'
  <2>1. x \notin ready
    BY <1>2 DEF SchedRegister, Call
  <2>2. \A y \in AO : y # x => q'[y] = q[y]
    BY <1>2 DEF SchedRegister, QueuesOK
  <2> QED BY <1>2, <2>1, <2>2 DEF SchedRegister, Call
<1>3. ASSUME NEW x \in AO, SchedUnregister(x)
      PROVE  ReadyHasWork' /\ PickedCanRun' /\ PostedHasWork' /\ LoadedHasWork'
  <2>1. \A y \in AO : y # x => q'[y] = q[y]
    BY <1>3 DEF SchedUnregister, QueuesOK
  <2> QED BY <1>3, <2>1 DEF SchedUnregister, Call
<1>4. ASSUME NEW x \in AO, SchedPauseAccept(x) \/ SchedResumeAccept(x)
      PROVE  ReadyHasWork' /\ PickedCanRun' /\ PostedHasWork' /\ LoadedHasWork'
  BY <1>4 DEF SchedPauseAccept, SchedResumeAccept, Call
<1>5. CASE SchedFlushAll
  BY <1>5 DEF SchedFlushAll, Call
<1>6. CASE FlushStore
  BY <1>6 DEF FlushStore
<1>7. CASE PostLoad
  BY <1>7 DEF PostLoad
<1>8. CASE PostStore
  BY <1>8 DEF PostStore, ThreadOK
<1>9. CASE RegisterCheck
  BY <1>9 DEF RegisterCheck
<1>10. CASE UnregisterOff
  BY <1>10 DEF UnregisterOff
<1>11. CASE UnregisterLoad
  BY <1>11 DEF UnregisterLoad
<1>12. CASE UnregisterStore
  BY <1>12 DEF UnregisterStore, ThreadOK
<1>13. CASE HandlerReturn
  BY <1>13, <1>n DEF HandlerReturn
<1> QED BY <1>1, <1>2, <1>3, <1>4, <1>5, <1>6, <1>7, <1>8, <1>9, <1>10, <1>11,
           <1>12, <1>13 DEF ApiStep, ApiCall

\* The loop of sched_run keeps it
LEMMA ReadyRunStep ==
  ASSUME ReadyInv, SchedRun
  PROVE  ReadyHasWork' /\ PickedCanRun' /\ PostedHasWork' /\ LoadedHasWork'
<1> USE DEF ReadyInv, TypeOK, SharedOK
<1>i. Active' = {} /\ (\A i \in Isr : ipc'[i] # "store") /\ UNCHANGED isrs
  BY ThreadSteps DEF Thread, Active
<1> USE <1>i DEF ReadyHasWork, PickedCanRun, PostedHasWork, LoadedHasWork,
                 HasWork, Unregistering, EmptyAllowed, InBody, ThreadAt, shared, loop
<1>1. CASE ScanStep
  BY <1>1 DEF ScanStep, thread
<1>2. CASE ScanEnd
  BY <1>2 DEF ScanEnd
<1>3. CASE Wake
  BY <1>3 DEF Wake
<1>4. CASE PickStep
  BY <1>4 DEF PickStep
<1>5. CASE Pop
  <2>1. cur \in registered /\ ~eq_is_empty(q[cur]) /\ cur \in AO
    BY <1>5 DEF Pop
  <2>2. \A y \in AO : y # cur => q'[y] = q[y]
    BY <1>5, <2>1 DEF Pop, QueuesOK
  <2> QED BY <1>5, <2>1, <2>2 DEF Pop
<1>6. CASE DoneCheck
  BY <1>6 DEF DoneCheck
<1>7. CASE DoneLoad
  BY <1>7 DEF DoneLoad
<1>8. CASE DoneStore
  BY <1>8 DEF DoneStore, ThreadOK
<1> QED BY <1>1, <1>2, <1>3, <1>4, <1>5, <1>6, <1>7, <1>8, SchedRun DEF SchedRun

\* The inductive invariant of the scheduler holds in every reachable state
THEOREM ReadyCorrect == Spec => []ReadyInv
<1>1. Init => ReadyInv
  <2> SUFFICES ASSUME Init PROVE ReadyInv
    OBVIOUS
  <2>1. QueuesOK
    BY InitRings
  <2>2. SharedOK /\ IsrsOK
    BY DEF Init, SharedOK, IsrsOK, IsrPC
  <2>3. 0 \in AO
    BY DEF AO
  <2>4. LoopOK
    BY <2>3 DEF Init, LoopOK, Storable
  <2>5. ThreadOK
    BY DEF Init, ThreadOK, ThreadPC
  <2>6. ReadyHasWork /\ PickedCanRun /\ PostedHasWork /\ LoadedHasWork
    BY DEF Init, ReadyHasWork, PickedCanRun, PostedHasWork, LoadedHasWork, Active
  <2> QED BY <2>1, <2>2, <2>4, <2>5, <2>6 DEF ReadyInv, TypeOK
<1>2. ReadyInv /\ [Next]_vars => ReadyInv'
  <2> SUFFICES ASSUME ReadyInv, [Next]_vars PROVE ReadyInv'
    OBVIOUS
  <2>1. TypeOK'
    BY TypeStep DEF ReadyInv
  <2>2. ReadyHasWork' /\ PickedCanRun' /\ PostedHasWork' /\ LoadedHasWork'
    <3>1. CASE Thread
      BY <3>1, ReadyApiStep, ReadyRunStep DEF Thread
    <3>2. CASE \E i \in Isr : IsrRun(i) \/ \E x \in AO, e \in Events : IsrPost(i, x, e)
      BY <3>2, ReadyIsrStep
    <3>3. CASE UNCHANGED vars
      BY <3>3 DEF vars, shared, loop, thread, isrs, ReadyInv, ReadyHasWork,
           PickedCanRun, PostedHasWork, LoadedHasWork, HasWork, Unregistering,
           EmptyAllowed, Active
    <3> QED BY <3>1, <3>2, <3>3 DEF Next
  <2> QED BY <2>1, <2>2 DEF ReadyInv
<1> QED BY <1>1, <1>2, PTL DEF Spec

\* Every variable always has its type and every event queue is a ring
THEOREM TypeCorrect == Spec => []TypeOK
<1>1. ReadyInv => TypeOK
  BY DEF ReadyInv
<1> QED BY <1>1, ReadyCorrect, PTL

\* A set ready bit always stands for a registered AO with an event in its queue
THEOREM ReadyBitsCorrect == Spec => []ReadyHasWork
<1>1. ReadyInv => ReadyHasWork
  BY DEF ReadyInv
<1> QED BY <1>1, ReadyCorrect, PTL

\* sched_run never dispatches an AO without a handler or without an event
THEOREM DispatchCorrect == Spec => []PickedCanRun
<1>1. ReadyInv => PickedCanRun
  BY DEF ReadyInv
<1> QED BY <1>1, ReadyCorrect, PTL

-----------------------------------------------------------------------------
(* A wake-up is lost in the windows of InWindow or not at all *)

\* For a set S of AOs: an event in one of their queues is announced in the bitmap,
\* or the post that put it there is about to do so ...
Announced(S) == \A x \in registered \cap S :
                  ~eq_is_empty(q[x]) => \/ x \in ready
                                        \/ arg = x /\ tpc \in {"post_load", "post_store"}
                                        \/ \E i \in Active : iarg[i] = x

\* ... a bitmap that the thread has loaded agrees on S with the one in memory, and
\* no post to S is under way that could change that, but for the bit it will set ...
ThreadAgrees(S) ==
  tpc \in {"post_store", "unreg_store", "done_store"} =>
    /\ \A x \in S : ~(tpc = "post_store" /\ x = arg) => (x \in reg <=> x \in ready)
    /\ \A i \in Active : iarg[i] \in S => tpc = "post_store" /\ iarg[i] = arg

\* ... so does one that an interrupt handler has loaded, unless the post is that of
\* a handler it has preempted ...
IsrsAgree(S) ==
  \A i \in Active : ipc[i] = "store" =>
    /\ \A x \in S : x \in ireg[i] <=> x \in ready
    /\ \A j \in Active : j # i /\ iarg[j] \in S => Urgency[j] < Urgency[i]

\* ... and a bit is taken back only for an AO without an event
TakenBack(S) ==
  /\ tpc = "flush_store" => \A x \in registered \cap S : eq_is_empty(q[x])
  /\ tpc \in {"done_load", "done_store"} /\ cur \in S => eq_is_empty(q[cur])
  /\ tpc \in {"unreg_load", "unreg_store"} => arg \notin registered

SeenInv(S) == Announced(S) /\ ThreadAgrees(S) /\ IsrsAgree(S) /\ TakenBack(S)

\* Initially there are no events
LEMMA SeenInit == ASSUME NEW S \in SUBSET AO PROVE Init => SeenInv(S)
BY InitRings DEF Init, SeenInv, Announced, ThreadAgrees, IsrsAgree, TakenBack, Active

\* A post outside the windows meets no loaded bitmap
LEMMA SeenIsrPost ==
  ASSUME NEW S \in SUBSET AO, ReadyInv, SeenInv(S), PostsOutside(S),
         NEW i \in Isr, NEW x \in AO, NEW e \in Events, IsrPost(i, x, e)
  PROVE  SeenInv(S)'
<1> USE DEF SeenInv, ReadyInv, TypeOK
<1>1. UNCHANGED <<registered, ready, cur, tpc, arg, reg, ireg>>
  BY DEF IsrPost, loop, thread
<1>2. \A y \in AO : y # x => q'[y] = q[y]
  BY DEF IsrPost, QueuesOK
<1>3. x \in S => ~InWindow(x)
  BY DEF PostsOutside
<1>4. /\ i \in Active' /\ iarg'[i] = x /\ ipc'[i] = "load" /\ i \notin Active
      /\ \A j \in Isr : j # i => ipc'[j] = ipc[j] /\ iarg'[j] = iarg[j]
      /\ \A j \in Active' : j = i \/ j \in Active
      /\ \A j \in Active : j \in Active' /\ j # i
  BY ConstantsAssumption DEF IsrPost, Active, IsrsOK
<1>5. Announced(S)'
  <2> SUFFICES ASSUME NEW y \in registered \cap S, ~eq_is_empty(q'[y]), y # x
               PROVE  \/ y \in ready
                      \/ arg = y /\ tpc \in {"post_load", "post_store"}
                      \/ \E j \in Active' : iarg'[j] = y
    BY <1>1, <1>4 DEF Announced
  <2> QED BY <1>2, <1>4 DEF Announced, Active
<1>6. ThreadAgrees(S)'
  BY <1>1, <1>3, <1>4 DEF ThreadAgrees, InWindow, Active
<1>7. IsrsAgree(S)'
  BY <1>1, <1>3, <1>4 DEF IsrsAgree, InWindow, Active
<1>8. TakenBack(S)'
  <2>1. CASE x \in S
    BY <2>1, <1>1, <1>2, <1>3 DEF TakenBack, InWindow
  <2>2. CASE x \notin S
    BY <2>2, <1>1, <1>2 DEF TakenBack
  <2> QED BY <2>1, <2>2
<1> QED BY <1>5, <1>6, <1>7, <1>8

\* The rest of a post sets its bit and loses none of S
LEMMA SeenIsrRun ==
  ASSUME NEW S \in SUBSET AO, ReadyInv, SeenInv(S), NEW i \in Isr, IsrRun(i)
  PROVE  SeenInv(S)'
<1> USE DEF SeenInv, ReadyInv, TypeOK
<1>1. UNCHANGED <<registered, q, cur, tpc, arg, reg>>
  BY DEF IsrRun, IsrLoad, IsrStore, shared, loop, thread
<1>2. i \in Active /\ \A j \in Active : j # i => Urgency[j] < Urgency[i]
  BY ConstantsAssumption, IsrAssumption DEF IsrRun, IsrLoad, IsrStore, IsrRuns, Active
<1>3. TakenBack(S)'
  BY <1>1 DEF TakenBack
<1>4. CASE IsrLoad(i)
  <2>1. /\ ready' = ready /\ iarg' = iarg /\ Active' = Active /\ ireg'[i] = ready
        /\ \A j \in Active : j # i => ipc'[j] = ipc[j] /\ ireg'[j] = ireg[j]
    BY <1>4 DEF IsrLoad, shared, Active, IsrsOK
  <2> QED BY <1>1, <1>2, <1>3, <2>1 DEF Announced, ThreadAgrees, IsrsAgree
<1>5. CASE IsrStore(i)
  <2>1. /\ ready' = ireg[i] \cup {iarg[i]} /\ ipc[i] = "store" /\ Active' = Active \ {i}
        /\ \A j \in Active' : iarg'[j] = iarg[j] /\ ipc'[j] = ipc[j] /\ ireg'[j] = ireg[j]
    BY <1>5 DEF IsrStore, Active, IsrsOK
  <2>2. \A x \in S : x \in ready' <=> x \in ready \/ x = iarg[i]
    BY <1>2, <2>1 DEF IsrsAgree
  <2>3. iarg[i] \in S => \A j \in Active' : ipc[j] # "store"
    <3> SUFFICES ASSUME iarg[i] \in S, NEW j \in Active', ipc[j] = "store" PROVE FALSE
      OBVIOUS
    <3>1. Urgency[i] < Urgency[j] /\ Urgency[j] < Urgency[i]
      BY <1>2, <2>1 DEF IsrsAgree
    <3> QED BY <3>1, ConstantsAssumption DEF Active
  <2>4. Announced(S)'
    BY <1>1, <2>1, <2>2 DEF Announced
  <2>5. ThreadAgrees(S)'
    BY <1>1, <1>2, <2>1, <2>2 DEF ThreadAgrees
  <2>6. IsrsAgree(S)'
    BY <2>1, <2>2, <2>3 DEF IsrsAgree
  <2> QED BY <1>3, <2>4, <2>5, <2>6
<1> QED BY <1>4, <1>5 DEF IsrRun

\* Thread code announces what it posts, and takes back the bits of empty queues only
LEMMA SeenThreadStep ==
  ASSUME NEW S \in SUBSET AO, ReadyInv, SeenInv(S), Thread
  PROVE  SeenInv(S)'
<1> USE DEF SeenInv, ReadyInv, TypeOK
<1>i. Active = {} /\ Active' = {}
  BY ThreadSteps
<1>t. S \subseteq AO
  OBVIOUS
<1>e. \A x \in AO : eq_is_empty(eq_drain(q[x])) /\ eq_is_empty(eq_init(q[x].buf, Capacity[x]))
  BY DEF eq_drain, eq_init, eq_is_empty
<1> USE <1>i DEF Announced, ThreadAgrees, IsrsAgree, TakenBack, ThreadAt, shared, loop
<1>1. ASSUME NEW x \in AO, NEW e \in Events, SchedPost(x, e) PROVE SeenInv(S)'
  <2>1. \A y \in AO : y # x => q'[y] = q[y]
    BY <1>1 DEF SchedPost, QueuesOK
  <2> QED BY <1>1, <1>t, <2>1 DEF SchedPost, Call
<1>2. ASSUME NEW x \in AO, SchedRegister(x) PROVE SeenInv(S)'
  <2>1. \A y \in AO : q'[y] = IF y = x THEN eq_init(q[x].buf, Capacity[x]) ELSE q[y]
    BY <1>2 DEF SchedRegister, QueuesOK
  <2> QED BY <1>2, <1>t, <1>e, <2>1 DEF SchedRegister, Call
<1>3. ASSUME NEW x \in AO, SchedUnregister(x) PROVE SeenInv(S)'
  <2>1. \A y \in AO : q'[y] = IF y = x THEN eq_drain(q[x]) ELSE q[y]
    BY <1>3 DEF SchedUnregister, QueuesOK
  <2> QED BY <1>3, <1>t, <1>e, <2>1 DEF SchedUnregister, Call
<1>4. ASSUME NEW x \in AO, SchedPauseAccept(x) \/ SchedResumeAccept(x) PROVE SeenInv(S)'
  BY <1>4 DEF SchedPauseAccept, SchedResumeAccept, Call
<1>5. CASE SchedFlushAll
  BY <1>5, <1>t, <1>e DEF SchedFlushAll, Call
<1>6. CASE FlushStore
  BY <1>6 DEF FlushStore
<1>7. CASE PostLoad
  BY <1>7 DEF PostLoad
<1>8. CASE PostStore
  BY <1>8 DEF PostStore
<1>9. CASE RegisterCheck
  BY <1>9 DEF RegisterCheck
<1>10. CASE UnregisterOff
  BY <1>10 DEF UnregisterOff
<1>11. CASE UnregisterLoad
  BY <1>11 DEF UnregisterLoad
<1>12. CASE UnregisterStore
  BY <1>12 DEF UnregisterStore
<1>13. CASE HandlerReturn
  BY <1>13 DEF HandlerReturn
<1>14. CASE ScanStep \/ ScanEnd \/ Wake \/ PickStep
  BY <1>14 DEF ScanStep, ScanEnd, Wake, PickStep, thread
<1>15. CASE Pop
  <2>1. \A y \in AO : ~eq_is_empty(q'[y]) => ~eq_is_empty(q[y])
    BY <1>15 DEF Pop, QueuesOK
  <2> QED BY <1>15, <1>t, <2>1 DEF Pop
<1>16. CASE DoneCheck
  BY <1>16 DEF DoneCheck
<1>17. CASE DoneLoad
  BY <1>17 DEF DoneLoad
<1>18. CASE DoneStore
  BY <1>18 DEF DoneStore
<1> QED BY <1>1, <1>2, <1>3, <1>4, <1>5, <1>6, <1>7, <1>8, <1>9, <1>10, <1>11, <1>12,
           <1>13, <1>14, <1>15, <1>16, <1>17, <1>18 DEF Thread, ApiStep, ApiCall, SchedRun

\* SeenInv survives every step, unless it is a post to S inside its windows
LEMMA SeenStep ==
  ASSUME NEW S \in SUBSET AO, ReadyInv, SeenInv(S), [Next]_vars, [PostsOutside(S)]_vars
  PROVE  SeenInv(S)'
<1>1. CASE UNCHANGED vars
  BY <1>1 DEF vars, shared, loop, thread, isrs, SeenInv, Announced, ThreadAgrees,
       IsrsAgree, TakenBack, Active
<1>2. CASE Next /\ PostsOutside(S)
  BY <1>2, SeenIsrPost, SeenIsrRun, SeenThreadStep DEF Next
<1> QED BY <1>1, <1>2

\* The processor never goes to sleep with an event waiting without a ready bit, as
\* long as no interrupt handler posts in one of the windows of InWindow: between the
\* test for an empty queue and the store of ready_bitmap in sched_run, or between a
\* load and a store in sched_post, sched_unregister, sched_flush_all or a handler of
\* lower urgency.  In a behaviour that loses a wake-up, an interrupt hit a window.
THEOREM LostInWindowsOnly == Spec /\ [][PostsOutside(AO)]_vars => []IdleMeansNoWork
<1>1. Init => SeenInv(AO)
  BY SeenInit
<1>2. ReadyInv /\ SeenInv(AO) /\ [Next]_vars /\ [PostsOutside(AO)]_vars => SeenInv(AO)'
  BY SeenStep
<1>3. ReadyInv /\ SeenInv(AO) => IdleMeansNoWork
  BY DEF ReadyInv, TypeOK, SharedOK, SeenInv, Announced, IdleMeansNoWork
<1> QED BY <1>1, <1>2, <1>3, ReadyCorrect, PTL DEF Spec

\* The AOs to which no interrupt handler posts
ThreadOnly == {x \in AO : \A i \in Isr : x \notin Targets[i]}

\* scheduler.h: "bit(id)=queue non-empty", read from right to left, for the AOs of
\* ThreadOnly: the thread does not go to sleep with an event in one of their queues,
\* whatever the interrupt handlers do to ready_bitmap in between.
ThreadWorkSeen ==
  tpc = "wfi" => \A x \in registered \cap ThreadOnly : ~eq_is_empty(q[x]) => x \in ready

\* A handler in progress has posted to one of its targets
OwnTargets == \A i \in Active : iarg[i] \in Targets[i]

\* OwnTargets is an invariant
LEMMA AlwaysOwnTargets == Spec => []OwnTargets
<1>1. Init => OwnTargets
  BY DEF Init, OwnTargets, Active
<1>2. IsrsOK /\ OwnTargets /\ [Next]_vars => OwnTargets'
  <2> SUFFICES ASSUME IsrsOK, OwnTargets, [Next]_vars PROVE OwnTargets'
    OBVIOUS
  <2>1. CASE Thread
    BY <2>1, ThreadSteps DEF OwnTargets, isrs
  <2>2. ASSUME NEW i \in Isr, IsrRun(i) PROVE OwnTargets'
    BY <2>2 DEF IsrRun, IsrLoad, IsrStore, OwnTargets, Active, IsrsOK
  <2>3. ASSUME NEW i \in Isr, NEW x \in AO, NEW e \in Events, IsrPost(i, x, e)
        PROVE  OwnTargets'
    BY <2>3 DEF IsrPost, OwnTargets, Active, IsrsOK
  <2>4. CASE UNCHANGED vars
    BY <2>4 DEF vars, isrs, OwnTargets, Active
  <2> QED BY <2>1, <2>2, <2>3, <2>4 DEF Next
<1>3. TypeOK => IsrsOK
  BY DEF TypeOK
<1> QED BY <1>1, <1>2, <1>3, TypeCorrect, PTL DEF Spec

\* An AO to which only thread code posts is never forgotten: the processor does not
\* go to sleep while one of its events waits without a ready bit, however the loads
\* and stores of ready_bitmap by thread code and interrupt handlers interleave.
THEOREM ThreadPostsSeen == Spec => []ThreadWorkSeen
<1>1. ThreadOnly \in SUBSET AO
  BY DEF ThreadOnly
<1>2. Init => SeenInv(ThreadOnly)
  BY <1>1, SeenInit
<1>3. [PostsOutside(ThreadOnly)]_vars
  BY DEF PostsOutside, ThreadOnly, IsrPost
<1>4. ReadyInv /\ SeenInv(ThreadOnly) /\ [Next]_vars => SeenInv(ThreadOnly)'
  BY <1>1, <1>3, SeenStep
<1>5. OwnTargets /\ SeenInv(ThreadOnly) => ThreadWorkSeen
  BY DEF SeenInv, Announced, ThreadWorkSeen, OwnTargets, ThreadOnly, Active
<1> QED BY <1>2, <1>4, <1>5, ReadyCorrect, AlwaysOwnTargets, PTL DEF Spec

-----------------------------------------------------------------------------
(* The rings implement first-in first-out channels *)

\* Initially every channel is empty
LEMMA FifoInit == Init => Channels!Init
<1> SUFFICES ASSUME Init PROVE Channels!Init
  OBVIOUS
<1>1. \A x \in AO : Contents(q[x]) = << >>
  BY InitRings, EmptyContents DEF QueuesOK
<1> QED BY <1>1 DEF Channels!Init, Init

\* A push is a Post, a pop a Deliver, a drain a Discard, a return a Finish
LEMMA FifoStep ==
  QueuesOK /\ QueueStep => [Channels!Next]_<<[x \in AO |-> Contents(q[x])], ev>>
<1> DEFINE ch == [x \in AO |-> Contents(q[x])]
<1> SUFFICES ASSUME QueuesOK, QueueStep PROVE [Channels!Next]_<<ch, ev>>
  OBVIOUS
<1>r. \A x \in AO : Capacity[x] \in Nat \ {0} /\ Ring(q[x], Capacity[x], Storable)
  BY DEF QueuesOK
<1>1. CASE q' = q /\ ev' \in {ev, NoEvent}
  BY <1>1 DEF Channels!Next, Channels!Finish
<1>2. ASSUME NEW x \in AO, NEW e \in Events, Pushes(x, e)
      PROVE  Channels!Post(x, e)
  <2>1. e \in Storable /\ ~eq_is_full(q[x])
    BY <1>2 DEF Storable, Pushes
  <2>2. Contents(eq_push(q[x], e)) = Append(ch[x], e)
    BY <1>r, <2>1, PushContents
  <2>3. ch' = [ch EXCEPT ![x] = Append(ch[x], e)]
    BY <1>2, <2>2 DEF Pushes, QueuesOK
  <2>4. Len(ch[x]) < Capacity[x]
    BY <1>r, <2>1, ContentsType, RingFields DEF eq_is_full
  <2> QED BY <1>2, <2>3, <2>4 DEF Channels!Post, Pushes
<1>3. ASSUME NEW x \in AO, Pops(x)
      PROVE  Channels!Deliver(x)
  <2>1. /\ ch[x] # << >> /\ Head(ch[x]) = eq_front(q[x])
        /\ Contents(eq_pop(q[x])) = Tail(ch[x])
    BY <1>3, <1>r, PopContents DEF Pops
  <2>2. ch' = [ch EXCEPT ![x] = Tail(ch[x])]
    BY <1>3, <2>1 DEF Pops, QueuesOK
  <2> QED BY <1>3, <2>1, <2>2 DEF Channels!Deliver, Pops
<1>4. ASSUME NEW X \in SUBSET AO, Drains(X)
      PROVE  Channels!Discard(X)
  <2>1. \A x \in AO : Contents(eq_drain(q[x])) = << >>
    BY <1>r, DrainRing, EmptyContents
  <2>2. ch' = [x \in AO |-> IF x \in X THEN << >> ELSE ch[x]]
    BY <1>4, <2>1 DEF Drains
  <2> QED BY <1>4, <2>2 DEF Channels!Discard, Drains
<1> QED BY <1>1, <1>2, <1>3, <1>4 DEF QueueStep, Channels!Next

\* Events are delivered in order and exactly once, or discarded by a drain:
\* the scheduler implements EventChannels
THEOREM FifoCorrect == Spec => QueuesAreFifo
<1>1. TypeOK /\ [Next]_vars => [Channels!Next]_<<[x \in AO |-> Contents(q[x])], ev>>
  BY QueueSteps, FifoStep DEF TypeOK
<1> QED BY <1>1, FifoInit, TypeCorrect, PTL DEF Spec, QueuesAreFifo, Channels!Spec

-----------------------------------------------------------------------------
(* The two scans and strict priority: the inductive invariant *)

\* The ready bit of x is set, and no interrupt handler is about to store a
\* bitmap without it: a bit that the thread has seen is not taken back while the
\* thread does nothing but scan.
Held(x) == x \in ready /\ \A i \in Isr : ipc[i] = "store" => x \in ireg[i]

\* Outside the scans the loop counter and the result are reset
ScanReset == tpc \notin {"scan", "pick"} => scanId = 0 /\ best = -1

\* highest_ready_prio has a witness for what it found so far, and covers every
\* bit that was set when it began
ScanFound ==
  tpc = "scan" =>
    /\ best # -1 => \E x \in registered : x < scanId /\ Held(x) /\ Prio[x] = best
    /\ scanId # 0 => \A x \in observed :
                       Held(x) /\ (x \in registered /\ x < scanId => Prio[x] <= best)

\* pick_ready_rr has not yet passed the witness
PickFound ==
  tpc = "pick" =>
    /\ best \in AO
    /\ \E k \in scanId .. N - 1 : /\ Candidate(k) \in registered
                                  /\ Held(Candidate(k)) /\ Prio[Candidate(k)] = best
    /\ \A x \in observed \cap registered : Prio[x] <= best

ScanInv == ScanReset /\ ScanFound /\ PickFound /\ StrictPriority

-----------------------------------------------------------------------------
(* The steps of the scans *)

\* The candidates of pick_ready_rr are all the AOs
LEMMA CandidatesCoverAll ==
  ASSUME rr \in [AO -> AO], best \in AO, NEW x \in AO
  PROVE  \E k \in 0 .. N - 1 : Candidate(k) = x
<1>1. rr[best] \in 0 .. N - 1 /\ x \in 0 .. N - 1 /\ N \in Nat \ {0}
  BY DEF AO
<1> QED BY <1>1, OneTurn, Zenon DEF Candidate

\* A step of an interrupt handler takes back no bit that is held
LEMMA IsrHolds ==
  ASSUME TypeOK, NEW i \in Isr,
         IsrRun(i) \/ \E x \in AO, e \in Events : IsrPost(i, x, e)
  PROVE  /\ \A x \in AO : Held(x) => Held(x)'
         /\ UNCHANGED <<registered, loop, thread>>
<1> USE DEF TypeOK, IsrsOK, Held
<1>1. CASE \E x \in AO, e \in Events : IsrPost(i, x, e)
  BY <1>1 DEF IsrPost
<1>2. CASE IsrLoad(i)
  BY <1>2 DEF IsrLoad, shared
<1>3. CASE IsrStore(i)
  BY <1>3 DEF IsrStore
<1> QED BY <1>1, <1>2, <1>3 DEF IsrRun

\* Interrupt handlers keep the invariant
LEMMA ScanIsrStep ==
  ASSUME TypeOK, ScanInv, NEW i \in Isr,
         IsrRun(i) \/ \E x \in AO, e \in Events : IsrPost(i, x, e)
  PROVE  ScanInv'
<1>1. /\ \A x \in AO : Held(x) => Held(x)'
      /\ UNCHANGED <<registered, tpc, rr, cur, scanId, best, observed>>
  BY IsrHolds DEF loop, thread
<1>2. registered \subseteq AO /\ observed \subseteq AO
  BY DEF TypeOK, SharedOK, LoopOK
<1> USE <1>1, <1>2 DEF ScanInv
<1>3. ScanReset'
  BY DEF ScanReset
<1>4. ScanFound'
  <2> SUFFICES ASSUME tpc = "scan" PROVE ScanFound'
    BY DEF ScanFound
  <2>1. best # -1 => \E x \in registered : x < scanId /\ Held(x)' /\ Prio[x] = best
    BY DEF ScanFound
  <2>2. scanId # 0 => \A x \in observed :
          Held(x)' /\ (x \in registered /\ x < scanId => Prio[x] <= best)
    BY DEF ScanFound
  <2> HIDE DEF ScanInv
  <2> QED BY <2>1, <2>2 DEF ScanFound
<1>5. PickFound'
  <2> SUFFICES ASSUME tpc = "pick" PROVE PickFound'
    BY DEF PickFound
  <2>1. PICK k \in scanId .. N - 1 : /\ Candidate(k) \in registered
                                     /\ Held(Candidate(k)) /\ Prio[Candidate(k)] = best
    BY DEF PickFound
  <2>2. Candidate(k)' = Candidate(k)
    BY DEF Candidate
  <2>3. Held(Candidate(k))'
    BY <2>1, <2>2 DEF Held
  <2> QED BY <2>1, <2>2, <2>3 DEF PickFound
<1>6. StrictPriority'
  BY DEF StrictPriority
<1> QED BY <1>3, <1>4, <1>5, <1>6

\* Calls of the scheduler API keep it: the thread is in no scan before or after
LEMMA ScanApiStep ==
  ASSUME TypeOK, ScanInv, ApiStep \/ HandlerReturn \/ \E x \in AO : ApiCall(x)
  PROVE  ScanInv'
<1>1. /\ tpc \notin {"scan", "pick"} /\ tpc' \notin {"pick", "pop"}
      /\ UNCHANGED <<scanId, best>>
  <2> USE DEF ThreadAt, Call, loop
  <2>1. CASE ApiStep
    BY <2>1 DEF ApiStep, PostLoad, PostStore, RegisterCheck, UnregisterOff,
                UnregisterLoad, UnregisterStore, SchedFlushAll, FlushStore
  <2>2. CASE HandlerReturn
    BY <2>2 DEF HandlerReturn
  <2>3. ASSUME NEW x \in AO, ApiCall(x)
        PROVE  /\ tpc \notin {"scan", "pick"} /\ tpc' \notin {"pick", "pop"}
               /\ UNCHANGED <<scanId, best>>
    BY <2>3 DEF ApiCall, SchedPost, SchedRegister, SchedUnregister,
                SchedPauseAccept, SchedResumeAccept
  <2> QED BY <2>1, <2>2, <2>3
<1>2. scanId' = 0 /\ best' = -1
  BY <1>1 DEF ScanInv, ScanReset
<1> QED BY <1>1, <1>2 DEF ScanInv, ScanReset, ScanFound, PickFound, StrictPriority

\* The loop of sched_run keeps it
LEMMA ScanRunStep ==
  ASSUME TypeOK, ScanInv, SchedRun
  PROVE  ScanInv'
<1>i. /\ Active = {} /\ UNCHANGED isrs
      /\ \A x \in ready : Held(x)
  BY ThreadSteps DEF Thread, Active, Held
<1>t. /\ registered \subseteq AO /\ ready \subseteq AO /\ observed \subseteq AO
      /\ scanId \in 0 .. N /\ best \in -1 .. N - 1 /\ rr \in [AO -> AO]
      /\ \A x \in AO : Prio[x] \in 0 .. N - 1
  BY DEF TypeOK, SharedOK, LoopOK
<1>h. UNCHANGED ready => \A x \in AO : Held(x) => Held(x)'
  BY <1>i DEF Held, isrs
<1> USE DEF ScanInv, ThreadAt, shared
<1>1. CASE ScanStep
  <2>1. /\ tpc = "scan" /\ tpc' = "scan" /\ UNCHANGED <<registered, ready>>
        /\ scanId \in AO /\ scanId' = scanId + 1 /\ scanId' # 0
    BY <1>1, <1>t DEF ScanStep, thread, AO
  <2>2. best' # -1 => \E x \in registered : x < scanId' /\ Held(x)' /\ Prio[x] = best'
    <3>1. CASE scanId \in ready \cap registered /\ Prio[scanId] > best
      <4>1. PICK x \in AO : x = scanId
        BY <2>1
      <4>2. x \in registered /\ best' = Prio[x] /\ Held(x)'
        BY <1>1, <3>1, <4>1, <1>i, <1>h, <2>1 DEF ScanStep
      <4>3. x < scanId'
        BY <1>t, <2>1, <4>1
      <4> QED BY <4>2, <4>3
    <3>2. CASE ~(scanId \in ready \cap registered /\ Prio[scanId] > best)
      <4>1. best' = best
        BY <1>1, <3>2 DEF ScanStep
      <4>2. best # -1 => \E x \in registered : x < scanId /\ Held(x)' /\ Prio[x] = best
        BY <1>h, <1>t, <2>1 DEF ScanFound
      <4>3. \A x \in registered : x < scanId => x < scanId'
        BY <1>t, <2>1 DEF AO
      <4> QED BY <4>1, <4>2, <4>3
    <3> QED BY <3>1, <3>2
  <2>3. \A x \in observed' : Held(x)' /\ x \in AO
    <3>1. CASE scanId = 0
      BY <1>1, <1>i, <1>h, <1>t, <2>1, <3>1 DEF ScanStep
    <3>2. CASE scanId # 0
      BY <1>1, <1>h, <1>t, <2>1, <3>2 DEF ScanStep, ScanFound
    <3> QED BY <3>1, <3>2
  <2>4. \A x \in observed' : x \in registered /\ x < scanId' => Prio[x] <= best'
    <3> SUFFICES ASSUME NEW x \in observed', x \in registered, x < scanId'
                 PROVE  Prio[x] <= best'
      OBVIOUS
    <3>1. x \in AO /\ Prio[x] \in 0 .. N - 1 /\ Prio[scanId] \in 0 .. N - 1
      BY <1>t, <2>1
    <3>2. best' \in -1 .. N - 1 /\ best <= best'
          /\ (scanId \in ready \cap registered => Prio[scanId] <= best')
      BY <1>1, <1>t, <3>1 DEF ScanStep
    <3>3. x = scanId \/ x < scanId
      BY <1>t, <2>1, <3>1 DEF AO
    <3>4. CASE x = scanId
      <4>1. x \in ready
        BY <2>1, <2>3 DEF Held
      <4> QED BY <3>2, <3>4, <4>1
    <3>5. CASE x < scanId
      <4>1. scanId # 0 /\ observed' = observed
        BY <1>1, <3>1, <3>5, <2>1 DEF ScanStep, AO
      <4>2. Prio[x] <= best
        BY <2>1, <3>5, <4>1 DEF ScanFound
      <4> QED BY <1>t, <3>1, <3>2, <4>2
    <3> QED BY <3>3, <3>4, <3>5
  <2>5. ScanFound'
    BY <2>1, <2>2, <2>3, <2>4 DEF ScanFound
  <2> QED BY <2>1, <2>5 DEF ScanReset, PickFound, StrictPriority
<1>2. CASE ScanEnd
  <2>1. /\ tpc = "scan" /\ scanId = N /\ N # 0 /\ scanId' = 0
        /\ tpc' = (IF best = -1 THEN "wfi" ELSE "pick")
        /\ UNCHANGED <<registered, ready, rr, best, observed>>
    BY <1>2 DEF ScanEnd
  <2>2. \A x \in observed \cap registered : Prio[x] <= best
    <3> SUFFICES ASSUME NEW x \in observed, x \in registered PROVE Prio[x] <= best
      OBVIOUS
    <3>1. x < scanId
      BY <1>t, <2>1 DEF AO
    <3> QED BY <2>1, <3>1 DEF ScanFound
  <2>3. CASE best = -1
    BY <2>1, <2>3 DEF ScanReset, ScanFound, PickFound, StrictPriority
  <2>4. CASE best # -1
    <3>1. PICK x \in registered : Held(x) /\ Prio[x] = best
      BY <2>1, <2>4 DEF ScanFound
    <3>2. x \in AO /\ best \in AO /\ Held(x)'
      BY <1>h, <1>t, <2>1, <2>4, <3>1 DEF AO
    <3>3. PICK k \in 0 .. N - 1 : Candidate(k) = x
      BY <1>t, <3>2, CandidatesCoverAll, Zenon
    <3>4. Candidate(k)' = x
      BY <2>1, <3>3 DEF Candidate
    <3>5. PickFound'
      BY <2>1, <2>2, <3>1, <3>2, <3>3, <3>4 DEF PickFound
    <3> QED BY <2>1, <2>4, <3>5 DEF ScanReset, ScanFound, StrictPriority
  <2> QED BY <2>3, <2>4
<1>3. CASE PickStep
  <2> DEFINE id == Candidate(scanId)
  <2>1. PICK k \in scanId .. N - 1 : /\ Candidate(k) \in registered
                                     /\ Held(Candidate(k)) /\ Prio[Candidate(k)] = best
    BY <1>3 DEF PickStep, PickFound
  <2>2. /\ tpc = "pick" /\ scanId # N /\ best \in AO
        /\ UNCHANGED <<registered, ready, observed>>
    BY <1>3, <1>t, <2>1 DEF PickStep, PickFound
  <2>3. CASE id \in registered /\ Prio[id] = best /\ id \in ready
    <3>1. tpc' = "pop" /\ scanId' = 0 /\ best' = -1 /\ cur' = id
      BY <1>3, <2>2, <2>3 DEF PickStep, Candidate
    <3>2. StrictPriority'
      BY <2>2, <2>3, <3>1 DEF StrictPriority, PickFound
    <3> QED BY <3>1, <3>2 DEF ScanReset, ScanFound, PickFound
  <2>4. CASE ~(id \in registered /\ Prio[id] = best /\ id \in ready)
    <3>1. scanId' = scanId + 1 /\ UNCHANGED <<tpc, best, rr>>
      BY <1>3, <2>2, <2>4 DEF PickStep, Candidate
    <3>2. k # scanId
      BY <2>1, <2>4 DEF Held
    <3>3. k \in scanId' .. N - 1
      BY <1>t, <3>1, <3>2
    <3>4. Candidate(k)' = Candidate(k) /\ Held(Candidate(k))'
      BY <1>h, <1>t, <2>1, <2>2, <3>1 DEF Candidate
    <3>5. PickFound'
      BY <2>1, <2>2, <3>1, <3>3, <3>4 DEF PickFound
    <3> QED BY <2>2, <3>1, <3>5 DEF ScanReset, ScanFound, StrictPriority
  <2> QED BY <2>3, <2>4
<1>4. CASE Wake \/ Pop \/ DoneCheck \/ DoneLoad \/ DoneStore
  <2>1. /\ tpc \notin {"scan", "pick"} /\ tpc' \notin {"pick", "pop"}
        /\ UNCHANGED <<scanId, best>>
    BY <1>4 DEF Wake, Pop, DoneCheck, DoneLoad, DoneStore, loop
  <2>2. scanId' = 0 /\ best' = -1
    BY <2>1 DEF ScanReset
  <2> QED BY <2>1, <2>2 DEF ScanReset, ScanFound, PickFound, StrictPriority
<1> QED BY <1>1, <1>2, <1>3, <1>4 DEF SchedRun

-----------------------------------------------------------------------------
(* The theorems about the scans *)

\* The invariant of the two scans holds in every reachable state
THEOREM ScanCorrect == Spec => []ScanInv
<1>1. Init => ScanInv
  BY DEF Init, ScanInv, ScanReset, ScanFound, PickFound, StrictPriority
<1>2. TypeOK /\ ScanInv /\ [Next]_vars => ScanInv'
  <2> SUFFICES ASSUME TypeOK, ScanInv, [Next]_vars PROVE ScanInv'
    OBVIOUS
  <2>1. CASE Thread
    BY <2>1, ScanApiStep, ScanRunStep DEF Thread
  <2>2. CASE \E i \in Isr : IsrRun(i) \/ \E x \in AO, e \in Events : IsrPost(i, x, e)
    BY <2>2, ScanIsrStep
  <2>3. CASE UNCHANGED vars
    BY <2>3 DEF vars, shared, loop, thread, isrs, ScanInv, ScanReset, ScanFound,
                PickFound, StrictPriority, Held, Candidate
  <2> QED BY <2>1, <2>2, <2>3 DEF Next
<1> QED BY <1>1, <1>2, TypeCorrect, PTL DEF Spec

\* pick_ready_rr always finds an AO of the priority that highest_ready_prio
\* returned, whatever interrupts post in between
THEOREM PickCorrect == Spec => []PickFindsOne
<1>1. ScanInv => PickFindsOne
  BY DEF ScanInv, PickFound, PickFindsOne, Held
<1> QED BY <1>1, ScanCorrect, PTL

\* Priority is strict: sched_run picks no AO below one that was ready when its
\* scan began
THEOREM PriorityCorrect == Spec => []StrictPriority
<1>1. ScanInv => StrictPriority
  BY DEF ScanInv
<1> QED BY <1>1, ScanCorrect, PTL
=============================================================================
