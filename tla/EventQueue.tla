----------------------------- MODULE EventQueue -----------------------------
(***************************************************************************)
(* The per-AO ring buffer of src/scheduler/scheduler.c (eq_init, eq_push,  *)
(* eq_pop, eq_is_empty, eq_drain) as operators on the event_queue_t record *)
(* of include/event.h.  The storage is indexed from 0, as in C, and is     *)
(* never cleared: popped events stay in buf until they are overwritten.    *)
(* The statistics high_watermark and dropped do not influence control and  *)
(* are left out.                                                           *)
(***************************************************************************)
EXTENDS Naturals, Sequences

\* event_queue_t with capacity c holding events of the set E
QueueType(c, E) == [buf   : [0 .. c - 1 -> E],
                    cap   : {c},
                    head  : 0 .. c - 1,
                    tail  : 0 .. c - 1,
                    count : 0 .. c]

\* r is such a queue, and its head is count slots after its tail
Ring(r, c, E) == /\ r \in QueueType(c, E)
                 /\ r.head = (r.tail + r.count) % c

\* eq_init: the caller's storage, its capacity, and an empty ring
eq_init(storage, capacity) ==
  [buf |-> storage, cap |-> capacity, head |-> 0, tail |-> 0, count |-> 0]

eq_is_full(q) == q.count >= q.cap

eq_is_empty(q) == q.count = 0

\* Mutant: the head does not wrap at the capacity
eq_push_no_wrap(q, e) == [buf   |-> [q.buf EXCEPT ![q.head] = e],
                          cap   |-> q.cap,
                          head  |-> q.head + 1,
                          tail  |-> q.tail,
                          count |-> q.count + 1]

\* eq_push_common on a queue that is not full
eq_push(q, e) == [buf   |-> [q.buf EXCEPT ![q.head] = e],
                  cap   |-> q.cap,
                  head  |-> (q.head + 1) % q.cap,
                  tail  |-> q.tail,
                  count |-> q.count + 1]

\* Mutant: the event is read at the head, where the next push goes
eq_front_at_head(q) == q.buf[q.head]

\* The event eq_pop copies out of a queue that is not empty ...
eq_front(q) == q.buf[q.tail]

\* ... and the queue it leaves
eq_pop(q) == [buf   |-> q.buf,
              cap   |-> q.cap,
              head  |-> q.head,
              tail  |-> (q.tail + 1) % q.cap,
              count |-> q.count - 1]

eq_drain(q) == eq_init(q.buf, q.cap)

\* The events of a ring in the order in which eq_pop will return them
Contents(q) == [k \in 1 .. q.count |-> q.buf[(q.tail + k - 1) % q.cap]]
=============================================================================
