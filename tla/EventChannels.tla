---------------------------- MODULE EventChannels ----------------------------
(***************************************************************************)
(* What the event queues of the scheduler promise to their users: one      *)
(* bounded first-in first-out channel per active object.  An event that    *)
(* was accepted is delivered in order and exactly once, or is discarded    *)
(* together with everything else in its channel when the channel is        *)
(* drained (sched_unregister, sched_flush_all).                            *)
(***************************************************************************)
EXTENDS Naturals, Sequences

CONSTANTS AO,        \* the active objects
          Events,    \* the events that can be posted
          NoEvent,   \* stands for "no event is being handled"
          Capacity   \* Capacity[x] is the bound on the channel of x

VARIABLES chan,      \* chan[x]: the events posted to x, oldest first
          handed     \* the event handed to the running handler

Init == chan = [x \in AO |-> << >>] /\ handed = NoEvent

Post(x, e) == /\ Len(chan[x]) < Capacity[x]
              /\ chan' = [chan EXCEPT ![x] = Append(@, e)]
              /\ handed' = handed

Deliver(x) == /\ chan[x] # << >>
              /\ chan' = [chan EXCEPT ![x] = Tail(@)]
              /\ handed' = Head(chan[x])

Finish == chan' = chan /\ handed' = NoEvent

Discard(X) == /\ chan' = [x \in AO |-> IF x \in X THEN << >> ELSE chan[x]]
              /\ handed' = handed

Next == \/ \E x \in AO, e \in Events : Post(x, e)
        \/ \E x \in AO : Deliver(x)
        \/ Finish
        \/ \E X \in SUBSET AO : Discard(X)

Spec == Init /\ [][Next]_<<chan, handed>>
=============================================================================
