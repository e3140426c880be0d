----------------------------- MODULE MCScheduler -----------------------------
(* Instances of Scheduler for TLC *)
EXTENDS Scheduler, TLC

\* Three AOs: 0 and 1 share the highest priority, 2 is below them
MCPrio == (0 :> 1) @@ (1 :> 1) @@ (2 :> 0)
MCCapacity == (0 :> 1) @@ (1 :> 2) @@ (2 :> 1)
\* Two AOs of equal priority with queues that wrap
MCPrio2 == (0 :> 1) @@ (1 :> 1)
MCCapacity2 == (0 :> 2) @@ (1 :> 2)

\* SysTick preempts USART6
MCUrgency == ("usart6" :> 1) @@ ("systick" :> 2)
MCTargets == ("usart6" :> {0}) @@ ("systick" :> {1, 2})
MCTargets2 == ("usart6" :> {0}) @@ ("systick" :> {1})

\* Interrupt handlers post outside the windows only
SpecOutside == Init /\ [][Next /\ PostsOutside(AO)]_vars
=============================================================================
