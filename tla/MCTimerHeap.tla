----------------------------- MODULE MCTimerHeap -----------------------------
(* Instances of the timer heap for TLC.                                    *)
EXTENDS TimerHeap

(* A timer that fires once, and a periodic one of another handler. *)
HeapRequests ==
    {[type |-> "h1", time |-> 1, interval |-> 0],
     [type |-> "h2", time |-> 2, interval |-> 2]}

=============================================================================
