------------------------------ MODULE MCToken ------------------------------
(* Model-checking instances of Token.                                      *)
EXTENDS Token

AnyStrategy == {"FIFO", "LIFO"}
FifoOnly == {"FIFO"}

(* Timeouts: either kind of call, or only calls without one.               *)
AnyTimeout == {TRUE, FALSE}
NoTimeout == {FALSE}

(* Arguments of renew.                                                     *)
AnyPosition == {"front", "strategy"}
StrategyPosition == {"strategy"}
FrontPosition == {"front"}

=============================================================================
