---------------------------- MODULE MCTPReactor ----------------------------
(* TPReactor for TLC: e1 and e2 are connections, e3 resumes itself.  Two   *)
(* of them get the same file descriptor.                                   *)
EXTENDS TPReactor, TLC

CONSTANTS e1, e2, e3

PoolHandle == (e1 :> 1) @@ (e2 :> 1) @@ (e3 :> 2)
ResumedHandle == (e1 :> 1) @@ (e2 :> 2) @@ (e3 :> 1)
=============================================================================
