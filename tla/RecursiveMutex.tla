--------------------------- MODULE RecursiveMutex ---------------------------
(***************************************************************************)
(* What a client of ACE_Token is promised: a recursive mutex that its      *)
(* holder may yield, whole, and get back as deeply nested as it was.       *)
(***************************************************************************)
EXTENDS Naturals

CONSTANT Threads

VARIABLES
    holds,  \* how many acquires of a thread are outstanding
    owed    \* how many it had when it yielded: what renew must reinstate

mvars == <<holds, owed>>

TypeOK ==
    /\ holds \in [Threads -> Nat]
    /\ owed \in [Threads -> Nat]

Init ==
    /\ holds = [t \in Threads |-> 0]
    /\ owed = [t \in Threads |-> 0]

Available(t) == \A u \in Threads \ {t} : holds[u] = 0

(* acquire returned 0. *)
Acquire(t) ==
    /\ Available(t)
    /\ owed[t] = 0
    /\ holds' = [holds EXCEPT ![t] = @ + 1]
    /\ UNCHANGED owed

(* release was called. *)
Release(t) ==
    /\ holds[t] > 0
    /\ holds' = [holds EXCEPT ![t] = @ - 1]
    /\ UNCHANGED owed

(* renew was called and found threads to give way to. *)
Yield(t) ==
    /\ holds[t] > 0
    /\ holds' = [holds EXCEPT ![t] = 0]
    /\ owed' = [owed EXCEPT ![t] = holds[t]]

(* renew returned 0. *)
Resume(t) ==
    /\ owed[t] > 0
    /\ Available(t)
    /\ holds' = [holds EXCEPT ![t] = owed[t]]
    /\ owed' = [owed EXCEPT ![t] = 0]

(* renew returned -1: every acquire of the caller is gone. *)
Forfeit(t) ==
    /\ owed[t] > 0
    /\ owed' = [owed EXCEPT ![t] = 0]
    /\ UNCHANGED holds

Next ==
    \E t \in Threads :
        Acquire(t) \/ Release(t) \/ Yield(t) \/ Resume(t) \/ Forfeit(t)

Spec == Init /\ [][Next]_mvars

=============================================================================
