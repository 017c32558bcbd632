----------------------------- MODULE TimerQueue -----------------------------
(***************************************************************************)
(* What the clients of an ACE timer queue are promised                     *)
(* (ACE_Abstract_Timer_Queue): a set of timers that are named by ids and   *)
(* come out in the order of their times.                                   *)
(***************************************************************************)
EXTENDS Naturals, FiniteSetsExt

CONSTANTS
    CurTimes,   \* what expire may be told the time is
    Intervals   \* what the interval of a timer may be set to

VARIABLES
    timers,     \* the timers that run, [id, type, time, interval]
    held        \* the ids of timers that are just being cancelled

tvars == <<timers, held>>

Ids == {t.id : t \in timers}

TQInit ==
    /\ timers = {}
    /\ held = {}

(* A new timer has an id that no other timer has. *)
Schedule ==
    /\ \E t \in timers' :
        /\ t.id \notin Ids \cup held
        /\ timers' = timers \cup {t}
    /\ UNCHANGED held

(* One timer is cancelled.  Its id stays taken until its owner is told. *)
Cancel ==
    \E t \in timers :
        /\ timers' = timers \ {t}
        /\ held' = held \cup {t.id}

Cancelled ==
    /\ \E id \in held : held' = held \ {id}
    /\ UNCHANGED timers

(* All timers of a type are cancelled. *)
CancelType ==
    /\ \E type \in {t.type : t \in timers} :
        timers' = {t \in timers : t.type # type}
    /\ UNCHANGED held

CancelAll ==
    /\ timers' = {}
    /\ UNCHANGED held

ResetInterval ==
    /\ \E t \in timers, i \in Intervals :
        timers' = (timers \ {t}) \cup {[t EXCEPT !.interval = i]}
    /\ UNCHANGED held

(* The first of the times at which a periodic timer fires that has not     *)
(* passed: what the loop in the comment of recompute_next_abs_interval_time *)
(* computes.                                                               *)
NextTime(t, now) ==
    Min({m \in now + 1 .. now + t.interval : (m - t.time) % t.interval = 0})

(* A timer that is due is dispatched: none is earlier. *)
Dispatch ==
    /\ \E now \in CurTimes, t \in timers :
        /\ t.time <= now
        /\ \A u \in timers : t.time <= u.time
        /\ timers' = (timers \ {t}) \cup
                     IF t.interval = 0 THEN {}
                     ELSE {[t EXCEPT !.time = NextTime(t, now)]}
    /\ UNCHANGED held

TQNext ==
    \/ Schedule \/ Cancel \/ Cancelled \/ CancelType \/ CancelAll
    \/ ResetInterval \/ Dispatch

TQSpec == TQInit /\ [][TQNext]_tvars

=============================================================================
