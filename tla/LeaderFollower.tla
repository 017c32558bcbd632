--------------------------- MODULE LeaderFollower ---------------------------
(***************************************************************************)
(* TAO_Leader_Follower (TAO/tao/Leader_Follower.{h,inl,cpp}) with the      *)
(* invocation events its threads wait for (LF_Event, LF_Invocation_Event). *)
(*                                                                         *)
(* A thread of the ORB runs the event loop (ORB_Core::run) or waits for    *)
(* the reply to a request (wait_for_event); in an upcall it can do either  *)
(* again, so each thread has a stack of calls.  Only a leader runs the     *)
(* reactor; the other waiting threads are followers, each asleep on its    *)
(* own condition variable, until their event completes or they are elected *)
(* leader.  An action is what a thread does between two points where it    *)
(* holds lock() no longer.                                                 *)
(***************************************************************************)
EXTENDS Integers, Sequences, FiniteSets, SequencesExt, FiniteSetsExt

CONSTANTS
    Servers,        \* the threads that call ORB_Core::run
    Clients,        \* the threads that call wait_for_event
    MaxDepth,       \* bound: calls on the stack of a thread
    MaxNested       \* bound: threads that are in nested calls at once

Threads == Servers \cup Clients

ASSUME LeaderFollowerAssumption ==
    /\ IsFiniteSet(Threads)
    /\ MaxDepth \in Nat \ {0}
    /\ MaxNested \in Nat

VARIABLES
    calls,          \* the calls each thread is in, the innermost last
    lf,             \* the counters of the TAO_Leader_Follower
    tss,            \* TAO_ORB_Core_TSS_Resources of each thread
    follower_set,   \* follower_set_
    woken,          \* sleeping threads whose condition has been signalled
    met             \* history: which of Incidents have happened

vars == <<calls, lf, tss, follower_set, woken, met>>

(* What the properties need to know of the past, and no action looks at:   *)
(* a thread that leads has made a call, from code a handler has called     *)
(* back outside set_upcall_thread; and an elected follower has lost its    *)
(* connection to a thread outside the reactor before it woke up.           *)
Incidents == {"leader_calls", "elected_closed"}

(* Where a call of wait_for_event or of run is.                            *)
WaitPoints == {"calling", "follower", "leading", "polling", "handling",
               "upcall", "polled", "led", "yielding"}
RunPoints == {"entering", "blocked", "polling", "handling", "upcall",
              "polled", "failed"}

(* The states of an LF_Event, the final ones (LFS_SUCCESS, LFS_FAILURE,    *)
(* LFS_TIMEOUT, LFS_CONNECTION_CLOSED) as one.                             *)
EventStates == {"ACTIVE", "FINAL"}

WaitCall == [call : {"wait"}, at : WaitPoints, event : EventStates, expired : BOOLEAN]
RunCall == [call : {"run"}, at : RunPoints]

Counters == [leaders : Nat, client_thread_is_leader : Nat, event_loop_threads_waiting : Nat]
Tss == [event_loop_thread : Nat, client_leader_thread : Nat]

TypeOK ==
    /\ calls \in [Threads -> Seq(WaitCall \cup RunCall)]
    /\ lf \in Counters
    /\ tss \in [Threads -> Tss]
    /\ follower_set \in Seq(Threads)
    /\ woken \subseteq Threads
    /\ met \subseteq Incidents

Init ==
    /\ calls = [t \in Threads |-> <<>>]
    /\ lf = [leaders |-> 0, client_thread_is_leader |-> 0,
             event_loop_threads_waiting |-> 0]
    /\ tss = [t \in Threads |-> [event_loop_thread |-> 0, client_leader_thread |-> 0]]
    /\ follower_set = <<>>
    /\ woken = {}
    /\ met = {}

-----------------------------------------------------------------------------
(* The stack of calls.                                                     *)

Busy(t) == calls[t] # <<>>
Call(t) == Last(calls[t])
At(t, call, point) == Busy(t) /\ Call(t).call = call /\ Call(t).at = point
InReactor(t, point) == Busy(t) /\ Call(t).at = point

keep_waiting_i(call) == call.event = "ACTIVE"

With(t, call) == [calls EXCEPT ![t][Len(calls[t])] = call]
Moved(t, point) == With(t, [Call(t) EXCEPT !.at = point])
Returned(t) == [calls EXCEPT ![t] = Front(calls[t])]

(* A new call, from the application or from code the reactor dispatches.   *)
MayCall(t) ==
    /\ Len(calls[t]) < MaxDepth
    /\ Busy(t) => /\ Call(t).at = "upcall"
                  /\ Cardinality({u \in Threads : Len(calls[u]) > 1} \cup {t}) <= MaxNested

-----------------------------------------------------------------------------
(* What the methods do to the counters, and to those of the thread.        *)

leads(r) == r.event_loop_thread > 0 \/ r.client_leader_thread > 0

still_leader(c, r) == c                  \* a faulty variant

set_client_thread(c, r) ==
    IF leads(r) THEN [c EXCEPT !.leaders = @ - 1] ELSE c

reset_client_thread(c, r) ==
    IF leads(r) THEN [c EXCEPT !.leaders = @ + 1] ELSE c

set_client_leader_thread(c) ==
    [c EXCEPT !.leaders = @ + 1, !.client_thread_is_leader = @ + 1]

(* "We may be called twice when we gave up leadership from                 *)
(* set_upcall_thread ()".                                                  *)
reset_client_leader_thread(c, r) ==
    IF r.client_leader_thread > 0
    THEN [c EXCEPT !.leaders = @ - 1, !.client_thread_is_leader = @ - 1]
    ELSE c

client_leader_given_up(r) ==
    IF r.client_leader_thread > 0
    THEN [r EXCEPT !.client_leader_thread = @ - 1]
    ELSE r

(* set_event_loop_thread once there is no client leader to wait for, and   *)
(* reset_event_loop_thread_i.                                              *)
event_loop_entered(c, r) ==
    IF leads(r) THEN c ELSE [c EXCEPT !.leaders = @ + 1]

event_loop_left_at_one(c, r) ==          \* a faulty variant
    IF r.event_loop_thread = 1 THEN [c EXCEPT !.leaders = @ - 1] ELSE c

event_loop_left(c, r) ==
    IF r.event_loop_thread = 1 /\ r.client_leader_thread = 0
    THEN [c EXCEPT !.leaders = @ - 1]
    ELSE c

(* remove_follower: the one node of t is unlinked from follower_set_.      *)
remove_follower(q, t) ==
    IF t \in ToSet(q) THEN RemoveAt(q, CHOOSE i \in DOMAIN q : q[i] = t) ELSE q

(* elect_new_leader: the head of followers is signalled, which takes it    *)
(* out of the set, unless threads wait to run the event loop.              *)
BlockedThreads == {t \in Threads : At(t, "run", "blocked")}

elect_event_loops_only(c) ==             \* a faulty variant
    IF c.leaders = 0 /\ c.event_loop_threads_waiting > 0
    THEN [set |-> follower_set, woken |-> woken \cup BlockedThreads]
    ELSE [set |-> follower_set, woken |-> woken]

elect_and_leave_in_set(c) ==             \* a faulty variant
    IF c.leaders = 0 /\ follower_set # <<>>
    THEN [set |-> follower_set, woken |-> woken \cup {Head(follower_set)}]
    ELSE [set |-> follower_set, woken |-> woken]

elect_new_leader(c) ==
    IF c.leaders = 0 /\ c.event_loop_threads_waiting > 0
    THEN [set |-> follower_set, woken |-> woken \cup BlockedThreads]
    ELSE IF c.leaders = 0 /\ follower_set # <<>>
    THEN [set |-> Tail(follower_set), woken |-> woken \cup {Head(follower_set)}]
    ELSE [set |-> follower_set, woken |-> woken]

Elect(c) ==
    /\ follower_set' = elect_new_leader(c).set
    /\ woken' = elect_new_leader(c).woken

NoteCall(t) == met' = IF leads(tss[t]) THEN met \cup {"leader_calls"} ELSE met

-----------------------------------------------------------------------------
(* wait_for_event.                                                         *)

(* The end of the call, with an election.                                  *)
Return(t, c, r) ==
    /\ calls' = Returned(t)
    /\ lf' = reset_client_thread(c, r)
    /\ tss' = [tss EXCEPT ![t] = r]
    /\ Elect(reset_client_thread(c, r))
    /\ UNCHANGED met

Follow(t, c, r) ==
    /\ calls' = Moved(t, "follower")
    /\ lf' = c
    /\ tss' = [tss EXCEPT ![t] = r]
    /\ follower_set' = Append(remove_follower(follower_set, t), t)
    /\ woken' = woken \ {t}
    /\ UNCHANGED met

BecomeClientLeader(t, c, r) ==
    /\ calls' = Moved(t, "leading")
    /\ lf' = set_client_leader_thread(c)
    /\ tss' = [tss EXCEPT ![t] = [r EXCEPT !.client_leader_thread = @ + 1]]
    /\ follower_set' = remove_follower(follower_set, t)
    /\ woken' = woken \ {t}
    /\ UNCHANGED met

(* The head of the loop that alternates between leader and follower.       *)
WaitLoop(t, c, r) ==
    \/ ~keep_waiting_i(Call(t)) /\ Return(t, c, r)
    \/ Call(t).expired /\ Return(t, c, r)
    \/ /\ keep_waiting_i(Call(t)) /\ ~Call(t).expired
       /\ \/ c.leaders # 0 /\ Follow(t, c, r)
          \/ c.leaders = 0 /\ BecomeClientLeader(t, c, r)

(* A request has been sent; its reply may complete the event at once.      *)
Invoke(t) ==
    /\ MayCall(t)
    /\ Busy(t) \/ t \in Clients
    /\ calls' = [calls EXCEPT ![t] = Append(@,
          [call |-> "wait", at |-> "calling", event |-> "ACTIVE", expired |-> FALSE])]
    /\ NoteCall(t)
    /\ UNCHANGED <<lf, tss, follower_set, woken>>

EnterWait(t) ==
    /\ At(t, "wait", "calling")
    /\ WaitLoop(t, set_client_thread(lf, tss[t]), tss[t])

(* follower->wait has returned: the auto adder takes the follower out of   *)
(* the set and the loop puts it back.  A follower whose event is complete  *)
(* returns without an election.                                            *)
FollowerWakes(t) ==
    /\ At(t, "wait", "follower")
    /\ \/ /\ keep_waiting_i(Call(t))
          /\ \/ lf.leaders # 0 /\ Follow(t, lf, tss[t])
             \/ lf.leaders = 0 /\ BecomeClientLeader(t, lf, tss[t])
       \/ /\ ~keep_waiting_i(Call(t))
          /\ calls' = Returned(t)
          /\ lf' = reset_client_thread(lf, tss[t])
          /\ follower_set' = remove_follower(follower_set, t)
          /\ woken' = woken \ {t}
          /\ UNCHANGED <<tss, met>>

(* follower->wait has failed with ETIME: the event is timed out, whatever  *)
(* it has become meanwhile, and a leader elected, who may have been t.     *)
nobody_elected == [set |-> follower_set, woken |-> woken]    \* a faulty variant
elected_on_timeout == elect_new_leader(lf)

FollowerTimesOut(t) ==
    /\ At(t, "wait", "follower")
    /\ calls' = Returned(t)
    /\ lf' = reset_client_thread(lf, tss[t])
    /\ follower_set' = remove_follower(elected_on_timeout.set, t)
    /\ woken' = elected_on_timeout.woken \ {t}
    /\ UNCHANGED <<tss, met>>

(* The leader looks at its event before the first handle_events.           *)
LeadBegins(t) ==
    /\ At(t, "wait", "leading")
    /\ calls' = Moved(t, IF keep_waiting_i(Call(t)) THEN "polling" ELSE "led")
    /\ UNCHANGED <<lf, tss, follower_set, woken, met>>

(* After handle_events: "Has an event loop thread become available to take *)
(* over?", "Did we give up leadership?".                                   *)
LeadGoesOn(t) ==
    /\ At(t, "wait", "polled")
    /\ calls' = Moved(t,
          IF /\ lf.event_loop_threads_waiting = 0
             /\ tss[t].client_leader_thread > 0
             /\ keep_waiting_i(Call(t))
          THEN "polling" ELSE "led")
    /\ UNCHANGED <<lf, tss, follower_set, woken, met>>

(* handle_events has found that the time is over, or failed.               *)
LeadExpires(t) ==
    /\ At(t, "wait", "polling")
    /\ calls' = With(t, [Call(t) EXCEPT !.at = "led", !.expired = TRUE])
    /\ UNCHANGED <<lf, tss, follower_set, woken, met>>

(* The lock is taken again and the leadership given up.                    *)
LeadEnds(t) ==
    LET c == reset_client_leader_thread(lf, tss[t])
        r == client_leader_given_up(tss[t])
    IN  /\ At(t, "wait", "led")
        /\ IF c.event_loop_threads_waiting > 0 /\ c.leaders = 0
           THEN /\ calls' = Moved(t, "yielding")
                /\ lf' = c
                /\ tss' = [tss EXCEPT ![t] = r]
                /\ Elect(c)
                /\ UNCHANGED met
           ELSE WaitLoop(t, c, r)

YieldEnds(t) ==
    /\ At(t, "wait", "yielding")
    /\ WaitLoop(t, lf, tss[t])

-----------------------------------------------------------------------------
(* ORB_Core::run: one round of its loop for each handle_events.            *)

Run(t) ==
    /\ MayCall(t)
    /\ Busy(t) \/ t \in Servers
    /\ calls' = [calls EXCEPT ![t] = Append(@, [call |-> "run", at |-> "entering"])]
    /\ NoteCall(t)
    /\ UNCHANGED <<lf, tss, follower_set, woken>>

(* set_event_loop_thread, once there is no other client leader.            *)
RunReactor(t, c) ==
    /\ calls' = Moved(t, "polling")
    /\ lf' = event_loop_entered(c, tss[t])
    /\ tss' = [tss EXCEPT ![t].event_loop_thread = @ + 1]
    /\ woken' = woken \ {t}
    /\ UNCHANGED <<follower_set, met>>

need_not_wait(t) == FALSE                \* a faulty variant
must_wait(t) == lf.client_thread_is_leader > 0 /\ tss[t].client_leader_thread = 0

EnterLoop(t) ==
    /\ At(t, "run", "entering")
    /\ IF must_wait(t)
       THEN /\ calls' = Moved(t, "blocked")
            /\ lf' = [lf EXCEPT !.event_loop_threads_waiting = @ + 1]
            /\ UNCHANGED <<tss, follower_set, woken, met>>
       ELSE RunReactor(t, lf)

(* wait_for_client_leader_to_complete.                                     *)
BlockedWakes(t) ==
    /\ At(t, "run", "blocked")
    /\ IF lf.client_thread_is_leader > 0
       THEN woken' = woken \ {t} /\ UNCHANGED <<calls, lf, tss, follower_set, met>>
       ELSE RunReactor(t, [lf EXCEPT !.event_loop_threads_waiting = @ - 1])

BlockedTimesOut(t) ==
    /\ At(t, "run", "blocked")
    /\ calls' = Moved(t, "failed")
    /\ lf' = [lf EXCEPT !.event_loop_threads_waiting = @ - 1]
    /\ woken' = woken \ {t}
    /\ UNCHANGED <<tss, follower_set, met>>

(* reset_event_loop_thread of the event loop helper, with an election.     *)
LeaveLoop(t) ==
    LET c == event_loop_left(lf, tss[t])
    IN  /\ At(t, "run", "polled")
        /\ IF tss[t].event_loop_thread > 0
           THEN /\ lf' = c
                /\ tss' = [tss EXCEPT ![t].event_loop_thread = @ - 1]
                /\ Elect(c)
           ELSE Elect(lf) /\ UNCHANGED <<lf, tss>>
        /\ \/ calls' = Moved(t, "entering")
           \/ calls' = Returned(t)
        /\ UNCHANGED met

GiveUpLoop(t) ==
    /\ At(t, "run", "failed")
    /\ calls' = Returned(t)
    /\ Elect(lf)
    /\ UNCHANGED <<lf, tss, met>>

-----------------------------------------------------------------------------
(* The reactor, by what the code it calls back does: handle_events blocks  *)
(* until there is input, hands it to a handler and returns.  Several       *)
(* threads may be in handlers at once.                                     *)

Dispatch(t) ==
    /\ InReactor(t, "polling")
    /\ calls' = Moved(t, "handling")
    /\ UNCHANGED <<lf, tss, follower_set, woken, met>>

HandleEventsReturns(t) ==
    /\ InReactor(t, "handling") \/ InReactor(t, "upcall")
    /\ calls' = Moved(t, "polled")
    /\ UNCHANGED <<lf, tss, follower_set, woken, met>>

(* LF_Event::state_changed of the event of the k-th call of u, which       *)
(* signals the follower the event is bound to.                             *)
Active(u, k) ==
    /\ k \in DOMAIN calls[u]
    /\ calls[u][k].call = "wait"
    /\ calls[u][k].event = "ACTIVE"

state_changed(u, k) ==
    /\ Active(u, k)
    /\ calls' = [calls EXCEPT ![u][k].event = "FINAL"]
    /\ IF calls[u][k].at = "follower"
       THEN /\ follower_set' = remove_follower(follower_set, u)
            /\ woken' = woken \cup {u}
       ELSE UNCHANGED <<follower_set, woken>>
    /\ UNCHANGED <<lf, tss>>

(* The handler has read a reply, dispatch_reply.                           *)
DispatchReply(t, u, k) ==
    /\ InReactor(t, "handling")
    /\ state_changed(u, k)
    /\ UNCHANGED met

(* A thread that meets an error on a connection closes it, in the reactor  *)
(* or when it sends, and TAO_Muxed_TMS::connection_closed fails the        *)
(* requests that wait for replies on it.                                   *)
Elected(t) ==
    /\ t \in woken
    /\ \/ At(t, "wait", "follower") /\ keep_waiting_i(Call(t))
       \/ At(t, "run", "blocked")

ConnectionClosed(u, k) ==
    /\ state_changed(u, k)
    /\ met' = IF \/ \E t \in Threads : InReactor(t, "handling")
                 \/ k # Len(calls[u]) \/ ~Elected(u)
              THEN met
              ELSE met \cup {"elected_closed"}

(* The handler calls back the application about a reply to an asynchronous *)
(* request, or waits for a connection: there is no set_upcall_thread.      *)
CallBack(t) ==
    /\ InReactor(t, "handling")
    /\ calls' = Moved(t, "upcall")
    /\ UNCHANGED <<lf, tss, follower_set, woken, met>>

(* The handler has read a request: set_upcall_thread.                      *)
set_upcall_thread(t) ==
    /\ InReactor(t, "handling")
    /\ calls' = Moved(t, "upcall")
    /\ \/ /\ tss[t].event_loop_thread > 0
          /\ lf' = event_loop_left(lf, tss[t])
          /\ tss' = [tss EXCEPT ![t].event_loop_thread = @ - 1]
          /\ Elect(event_loop_left(lf, tss[t]))
       \/ /\ tss[t].event_loop_thread = 0
          /\ tss[t].client_leader_thread = 1
          /\ lf' = reset_client_leader_thread(lf, tss[t])
          /\ tss' = [tss EXCEPT ![t].client_leader_thread = 0]
          /\ Elect(reset_client_leader_thread(lf, tss[t]))
       \/ /\ tss[t].event_loop_thread = 0
          /\ tss[t].client_leader_thread # 1
          /\ UNCHANGED <<lf, tss, follower_set, woken>>
    /\ UNCHANGED met

-----------------------------------------------------------------------------

Next ==
    \/ \E t \in Threads :
          \/ Invoke(t) \/ EnterWait(t) \/ FollowerWakes(t) \/ FollowerTimesOut(t)
          \/ LeadBegins(t) \/ LeadGoesOn(t) \/ LeadExpires(t) \/ LeadEnds(t)
          \/ YieldEnds(t)
          \/ Run(t) \/ EnterLoop(t) \/ BlockedWakes(t) \/ BlockedTimesOut(t)
          \/ LeaveLoop(t) \/ GiveUpLoop(t)
          \/ Dispatch(t) \/ HandleEventsReturns(t) \/ CallBack(t) \/ set_upcall_thread(t)
          \/ \E u \in Threads : \E k \in DOMAIN calls[u] : DispatchReply(t, u, k)
    \/ \E u \in Threads : \E k \in DOMAIN calls[u] : ConnectionClosed(u, k)

Spec == Init /\ [][Next]_vars

(* A thread that is awake goes on, also in the code the reactor calls      *)
(* back, and one that has been signalled wakes up.  A thread is at one     *)
(* point at a time, so one condition does for all its steps.               *)
GoesOn(t) ==
    \/ EnterWait(t) \/ LeadBegins(t) \/ LeadGoesOn(t) \/ LeadEnds(t) \/ YieldEnds(t)
    \/ EnterLoop(t) \/ LeaveLoop(t) \/ GiveUpLoop(t)
    \/ t \in woken /\ (FollowerWakes(t) \/ BlockedWakes(t))

Fairness == \A t \in Threads : WF_vars(GoesOn(t))

FairSpec == Spec /\ Fairness

-----------------------------------------------------------------------------
(* Properties.                                                             *)

(* What the counters of elect_new_leader, leader_available and             *)
(* set_event_loop_thread stand for, through nested event loops and         *)
(* requests: leaders_ counts the threads in charge of the reactor, those   *)
(* that run it or handle what it read, but not while they wait as clients; *)
(* client_thread_is_leader_ the levels of client leadership; and           *)
(* event_loop_threads_waiting_ the threads asleep at the event loop's door.*)
InCharge(t) ==
    /\ leads(tss[t])
    /\ ~At(t, "wait", "follower")
    /\ ~At(t, "wait", "yielding")

ClientLevels == UNION {{t} \X (1..tss[t].client_leader_thread) : t \in Threads}

CountersExact ==
    /\ lf.leaders = Cardinality({t \in Threads : InCharge(t)})
    /\ lf.client_thread_is_leader = Cardinality(ClientLevels)
    /\ lf.event_loop_threads_waiting = Cardinality(BlockedThreads)

(* "We *must* remove ourselves from the list of followers, otherwise we    *)
(* could get signaled twice: to wake up as a follower and as the next      *)
(* leader" (LF_Follower.cpp): follower_set_ holds each sleeping follower   *)
(* nobody has signalled, once, and nobody else.                            *)
Asleep(t) == At(t, "wait", "follower") /\ t \notin woken

FollowersExact ==
    /\ IsInjective(follower_set)
    /\ ToSet(follower_set) = {t \in Threads : Asleep(t)}

(* A thread that runs the reactor is counted as a leader, so that          *)
(* elect_new_leader sends no other thread there in its name.               *)
PollerCounts == \A t \in Threads : InReactor(t, "polling") => lf.leaders > 0

(* A client leader runs the reactor alone: set_event_loop_thread makes     *)
(* "sure that there is no other client thread run the show", and a client  *)
(* becomes leader when there is none.  The code does not keep it: a client *)
(* leader that is called back keeps its flag when another client leads.    *)
OneClientLeader ==
    \A t, u \in Threads :
        t # u /\ At(t, "wait", "polling") => ~InReactor(u, "polling")

(* So it is until a thread makes a call while it leads: until then, upcalls *)
(* give up the leadership before the application can make calls.           *)
OneClientLeaderUndisturbed == "leader_calls" \notin met => OneClientLeader

(* "but only the first one has any effect, so the leader is lost" (the     *)
(* comment in the follower's loop of wait_for_event): when a follower      *)
(* sleeps there is a leader, or a thread that has been elected, or one     *)
(* that is about to elect.  It is not always so: an elected follower whose *)
(* connection another thread closes returns without an election.           *)
WillElect(t) ==
    \/ At(t, "wait", "led") \/ At(t, "wait", "yielding")
    \/ At(t, "run", "polled") \/ At(t, "run", "failed")

LeaderNotLost ==
    (\E t \in Threads : Asleep(t)) =>
        lf.leaders > 0 \/ \E t \in Threads : Elected(t) \/ WillElect(t)

(* So it is until an elected follower loses its connection to a thread     *)
(* outside the reactor, or a thread makes a call while it leads.           *)
LeaderNotLostUndisturbed == met = {} => LeaderNotLost

(* Until then no follower sleeps for ever without a leader: the elections  *)
(* of wait_for_event, set_upcall_thread and the event loop helper bring    *)
(* one.                                                                    *)
FollowersAreLed ==
    (\E t \in Threads : Asleep(t)) /\ lf.leaders = 0
        ~> \/ lf.leaders > 0 \/ ~\E t \in Threads : Asleep(t)
           \/ met # {}
=============================================================================
