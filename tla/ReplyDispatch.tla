---------------------------- MODULE ReplyDispatch ----------------------------
(***************************************************************************)
(* Requests and replies on one connection of TAO: the table of reply       *)
(* dispatchers (class TAO_Muxed_TMS), the two-way invocations that wait    *)
(* for their reply (Synch_Invocation.cpp) or leave a handler for it        *)
(* (Messaging/Asynch_Invocation.cpp), the reactor's threads that read      *)
(* replies and run timers, and the thread that closes the connection       *)
(* (Connection_Handler.cpp).                                               *)
(*                                                                         *)
(* A request is the thread that makes it, its id and its dispatcher: ids   *)
(* are distinct (2^32 of them).  What runs under one lock is one action,   *)
(* but for the lock of the table, tms_lock, which the closing thread holds *)
(* while it completes all requests.                                        *)
(***************************************************************************)
EXTENDS FiniteSets

CONSTANTS
    Synch,      \* requests whose caller waits
    Asynch,     \* requests with a reply handler
    Timed,      \* requests with a round-trip timeout
    Reactor,    \* a thread of the reactor
    Nobody      \* no thread

Requests == Synch \cup Asynch

ASSUME ReplyDispatchAssumption ==
    /\ Synch \cap Asynch = {}
    /\ Timed \subseteq Requests
    /\ Reactor \notin Requests
    /\ Nobody \notin Requests \cup {Reactor}

VARIABLES
    pc,                 \* where the caller of a request is
    outcome,            \* how the invocation ended
    output_cdr_lock,    \* the request that is being marshalled and sent
    dispatcher_table,   \* the requests with a dispatcher in the table
    dispatching,        \* how far a reader or timer is with a dispatcher
    state,              \* state_ of a dispatcher of Synch
    stored,             \* the reply is in reply_cdr_
    timer,              \* the timer of a request of Asynch
    handled,            \* what the reply handler was called with
    wire,               \* sent requests whose reply has not been read
    is_closed,          \* is_closed_ of the handler, the opposite of is_connected_
    closing,            \* how far close_connection_eh is
    closer,             \* the thread in it
    clearing,           \* what clear_cache_i has still to complete
    leader,             \* the caller that is the client leader, or Nobody
    polling,            \* it is in select, not in a handler
    lost                \* history: requests whose reply could not be copied

invocation == <<pc, outcome, output_cdr_lock>>
dispatch == <<dispatching, state, stored, timer, handled>>
connection == <<is_closed, closing, closer, clearing>>
leading == <<leader, polling>>
vars == <<invocation, dispatcher_table, dispatch, wire, connection, leading,
          lost>>

Points == {"start", "bound", "unsent", "sent", "expired",
           "failed", "broken", "collect", "done"}
Outcomes == {"none", "REPLY", "NOTHING", "TIMEOUT", "TRANSIENT", "RESTART",
             "COMM_FAILURE", "SENT"}
States == {"ACTIVE", "SUCCESS", "FAILURE", "TIMEOUT"}
Handled == {"no", "REPLY", "COMM_FAILURE", "TIMEOUT"}

TypeOK ==
    /\ pc \in [Requests -> Points]
    /\ outcome \in [Requests -> Outcomes]
    /\ output_cdr_lock \in Requests \cup {Nobody}
    /\ dispatcher_table \subseteq Requests
    /\ dispatching \in
        [Requests -> {"no", "reply", "stored", "timeout", "failed"}]
    /\ state \in [Synch -> States]
    /\ stored \in [Requests -> BOOLEAN]
    /\ timer \in [Asynch -> {"none", "scheduled", "gone"}]
    /\ handled \in [Asynch -> Handled]
    /\ wire \subseteq Requests
    /\ is_closed \in BOOLEAN
    /\ closing \in {"no", "flagged", "clearing", "done"}
    /\ closer \in Requests \cup {Reactor, Nobody}
    /\ clearing \subseteq Requests
    /\ leader \in Synch \cup {Nobody}
    /\ polling \in BOOLEAN
    /\ lost \subseteq Requests

Init ==
    /\ pc = [r \in Requests |-> "start"]
    /\ outcome = [r \in Requests |-> "none"]
    /\ output_cdr_lock = Nobody
    /\ dispatcher_table = {}
    /\ dispatching = [r \in Requests |-> "no"]
    /\ state = [r \in Synch |-> "ACTIVE"]
    /\ stored = [r \in Requests |-> FALSE]
    /\ timer = [r \in Asynch |-> "none"]
    /\ handled = [r \in Asynch |-> "no"]
    /\ wire = {}
    /\ is_closed = FALSE
    /\ closing = "no"
    /\ closer = Nobody
    /\ clearing = {}
    /\ leader = Nobody
    /\ polling = FALSE
    /\ lost = {}

-----------------------------------------------------------------------------
(* Dispatchers                                                             *)

tms_lock_free == closing # "clearing"

(* The reactor is run by some thread of it or by the client leader, which  *)
(* is in the handlers that it calls until they return.                     *)
in_handler == closer = Reactor \/ \E r \in Requests : dispatching[r] # "no"
handle_events == /\ leader = Nobody \/ polling
                 /\ polling' = FALSE
                 /\ UNCHANGED leader

(* TAO_LF_Event::state_changed, for a closed connection too.               *)
state_changed_as_told(r, new) ==    \* a faulty variant
    state' = [state EXCEPT ![r] = IF @ = "ACTIVE" THEN new ELSE @]
state_changed(r, new) ==
    state' = [state EXCEPT ![r] =
        IF @ # "ACTIVE" THEN @
        ELSE IF new = "CONNECTION_CLOSED" THEN "FAILURE" ELSE new]

(* An asynchronous dispatcher cancels its timer and calls the handler.     *)
cancel_timer(r) == timer' = [timer EXCEPT ![r] = "gone"]
try_dispatch_reply(r, what) ==
    handled' = [handled EXCEPT ![r] = IF @ = "no" THEN what ELSE @]

(* close_connection_eh by thread by, up to pre_close.  The code tests and  *)
(* sets is_closed_ without a lock: two threads may both go through it, the *)
(* second of which finds the table empty.                                  *)
close_connection(by) ==
    IF is_closed THEN UNCHANGED connection
    ELSE /\ is_closed' = TRUE
         /\ closing' = "flagged"
         /\ closer' = by
         /\ UNCHANGED clearing

dispatch_found(r) ==    \* a faulty variant
    /\ handle_events
    /\ tms_lock_free
    /\ r \in wire
    /\ wire' = wire \ {r}
    /\ r \in dispatcher_table
    /\ dispatching' = [dispatching EXCEPT ![r] = "reply"]
    /\ UNCHANGED <<invocation, dispatcher_table, state, stored, timer,
                   handled, connection, lost>>
(* A reply is read: its dispatcher is unbound, under the lock.             *)
dispatch_reply(r) ==
    /\ handle_events
    /\ tms_lock_free
    /\ r \in wire
    /\ wire' = wire \ {r}
    /\ IF r \in dispatcher_table
       THEN /\ dispatcher_table' = dispatcher_table \ {r}
            /\ dispatching' = [dispatching EXCEPT ![r] = "reply"]
       ELSE UNCHANGED <<dispatcher_table, dispatching>>
    /\ UNCHANGED <<invocation, state, stored, timer, handled, connection,
                   lost>>

(* And after it: the reply is stored, then the waiting thread is told.     *)
(* When it cannot be copied nobody is told, and the connection is closed.  *)
store_reply(r) ==
    /\ r \in Synch
    /\ dispatching[r] = "reply"
    /\ dispatching' = [dispatching EXCEPT ![r] = "stored"]
    /\ stored' = [stored EXCEPT ![r] = TRUE]
    /\ UNCHANGED <<invocation, dispatcher_table, state, timer, handled, wire,
                   connection, leading, lost>>

reply_fails(r) ==
    /\ dispatching[r] = "reply"
    /\ dispatching' = [dispatching EXCEPT ![r] = "failed"]
    /\ IF r \in Asynch THEN cancel_timer(r) /\ handled[r] = "no"
       ELSE UNCHANGED timer
    /\ lost' = lost \cup {r}
    /\ UNCHANGED <<invocation, dispatcher_table, state, stored, handled, wire,
                   connection, leading>>

close_after(r) ==
    /\ dispatching[r] = "failed"
    /\ dispatching' = [dispatching EXCEPT ![r] = "no"]
    /\ close_connection(Reactor)
    /\ UNCHANGED <<invocation, dispatcher_table, state, stored, timer, handled,
                   wire, leading, lost>>

reply_succeeds(r) ==
    /\ dispatching[r] = "stored"
    /\ dispatching' = [dispatching EXCEPT ![r] = "no"]
    /\ state_changed(r, "SUCCESS")
    /\ UNCHANGED <<invocation, dispatcher_table, stored, timer, handled, wire,
                   connection, leading, lost>>

handle_reply(r) ==
    /\ r \in Asynch
    /\ dispatching[r] = "reply"
    /\ dispatching' = [dispatching EXCEPT ![r] = "no"]
    /\ cancel_timer(r)
    /\ try_dispatch_reply(r, "REPLY")
    /\ UNCHANGED <<invocation, dispatcher_table, state, stored, wire,
                   connection, leading, lost>>

(* The timer of an asynchronous request expires.                           *)
reply_timed_out(r) ==
    /\ handle_events
    /\ tms_lock_free
    /\ timer[r] = "scheduled"
    /\ cancel_timer(r)
    /\ IF r \in dispatcher_table
       THEN /\ dispatcher_table' = dispatcher_table \ {r}
            /\ dispatching' = [dispatching EXCEPT ![r] = "timeout"]
       ELSE UNCHANGED <<dispatcher_table, dispatching>>
    /\ UNCHANGED <<invocation, state, stored, handled, wire, connection, lost>>

handle_timed_out(r) ==
    /\ dispatching[r] = "timeout"
    /\ dispatching' = [dispatching EXCEPT ![r] = "no"]
    /\ try_dispatch_reply(r, "TIMEOUT")
    /\ UNCHANGED <<invocation, dispatcher_table, state, stored, timer, wire,
                   connection, leading, lost>>

-----------------------------------------------------------------------------
(* Closing the connection                                                  *)

(* A thread in close_connection_eh does nothing else.                      *)
Free(r) == closer # r

(* The peer closes, or reading fails.                                      *)
handle_input_fails ==
    /\ handle_events
    /\ ~is_closed
    /\ close_connection(Reactor)
    /\ UNCHANGED <<invocation, dispatcher_table, dispatch, wire, lost>>

(* TAO_Muxed_TMS::connection_closed takes its lock and empties the table.  *)
connection_closed ==
    /\ closing = "flagged"
    /\ closing' = "clearing"
    /\ clearing' = dispatcher_table
    /\ dispatcher_table' = {}
    /\ UNCHANGED <<invocation, dispatch, wire, is_closed, closer, leading,
                   lost>>

closed_untold(r) ==    \* a faulty variant
    /\ r \in clearing
    /\ clearing' = clearing \ {r}
    /\ UNCHANGED <<invocation, dispatcher_table, dispatch, wire, is_closed,
                   closing, closer, leading, lost>>
dispatcher_closed(r) ==
    /\ r \in clearing
    /\ clearing' = clearing \ {r}
    /\ IF r \in Synch
       THEN state_changed(r, "CONNECTION_CLOSED") /\ UNCHANGED <<timer, handled>>
       ELSE /\ cancel_timer(r)
            /\ try_dispatch_reply(r, "COMM_FAILURE")
            /\ UNCHANGED state
    /\ UNCHANGED <<invocation, dispatcher_table, dispatching, stored, wire,
                   is_closed, closing, closer, leading, lost>>

connection_is_closed ==
    /\ closing = "clearing"
    /\ clearing = {}
    /\ closing' = "done"
    /\ closer' = Nobody
    /\ UNCHANGED <<invocation, dispatcher_table, dispatch, wire, is_closed,
                   clearing, leading, lost>>

-----------------------------------------------------------------------------
(* Invocations                                                             *)

go(r, point) == pc' = [pc EXCEPT ![r] = point]
ends(r, how) == go(r, "done") /\ outcome' = [outcome EXCEPT ![r] = how]

At(r, point) == pc[r] = point /\ Free(r)

(* An asynchronous request with a timeout has its timer set first.         *)
schedule_timer(r) ==
    /\ r \in Asynch \cap Timed
    /\ At(r, "start")
    /\ timer[r] = "none"
    /\ timer' = [timer EXCEPT ![r] = "scheduled"]
    /\ UNCHANGED <<invocation, dispatcher_table, dispatching, state, stored,
                   handled, wire, connection, leading, lost>>

(* With output_cdr_lock held, the message is marshalled and the dispatcher *)
(* bound.                                                                  *)
bind_dispatcher(r) ==
    /\ At(r, "start")
    /\ r \in Asynch \cap Timed => timer[r] # "none"
    /\ output_cdr_lock = Nobody
    /\ tms_lock_free
    /\ output_cdr_lock' = r
    /\ dispatcher_table' = dispatcher_table \cup {r}
    /\ go(r, "bound")
    /\ UNCHANGED <<outcome, dispatch, wire, connection, leading, lost>>

send_unchecked(r) ==    \* a faulty variant
    /\ At(r, "bound")
    /\ wire' = wire \cup {r}
    /\ output_cdr_lock' = Nobody
    /\ IF r \in Asynch THEN ends(r, "SENT") ELSE go(r, "sent") /\ UNCHANGED outcome
    /\ UNCHANGED <<dispatcher_table, dispatch, connection, leading, lost>>
(* send_message: TRANSIENT when the connection is closed.                  *)
send_request(r) ==
    /\ At(r, "bound")
    /\ ~is_closed
    /\ wire' = wire \cup {r}
    /\ output_cdr_lock' = Nobody
    /\ IF r \in Asynch THEN ends(r, "SENT") ELSE go(r, "sent") /\ UNCHANGED outcome
    /\ UNCHANGED <<dispatcher_table, dispatch, connection, leading, lost>>

not_connected(r) ==
    /\ At(r, "bound")
    /\ is_closed
    /\ go(r, "unsent")
    /\ outcome' = [outcome EXCEPT ![r] = "TRANSIENT"]
    /\ UNCHANGED <<output_cdr_lock, dispatcher_table, dispatch, wire,
                   connection, leading, lost>>

(* Writing fails, or takes too long: the connection is closed.             *)
send_fails(r) ==
    /\ At(r, "bound")
    /\ \E how \in {"RESTART", "TIMEOUT"} : outcome' = [outcome EXCEPT ![r] = how]
    /\ close_connection(r)
    /\ go(r, "unsent")
    /\ UNCHANGED <<output_cdr_lock, dispatcher_table, dispatch, wire, leading,
                   lost>>

(* The time is up before a byte is written: the connection stays as it is. *)
send_times_out(r) ==
    /\ At(r, "bound")
    /\ outcome' = [outcome EXCEPT ![r] = "TIMEOUT"]
    /\ go(r, "unsent")
    /\ UNCHANGED <<output_cdr_lock, dispatcher_table, dispatch, wire,
                   connection,
                   leading, lost>>

(* On the way out TAO_Bind_Dispatcher_Guard unbinds, but not for an        *)
(* asynchronous request, and the lock is released.                         *)
leave_unsent(r) ==
    /\ At(r, "unsent")
    /\ IF r \in Synch THEN tms_lock_free /\ dispatcher_table' = dispatcher_table \ {r}
       ELSE UNCHANGED dispatcher_table
    /\ output_cdr_lock' = Nobody
    /\ go(r, "done")
    /\ UNCHANGED <<outcome, dispatch, wire, connection, leading, lost>>

(* wait_for_reply and, behind it, TAO_Leader_Follower::wait_for_event: a   *)
(* caller waits as a follower, or leads when nobody does.                  *)
lead(r) ==
    /\ At(r, "sent")
    /\ state[r] = "ACTIVE"
    /\ leader = Nobody /\ ~in_handler
    /\ leader' = r
    /\ polling' = TRUE
    /\ UNCHANGED <<invocation, dispatcher_table, dispatch, wire, connection,
                   lost>>

(* Something else makes select return: another connection, a notification. *)
poll_returns ==
    /\ polling
    /\ polling' = FALSE
    /\ UNCHANGED <<invocation, dispatcher_table, dispatch, wire, connection,
                   leader, lost>>

(* After handle_events the leader goes on, or makes way for an event loop  *)
(* thread.                                                                 *)
polled(r) == leader = r /\ ~polling /\ ~in_handler

poll_again(r) ==
    /\ polled(r)
    /\ state[r] = "ACTIVE"
    /\ \/ polling' = TRUE /\ UNCHANGED leader
       \/ leader' = Nobody /\ UNCHANGED polling
    /\ UNCHANGED <<invocation, dispatcher_table, dispatch, wire, connection,
                   lost>>

(* state_changed signals a follower.  It does not make the leader's select *)
(* return, which looks at the state when handle_events is over.            *)
stops_waiting(r) ==
    /\ leader' = IF leader = r THEN Nobody ELSE leader
    /\ polling' = (polling /\ leader # r)

wait_ends(r) ==
    /\ At(r, "sent")
    /\ leader = r => polled(r)
    /\ \/ state[r] = "SUCCESS" /\ go(r, "collect")
       \/ state[r] = "FAILURE" /\ go(r, "failed")
    /\ stops_waiting(r)
    /\ UNCHANGED <<outcome, output_cdr_lock, dispatcher_table, dispatch, wire,
                   connection, lost>>

(* The time is up: for a caller that has not waited yet or for a leader,   *)
(* which leave the state, or for a follower, which sets it whatever it has *)
(* become.                                                                 *)
wait_expires(r) ==
    /\ r \in Timed
    /\ At(r, "sent")
    /\ leader = r => polling
    /\ \/ state[r] # "SUCCESS" /\ UNCHANGED state
       \/ leader # r /\ state' = [state EXCEPT ![r] = "TIMEOUT"]
    /\ go(r, "expired")
    /\ stops_waiting(r)
    /\ UNCHANGED <<outcome, output_cdr_lock, dispatcher_table, dispatching,
                   stored, timer, handled, wire, connection, lost>>

(* reactor->handle_events fails, or a follower cannot wait.                *)
wait_breaks(r) ==
    /\ At(r, "sent")
    /\ leader = r => polling
    /\ go(r, "failed")
    /\ stops_waiting(r)
    /\ UNCHANGED <<outcome, output_cdr_lock, dispatcher_table, dispatch, wire,
                   connection, lost>>

always_TIMEOUT(r) ==    \* a faulty variant
    /\ At(r, "expired") /\ tms_lock_free
    /\ dispatcher_table' = dispatcher_table \ {r}
    /\ ends(r, "TIMEOUT")
    /\ UNCHANGED <<output_cdr_lock, dispatch, wire, connection, leading, lost>>
(* "If the unbind succeeds then thrown an exception to the application,    *)
(* else just collect the reply".                                           *)
unbind_expired(r) ==
    /\ At(r, "expired")
    /\ tms_lock_free
    /\ dispatcher_table' = dispatcher_table \ {r}
    /\ IF r \in dispatcher_table THEN ends(r, "TIMEOUT")
       ELSE go(r, "collect") /\ UNCHANGED outcome
    /\ UNCHANGED <<output_cdr_lock, dispatch, wire, connection, leading, lost>>

unbind_failed(r) ==
    /\ At(r, "failed")
    /\ tms_lock_free
    /\ dispatcher_table' = dispatcher_table \ {r}
    /\ go(r, "broken")
    /\ UNCHANGED <<outcome, output_cdr_lock, dispatch, wire, connection,
                   leading, lost>>

close_failed(r) ==
    /\ At(r, "broken")
    /\ close_connection(r)
    /\ ends(r, "COMM_FAILURE")
    /\ UNCHANGED <<output_cdr_lock, dispatcher_table, dispatch, wire, leading,
                   lost>>

(* Without a reply, reply_cdr_ and reply_status_ are as constructed.       *)
check_reply_status(r) ==
    /\ At(r, "collect")
    /\ ends(r, IF stored[r] THEN "REPLY" ELSE "NOTHING")
    /\ UNCHANGED <<output_cdr_lock, dispatcher_table, dispatch, wire,
                   connection, leading, lost>>

-----------------------------------------------------------------------------
(* The thread that has taken the dispatcher out of the table.              *)
DispatchStep(r) == \/ store_reply(r) \/ reply_succeeds(r) \/ handle_reply(r)
                   \/ reply_fails(r) \/ close_after(r)
TimerStep(r) == handle_timed_out(r)
CloseStep == \/ connection_closed \/ connection_is_closed
             \/ \E r \in Requests : dispatcher_closed(r)
SendStep(r) == \/ schedule_timer(r) \/ bind_dispatcher(r) \/ send_request(r)
               \/ not_connected(r) \/ send_fails(r) \/ send_times_out(r)
               \/ leave_unsent(r)
WaitStep(r) == lead(r) \/ poll_again(r) \/ wait_expires(r) \/ wait_breaks(r)
ReturnStep(r) == \/ wait_ends(r) \/ unbind_expired(r) \/ unbind_failed(r)
                 \/ close_failed(r) \/ check_reply_status(r)

Next ==
    \/ \E r \in Requests : dispatch_reply(r) \/ DispatchStep(r) \/ SendStep(r)
    \/ \E r \in Asynch : reply_timed_out(r) \/ TimerStep(r)
    \/ \E r \in Synch : WaitStep(r) \/ ReturnStep(r)
    \/ poll_returns
    \/ handle_input_fails
    \/ CloseStep

(* A thread that has a dispatcher, that closes the connection or whose     *)
(* wait has ended goes on: a follower whose event is complete is signalled,*)
(* and a leader that has returned from its handlers looks at its event.    *)
(* The server need not answer, timers need not expire, the connection need *)
(* not close, and nothing need wake the leader.                            *)
Fairness ==
    /\ WF_vars(CloseStep)
    /\ \A r \in Requests : WF_vars(DispatchStep(r))
    /\ \A r \in Asynch : WF_vars(TimerStep(r))
    /\ \A r \in Synch : WF_vars(ReturnStep(r))

Spec == Init /\ [][Next]_vars
FairSpec == Spec /\ Fairness

-----------------------------------------------------------------------------
(* Somebody will complete the request: it is in the table and the table    *)
(* has still to be cleared if the connection closes, or it has been taken  *)
(* out by a thread that has not finished with it.                          *)
Reachable(r) ==
    \/ r \in dispatcher_table /\ closing # "done"
    \/ r \in clearing
    \/ dispatching[r] \notin {"no", "failed"}

WaitsForReply(r) == r \in Synch /\ pc[r] = "sent" /\ state[r] = "ACTIVE"
HandlerWaits(r) == r \in Asynch /\ outcome[r] = "SENT" /\ handled[r] = "no"

(* No caller waits, and no handler is left, for a completion that nobody   *)
(* has any more to deliver: a request that is bound while the table is     *)
(* being cleared sees the connection closed before it is sent.  The        *)
(* exception is a reply that was read and could not be copied.             *)
NobodyForgotten ==
    \A r \in Requests \ lost :
        WaitsForReply(r) \/ HandlerWaits(r) => Reachable(r)

(* A caller that was given TIMEOUT for its reply was the one who unbound   *)
(* the dispatcher: no thread has it, and no reply will be stored in it.    *)
TimeoutIsFinal ==
    \A r \in Synch : outcome[r] = "TIMEOUT" /\ pc[r] = "done" =>
        r \notin dispatcher_table \cup clearing /\ dispatching[r] = "no"

(* When the connection is closed each caller that has sent its request     *)
(* comes back, and each handler of such a request is called, unless its    *)
(* reply was lost (reply_fails) or the caller is the client leader in      *)
(* select, which nothing ends (LF_Event.cpp signals a follower only).      *)
StillWaits(r) ==
    \/ r \in Synch /\ pc[r] \in {"sent", "expired", "failed", "broken", "collect"}
    \/ HandlerWaits(r)

ClosedTellsAll ==
    is_closed ~> \A r \in Requests \ lost : StillWaits(r) => leader = r /\ polling

(* Two threads never have one dispatcher: a reader, a timer and the closing*)
(* thread each take it out of the table.                                   *)
OneOwner ==
    /\ dispatcher_table \cap clearing = {}
    /\ \A r \in Requests :
        dispatching[r] # "no" => r \notin dispatcher_table \cup clearing

(* "the call to unbind_dispatcher () will wait on the lock on the          *)
(* Muxed_Transport_Strategy if dispatching has started": what a caller     *)
(* collects after its time was up is a reply.                              *)
CollectsReply == \A r \in Synch : outcome[r] # "NOTHING"
=============================================================================
