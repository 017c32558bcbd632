------------------------- MODULE ReplyDispatchProofs -------------------------
(***************************************************************************)
(* The safety invariants of ReplyDispatch hold for any number of requests. *)
(*                                                                         *)
(* The argument: a request enters the table once, before it is sent, while *)
(* nobody has its dispatcher, and then moves from the table to one other   *)
(* place at a time.  The table is empty while it is being cleared, as      *)
(* nobody binds without its lock; what is bound later finds the connection *)
(* closed and is not sent.                                                 *)
(***************************************************************************)
EXTENDS ReplyDispatch, TLAPS

(* The connection is closed from the moment its flag falls, and requests   *)
(* are on their way out of the table only while its lock is held.          *)
CloseInOrder ==
    /\ is_closed <=> closing # "no"
    /\ clearing # {} => closing = "clearing"
    /\ closing = "clearing" => dispatcher_table = {}

(* Nobody has the dispatcher of a request that has not been bound.         *)
UnboundFree ==
    \A r \in Requests : pc[r] = "start" =>
        r \notin dispatcher_table \cup clearing /\ dispatching[r] = "no"

(* Only a timer takes the dispatcher of a request that has not been sent.  *)
UnsentUnanswered ==
    /\ \A r \in Requests : pc[r] \in {"start", "bound", "unsent"} => r \notin wire
    /\ \A r \in Synch : pc[r] \in {"start", "bound", "unsent"} => dispatching[r] = "no"

(* A request that is about to be sent is in the table.                     *)
BoundKnown ==
    \A r \in Requests : pc[r] = "bound" /\ ~is_closed =>
        \/ r \in dispatcher_table
        \/ r \in Asynch /\ (dispatching[r] # "no" \/ handled[r] # "no" \/ r \in lost)

(* Each kind of dispatcher goes through its own steps, and a reply whose   *)
(* copying failed is lost.                                                 *)
DispatchOfKind ==
    \A r \in Requests :
        /\ dispatching[r] = "failed" => r \in lost
        /\ dispatching[r] = "stored" => r \in Synch
        /\ dispatching[r] = "timeout" => r \in Asynch

(* Outcomes come with the end of an invocation.                            *)
SentInTime ==
    /\ \A r \in Requests : outcome[r] = "SENT" => pc[r] = "done"
    /\ \A r \in Requests : pc[r] \in {"start", "bound"} => outcome[r] = "none"

Inv ==
    /\ TypeOK
    /\ CloseInOrder
    /\ UnboundFree
    /\ UnsentUnanswered
    /\ BoundKnown
    /\ DispatchOfKind
    /\ SentInTime
    /\ NobodyForgotten
    /\ TimeoutIsFinal
    /\ OneOwner

LEMMA Initial == Init => Inv
<1> SUFFICES ASSUME Init PROVE Inv
  OBVIOUS
<1> USE DEF Init, Requests
<1>1. TypeOK
  <2>1. /\ pc \in [Requests -> Points] /\ outcome \in [Requests -> Outcomes]
        /\ dispatching \in [Requests -> {"no", "reply", "stored", "timeout", "failed"}]
        /\ stored \in [Requests -> BOOLEAN]
    BY SMT DEF Points, Outcomes
  <2>2. /\ state \in [Synch -> States] /\ handled \in [Asynch -> Handled]
        /\ timer \in [Asynch -> {"none", "scheduled", "gone"}]
    BY SMT DEF States, Handled
  <2>3. is_closed \in BOOLEAN
    BY Zenon
  <2>4. /\ closing \in {"no", "flagged", "clearing", "done"}
        /\ closer \in Requests \cup {Reactor, Nobody}
        /\ output_cdr_lock \in Requests \cup {Nobody}
    BY SMT
  <2>5. dispatcher_table \subseteq Requests /\ wire \subseteq Requests /\ clearing \subseteq Requests
    BY Zenon
  <2>6. leader \in Synch \cup {Nobody} /\ polling \in BOOLEAN /\ lost \subseteq Requests
    BY Zenon
  <2> QED  BY <2>1, <2>2, <2>3, <2>4, <2>5, <2>6, Zenon DEF TypeOK
<1>2. CloseInOrder
  BY SMT DEF CloseInOrder
<1>3. UnboundFree /\ UnsentUnanswered /\ BoundKnown /\ DispatchOfKind /\ SentInTime
  BY SMT DEF UnboundFree, UnsentUnanswered, BoundKnown, DispatchOfKind, SentInTime
<1>4. NobodyForgotten /\ TimeoutIsFinal /\ OneOwner
  BY SMT DEF NobodyForgotten, TimeoutIsFinal, OneOwner, Reachable, WaitsForReply,
    HandlerWaits
<1> QED  BY <1>1, <1>2, <1>3, <1>4 DEF Inv

LEMMA Step == Inv /\ [Next]_vars => Inv'
<1> SUFFICES ASSUME Inv, [Next]_vars PROVE Inv'
  OBVIOUS
<1> USE ReplyDispatchAssumption DEF Inv, TypeOK, CloseInOrder, UnboundFree,
      UnsentUnanswered, BoundKnown, DispatchOfKind, SentInTime, NobodyForgotten,
      TimeoutIsFinal, OneOwner, Reachable, WaitsForReply, HandlerWaits, Requests, Points, Outcomes, States,
      Handled, invocation, dispatch, connection, leading
<1>1. ASSUME NEW r \in Requests, dispatch_reply(r) PROVE Inv'
  <2>1. polling' \in BOOLEAN
    BY <1>1, Zenon DEF dispatch_reply, handle_events
  <2> QED  BY <1>1, <2>1, SMTT(60) DEF dispatch_reply, tms_lock_free, handle_events
<1>2. ASSUME NEW r \in Requests, store_reply(r) PROVE Inv'
  BY <1>2, SMTT(60) DEF store_reply
<1>3. ASSUME NEW r \in Requests, reply_succeeds(r) PROVE Inv'
  BY <1>3, SMTT(60) DEF reply_succeeds, state_changed
<1>4. ASSUME NEW r \in Requests, handle_reply(r) PROVE Inv'
  BY <1>4, SMTT(60) DEF handle_reply, cancel_timer, try_dispatch_reply
<1>5. ASSUME NEW r \in Requests, schedule_timer(r) PROVE Inv'
  BY <1>5, SMTT(60) DEF schedule_timer, At
<1>6. ASSUME NEW r \in Requests, bind_dispatcher(r) PROVE Inv'
  BY <1>6, SMTT(60) DEF bind_dispatcher, At, tms_lock_free, go
<1>7. ASSUME NEW r \in Requests, send_request(r) PROVE Inv'
  BY <1>7, SMTT(60) DEF send_request, At, ends, go
<1>8. ASSUME NEW r \in Requests, not_connected(r) PROVE Inv'
  BY <1>8, SMTT(60) DEF not_connected, At, go
<1>9. ASSUME NEW r \in Requests, send_fails(r) PROVE Inv'
  <2>1. CASE is_closed
    <3>1. UNCHANGED <<is_closed, closing, closer, clearing>>
      BY <1>9, <2>1, Zenon DEF send_fails, close_connection
    <3> QED  BY <1>9, <2>1, <3>1, SMTT(60) DEF send_fails, At, go
  <2>2. CASE ~is_closed
    <3>1. /\ is_closed' = TRUE /\ closing' = "flagged" /\ closer' = r
          /\ UNCHANGED clearing
      BY <1>9, <2>2, Zenon DEF send_fails, close_connection
    <3> QED  BY <1>9, <2>2, <3>1, SMTT(60) DEF send_fails, At, go
  <2> QED  BY <2>1, <2>2
<1>10. ASSUME NEW r \in Requests, leave_unsent(r) PROVE Inv'
  BY <1>10, SMTT(60) DEF leave_unsent, At, go, tms_lock_free
<1>11. ASSUME NEW r \in Asynch, reply_timed_out(r) PROVE Inv'
  <2>1. polling' \in BOOLEAN
    BY <1>11, Zenon DEF reply_timed_out, handle_events
  <2> QED  BY <1>11, <2>1, SMTT(60) DEF reply_timed_out, tms_lock_free, cancel_timer, handle_events
<1>12. ASSUME NEW r \in Asynch, handle_timed_out(r) PROVE Inv'
  BY <1>12, SMTT(60) DEF handle_timed_out, try_dispatch_reply
<1>13. ASSUME NEW r \in Requests, dispatcher_closed(r) PROVE Inv'
  BY <1>13, SMTT(60) DEF dispatcher_closed, state_changed, cancel_timer, try_dispatch_reply
<1>14. ASSUME NEW r \in Synch, wait_ends(r) PROVE Inv'
  BY <1>14, SMTT(60) DEF wait_ends, At, go, stops_waiting
<1>15. ASSUME NEW r \in Synch, unbind_expired(r) PROVE Inv'
  BY <1>15, SMTT(60) DEF unbind_expired, At, tms_lock_free, ends, go
<1>16. ASSUME NEW r \in Synch, unbind_failed(r) PROVE Inv'
  BY <1>16, SMTT(60) DEF unbind_failed, At, tms_lock_free, go
<1>17. ASSUME NEW r \in Synch, close_failed(r) PROVE Inv'
  <2>1. CASE is_closed
    <3>1. UNCHANGED <<is_closed, closing, closer, clearing>>
      BY <1>17, <2>1, Zenon DEF close_failed, close_connection
    <3> QED  BY <1>17, <2>1, <3>1, SMTT(60) DEF close_failed, At, ends, go
  <2>2. CASE ~is_closed
    <3>1. /\ is_closed' = TRUE /\ closing' = "flagged" /\ closer' = r
          /\ UNCHANGED clearing
      BY <1>17, <2>2, Zenon DEF close_failed, close_connection
    <3> QED  BY <1>17, <2>2, <3>1, SMTT(60) DEF close_failed, At, ends, go
  <2> QED  BY <2>1, <2>2
<1>18. ASSUME NEW r \in Synch, check_reply_status(r) PROVE Inv'
  BY <1>18, SMTT(60) DEF check_reply_status, At, ends, go
<1>19. ASSUME NEW r \in Synch, wait_expires(r) PROVE Inv'
  BY <1>19, SMTT(60) DEF wait_expires, At, go, stops_waiting
<1>20. ASSUME NEW r \in Synch, wait_breaks(r) PROVE Inv'
  BY <1>20, SMTT(60) DEF wait_breaks, At, go, stops_waiting
<1>21. CASE connection_closed
  BY <1>21, SMTT(60) DEF connection_closed
<1>22. CASE connection_is_closed
  BY <1>22, SMTT(60) DEF connection_is_closed
<1>23. CASE handle_input_fails
  <2>1. polling' \in BOOLEAN
    BY <1>23, Zenon DEF handle_input_fails, handle_events
  <2> QED  BY <1>23, <2>1, SMTT(60) DEF handle_input_fails, close_connection, handle_events
<1>24. CASE poll_returns
  <2>1. polling' \in BOOLEAN
    BY <1>24, Zenon DEF poll_returns
  <2> QED  BY <1>24, <2>1, SMTT(60) DEF poll_returns
<1>25. ASSUME NEW r \in Synch, lead(r) \/ poll_again(r) PROVE Inv'
  <2>1. polling' \in BOOLEAN
    BY <1>25, Zenon DEF lead, poll_again
  <2> QED  BY <1>25, <2>1, SMTT(60) DEF lead, poll_again, At
<1>26. ASSUME NEW r \in Requests, reply_fails(r) PROVE Inv'
  BY <1>26, SMTT(60) DEF reply_fails, cancel_timer
<1>27. ASSUME NEW r \in Requests, close_after(r) PROVE Inv'
  <2>1. CASE is_closed
    <3>1. UNCHANGED <<is_closed, closing, closer, clearing>>
      BY <1>27, <2>1, Zenon DEF close_after, close_connection
    <3> QED  BY <1>27, <2>1, <3>1, SMTT(60) DEF close_after
  <2>2. CASE ~is_closed
    <3>1. /\ is_closed' = TRUE /\ closing' = "flagged" /\ closer' = Reactor
          /\ UNCHANGED clearing
      BY <1>27, <2>2, Zenon DEF close_after, close_connection
    <3> QED  BY <1>27, <2>2, <3>1, SMTT(60) DEF close_after
  <2> QED  BY <2>1, <2>2
<1>28. ASSUME NEW r \in Requests, send_times_out(r) PROVE Inv'
  BY <1>28, SMTT(60) DEF send_times_out, At, go
<1>29. CASE UNCHANGED vars
  BY <1>29, SMTT(60) DEF vars
<1> QED
  BY <1>1, <1>2, <1>3, <1>4, <1>5, <1>6, <1>7, <1>8, <1>9, <1>10, <1>11, <1>12, <1>13, <1>14, <1>15, <1>16, <1>17, <1>18, <1>19, <1>20, <1>21, <1>22, <1>23,
     <1>24, <1>25, <1>26, <1>27, <1>28, <1>29
  DEF Next, DispatchStep, TimerStep, CloseStep, SendStep, WaitStep, ReturnStep

(* Type correctness.                                                       *)
THEOREM TypeCorrect == Spec => []TypeOK
<1>1. Inv => TypeOK
  BY DEF Inv
<1> QED  BY <1>1, Initial, Step, PTL DEF Spec

(* Nobody waits for what no thread has left to deliver: of bind and check, *)
(* and of flag and clear, one order is always late enough.                 *)
THEOREM NobodyIsForgotten == Spec => []NobodyForgotten
<1>1. Inv => NobodyForgotten
  BY DEF Inv
<1> QED  BY <1>1, Initial, Step, PTL DEF Spec

(* A request that was given TIMEOUT is not dispatched to any more.         *)
THEOREM TimeoutsAreFinal == Spec => []TimeoutIsFinal
<1>1. Inv => TimeoutIsFinal
  BY DEF Inv
<1> QED  BY <1>1, Initial, Step, PTL DEF Spec

(* A dispatcher is in one place at a time.                                 *)
THEOREM DispatchersHaveOneOwner == Spec => []OneOwner
<1>1. Inv => OneOwner
  BY DEF Inv
<1> QED  BY <1>1, Initial, Step, PTL DEF Spec
=============================================================================
