------------------------------ MODULE TPReactor ------------------------------
(***************************************************************************)
(* The thread-pool reactor of ACE (TP_Reactor.cpp, on top of               *)
(* Select_Reactor_T.cpp and Select_Reactor_Base.cpp): the threads of a     *)
(* pool call handle_events over and over, one at a time selects, and       *)
(* upcalls are made without the token.  Other threads, and handlers in     *)
(* their upcalls, register and remove handlers, change masks, use timers,  *)
(* send notifications and end the event loop.                              *)
(*                                                                         *)
(* What runs with the token held and does not block is one action.  The    *)
(* token itself is the subject of module Token: here whoever waits in      *)
(* acquire comes before whoever waits in acquire_read.  An event handler   *)
(* stands for one connection; it is registered once, and its file          *)
(* descriptor is closed when it is unbound, and may be opened again for    *)
(* another handler.  No thread limits its wait in handle_events.           *)
(* Notifications are those of ACE_HAS_REACTOR_NOTIFICATION_QUEUE, which    *)
(* config-macros.h always defines.                                         *)
(***************************************************************************)
EXTENDS Integers, Sequences, FiniteSets

CONSTANTS
    Pool,           \* threads that run the event loop
    Clients,        \* other threads that use the reactor
    EventHandlers,
    Handle,         \* the file descriptor of each handler, above 0
    Registered,     \* handlers that are registered from the start
    Owned,          \* handlers that the application has a reference to
    AppResumes,     \* resume_handler() is ACE_APPLICATION_RESUMES_HANDLER
    Wakers,         \* handlers of which a mask is switched on and off,
    Switched,       \* and that mask
    Timed,          \* handlers with a timer
    Notified,       \* handlers that notifications are sent to
    MaxCalls,       \* a bound on the calls of the application
    MaxArrivals,    \* a bound on the events of file descriptors
    None            \* no thread, handler, upcall or call

Threads == Pool \cup Clients
Handles == {Handle[e] : e \in EventHandlers}
Bits == (Handles \X {"READ"}) \cup ({Handle[e] : e \in Wakers} \X {Switched})
PipeBit == <<0, "READ">>

ASSUME TPReactorAssumption ==
    /\ Pool \cap Clients = {}
    /\ Handle \in [EventHandlers -> Nat \ {0}]
    /\ Registered \cup AppResumes \cup Wakers \cup Timed \cup Notified \cup Owned
       \subseteq EventHandlers
    /\ Switched \in {"READ", "WRITE"}
    /\ \A e, f \in Registered : Handle[e] = Handle[f] => e = f
    /\ None \notin Threads \cup EventHandlers

ASSUME PoolAssumption == IsFiniteSet(Pool)

VARIABLES
    token,          \* the thread that selects
    upcall,         \* the upcall a thread makes
    call,           \* the call for which a thread waits for the token
    event_handlers, \* handler_rep_
    wait_set, suspend_set, ready_set,
    notify_queue,   \* notifications; None is that of sleep_hook
    pipe,           \* messages in the notification pipe
    deactivated,
    left,           \* threads that have left the event loop
    events,         \* what select would report of each file descriptor
    refs,           \* reference counts
    owned,          \* handlers the application still has a reference to
    fresh,          \* handlers that have not been registered
    timer, notified,
    calls, arrivals,
    met             \* history: what a call has done to a handler in its upcall

handlers == <<event_handlers, wait_set, suspend_set>>
loop == <<deactivated, left>>
notifications == <<notify_queue, pipe>>
bounds == <<calls, arrivals>>
vars == <<token, upcall, call, handlers, ready_set, notifications, loop, events,
          refs, owned, fresh, timer, notified, bounds, met>>

Upcall == [kind : {"socket"}, eh : EventHandlers, mask : {"READ", "WRITE"}, resumed : BOOLEAN]
          \cup [kind : {"timer", "notify"}, eh : EventHandlers]
          \cup [kind : {"pop"}]
Call == [op : {"register", "remove", "resume"}, eh : EventHandlers]
        \cup [op : {"wakeup", "unwakeup"}, eh : Wakers]
        \cup [op : {"schedule", "cancel"}, eh : Timed]
        \cup [op : {"post_process"}, status : {0, -1}]
        \cup [op : {"deactivate"}]

ASSUME NoneAssumption == None \notin Upcall \cup Call

TypeOK ==
    /\ token \in Pool \cup {None}
    /\ upcall \in [Threads -> Upcall \cup {None}]
    /\ call \in [Threads -> Call \cup {None}]
    /\ event_handlers \in [Handles -> EventHandlers \cup {None}]
    /\ wait_set \subseteq Bits /\ suspend_set \subseteq Bits /\ events \subseteq Bits
    /\ ready_set \subseteq Bits \cup {PipeBit}
    /\ deactivated \in BOOLEAN
    /\ notify_queue \in Seq(EventHandlers \cup {None})
    /\ pipe \in Nat
    /\ left \subseteq Pool
    /\ refs \in [EventHandlers -> Int]
    /\ owned \subseteq EventHandlers /\ fresh \subseteq EventHandlers
    /\ timer \in [Timed -> {"unset", "set", "due", "gone"}]
    /\ notified \subseteq Notified
    /\ met \subseteq {"stale_resume", "cancelled"}

Init ==
    /\ token = None
    /\ upcall = [t \in Threads |-> None]
    /\ call = [t \in Threads |-> None]
    /\ event_handlers = [h \in Handles |->
           IF \E e \in Registered : Handle[e] = h
           THEN CHOOSE e \in Registered : Handle[e] = h ELSE None]
    /\ wait_set = {<<Handle[e], "READ">> : e \in Registered}
    /\ suspend_set = {} /\ ready_set = {} /\ events = {}
    /\ notify_queue = <<>>
    /\ pipe = 0
    /\ deactivated = FALSE
    /\ left = {}
    /\ refs = [e \in EventHandlers |->
           Cardinality({e} \cap Registered) + Cardinality({e} \cap Owned)]
    /\ owned = Owned
    /\ fresh = EventHandlers \ Registered
    /\ timer = [e \in Timed |-> "unset"]
    /\ notified = {}
    /\ calls = 0 /\ arrivals = 0
    /\ met = {}

-----------------------------------------------------------------------------
(* The handle sets                                                         *)

of_handle(h, set) == {b \in set : b[1] = h}

(* The thread-pool reactor forgets all of the ready set.                   *)
clear_nothing(set) == set    \* a faulty variant
clear_dispatch_mask(set) == {}

(* The bits that suspend_i moves from the wait set to the suspend set.     *)
suspend_i(h) == of_handle(h, wait_set)

(* ACE_Select_Reactor_Handler_Repository::unbind of the bits that go, for  *)
(* the handler that is registered, if any; its file descriptor is closed.  *)
unbind(h, go, held) ==
    LET e == event_handlers[h]
        complete == of_handle(h, wait_set \cup suspend_set) \subseteq go
    IN  /\ ready_set' = clear_dispatch_mask(ready_set)
        /\ event_handlers' = [event_handlers EXCEPT ![h] = IF complete THEN None ELSE @]
        /\ events' = IF complete THEN events \ of_handle(h, events) ELSE events
        /\ refs' = IF e = None THEN refs
                   ELSE [refs EXCEPT ![e] = @ - held - (IF complete THEN 1 ELSE 0)]

(* max_handlep1_ may have fallen below a file descriptor that is not bound.*)
out_of_range(h) == event_handlers[h] = None

(* ACE_Notification_Queue: the first notification is announced with a      *)
(* message in the pipe, each further one when its predecessor is popped.   *)
push_new_notification(eh) ==
    /\ notify_queue' = Append(notify_queue, eh)
    /\ pipe' = IF notify_queue = <<>> THEN pipe + 1 ELSE pipe

(* A thread that has to wait for the token wakes whoever selects.          *)
sleep_silently == UNCHANGED notifications    \* a faulty variant
sleep_hook == IF token = None THEN UNCHANGED notifications ELSE push_new_notification(None)

Waiting == {t \in Threads : call[t] # None}

-----------------------------------------------------------------------------
(* handle_events                                                           *)

(* select fails for bits of a closed file descriptor, left there by a      *)
(* wake-up that came too late; check_handles removes those in range.       *)
check_handles ==
    \E bad \in SUBSET {b \in wait_set : event_handlers[b[1]] = None} :
        /\ ready_set # {} => bad = {}
        /\ wait_set' = wait_set \ bad

handle_events(t) ==
    /\ t \notin left
    /\ upcall[t] = None
    /\ token = None
    /\ Waiting = {}
    /\ IF deactivated THEN left' = left \cup {t} /\ UNCHANGED <<token, wait_set>>
       ELSE token' = t /\ check_handles /\ UNCHANGED left
    /\ UNCHANGED <<upcall, call, event_handlers, suspend_set, ready_set, notifications,
                   deactivated, events, refs, owned, fresh, timer, notified, bounds, met>>

selected == (wait_set \cap events) \cup (IF pipe = 0 THEN {} ELSE {PipeBit})

(* wait_for_multiple_events selects only when nothing is remembered.       *)
dispatch_set == IF ready_set # {} THEN ready_set ELSE selected

TimerDue == \E e \in Timed : timer[e] = "due"

(* Timers come first.  The reference of the timer is released after its    *)
(* upcall, with the one that preinvoke takes.                              *)
handle_timer_events(t, e) ==
    /\ token = t
    /\ timer[e] = "due"
    /\ timer' = [timer EXCEPT ![e] = "gone"]
    /\ upcall' = [upcall EXCEPT ![t] = [kind |-> "timer", eh |-> e]]
    /\ refs' = [refs EXCEPT ![e] = @ + 1]
    /\ ready_set' = dispatch_set
    /\ token' = None
    /\ UNCHANGED <<call, handlers, notifications, loop, events, owned, fresh, notified,
                   bounds, met>>

(* A message is read from the pipe, and the token released, before the     *)
(* notification is taken from the queue.                                   *)
handle_notify_events(t) ==
    /\ token = t
    /\ ~TimerDue
    /\ PipeBit \in dispatch_set
    /\ pipe > 0
    /\ pipe' = pipe - 1
    /\ upcall' = [upcall EXCEPT ![t] = [kind |-> "pop"]]
    /\ ready_set' = dispatch_set \ {PipeBit}
    /\ token' = None
    /\ UNCHANGED <<call, handlers, notify_queue, loop, events, refs, owned, fresh, timer,
                   notified, bounds, met>>

(* The queue may have been purged; what sleep_hook put there has done its  *)
(* work.                                                                   *)
Popping(t) == upcall[t] # None /\ upcall[t].kind = "pop"

dispatch_notify(t) ==
    /\ Popping(t)
    /\ IF notify_queue = <<>>
       THEN /\ upcall' = [upcall EXCEPT ![t] = None]
            /\ UNCHANGED notifications
       ELSE /\ notify_queue' = Tail(notify_queue)
            /\ pipe' = IF Tail(notify_queue) = <<>> THEN pipe ELSE pipe + 1
            /\ upcall' = [upcall EXCEPT ![t] =
                   IF Head(notify_queue) = None THEN None
                   ELSE [kind |-> "notify", eh |-> Head(notify_queue)]]
    /\ UNCHANGED <<token, call, handlers, ready_set, loop, events, refs, owned, fresh, timer,
                   notified, bounds, met>>

(* get_socket_event_info: output first, and the lowest handle, but no      *)
(* handler that is suspended.                                              *)
precedes(b, c) == IF b[2] = c[2] THEN b[1] <= c[1] ELSE b[2] = "WRITE"
candidates == {b \in dispatch_set : of_handle(b[1], suspend_set) = {}}

(* The handler reads or writes what the event was about.                   *)
handle_socket_events(t) ==
    /\ token = t
    /\ ~TimerDue
    /\ PipeBit \notin dispatch_set
    /\ \E b \in candidates :
           /\ \A c \in candidates : precedes(b, c)
           /\ wait_set' = wait_set \ suspend_i(b[1])
           /\ suspend_set' = suspend_set \cup suspend_i(b[1])
           /\ ready_set' = clear_dispatch_mask(dispatch_set \ of_handle(b[1], Bits))
           /\ refs' = [refs EXCEPT ![event_handlers[b[1]]] = @ + 1]
           /\ upcall' = [upcall EXCEPT ![t] = [kind |-> "socket", mask |-> b[2],
                  eh |-> event_handlers[b[1]], resumed |-> FALSE]]
           /\ events' = events \ {b}
    /\ token' = None
    /\ UNCHANGED <<call, event_handlers, notifications, loop, owned, fresh, timer, notified,
                   bounds, met>>

(* Whoever finds something ready dispatches something, so that             *)
(* state_changed_ stays false.                                             *)
dispatch_i(t) ==
    \/ \E e \in Timed : handle_timer_events(t, e)
    \/ handle_notify_events(t) \/ handle_socket_events(t)

-----------------------------------------------------------------------------
(* After an upcall                                                         *)

InUpcall(t) == upcall[t] # None /\ ~Popping(t) /\ call[t] = None
InSocketUpcall(t) == InUpcall(t) /\ upcall[t].kind = "socket"

upcall_ends(t) ==
    /\ upcall' = [upcall EXCEPT ![t] = None]
    /\ refs' = [refs EXCEPT ![upcall[t].eh] = @ - IF upcall[t].kind = "timer" THEN 2 ELSE 1]
    /\ UNCHANGED <<token, call, handlers, ready_set, notifications, loop, events,
                   owned, fresh, timer, notified, bounds, met>>

other_upcall_returns(t) ==
    /\ InUpcall(t)
    /\ upcall[t].kind # "socket"
    /\ upcall_ends(t)

(* A handler that resumes itself has done so, unless it wants to be        *)
(* removed.                                                                *)
resumed_upcall_returns(t) ==
    /\ InSocketUpcall(t)
    /\ upcall[t].resumed
    /\ upcall_ends(t)

(* A call that needs the token.                                            *)
acquire_token(t, what) ==
    /\ call' = [call EXCEPT ![t] = what]
    /\ sleep_hook

socket_upcall_returns(t, status) ==
    /\ InSocketUpcall(t)
    /\ status = -1 \/ upcall[t].eh \notin AppResumes
    /\ acquire_token(t, [op |-> "post_process", status |-> status])
    /\ UNCHANGED <<token, upcall, handlers, ready_set, loop, events, refs,
                   owned, fresh, timer, notified, bounds, met>>

(* post_process_socket_event looks the handler up again.                   *)
registered_still(t) == event_handlers[Handle[upcall[t].eh]] # None    \* a faulty variant
recognised(t) == event_handlers[Handle[upcall[t].eh]] = upcall[t].eh

post_process(t) ==
    LET e == upcall[t].eh
        h == Handle[e]
        go == IF call[t].status = 0 THEN {} ELSE {<<h, upcall[t].mask>>}
        resume == IF e \in AppResumes THEN {} ELSE of_handle(h, suspend_set) \ go
    IN  /\ IF ~recognised(t)
           THEN /\ refs' = [refs EXCEPT ![e] = @ - 1]
                /\ UNCHANGED <<handlers, ready_set, events>>
           ELSE /\ wait_set' = (wait_set \ go) \cup resume
                /\ suspend_set' = suspend_set \ (go \cup resume)
                /\ IF call[t].status = 0
                   THEN /\ refs' = [refs EXCEPT ![e] = @ - 1]
                        /\ UNCHANGED <<event_handlers, ready_set, events>>
                   ELSE unbind(h, go, 1)
        /\ upcall' = [upcall EXCEPT ![t] = None]
        /\ UNCHANGED <<deactivated, notifications, timer>>

-----------------------------------------------------------------------------
(* What threads ask of the reactor                                         *)

(* Who has a reference may make calls about a handler, also when it is no  *)
(* longer bound and its file descriptor, which the call names, is another  *)
(* handler's.                                                              *)
MayCall(t, e) ==
    IF t \in Clients THEN e \in owned /\ call[t] = None
    ELSE InUpcall(t) /\ upcall[t].eh = e

Pending(op) == {call[t].eh : t \in {u \in Threads : call[u] # None /\ call[u].op = op}}
Free(h) ==
    /\ event_handlers[h] = None
    /\ \A e \in Pending("register") : Handle[e] # h

asks(t, e, op) ==
    /\ calls < MaxCalls
    /\ calls' = calls + 1
    /\ acquire_token(t, [op |-> op, eh |-> e])
    /\ UNCHANGED <<token, upcall, handlers, ready_set, loop, events, refs,
                   owned, timer, notified, arrivals, met>>

register_handler(t, e) ==
    /\ t \in Clients => call[t] = None
    /\ t \in Pool => InUpcall(t)
    /\ e \in fresh \cap owned
    /\ Free(Handle[e])
    /\ fresh' = fresh \ {e}
    /\ asks(t, e, "register")

uses_reactor(t, e) ==
    /\ MayCall(t, e)
    /\ e \notin fresh
    /\ \/ asks(t, e, "remove")
       \/ e \in Wakers /\ \E op \in {"wakeup", "unwakeup"} : asks(t, e, op)
       \/ e \in Timed /\ timer[e] = "unset" /\ asks(t, e, "schedule")
       \/ e \in Timed /\ timer[e] # "unset" /\ asks(t, e, "cancel")
    /\ UNCHANGED fresh

resume_handler(t) ==
    /\ InSocketUpcall(t)
    /\ upcall[t].eh \in AppResumes
    /\ ~upcall[t].resumed
    /\ acquire_token(t, [op |-> "resume", eh |-> upcall[t].eh])
    /\ UNCHANGED <<token, upcall, handlers, ready_set, loop, events, refs,
                   owned, fresh, timer, notified, bounds, met>>

deactivate_unlocked(t) ==    \* a faulty variant
    /\ t \in Clients
    /\ call[t] = None
    /\ calls < MaxCalls
    /\ calls' = calls + 1
    /\ deactivated' = TRUE
    /\ UNCHANGED <<token, upcall, call, handlers, ready_set, notifications, left, events,
                   refs, owned, fresh, timer, notified, arrivals, met>>
deactivate(t) ==
    /\ t \in Clients
    /\ call[t] = None
    /\ ~deactivated
    /\ calls < MaxCalls
    /\ calls' = calls + 1
    /\ acquire_token(t, [op |-> "deactivate"])
    /\ UNCHANGED <<token, upcall, handlers, ready_set, loop, events, refs,
                   owned, fresh, timer, notified, arrivals, met>>

(* notify needs no token.                                                  *)
notify(t, e) ==
    /\ MayCall(t, e)
    /\ e \in Notified \ notified
    /\ calls < MaxCalls
    /\ calls' = calls + 1
    /\ notified' = notified \cup {e}
    /\ refs' = [refs EXCEPT ![e] = @ + 1]
    /\ push_new_notification(e)
    /\ UNCHANGED <<token, upcall, call, handlers, ready_set, loop, events,
                   owned, fresh, timer, arrivals, met>>

(* The handler's notification (notify is called for it once) is taken      *)
(* back; the message that announced it stays in the pipe.                  *)
purge_pending_notifications(t, e) ==
    /\ MayCall(t, e)
    /\ e \in notified
    /\ calls < MaxCalls
    /\ calls' = calls + 1
    /\ LET at == {i \in DOMAIN notify_queue : notify_queue[i] = e}
       IN  IF at = {} THEN UNCHANGED <<notify_queue, refs>>
           ELSE \E i \in at :
                  /\ notify_queue' = SubSeq(notify_queue, 1, i - 1)
                                     \o SubSeq(notify_queue, i + 1, Len(notify_queue))
                  /\ refs' = [refs EXCEPT ![e] = @ - 1]
    /\ UNCHANGED <<token, upcall, call, handlers, ready_set, pipe, loop, events, owned, fresh,
                   timer, notified, arrivals, met>>

(* The application lets go of a handler.                                   *)
remove_reference(t, e) ==
    /\ t \in Clients
    /\ MayCall(t, e)
    /\ e \notin fresh
    /\ owned' = owned \ {e}
    /\ refs' = [refs EXCEPT ![e] = @ - 1]
    /\ UNCHANGED <<token, upcall, call, handlers, ready_set, notifications, loop,
                   events, fresh, timer, notified, bounds, met>>

-----------------------------------------------------------------------------
(* The calls, once the thread has the token                                *)

register_handler_i(e) ==
    /\ event_handlers' = [event_handlers EXCEPT ![Handle[e]] = e]
    /\ wait_set' = wait_set \cup {<<Handle[e], "READ">>}
    /\ refs' = [refs EXCEPT ![e] = @ + 1]
    /\ UNCHANGED <<suspend_set, ready_set, events, notifications, deactivated, timer>>

(* The calls act on whatever handler is bound to the file descriptor.      *)
remove_handler_i(e) ==
    LET go == of_handle(Handle[e], Bits)
    IN  /\ \/ /\ wait_set' = wait_set \ go
              /\ suspend_set' = suspend_set \ go
              /\ unbind(Handle[e], go, 0)
           \/ out_of_range(Handle[e]) /\ UNCHANGED <<handlers, ready_set, events, refs>>
        /\ UNCHANGED <<notifications, deactivated, timer>>

resume_i(e) ==
    LET h == Handle[e]
        back == IF event_handlers[h] = None THEN {} ELSE of_handle(h, suspend_set)
    IN  /\ wait_set' = wait_set \cup back
        /\ suspend_set' = suspend_set \ back
        /\ UNCHANGED <<event_handlers, ready_set, events, refs, notifications, deactivated, timer>>

(* mask_ops: the handler may be suspended, and there may be none.          *)
mask_ops(e, op) ==
    LET h == Handle[e]
        is_suspended == event_handlers[h] # None /\ of_handle(h, suspend_set) # {}
        change(set) == IF op = "wakeup" THEN set \cup {<<h, Switched>>} ELSE set \ {<<h, Switched>>}
    IN  /\ \/ /\ wait_set' = IF is_suspended THEN wait_set ELSE change(wait_set)
              /\ suspend_set' = IF is_suspended THEN change(suspend_set) ELSE suspend_set
              /\ ready_set' = IF op = "unwakeup" THEN clear_dispatch_mask(ready_set)
                              ELSE ready_set
           \/ out_of_range(h) /\ UNCHANGED <<wait_set, suspend_set, ready_set>>
        /\ UNCHANGED <<event_handlers, events, refs, notifications, deactivated, timer>>

(* What puts a handler back into the wait set, or lets it be put there,    *)
(* during its upcall: a resume with a file descriptor that is another      *)
(* handler's by now, and the cancellation of the last mask of a suspended  *)
(* handler, which is_suspended_i no longer knows to be suspended.          *)
disturbance(c) ==
    {d \in {"stale_resume", "cancelled"} :
        \/ /\ d = "stale_resume" /\ c.op = "resume"
           /\ event_handlers[Handle[c.eh]] \notin {c.eh, None}
        \/ /\ d = "cancelled" /\ c.op = "unwakeup"
           /\ of_handle(Handle[c.eh], suspend_set) = {<<Handle[c.eh], Switched>>}}

schedule_timer(e) ==
    /\ IF timer[e] = "unset"
       THEN /\ timer' = [timer EXCEPT ![e] = "set"]
            /\ refs' = [refs EXCEPT ![e] = @ + 1]
       ELSE UNCHANGED <<timer, refs>>
    /\ UNCHANGED <<handlers, ready_set, events, notifications, deactivated>>

cancel_dispatched(e) ==    \* a faulty variant
    /\ timer' = [timer EXCEPT ![e] = "gone"]
    /\ refs' = [refs EXCEPT ![e] = @ - 1]
    /\ UNCHANGED <<handlers, ready_set, events, notifications, deactivated>>
cancel_timer(e) ==
    /\ IF timer[e] \in {"set", "due"}
       THEN /\ timer' = [timer EXCEPT ![e] = "gone"]
            /\ refs' = [refs EXCEPT ![e] = @ - 1]
       ELSE UNCHANGED <<timer, refs>>
    /\ UNCHANGED <<handlers, ready_set, events, notifications, deactivated>>

(* And wakeup_all_threads, with one notification.                          *)
deactivate_i ==
    /\ deactivated' = TRUE
    /\ push_new_notification(None)
    /\ UNCHANGED <<handlers, ready_set, events, refs, timer>>

has_token(t) ==
    /\ token = None
    /\ call[t] # None
    /\ LET c == call[t]
       IN  \/ c.op = "post_process" /\ post_process(t)
           \/ c.op = "register" /\ register_handler_i(c.eh) /\ UNCHANGED upcall
           \/ c.op = "remove" /\ remove_handler_i(c.eh) /\ UNCHANGED upcall
           \/ /\ c.op = "resume"
              /\ resume_i(c.eh)
              /\ upcall' = [upcall EXCEPT ![t].resumed = TRUE]
           \/ c.op \in {"wakeup", "unwakeup"} /\ mask_ops(c.eh, c.op) /\ UNCHANGED upcall
           \/ c.op = "schedule" /\ schedule_timer(c.eh) /\ UNCHANGED upcall
           \/ c.op = "cancel" /\ cancel_timer(c.eh) /\ UNCHANGED upcall
           \/ c.op = "deactivate" /\ deactivate_i /\ UNCHANGED upcall
    /\ call' = [call EXCEPT ![t] = None]
    /\ met' = met \cup disturbance(call[t])
    /\ UNCHANGED <<token, left, owned, fresh, notified, bounds>>

-----------------------------------------------------------------------------
(* The outside world                                                       *)

arrives(b) ==
    /\ arrivals < MaxArrivals
    /\ b \notin events
    /\ event_handlers[b[1]] # None
    /\ events' = events \cup {b}
    /\ arrivals' = arrivals + 1
    /\ UNCHANGED <<token, upcall, call, handlers, ready_set, notifications, loop,
                   refs, owned, fresh, timer, notified, calls, met>>

timer_expires(e) ==
    /\ timer[e] = "set"
    /\ timer' = [timer EXCEPT ![e] = "due"]
    /\ UNCHANGED <<token, upcall, call, handlers, ready_set, notifications, loop,
                   events, refs, owned, fresh, notified, bounds, met>>

-----------------------------------------------------------------------------
upcall_returns(t) ==
    \/ other_upcall_returns(t) \/ resumed_upcall_returns(t)
    \/ \E status \in {0, -1} : socket_upcall_returns(t, status)

PoolStep(t) == handle_events(t) \/ dispatch_i(t) \/ dispatch_notify(t) \/ upcall_returns(t)

Next ==
    \/ \E t \in Pool : PoolStep(t) \/ resume_handler(t)
    \/ \E t \in Threads : has_token(t)
    \/ \E t \in Threads, e \in EventHandlers :
           \/ register_handler(t, e) \/ uses_reactor(t, e)
           \/ notify(t, e) \/ purge_pending_notifications(t, e)
    \/ \E t \in Clients, e \in EventHandlers : remove_reference(t, e)
    \/ \E t \in Clients : deactivate(t)
    \/ \E b \in Bits : arrives(b)
    \/ \E e \in Timed : timer_expires(e)

(* Threads of the pool call handle_events again, upcalls return, and the   *)
(* token reaches whoever waits for it.  Nothing need arrive or be asked.   *)
Fairness ==
    /\ \A t \in Pool : WF_vars(PoolStep(t))
    /\ \A t \in Threads : WF_vars(has_token(t))

Spec == Init /\ [][Next]_vars
FairSpec == Spec /\ Fairness

-----------------------------------------------------------------------------
(* "multiple I/O events will not be made to one event handler multiple     *)
(* threads simultaneously": until a handler that resumes itself has done   *)
(* so, no other thread is in it for a file descriptor.                     *)
OneUpcallPerHandler ==
    \A t, u \in Pool :
        /\ t # u
        /\ upcall[t] # None /\ upcall[t].kind = "socket"
        /\ upcall[u] # None /\ upcall[u].kind = "socket"
        /\ upcall[t].eh = upcall[u].eh
        => upcall[t].resumed \/ upcall[u].resumed

(* And it holds as long as nobody resumes a handler that is not its own,   *)
(* and nobody cancels the last mask of a handler in its upcall.            *)
OneUpcallUndisturbed == met = {} => OneUpcallPerHandler

(* A handler's references are those of the application, of the handler     *)
(* repository, of its timer, of notifications under way and of upcalls: it *)
(* is not deleted in use, and it is deleted.                               *)
InHandler(e) == {t \in Pool : upcall[t] # None /\ ~Popping(t) /\ upcall[t].eh = e}
Uses(e) ==
    {<<"owner", x>> : x \in owned \cap {e}}
    \cup {<<"bound", h>> : h \in {x \in Handles : event_handlers[x] = e}}
    \cup {<<"timer", x>> : x \in {y \in Timed \cap {e} : timer[y] \in {"set", "due"}}}
    \cup {<<"queue", i>> : i \in {j \in DOMAIN notify_queue : notify_queue[j] = e}}
    \cup {<<"upcall", t>> : t \in InHandler(e)}
    \cup {<<"expired", t>> : t \in {u \in InHandler(e) : upcall[u].kind = "timer"}}
ReferencesExact == \A e \in EventHandlers : refs[e] = Cardinality(Uses(e))

(* What is remembered as ready is still to be waited for: a handle that    *)
(* was removed, suspended or closed since the select is not dispatched.    *)
ReadyIsWanted == ready_set \subseteq wait_set \cup {PipeBit}

(* Over and over there is nothing left to dispatch: events of registered  *)
(* handlers, of which there are finitely many, are all dispatched, also of *)
(* one that was suspended, or registered, while a thread was selecting.    *)
EventsServed ==
    []<>(deactivated \/ events \cap (wait_set \cup suspend_set) = {})

(* When the event loop is ended, every thread leaves it.                   *)
EverybodyLeaves == deactivated ~> left = Pool
=============================================================================
