-------------------------- MODULE TPReactorProofs --------------------------
(***************************************************************************)
(* The safety invariants of TPReactor, for any number of threads, handlers *)
(* and file descriptors.                                                   *)
(*                                                                         *)
(* One upcall per handler: whoever enters a handler for its file           *)
(* descriptor has moved all of its bits to the suspend set, and as long as *)
(* it is bound, and no call has disturbed a handler (met), only its own    *)
(* resumption moves them back, so that nobody else enters.  When it is     *)
(* unbound meanwhile, it is not bound again, and the upcall that ends sees *)
(* another handler, or none.                                               *)
(*                                                                         *)
(* Reference counts: the uses of a handler are counted kind by kind, and a *)
(* step changes at most one of a kind.  Registration replaces nobody, for  *)
(* a file descriptor is free from the call to when it is made, and a       *)
(* notification that leaves the queue leaves the others their handlers.    *)
(***************************************************************************)
EXTENDS TPReactor, FiniteSetTheorems, SequenceTheorems, TLAPS

InSocket(t) == upcall[t] # None /\ upcall[t].kind = "socket"
Within(t, e) == InSocket(t) /\ upcall[t].eh = e
Registers(t, e) == call[t] # None /\ call[t].op = "register" /\ call[t].eh = e
Bound(e) == event_handlers[Handle[e]] = e

(* The repository and the handle sets agree.                               *)
HandlesAgree ==
    /\ \A h \in Handles : event_handlers[h] # None => Handle[event_handlers[h]] = h
    /\ \A b \in suspend_set : event_handlers[b[1]] # None

(* What has arrived, or is remembered, is for a handler; the wait set may  *)
(* have bits of a file descriptor that is not bound.                       *)
EventsBound == \A b \in events \cup ready_set : b # PipeBit => event_handlers[b[1]] # None

(* A handler is registered once.                                           *)
RegisteredOnce ==
    \A e \in EventHandlers, t \in Threads :
        /\ e \in fresh => ~Bound(e) /\ ~Registers(t, e) /\ ~Within(t, e)
        /\ Registers(t, e) =>
              ~Bound(e) /\ \A u \in Threads : ~Within(u, e) /\ (Registers(u, e) => u = t)

(* What a thread does after its upcall is about its upcall; only an        *)
(* application resumes a handler before its upcall is over.                *)
CallsOfUpcalls ==
    \A t \in Threads :
        /\ call[t] # None =>
              /\ call[t].op = "resume" =>
                    Within(t, call[t].eh) /\ ~upcall[t].resumed /\ call[t].eh \in AppResumes
              /\ call[t].op = "post_process" => InSocket(t)
        /\ InSocket(t) /\ upcall[t].resumed => upcall[t].eh \in AppResumes

(* Who selects is in no upcall and waits for nothing.                      *)
SelectorIsFree == \A t \in Threads : token = t => upcall[t] = None /\ call[t] = None

(* A handler is suspended during its upcall, as long as it is bound and no *)
(* call disturbs it.                                                       *)
SuspendedWithin ==
    met = {} => \A t \in Threads, e \in EventHandlers :
        Within(t, e) /\ ~upcall[t].resumed /\ Bound(e) =>
            /\ \E b \in suspend_set : b[1] = Handle[e]
            /\ \A b \in wait_set : b[1] # Handle[e]

OneWithin ==
    met = {} => \A t, u \in Threads, e \in EventHandlers :
        t # u /\ Within(t, e) /\ Within(u, e) => upcall[t].resumed \/ upcall[u].resumed

Inv ==
    /\ TypeOK
    /\ ReadyIsWanted
    /\ HandlesAgree
    /\ EventsBound
    /\ RegisteredOnce
    /\ CallsOfUpcalls
    /\ SelectorIsFree
    /\ SuspendedWithin
    /\ OneWithin

-----------------------------------------------------------------------------
(* A bit is of a handle, and not that of the notification pipe.            *)
LEMMA BitFacts ==
    /\ \A b \in Bits : b[1] \in Handles /\ b[2] \in {"READ", "WRITE"}
    /\ PipeBit \notin Bits
    /\ \A e \in EventHandlers : Handle[e] \in Handles /\ <<Handle[e], "READ">> \in Bits
    /\ \A e \in Wakers : <<Handle[e], Switched>> \in Bits
<1> USE TPReactorAssumption
<1>1. ASSUME NEW b \in Bits PROVE b[1] \in Handles /\ b[2] \in {"READ", "WRITE"}
  BY SMT DEF Bits, Handles
<1>2. 0 \notin Handles
  BY SMT DEF Handles
<1>3. PipeBit[1] = 0
  BY SMT DEF PipeBit
<1>4. \A e \in EventHandlers : Handle[e] \in Handles
  BY SMT DEF Handles
<1>5. /\ \A e \in EventHandlers : <<Handle[e], "READ">> \in Bits
      /\ \A e \in Wakers : <<Handle[e], Switched>> \in Bits
  BY <1>4, SMT DEF Bits
<1> QED  BY <1>1, <1>2, <1>3, <1>4, <1>5

(* The invariant holds of a reactor with its first handlers.               *)
LEMMA InitInv == Init => Inv
<1> SUFFICES ASSUME Init PROVE Inv
  OBVIOUS
<1> USE TPReactorAssumption DEF Init
<1>1. \A h \in Handles : event_handlers[h] # None =>
        event_handlers[h] \in Registered /\ Handle[event_handlers[h]] = h
  <2> SUFFICES ASSUME NEW h \in Handles, event_handlers[h] # None
               PROVE  event_handlers[h] \in Registered /\ Handle[event_handlers[h]] = h
    OBVIOUS
  <2>1. PICK e \in Registered : Handle[e] = h
    BY SMT
  <2>2. event_handlers[h] = CHOOSE x \in Registered : Handle[x] = h
    BY <2>1, SMT
  <2> QED  BY <2>1, <2>2
<1>2. \A e \in Registered : event_handlers[Handle[e]] # None
  <2> SUFFICES ASSUME NEW e \in Registered PROVE event_handlers[Handle[e]] # None
    OBVIOUS
  <2>1. Handle[e] \in Handles
    BY BitFacts
  <2>2. event_handlers[Handle[e]] = CHOOSE x \in Registered : Handle[x] = Handle[e]
    BY <2>1, SMT
  <2>3. (CHOOSE x \in Registered : Handle[x] = Handle[e]) \in Registered
    OBVIOUS
  <2> QED  BY <2>2, <2>3, SMT
<1>3. TypeOK
  <2>1. event_handlers \in [Handles -> EventHandlers \cup {None}]
    BY <1>1, SMT
  <2>2. wait_set \subseteq Bits
    BY BitFacts, SMT DEF Bits
  <2>3. refs \in [EventHandlers -> Int]
    <3>1. ASSUME NEW e, NEW S PROVE Cardinality({e} \cap S) \in Int
      <4>1. IsFiniteSet({e}) /\ {e} \cap S \subseteq {e}
        BY FS_Singleton
      <4>2. IsFiniteSet({e} \cap S)
        BY <4>1, FS_Subset
      <4> QED  BY <4>2, FS_CardinalityType, SMT
    <3>2. \A e \in EventHandlers : /\ Cardinality({e} \cap Registered) \in Int
                                  /\ Cardinality({e} \cap Owned) \in Int
      BY <3>1
    <3> QED  BY <3>2, SMT
  <2>4. timer \in [Timed -> {"unset", "set", "due", "gone"}]
    BY SMT
  <2>5. upcall \in [Threads -> Upcall \cup {None}] /\ call \in [Threads -> Call \cup {None}]
    BY SMT
  <2>6. owned \subseteq EventHandlers /\ fresh \subseteq EventHandlers
    BY SMT
  <2>7. /\ suspend_set \subseteq Bits /\ events \subseteq Bits
        /\ ready_set \subseteq Bits \cup {PipeBit}
        /\ left \subseteq Pool /\ notified \subseteq Notified
        /\ met \subseteq {"stale_resume", "cancelled"}
    BY Zenon
  <2>8. /\ token \in Pool \cup {None} /\ pipe \in Nat
        /\ notify_queue \in Seq(EventHandlers \cup {None})
    BY SMT
  <2>9. deactivated \in BOOLEAN
    BY Zenon
  <2> QED  BY <2>1, <2>2, <2>3, <2>4, <2>5, <2>6, <2>7, <2>8, <2>9, Zenon DEF TypeOK
<1>4. HandlesAgree
  <2>1. suspend_set = {}
    OBVIOUS
  <2> QED  BY <1>1, <2>1 DEF HandlesAgree
<1>5. \A t \in Threads : upcall[t] = None /\ call[t] = None
  BY SMT
<1>6. RegisteredOnce
  <2>1. \A e \in fresh : event_handlers[Handle[e]] # e
    <3> SUFFICES ASSUME NEW e \in fresh, event_handlers[Handle[e]] = e PROVE FALSE
      OBVIOUS
    <3>1. e \in EventHandlers \ Registered /\ e # None
      BY SMT
    <3>2. Handle[e] \in Handles
      BY <3>1, BitFacts
    <3> QED  BY <1>1, <3>1, <3>2
  <2> QED  BY <1>5, <2>1, SMT DEF RegisteredOnce, Bound, Registers, Within, InSocket
<1>7. CallsOfUpcalls /\ SelectorIsFree /\ SuspendedWithin /\ OneWithin
  BY <1>5, SMT DEF CallsOfUpcalls, SelectorIsFree, SuspendedWithin, OneWithin, Within, InSocket
<1>8. ReadyIsWanted /\ EventsBound
  BY DEF ReadyIsWanted, EventsBound
<1> QED  BY <1>3, <1>4, <1>6, <1>7, <1>8 DEF Inv

-----------------------------------------------------------------------------
(* Types.                                                                  *)

(* Changing a function at one point keeps its type.                        *)
LEMMA ExceptType ==
  ASSUME NEW S, NEW T, NEW f \in [S -> T], NEW x, NEW y \in T
  PROVE  [f EXCEPT ![x] = y] \in [S -> T]
BY Zenon

(* Adding or removing one bit keeps a handle set one.                      *)
LEMMA SwitchType ==
  ASSUME NEW B, NEW S, S \subseteq B, NEW x \in B, NEW R, R \in {S, S \cup {x}, S \ {x}}
  PROVE  R \subseteq B
BY Zenon

(* A thread may get any upcall.                                            *)
LEMMA UpcallType ==
  ASSUME TypeOK, NEW t, NEW c \in Upcall \cup {None}, upcall' = [upcall EXCEPT ![t] = c]
  PROVE  upcall' \in [Threads -> Upcall \cup {None}]
BY ExceptType DEF TypeOK

(* An upcall that is resumed stays an upcall.                              *)
LEMMA ResumedType ==
  ASSUME NEW S, NEW u \in [kind : {"socket"}, eh : S, mask : {"READ", "WRITE"}, resumed : BOOLEAN]
  PROVE  [u EXCEPT !.resumed = TRUE]
            \in [kind : {"socket"}, eh : S, mask : {"READ", "WRITE"}, resumed : BOOLEAN]
OBVIOUS

(* What is dispatched is waited for.                                       *)
LEMMA DispatchSet ==
  ASSUME ReadyIsWanted
  PROVE  dispatch_set \subseteq wait_set \cup {PipeBit}
BY SMT DEF dispatch_set, selected, ReadyIsWanted

(* And it is for a handler.                                                *)
LEMMA DispatchBound ==
  ASSUME EventsBound
  PROVE  \A b \in dispatch_set : b # PipeBit => event_handlers[b[1]] # None
BY SMT DEF dispatch_set, selected, EventsBound

(* The bits of one handle.                                                 *)
LEMMA OfHandle ==
  ASSUME NEW h, NEW set
  PROVE  \A b : b \in of_handle(h, set) <=> b \in set /\ b[1] = h
BY Zenon DEF of_handle

(* When nothing but given bits is left of a handle.                        *)
LEMMA WithinHandle ==
  ASSUME NEW h, NEW set, NEW go
  PROVE  of_handle(h, set) \subseteq go <=> \A b \in set : b[1] = h => b \in go
BY Zenon DEF of_handle

(* The fields that an upcall has, by its kind.                             *)
LEMMA UpcallFacts ==
  ASSUME TypeOK, NEW t \in Threads, upcall[t] # None
  PROVE  /\ upcall[t] \in Upcall
         /\ upcall[t].kind \in {"socket", "timer", "notify", "pop"}
         /\ upcall[t].kind # "pop" => upcall[t].eh \in EventHandlers
         /\ upcall[t].kind = "socket" =>
               upcall[t] \in [kind : {"socket"}, eh : EventHandlers,
                             mask : {"READ", "WRITE"}, resumed : BOOLEAN]
<1>1. upcall[t] \in Upcall
  BY SMT DEF TypeOK
<1> QED  BY <1>1, SMT DEF Upcall

(* The arguments that a call has, by its operation.                        *)
LEMMA CallFacts ==
  ASSUME TypeOK, NEW t \in Threads, call[t] # None
  PROVE  /\ call[t].op \in {"register", "remove", "resume", "wakeup", "unwakeup", "schedule",
                            "cancel", "post_process", "deactivate"}
         /\ call[t].op \notin {"post_process", "deactivate"} => call[t].eh \in EventHandlers
         /\ call[t].op \in {"wakeup", "unwakeup"} => call[t].eh \in Wakers
         /\ call[t].op \in {"schedule", "cancel"} => call[t].eh \in Timed
         /\ call[t].op = "post_process" => call[t].status \in {0, -1}
<1>1. call[t] \in Call
  BY SMT DEF TypeOK
<1> QED  BY <1>1, TPReactorAssumption, SMT DEF Call

QueueType == notify_queue \in Seq(EventHandlers \cup {None}) /\ pipe \in Nat

(* A notification is queued, and may be announced.                         *)
LEMMA PushType ==
  ASSUME QueueType, NEW eh \in EventHandlers \cup {None}, push_new_notification(eh)
  PROVE  QueueType'
<1>1. notify_queue' \in Seq(EventHandlers \cup {None})
  BY SMT DEF QueueType, push_new_notification
<1>2. pipe' \in Nat
  BY SMT DEF QueueType, push_new_notification
<1> QED  BY <1>1, <1>2 DEF QueueType

(* A thread that waits for the token may notify.                           *)
LEMMA SleepType ==
  ASSUME QueueType, sleep_hook
  PROVE  QueueType'
<1>1. CASE token = None
  BY <1>1, SMT DEF QueueType, sleep_hook, notifications
<1>2. CASE token # None
  <2>1. push_new_notification(None)
    BY <1>2, SMT DEF sleep_hook
  <2> QED  BY <2>1, PushType
<1> QED  BY <1>1, <1>2

(* Asking for the token keeps the types.                                   *)
LEMMA AskType ==
  ASSUME TypeOK, NEW t \in Threads, NEW c \in Call, acquire_token(t, c)
  PROVE  call' \in [Threads -> Call \cup {None}] /\ QueueType'
<1>1. call' \in [Threads -> Call \cup {None}]
  BY SMT DEF TypeOK, acquire_token
<1>2. QueueType'
  BY SleepType DEF TypeOK, acquire_token, QueueType
<1> QED  BY <1>1, <1>2

(* And so does a call of the application.                                  *)
LEMMA AsksType ==
  ASSUME TypeOK, fresh' \subseteq EventHandlers, NEW t \in Threads, NEW e, NEW op,
         [op |-> op, eh |-> e] \in Call, asks(t, e, op)
  PROVE  TypeOK'
<1>1. call' \in [Threads -> Call \cup {None}] /\ QueueType'
  BY AskType DEF asks
<1> QED  BY <1>1, SMT DEF TypeOK, QueueType, asks, handlers, loop

(* What unbind returns.                                                    *)
LEMMA UnbindType ==
  ASSUME TypeOK, NEW h \in Handles, NEW go, NEW held \in Int, unbind(h, go, held)
  PROVE  /\ ready_set' = {}
         /\ event_handlers' \in [Handles -> EventHandlers \cup {None}]
         /\ events' \subseteq Bits
         /\ refs' \in [EventHandlers -> Int]
<1> DEFINE complete == of_handle(h, wait_set \cup suspend_set) \subseteq go
<1>1. refs' \in [EventHandlers -> Int]
  <2>1. CASE event_handlers[h] = None
    BY <2>1, SMT DEF TypeOK, unbind
  <2>2. CASE event_handlers[h] # None /\ complete
    BY <2>2, SMT DEF TypeOK, unbind
  <2>3. CASE event_handlers[h] # None /\ ~complete
    BY <2>3, SMT DEF TypeOK, unbind
  <2> QED  BY <2>1, <2>2, <2>3
<1>2. events' \subseteq Bits
  BY SMT DEF TypeOK, unbind
<1>3. event_handlers' \in [Handles -> EventHandlers \cup {None}]
  BY SMT DEF TypeOK, unbind
<1> QED  BY <1>1, <1>2, <1>3, Zenon DEF unbind, clear_dispatch_mask

(* Every call, made with the token, keeps the types.                       *)
LEMMA TokenType ==
  ASSUME TypeOK, NEW t \in Threads, has_token(t),
         call[t].op \in {"post_process", "resume"} => InSocket(t)
  PROVE  TypeOK'
<1> USE TPReactorAssumption DEF handlers, notifications, loop, bounds
<1> DEFINE e == call[t].eh
           h == Handle[e]
           HandlesType == /\ event_handlers' \in [Handles -> EventHandlers \cup {None}]
                          /\ wait_set' \subseteq Bits /\ suspend_set' \subseteq Bits
                          /\ events' \subseteq Bits /\ ready_set' \subseteq Bits \cup {PipeBit}
           RestType == /\ refs' \in [EventHandlers -> Int]
                       /\ timer' \in [Timed -> {"unset", "set", "due", "gone"}]
                       /\ deactivated' \in BOOLEAN
                       /\ QueueType'
                       /\ upcall' \in [Threads -> Upcall \cup {None}]
<1>1. call[t] # None /\ call' = [call EXCEPT ![t] = None]
  BY DEF has_token
<1>2. /\ call[t].op \notin {"post_process", "deactivate"} => e \in EventHandlers /\ h \in Handles
      /\ call[t].op \in {"wakeup", "unwakeup"} => e \in Wakers
      /\ call[t].op \in {"schedule", "cancel"} => e \in Timed
  <2>1. /\ call[t].op \notin {"post_process", "deactivate"} => e \in EventHandlers
        /\ call[t].op \in {"wakeup", "unwakeup"} => e \in Wakers
        /\ call[t].op \in {"schedule", "cancel"} => e \in Timed
    BY <1>1, CallFacts
  <2>2. e \in EventHandlers => h \in Handles
    BY BitFacts
  <2> QED  BY <2>1, <2>2
<1>3. SUFFICES HandlesType /\ RestType
  <2>1. call' \in [Threads -> Call \cup {None}]
    BY <1>1, SMT DEF TypeOK
  <2>2. UNCHANGED <<token, left, owned, fresh, notified>>
    BY SMT DEF has_token
  <2>3. /\ token' \in Pool \cup {None} /\ left' \subseteq Pool
        /\ owned' \subseteq EventHandlers /\ fresh' \subseteq EventHandlers
        /\ notified' \subseteq Notified
    BY <2>2, SMT DEF TypeOK
  <2>4. met' \subseteq {"stale_resume", "cancelled"}
    <3>1. met' = met \cup disturbance(call[t])
      BY Zenon DEF has_token
    <3>2. disturbance(call[t]) \subseteq {"stale_resume", "cancelled"}
      BY Zenon DEF disturbance
    <3> QED  BY <3>1, <3>2, Zenon DEF TypeOK
  <2> HIDE DEF HandlesType, RestType
  <2> QED  BY <1>3, <2>1, <2>3, <2>4, Zenon DEF TypeOK, QueueType, HandlesType, RestType
<1>4. CASE call[t].op = "register"
  <2>1. register_handler_i(e) /\ UNCHANGED upcall
    BY <1>4, SMT DEF has_token
  <2> QED  BY <1>2, <1>4, <2>1, BitFacts, SMT DEF TypeOK, QueueType, register_handler_i
<1>5. CASE call[t].op = "remove"
  <2>1. remove_handler_i(e) /\ UNCHANGED upcall
    BY <1>5, SMT DEF has_token
  <2> DEFINE go == of_handle(h, Bits)
  <2>2. UNCHANGED <<notify_queue, pipe, deactivated, timer>>
    BY <2>1, Zenon DEF remove_handler_i
  <2>3. ASSUME wait_set' = wait_set \ go, suspend_set' = suspend_set \ go, unbind(h, go, 0)
        PROVE  HandlesType /\ RestType
    BY <1>2, <1>5, <2>1, <2>2, <2>3, UnbindType, SMT DEF TypeOK, QueueType
  <2>4. ASSUME UNCHANGED <<handlers, ready_set, events, refs>> PROVE HandlesType /\ RestType
    BY <2>1, <2>2, <2>4, SMT DEF TypeOK, QueueType
  <2> QED  BY <2>1, <2>3, <2>4, Zenon DEF remove_handler_i
<1>6. CASE call[t].op = "resume"
  <2>1. resume_i(e) /\ upcall' = [upcall EXCEPT ![t].resumed = TRUE]
    BY <1>6, SMT DEF has_token
  <2>2. HandlesType
    BY <2>1, SMT DEF TypeOK, resume_i, of_handle
  <2>3. upcall' \in [Threads -> Upcall \cup {None}]
    <3> DEFINE S == [kind : {"socket"}, eh : EventHandlers, mask : {"READ", "WRITE"},
                     resumed : BOOLEAN]
    <3>1. upcall[t] \in S
      BY <1>6, UpcallFacts DEF InSocket
    <3>2. [upcall[t] EXCEPT !.resumed = TRUE] \in S
      BY <3>1, ResumedType, Zenon
    <3>3. [upcall[t] EXCEPT !.resumed = TRUE] \in Upcall
      BY <3>2, Zenon DEF Upcall
    <3> QED  BY <2>1, <3>3, UpcallType
  <2> QED  BY <2>1, <2>2, <2>3, SMT DEF TypeOK, QueueType, resume_i
<1>7. CASE call[t].op \in {"wakeup", "unwakeup"}
  <2>1. mask_ops(e, call[t].op) /\ UNCHANGED upcall
    BY <1>7, SMT DEF has_token
  <2>2. <<h, Switched>> \in Bits
    BY <1>2, <1>7, BitFacts
  <2>3. wait_set' \in {wait_set, wait_set \cup {<<h, Switched>>}, wait_set \ {<<h, Switched>>}}
    BY <2>1, SMTT(30) DEF mask_ops
  <2>4. suspend_set' \in {suspend_set, suspend_set \cup {<<h, Switched>>},
                         suspend_set \ {<<h, Switched>>}}
    BY <2>1, SMTT(30) DEF mask_ops
  <2>5. ready_set' \subseteq Bits \cup {PipeBit}
    <3>1. ready_set' \in {ready_set, {}}
      BY <2>1, SMT DEF mask_ops, clear_dispatch_mask
    <3> QED  BY <3>1, SMT DEF TypeOK
  <2>6. UNCHANGED <<event_handlers, events, refs, notify_queue, pipe, deactivated, timer>>
    BY <2>1, Zenon DEF mask_ops
  <2>7. wait_set' \subseteq Bits /\ suspend_set' \subseteq Bits
    <3>1. wait_set \subseteq Bits /\ suspend_set \subseteq Bits
      BY DEF TypeOK
    <3> HIDE DEF h
    <3>2. wait_set' \subseteq Bits
      BY ONLY <2>2, <2>3, <3>1, SwitchType
    <3>3. suspend_set' \subseteq Bits
      BY ONLY <2>2, <2>4, <3>1, SwitchType
    <3> QED  BY <3>2, <3>3
  <2> QED  BY <2>1, <2>5, <2>6, <2>7, SMT DEF TypeOK, QueueType
<1>8. CASE call[t].op \in {"schedule", "cancel"}
  <2>1. (schedule_timer(e) \/ cancel_timer(e)) /\ UNCHANGED upcall
    BY <1>8, SMT DEF has_token
  <2>2. timer' \in [Timed -> {"unset", "set", "due", "gone"}]
    BY <2>1, SMT DEF TypeOK, schedule_timer, cancel_timer
  <2>3. refs' \in [EventHandlers -> Int]
    BY <2>1, SMT DEF TypeOK, schedule_timer, cancel_timer
  <2>4. UNCHANGED <<event_handlers, wait_set, suspend_set, ready_set, events, notify_queue, pipe,
                    deactivated, upcall>>
    BY <2>1, Zenon DEF schedule_timer, cancel_timer
  <2> QED  BY <2>2, <2>3, <2>4, Zenon DEF TypeOK, QueueType
<1>9. CASE call[t].op = "deactivate"
  <2>1. deactivate_i /\ UNCHANGED upcall
    BY <1>9, SMT DEF has_token
  <2>2. QueueType'
    BY <2>1, PushType DEF deactivate_i, TypeOK, QueueType
  <2>3. deactivated' \in BOOLEAN
    BY <2>1, Zenon DEF deactivate_i
  <2> QED  BY <2>1, <2>2, <2>3, SMT DEF TypeOK, deactivate_i
<1>10. CASE call[t].op = "post_process"
  <2>1. post_process(t)
    BY <1>10, SMT DEF has_token
  <2>2. upcall[t].eh \in EventHandlers /\ Handle[upcall[t].eh] \in Handles
    <3>1. upcall[t] # None /\ upcall[t].kind = "socket"
      BY <1>10 DEF InSocket
    <3>2. upcall[t].eh \in EventHandlers
      BY <3>1, UpcallFacts, SMT
    <3> QED  BY <3>2, BitFacts
  <2>3. UNCHANGED <<deactivated, notify_queue, pipe, timer>>
    BY <2>1, Zenon DEF post_process
  <2>4. upcall' \in [Threads -> Upcall \cup {None}]
    BY <2>1, SMT DEF TypeOK, post_process
  <2>5. CASE ~recognised(t)
    <3>1. /\ UNCHANGED <<event_handlers, wait_set, suspend_set, ready_set, events>>
          /\ refs' = [refs EXCEPT ![upcall[t].eh] = @ - 1]
      BY <2>1, <2>5, SMT DEF post_process
    <3>2. refs' \in [EventHandlers -> Int]
      BY <2>2, <3>1, SMT DEF TypeOK
    <3> QED  BY <2>3, <2>4, <3>1, <3>2, Zenon DEF TypeOK, QueueType
  <2>6. CASE recognised(t)
    <3>1. /\ wait_set' \subseteq wait_set \cup suspend_set
          /\ suspend_set' \subseteq suspend_set
      BY <2>1, <2>6, SMT DEF post_process, of_handle
    <3>2. CASE call[t].status = 0
      <4>1. /\ UNCHANGED <<event_handlers, ready_set, events>>
            /\ refs' = [refs EXCEPT ![upcall[t].eh] = @ - 1]
        BY <2>1, <2>6, <3>2, SMT DEF post_process
      <4>2. refs' \in [EventHandlers -> Int]
        BY <2>2, <4>1, SMT DEF TypeOK
      <4>3. wait_set' \subseteq Bits /\ suspend_set' \subseteq Bits
        BY <3>1, SMT DEF TypeOK
      <4> QED  BY <2>3, <2>4, <4>1, <4>2, <4>3, Zenon DEF TypeOK, QueueType
    <3>3. CASE call[t].status # 0
      <4>1. PICK go : unbind(Handle[upcall[t].eh], go, 1)
        BY <2>1, <2>6, <3>3, SMT DEF post_process
      <4>3. /\ ready_set' = {}
            /\ event_handlers' \in [Handles -> EventHandlers \cup {None}]
            /\ events' \subseteq Bits
            /\ refs' \in [EventHandlers -> Int]
        BY <2>2, <4>1, UnbindType
      <4> QED  BY <2>3, <2>4, <3>1, <4>3, SMT DEF TypeOK, QueueType
    <3> QED  BY <3>2, <3>3
  <2> QED  BY <2>5, <2>6
<1> QED  BY <1>1, <1>4, <1>5, <1>6, <1>7, <1>8, <1>9, <1>10, CallFacts, SMT

(* Every step keeps the types.                                             *)
LEMMA TypeStep ==
  TypeOK /\ ReadyIsWanted /\ EventsBound /\ CallsOfUpcalls /\ [Next]_vars => TypeOK'
<1> SUFFICES ASSUME TypeOK, ReadyIsWanted, EventsBound, CallsOfUpcalls, [Next]_vars
             PROVE  TypeOK'
  OBVIOUS
<1> USE TPReactorAssumption DEF handlers, notifications, loop, bounds
<1>0. Pool \subseteq Threads /\ Clients \subseteq Threads
  BY DEF Threads
<1>1. ASSUME NEW t \in Pool, handle_events(t) PROVE TypeOK'
  <2>1. wait_set' \subseteq wait_set
    BY <1>1, Zenon DEF handle_events, check_handles
  <2>2. token' \in Pool \cup {None} /\ left' \subseteq Pool
    BY <1>1, SMT DEF TypeOK, handle_events
  <2> QED  BY <1>1, <2>1, <2>2, SMT DEF TypeOK, handle_events
<1>2. ASSUME NEW t \in Pool, NEW e \in Timed, handle_timer_events(t, e) PROVE TypeOK'
  BY <1>2, SMT DEF TypeOK, handle_timer_events, Upcall, Threads, ReadyIsWanted, selected, dispatch_set
<1>3. ASSUME NEW t \in Pool, handle_notify_events(t) PROVE TypeOK'
  BY <1>3, SMT DEF TypeOK, handle_notify_events, Upcall, Threads, ReadyIsWanted, selected, dispatch_set
<1>4. ASSUME NEW t \in Pool, dispatch_notify(t) PROVE TypeOK'
  <2>1. /\ upcall' \in [Threads -> Upcall \cup {None}]
        /\ notify_queue' \in Seq(EventHandlers \cup {None}) /\ pipe' \in Nat
    <3>1. CASE notify_queue = <<>>
      <4>1. upcall' = [upcall EXCEPT ![t] = None] /\ UNCHANGED <<notify_queue, pipe>>
        BY <1>4, <3>1, SMT DEF dispatch_notify
      <4> QED  BY <4>1, UpcallType, Zenon DEF TypeOK
    <3>2. CASE notify_queue # <<>>
      <4>1. /\ Head(notify_queue) \in EventHandlers \cup {None}
            /\ Tail(notify_queue) \in Seq(EventHandlers \cup {None})
        BY <3>2, SMT DEF TypeOK
      <4>2. \A e \in EventHandlers : [kind |-> "notify", eh |-> e] \in Upcall
        BY SMT DEF Upcall
      <4>3. /\ notify_queue' = Tail(notify_queue)
            /\ pipe' \in {pipe, pipe + 1}
        BY <1>4, <3>2, SMT DEF dispatch_notify
      <4>4. PICK c \in Upcall \cup {None} : upcall' = [upcall EXCEPT ![t] = c]
        <5>1. upcall' = [upcall EXCEPT ![t] = IF Head(notify_queue) = None THEN None
                         ELSE [kind |-> "notify", eh |-> Head(notify_queue)]]
          BY <1>4, <3>2, SMT DEF dispatch_notify
        <5>2. CASE Head(notify_queue) = None
          BY <5>1, <5>2
        <5>3. CASE Head(notify_queue) # None
          <6>1. [kind |-> "notify", eh |-> Head(notify_queue)] \in Upcall
            BY <4>1, <4>2, <5>3
          <6> QED  BY <5>1, <5>3, <6>1
        <5> QED  BY <5>2, <5>3
      <4>5. upcall' \in [Threads -> Upcall \cup {None}]
        BY <4>4, UpcallType
      <4>6. pipe' \in Nat
        BY <4>3, SMT DEF TypeOK
      <4> QED  BY <4>1, <4>3, <4>5, <4>6
    <3> QED  BY <3>1, <3>2
  <2> QED  BY <1>4, <2>1, SMT DEF TypeOK, dispatch_notify
<1>5. ASSUME NEW t \in Pool, handle_socket_events(t) PROVE TypeOK'
  <2>1. PICK b \in candidates :
           /\ wait_set' = wait_set \ suspend_i(b[1])
           /\ suspend_set' = suspend_set \cup suspend_i(b[1])
           /\ ready_set' = {}
           /\ refs' = [refs EXCEPT ![event_handlers[b[1]]] = @ + 1]
           /\ upcall' = [upcall EXCEPT ![t] = [kind |-> "socket", mask |-> b[2],
                  eh |-> event_handlers[b[1]], resumed |-> FALSE]]
           /\ events' = events \ {b}
    BY <1>5, Zenon DEF handle_socket_events, clear_dispatch_mask
  <2>2. b \in wait_set /\ event_handlers[b[1]] # None
    BY <1>5, DispatchSet, DispatchBound, SMT DEF candidates, handle_socket_events
  <2>3. event_handlers[b[1]] \in EventHandlers /\ b[2] \in {"READ", "WRITE"}
    BY <2>2, BitFacts, SMT DEF TypeOK
  <2>4. [kind |-> "socket", mask |-> b[2], eh |-> event_handlers[b[1]], resumed |-> FALSE] \in Upcall
    BY <2>3, SMT DEF Upcall
  <2>5. suspend_i(b[1]) \subseteq wait_set
    BY SMT DEF suspend_i, of_handle
  <2>6. /\ wait_set' \subseteq Bits /\ suspend_set' \subseteq Bits
        /\ events' \subseteq Bits /\ ready_set' \subseteq Bits \cup {PipeBit}
    BY <2>1, <2>5, SMT DEF TypeOK
  <2>7. refs' \in [EventHandlers -> Int]
    BY <2>1, <2>3, SMT DEF TypeOK
  <2>8. upcall' \in [Threads -> Upcall \cup {None}]
    BY <2>1, <2>4, UpcallType, Zenon
  <2>9. token' = None /\ UNCHANGED <<call, event_handlers, notify_queue, pipe, deactivated, left,
                                    owned, fresh, timer, notified, met>>
    BY <1>5, Zenon DEF handle_socket_events
  <2> QED  BY <2>6, <2>7, <2>8, <2>9, SMT DEF TypeOK
<1>6. ASSUME NEW t \in Pool, upcall_returns(t) PROVE TypeOK'
  <2>1. ASSUME upcall_ends(t), upcall[t] # None, ~Popping(t) PROVE TypeOK'
    <3>1. upcall[t].eh \in EventHandlers
      BY <2>1, UpcallFacts, SMT DEF Popping, Threads
    <3>2. \/ refs' = [refs EXCEPT ![upcall[t].eh] = @ - 2]
          \/ refs' = [refs EXCEPT ![upcall[t].eh] = @ - 1]
      <4>1. CASE upcall[t].kind = "timer"
        BY <2>1, <4>1, Zenon DEF upcall_ends
      <4>2. CASE upcall[t].kind # "timer"
        BY <2>1, <4>2, Zenon DEF upcall_ends
      <4> QED  BY <4>1, <4>2
    <3>3. refs' \in [EventHandlers -> Int]
      BY <3>1, <3>2, SMT DEF TypeOK
    <3>4. upcall' \in [Threads -> Upcall \cup {None}]
      BY <2>1, UpcallType, Zenon DEF upcall_ends
    <3>5. UNCHANGED <<token, call, event_handlers, wait_set, suspend_set, ready_set, notify_queue,
                      pipe, deactivated, left, events, owned, fresh, timer, notified, met>>
      BY <2>1, Zenon DEF upcall_ends
    <3> QED  BY <3>3, <3>4, <3>5, SMT DEF TypeOK
  <2>2. ASSUME NEW status \in {0, -1}, socket_upcall_returns(t, status) PROVE TypeOK'
    <3>1. [op |-> "post_process", status |-> status] \in Call
      BY SMT DEF Call
    <3>2. call' \in [Threads -> Call \cup {None}] /\ QueueType'
      BY <2>2, <3>1, AskType DEF socket_upcall_returns, Threads
    <3> QED  BY <2>2, <3>2, SMT DEF TypeOK, QueueType, socket_upcall_returns
  <2> QED  BY <1>6, <2>1, <2>2, Zenon DEF upcall_returns, other_upcall_returns,
             resumed_upcall_returns, InUpcall, InSocketUpcall
<1>7. ASSUME NEW t \in Pool, resume_handler(t) PROVE TypeOK'
  <2>1. upcall[t].eh \in EventHandlers
    BY <1>7, UpcallFacts, SMT DEF resume_handler, InSocketUpcall, InUpcall, Popping, Threads
  <2>2. [op |-> "resume", eh |-> upcall[t].eh] \in Call
    BY <2>1, SMT DEF Call
  <2>3. call' \in [Threads -> Call \cup {None}] /\ QueueType'
    BY <1>7, <2>2, AskType DEF resume_handler, Threads
  <2> QED  BY <1>7, <2>3, SMT DEF TypeOK, QueueType, resume_handler
<1>8. ASSUME NEW t \in Threads, has_token(t) PROVE TypeOK'
  <2>1. call[t] # None
    BY <1>8 DEF has_token
  <2>2. call[t].op \in {"post_process", "resume"} => InSocket(t)
    BY <2>1, Zenon DEF CallsOfUpcalls, Within
  <2> QED  BY <1>8, <2>2, TokenType
<1>9. ASSUME NEW t \in Threads, NEW e \in EventHandlers, register_handler(t, e) PROVE TypeOK'
  <2>1. [op |-> "register", eh |-> e] \in Call
    BY SMT DEF Call
  <2>2. fresh' \subseteq EventHandlers
    BY <1>9, SMT DEF TypeOK, register_handler
  <2> QED  BY <1>9, <2>1, <2>2, AsksType DEF register_handler
<1>10. ASSUME NEW t \in Threads, NEW e \in EventHandlers, uses_reactor(t, e) PROVE TypeOK'
  <2>1. fresh' \subseteq EventHandlers
    BY <1>10, SMT DEF TypeOK, uses_reactor
  <2>2. /\ [op |-> "remove", eh |-> e] \in Call
        /\ e \in Wakers => \A op \in {"wakeup", "unwakeup"} : [op |-> op, eh |-> e] \in Call
        /\ e \in Timed => \A op \in {"schedule", "cancel"} : [op |-> op, eh |-> e] \in Call
    BY SMT DEF Call
  <2> QED  BY <1>10, <2>1, <2>2, AsksType DEF uses_reactor
<1>11. ASSUME NEW t \in Threads, NEW e \in EventHandlers, notify(t, e) PROVE TypeOK'
  <2>1. QueueType'
    BY <1>11, PushType DEF TypeOK, QueueType, notify
  <2> QED  BY <1>11, <2>1, SMT DEF TypeOK, QueueType, notify
<1>12. ASSUME NEW t \in Threads, NEW e \in EventHandlers, purge_pending_notifications(t, e)
       PROVE  TypeOK'
  <2>1. \A i \in DOMAIN notify_queue :
            SubSeq(notify_queue, 1, i - 1) \o SubSeq(notify_queue, i + 1, Len(notify_queue))
            \in Seq(EventHandlers \cup {None})
    <3> SUFFICES ASSUME NEW i \in DOMAIN notify_queue
                 PROVE  /\ SubSeq(notify_queue, 1, i - 1) \in Seq(EventHandlers \cup {None})
                        /\ SubSeq(notify_queue, i + 1, Len(notify_queue))
                               \in Seq(EventHandlers \cup {None})
      BY SMT
    <3>1. i \in 1..Len(notify_queue) /\ Len(notify_queue) \in Nat
      BY SMT DEF TypeOK
    <3>2. /\ \A j \in 1..(i - 1) : notify_queue[j] \in EventHandlers \cup {None}
          /\ \A j \in (i + 1)..Len(notify_queue) : notify_queue[j] \in EventHandlers \cup {None}
      BY <3>1, SMT DEF TypeOK
    <3> QED  BY <3>1, <3>2, SubSeqProperties, SMT
  <2>2. /\ notify_queue' \in Seq(EventHandlers \cup {None})
        /\ refs' \in [EventHandlers -> Int]
    <3> DEFINE at == {i \in DOMAIN notify_queue : notify_queue[i] = e}
    <3>1. CASE at = {}
      <4>1. UNCHANGED <<notify_queue, refs>>
        BY <1>12, <3>1, Zenon DEF purge_pending_notifications
      <4> QED  BY <4>1, SMT DEF TypeOK
    <3>2. CASE at # {}
      <4>1. PICK i \in at :
               /\ notify_queue' = SubSeq(notify_queue, 1, i - 1)
                                  \o SubSeq(notify_queue, i + 1, Len(notify_queue))
               /\ refs' = [refs EXCEPT ![e] = @ - 1]
        BY <1>12, <3>2, Zenon DEF purge_pending_notifications
      <4>2. i \in DOMAIN notify_queue
        OBVIOUS
      <4>3. notify_queue' \in Seq(EventHandlers \cup {None})
        BY <2>1, <4>1, <4>2, Zenon
      <4> QED  BY <4>1, <4>3, SMT DEF TypeOK
    <3> QED  BY <3>1, <3>2
  <2> QED  BY <1>12, <2>2, SMT DEF TypeOK, purge_pending_notifications
<1>13. ASSUME NEW t \in Clients, NEW e \in EventHandlers, remove_reference(t, e) PROVE TypeOK'
  BY <1>13, SMT DEF TypeOK, remove_reference
<1>14. ASSUME NEW t \in Clients, deactivate(t) PROVE TypeOK'
  <2>1. [op |-> "deactivate"] \in Call
    BY SMT DEF Call
  <2>2. call' \in [Threads -> Call \cup {None}] /\ QueueType'
    BY <1>14, <2>1, AskType DEF deactivate, Threads
  <2> QED  BY <1>14, <2>2, SMT DEF TypeOK, QueueType, deactivate
<1>15. ASSUME NEW b \in Bits, arrives(b) PROVE TypeOK'
  BY <1>15, SMT DEF TypeOK, arrives
<1>16. ASSUME NEW e \in Timed, timer_expires(e) PROVE TypeOK'
  BY <1>16, SMT DEF TypeOK, timer_expires
<1>17. CASE UNCHANGED vars
  BY <1>17, SMT DEF TypeOK, vars
<1> QED
  BY <1>1, <1>2, <1>3, <1>4, <1>5, <1>6, <1>7, <1>8, <1>9, <1>10, <1>11, <1>12, <1>13, <1>14,
     <1>15, <1>16, <1>17, Zenon DEF Next, PoolStep, dispatch_i

-----------------------------------------------------------------------------
(* What is remembered as ready.                                            *)

(* The ready set is forgotten, or the wait set has lost nothing.           *)
LEMMA ReadyKept ==
  ASSUME ReadyIsWanted, \/ ready_set' = {}
                        \/ ready_set' = ready_set /\ wait_set \subseteq wait_set'
  PROVE  ReadyIsWanted'
BY SMT DEF ReadyIsWanted, PipeBit

(* Whoever takes a bit out of the wait set forgets the ready set.          *)
LEMMA TokenReady ==
  ASSUME ReadyIsWanted, NEW t \in Threads, has_token(t)
  PROVE  ReadyIsWanted'
<1> USE DEF handlers, clear_dispatch_mask
<1>1. CASE call[t].op = "post_process"
  <2>1. post_process(t)
    BY <1>1, SMT DEF has_token
  <2>2. CASE ~recognised(t)
    BY <2>1, <2>2, ReadyKept, SMT DEF post_process
  <2>3. CASE recognised(t) /\ call[t].status = 0
    <3>1. ready_set' = ready_set /\ wait_set \subseteq wait_set'
      BY <2>1, <2>3, SMT DEF post_process
    <3> QED  BY <3>1, ReadyKept
  <2>4. CASE recognised(t) /\ call[t].status # 0
    <3>1. ready_set' = {}
      BY <2>1, <2>4, SMT DEF post_process, unbind
    <3> QED  BY <3>1, ReadyKept
  <2> QED  BY <2>2, <2>3, <2>4
<1>2. CASE call[t].op = "register"
  BY <1>2, ReadyKept, SMT DEF has_token, register_handler_i
<1>3. CASE call[t].op = "remove"
  <2>1. remove_handler_i(call[t].eh)
    BY <1>3, SMT DEF has_token
  <2> QED  BY <2>1, ReadyKept, SMT DEF remove_handler_i, unbind
<1>4. CASE call[t].op = "resume"
  <2>1. resume_i(call[t].eh)
    BY <1>4, SMT DEF has_token
  <2> QED  BY <2>1, ReadyKept, SMT DEF resume_i
<1>5. CASE call[t].op = "wakeup"
  <2>1. mask_ops(call[t].eh, "wakeup")
    BY <1>5, SMT DEF has_token
  <2>2. ready_set' = ready_set /\ wait_set \subseteq wait_set'
    BY <2>1, SMT DEF mask_ops
  <2> QED  BY <2>2, ReadyKept
<1>6. CASE call[t].op = "unwakeup"
  <2>1. mask_ops(call[t].eh, "unwakeup")
    BY <1>6, SMT DEF has_token
  <2>2. ready_set' = {} \/ (ready_set' = ready_set /\ wait_set' = wait_set)
    BY <2>1, SMT DEF mask_ops
  <2> QED  BY <2>2, ReadyKept
<1>7. CASE call[t].op \in {"schedule", "cancel", "deactivate"}
  <2>1. UNCHANGED <<wait_set, ready_set>>
    BY <1>7, SMT DEF has_token, schedule_timer, cancel_timer, deactivate_i
  <2> QED  BY <2>1, ReadyKept
<1>8. call[t].op \in {"post_process", "register", "remove", "resume", "wakeup", "unwakeup",
                      "schedule", "cancel", "deactivate"}
  BY SMT DEF has_token
<1> QED  BY <1>1, <1>2, <1>3, <1>4, <1>5, <1>6, <1>7, <1>8

(* ReadyIsWanted is inductive by itself.                                   *)
LEMMA ReadyStep == ReadyIsWanted /\ [Next]_vars => ReadyIsWanted'
<1> SUFFICES ASSUME ReadyIsWanted, [Next]_vars PROVE ReadyIsWanted'
  OBVIOUS
<1> USE DEF handlers
<1>1. CASE UNCHANGED <<wait_set, ready_set>>
  BY <1>1, ReadyKept
<1>2. ASSUME NEW t \in Pool, NEW e \in Timed, handle_timer_events(t, e) PROVE ReadyIsWanted'
  BY <1>2, DispatchSet, SMT DEF handle_timer_events, ReadyIsWanted, PipeBit
<1>3. ASSUME NEW t \in Pool, handle_notify_events(t) PROVE ReadyIsWanted'
  BY <1>3, DispatchSet, SMT DEF handle_notify_events, ReadyIsWanted, PipeBit
<1>4. ASSUME NEW t \in Pool, handle_socket_events(t) PROVE ReadyIsWanted'
  BY <1>4, ReadyKept, Zenon DEF handle_socket_events, clear_dispatch_mask
<1>5. ASSUME NEW t \in Threads, has_token(t) PROVE ReadyIsWanted'
  BY <1>5, TokenReady
<1>6. ASSUME NEW t \in Pool, dispatch_notify(t) \/ upcall_returns(t) \/ resume_handler(t)
      PROVE  UNCHANGED <<wait_set, ready_set>>
  BY <1>6, Zenon DEF dispatch_notify, upcall_returns, other_upcall_returns,
     resumed_upcall_returns, socket_upcall_returns, upcall_ends, resume_handler
<1>7. ASSUME NEW t \in Threads, NEW e \in EventHandlers,
             \/ register_handler(t, e) \/ uses_reactor(t, e)
             \/ notify(t, e) \/ purge_pending_notifications(t, e)
      PROVE  UNCHANGED <<wait_set, ready_set>>
  BY <1>7, Zenon DEF register_handler, uses_reactor, asks, notify, purge_pending_notifications
<1>8. ASSUME NEW t \in Clients, (\E e \in EventHandlers : remove_reference(t, e)) \/ deactivate(t)
      PROVE  UNCHANGED <<wait_set, ready_set>>
  BY <1>8, Zenon DEF remove_reference, deactivate
<1>9. ASSUME (\E b \in Bits : arrives(b)) \/ (\E e \in Timed : timer_expires(e))
      PROVE  UNCHANGED <<wait_set, ready_set>>
  BY <1>9, Zenon DEF arrives, timer_expires
<1>10. ASSUME NEW t \in Pool, handle_events(t) PROVE ReadyIsWanted'
  <2>1. ready_set' = ready_set /\ (ready_set # {} => wait_set' = wait_set)
    BY <1>10, SMT DEF handle_events, check_handles
  <2> QED  BY <2>1, SMT DEF ReadyIsWanted
<1>11. CASE UNCHANGED vars
  BY <1>1, <1>11 DEF vars
<1> QED
  BY <1>1, <1>2, <1>3, <1>4, <1>5, <1>6, <1>7, <1>8, <1>9, <1>10, <1>11, Zenon
     DEF Next, PoolStep, dispatch_i

(* What has arrived, and what is remembered, is for a handler: unbinding   *)
(* one forgets both.                                                       *)
LEMMA UnbindBound ==
  ASSUME TypeOK, EventsBound, NEW h \in Handles, NEW go, NEW held, unbind(h, go, held)
  PROVE  EventsBound'
<1>1. ready_set' = {}
  BY Zenon DEF unbind, clear_dispatch_mask
<1>2. CASE of_handle(h, wait_set \cup suspend_set) \subseteq go
  <2>1. events' = events \ of_handle(h, events) /\ event_handlers' = [event_handlers EXCEPT ![h] = None]
    BY <1>2, Zenon DEF unbind
  <2>2. ASSUME NEW b \in events', b # PipeBit PROVE event_handlers'[b[1]] # None
    <3>1. b \in events /\ b[1] # h
      BY <2>1, <2>2, OfHandle
    <3> QED  BY <2>1, <2>2, <3>1, SMT DEF TypeOK, EventsBound
  <2> QED  BY <1>1, <2>2 DEF EventsBound
<1>3. CASE ~(of_handle(h, wait_set \cup suspend_set) \subseteq go)
  <2>1. events' = events /\ event_handlers' = [event_handlers EXCEPT ![h] = @]
    BY <1>3, Zenon DEF unbind
  <2>2. event_handlers' = event_handlers
    BY <2>1, SMT DEF TypeOK
  <2> QED  BY <1>1, <2>1, <2>2, Zenon DEF EventsBound
<1> QED  BY <1>2, <1>3

LEMMA TokenBound ==
  ASSUME TypeOK, EventsBound, NEW t \in Threads, has_token(t),
         call[t].op = "post_process" => InSocket(t)
  PROVE  EventsBound'
<1> USE DEF handlers, clear_dispatch_mask
<1>0. call[t] # None
  BY DEF has_token
<1>1. ASSUME event_handlers' = event_handlers, events' = events, ready_set' \in {ready_set, {}}
      PROVE  EventsBound'
  BY <1>1, SMT DEF EventsBound
<1>2. CASE call[t].op = "post_process"
  <2>1. post_process(t)
    BY <1>2, SMT DEF has_token
  <2>2. Handle[upcall[t].eh] \in Handles
    <3>1. upcall[t].eh \in EventHandlers
      BY <1>2, UpcallFacts, SMT DEF InSocket
    <3> QED  BY <3>1, BitFacts
  <2>3. \/ UNCHANGED <<event_handlers, events, ready_set>>
        \/ \E go : unbind(Handle[upcall[t].eh], go, 1)
    BY <2>1, Zenon DEF post_process
  <2> QED  BY <1>1, <2>2, <2>3, UnbindBound, Zenon
<1>3. CASE call[t].op = "register"
  <2>1. register_handler_i(call[t].eh) /\ call[t].eh \in EventHandlers /\ call[t].eh # None
    BY <1>0, <1>3, CallFacts, TPReactorAssumption, SMT DEF has_token
  <2> QED  BY <2>1, SMT DEF register_handler_i, EventsBound, TypeOK
<1>4. CASE call[t].op = "remove"
  <2>1. remove_handler_i(call[t].eh) /\ call[t].eh \in EventHandlers
    BY <1>0, <1>4, CallFacts, SMT DEF has_token
  <2>2. Handle[call[t].eh] \in Handles
    BY <2>1, BitFacts
  <2>3. \/ UNCHANGED <<event_handlers, events, ready_set>>
        \/ \E go : unbind(Handle[call[t].eh], go, 0)
    BY <2>1, Zenon DEF remove_handler_i
  <2> QED  BY <1>1, <2>2, <2>3, UnbindBound, Zenon
<1>5. CASE call[t].op = "resume"
  <2>1. resume_i(call[t].eh)
    BY <1>5, SMT DEF has_token
  <2> QED  BY <1>1, <2>1, Zenon DEF resume_i
<1>6. CASE call[t].op \in {"wakeup", "unwakeup"}
  <2>1. mask_ops(call[t].eh, call[t].op)
    BY <1>6, SMT DEF has_token
  <2>2. event_handlers' = event_handlers /\ events' = events /\ ready_set' \in {ready_set, {}}
    BY <2>1, SMT DEF mask_ops
  <2> QED  BY <1>1, <2>2
<1>7. CASE call[t].op \in {"schedule", "cancel", "deactivate"}
  <2>1. UNCHANGED <<event_handlers, events, ready_set>>
    BY <1>7, SMT DEF has_token, schedule_timer, cancel_timer, deactivate_i
  <2> QED  BY <1>1, <2>1
<1> QED  BY <1>0, <1>2, <1>3, <1>4, <1>5, <1>6, <1>7, CallFacts, SMT

LEMMA BoundStep == TypeOK /\ EventsBound /\ CallsOfUpcalls /\ [Next]_vars => EventsBound'
<1> SUFFICES ASSUME TypeOK, EventsBound, CallsOfUpcalls, [Next]_vars PROVE EventsBound'
  OBVIOUS
<1> USE DEF handlers
<1>1. CASE UNCHANGED <<event_handlers, events, ready_set>>
  BY <1>1 DEF EventsBound
<1>2. ASSUME NEW t \in Pool, NEW e \in Timed, handle_timer_events(t, e) PROVE EventsBound'
  BY <1>2, DispatchBound, SMT DEF handle_timer_events, EventsBound
<1>3. ASSUME NEW t \in Pool, handle_notify_events(t) PROVE EventsBound'
  BY <1>3, DispatchBound, SMT DEF handle_notify_events, EventsBound
<1>4. ASSUME NEW t \in Pool, handle_socket_events(t) PROVE EventsBound'
  <2>1. event_handlers' = event_handlers /\ ready_set' = {} /\ events' \subseteq events
    BY <1>4, Zenon DEF handle_socket_events, clear_dispatch_mask
  <2> QED  BY <2>1, Zenon DEF EventsBound
<1>5. ASSUME NEW t \in Threads, has_token(t) PROVE EventsBound'
  <2>1. call[t].op = "post_process" => InSocket(t)
    BY <1>5, Zenon DEF CallsOfUpcalls, has_token
  <2> QED  BY <1>5, <2>1, TokenBound
<1>6. ASSUME NEW t \in Pool, handle_events(t) \/ dispatch_notify(t) \/ upcall_returns(t)
                              \/ resume_handler(t)
      PROVE  UNCHANGED <<event_handlers, events, ready_set>>
  BY <1>6, Zenon DEF handle_events, dispatch_notify, upcall_returns, other_upcall_returns,
     resumed_upcall_returns, socket_upcall_returns, upcall_ends, resume_handler
<1>7. ASSUME NEW t \in Threads, NEW e \in EventHandlers,
             \/ register_handler(t, e) \/ uses_reactor(t, e)
             \/ notify(t, e) \/ purge_pending_notifications(t, e)
      PROVE  UNCHANGED <<event_handlers, events, ready_set>>
  BY <1>7, Zenon DEF register_handler, uses_reactor, asks, notify, purge_pending_notifications
<1>8. ASSUME NEW t \in Clients, (\E e \in EventHandlers : remove_reference(t, e)) \/ deactivate(t)
      PROVE  UNCHANGED <<event_handlers, events, ready_set>>
  BY <1>8, Zenon DEF remove_reference, deactivate
<1>9. ASSUME NEW b \in Bits, arrives(b) PROVE EventsBound'
  BY <1>9, SMT DEF arrives, EventsBound
<1>10. ASSUME NEW e \in Timed, timer_expires(e) PROVE UNCHANGED <<event_handlers, events, ready_set>>
  BY <1>10, Zenon DEF timer_expires
<1>11. CASE UNCHANGED vars
  BY <1>1, <1>11 DEF vars
<1> QED
  BY <1>1, <1>2, <1>3, <1>4, <1>5, <1>6, <1>7, <1>8, <1>9, <1>10, <1>11, Zenon
     DEF Next, PoolStep, dispatch_i

(* What is remembered as ready is still to be waited for.                  *)
THEOREM ReadyWanted == Spec => []ReadyIsWanted
<1>1. Init => ReadyIsWanted
  BY InitInv DEF Inv
<1> QED  BY <1>1, ReadyStep, PTL DEF Spec

-----------------------------------------------------------------------------
(* One upcall per handler: steps that leave the handlers alone.            *)

SameHandlers ==
    UNCHANGED <<event_handlers, suspend_set>> /\ wait_set' \subseteq wait_set /\ met \subseteq met'
NobodyEnters == \A t \in Threads : InSocket(t)' => upcall'[t] = upcall[t]
NobodyAsksTo(ops) ==
    \A t \in Threads : call'[t] # None => call'[t] = call[t] \/ call'[t].op \notin ops

(* With nobody entering a handler, the handlers stay suspended.            *)
LEMMA HandlersKept ==
  ASSUME HandlesAgree, SuspendedWithin, OneWithin, SameHandlers, NobodyEnters
  PROVE  HandlesAgree' /\ SuspendedWithin' /\ OneWithin'
<1> USE DEF SameHandlers
<1>1. \A t \in Threads : \A e : Within(t, e)' => Within(t, e) /\ upcall'[t] = upcall[t]
  BY SMT DEF NobodyEnters, Within, InSocket
<1>2. HandlesAgree' /\ (met' = {} => met = {})
  BY DEF HandlesAgree
<1>3. SuspendedWithin'
  <2> SUFFICES ASSUME met' = {}, NEW t \in Threads, NEW e \in EventHandlers,
                      Within(t, e)', ~upcall'[t].resumed, Bound(e)'
               PROVE  /\ \E b \in suspend_set' : b[1] = Handle[e]
                      /\ \A b \in wait_set' : b[1] # Handle[e]
    BY Zenon DEF SuspendedWithin
  <2>1. Within(t, e) /\ ~upcall[t].resumed /\ Bound(e)
    BY <1>1 DEF Bound
  <2>2. met = {}
    BY <1>2
  <2> QED  BY <2>1, <2>2, Zenon DEF SuspendedWithin
<1>4. OneWithin'
  <2> SUFFICES ASSUME met' = {}, NEW t \in Threads, NEW u \in Threads, NEW e \in EventHandlers,
                      t # u, Within(t, e)', Within(u, e)'
               PROVE  upcall'[t].resumed \/ upcall'[u].resumed
    BY Zenon DEF OneWithin
  <2>1. upcall[t].resumed \/ upcall[u].resumed
    BY <1>1, <1>2 DEF OneWithin
  <2> QED  BY <1>1, <2>1
<1> QED  BY <1>2, <1>3, <1>4

(* An upcall may also be resumed.                                          *)
UpcallsStay ==
    \A t \in Threads : InSocket(t)' =>
        /\ InSocket(t) /\ upcall'[t].eh = upcall[t].eh
        /\ upcall[t].resumed => upcall'[t].resumed

(* To stay is less than to leave everything as it is.                      *)
LEMMA StayIfNobodyEnters ==
  ASSUME NobodyEnters
  PROVE  UpcallsStay
BY SMT DEF NobodyEnters, UpcallsStay, InSocket

(* With nobody asking for registration, registration is once.              *)
LEMMA RegisteredKept ==
  ASSUME RegisteredOnce, UpcallsStay, NobodyAsksTo({"register"}), fresh' \subseteq fresh,
         \A e \in EventHandlers : Bound(e)' => Bound(e)
  PROVE  RegisteredOnce'
<1>1. \A t \in Threads : \A e : Within(t, e)' => Within(t, e)
  BY SMT DEF UpcallsStay, Within
<1>2. \A t \in Threads : \A e : Registers(t, e)' => Registers(t, e)
  BY SMT DEF NobodyAsksTo, Registers
<1> QED  BY <1>1, <1>2, Zenon DEF RegisteredOnce

(* Calls made after upcalls stay about them.                               *)
LEMMA CallsKept ==
  ASSUME CallsOfUpcalls, NobodyEnters, NobodyAsksTo({"resume", "post_process"}),
         \A t \in Threads : InSocket(t) /\ call'[t] # None => upcall'[t] = upcall[t]
  PROVE  CallsOfUpcalls'
<1> SUFFICES ASSUME NEW t \in Threads
             PROVE  /\ call'[t] # None =>
                          /\ call'[t].op = "resume" =>
                                /\ Within(t, call[t].eh)' /\ ~upcall'[t].resumed
                                /\ call'[t].eh \in AppResumes
                          /\ call'[t].op = "post_process" => InSocket(t)'
                    /\ InSocket(t)' /\ upcall'[t].resumed => upcall'[t].eh \in AppResumes
  BY Zenon DEF CallsOfUpcalls
<1>1. ASSUME call'[t] # None, call'[t].op \in {"resume", "post_process"}
      PROVE  /\ call'[t] = call[t] /\ upcall'[t] = upcall[t] /\ InSocket(t)
  <2>1. call'[t] = call[t]
    BY <1>1 DEF NobodyAsksTo
  <2>2. InSocket(t)
    BY <1>1, <2>1, SMT DEF CallsOfUpcalls, Within
  <2> QED  BY <1>1, <2>1, <2>2
<1>2. ASSUME call'[t] # None, call'[t].op = "resume"
      PROVE  Within(t, call[t].eh)' /\ ~upcall'[t].resumed /\ call'[t].eh \in AppResumes
  BY <1>1, <1>2, SMT DEF CallsOfUpcalls, Within, InSocket
<1>3. ASSUME call'[t] # None, call'[t].op = "post_process"
      PROVE  InSocket(t)'
  BY <1>1, <1>3, SMT DEF InSocket
<1>4. ASSUME InSocket(t)', upcall'[t].resumed
      PROVE  upcall'[t].eh \in AppResumes
  <2>1. upcall'[t] = upcall[t]
    BY <1>4 DEF NobodyEnters
  <2>2. InSocket(t) /\ upcall[t].resumed
    BY <1>4, <2>1 DEF InSocket
  <2> QED  BY <2>1, <2>2 DEF CallsOfUpcalls
<1> QED  BY <1>2, <1>3, <1>4

Safe == HandlesAgree /\ RegisteredOnce /\ CallsOfUpcalls /\ SuspendedWithin /\ OneWithin

Quiet ==
    /\ SameHandlers /\ NobodyEnters /\ NobodyAsksTo({"register", "resume", "post_process"})
    /\ fresh' \subseteq fresh
    /\ \A t \in Threads : InSocket(t) /\ call'[t] # None => upcall'[t] = upcall[t]

(* A step with none of these effects.                                      *)
LEMMA QuietStep ==
  ASSUME Safe, Quiet
  PROVE  Safe'
<1>1. NobodyAsksTo({"register"}) /\ NobodyAsksTo({"resume", "post_process"})
  BY SMT DEF Quiet, NobodyAsksTo
<1>2. \A e \in EventHandlers : Bound(e)' => Bound(e)
  BY SMT DEF Quiet, SameHandlers, Bound
<1> QED  BY <1>1, <1>2, HandlersKept, StayIfNobodyEnters, RegisteredKept, CallsKept
     DEF Safe, Quiet

(* An upcall that ends, or is for no file descriptor.                      *)
LEMMA UpcallEnds ==
  ASSUME TypeOK, Safe, NEW t \in Threads, NEW c, c = None \/ c.kind # "socket",
         ~InSocket(t) \/ call[t] = None, upcall' = [upcall EXCEPT ![t] = c],
         UNCHANGED <<call, event_handlers, wait_set, suspend_set, fresh, met>>
  PROVE  Safe'
<1>1. upcall'[t] = c /\ \A u \in Threads \ {t} : upcall'[u] = upcall[u]
  BY SMT DEF TypeOK
<1>2. NobodyEnters
  BY <1>1, SMT DEF NobodyEnters, InSocket
<1>3. \A u \in Threads : InSocket(u) /\ call'[u] # None => upcall'[u] = upcall[u]
  BY <1>1, SMT
<1>4. NobodyAsksTo({"register", "resume", "post_process"})
  BY DEF NobodyAsksTo
<1> QED  BY <1>2, <1>3, <1>4, QuietStep, Zenon DEF Quiet, SameHandlers

(* A call that the invariant says nothing of.                              *)
LEMMA SafeAsk ==
  ASSUME TypeOK, Safe, NEW t \in Threads, NEW c,
         c.op \notin {"register", "resume", "post_process"}, call' = [call EXCEPT ![t] = c],
         UNCHANGED <<upcall, event_handlers, wait_set, suspend_set, met>>, fresh' \subseteq fresh
  PROVE  Safe'
<1>1. call'[t] = c /\ \A u \in Threads \ {t} : call'[u] = call[u]
  BY SMT DEF TypeOK
<1>2. NobodyAsksTo({"register", "resume", "post_process"})
  BY <1>1, SMT DEF NobodyAsksTo
<1>3. NobodyEnters
  BY DEF NobodyEnters
<1> QED  BY <1>2, <1>3, QuietStep, Zenon DEF Quiet, SameHandlers

(* A handler that is registered is no longer fresh, and in no upcall.      *)
LEMMA AskRegister ==
  ASSUME TypeOK, Safe, NEW t \in Threads, NEW e \in EventHandlers, register_handler(t, e)
  PROVE  Safe'
<1> USE DEF handlers
<1>1. /\ e \in fresh /\ fresh' = fresh \ {e}
      /\ UNCHANGED <<upcall, event_handlers, wait_set, suspend_set, met>>
      /\ call' = [call EXCEPT ![t] = [op |-> "register", eh |-> e]]
  BY SMT DEF register_handler, asks, acquire_token
<1>2. call'[t] = [op |-> "register", eh |-> e] /\ \A u \in Threads \ {t} : call'[u] = call[u]
  BY <1>1, SMT DEF TypeOK
<1>3. SameHandlers /\ NobodyEnters
  BY <1>1 DEF SameHandlers, NobodyEnters
<1>4. CallsOfUpcalls'
  <2>1. NobodyAsksTo({"resume", "post_process"})
    BY <1>2, SMT DEF NobodyAsksTo
  <2> QED  BY <1>1, <1>3, <2>1, CallsKept DEF Safe
<1>5. RegisteredOnce'
  <2>1. \A u \in Threads : \A f :
            /\ Within(u, f)' <=> Within(u, f)
            /\ Registers(u, f)' => Registers(u, f) \/ (u = t /\ f = e)
    BY <1>1, <1>2, SMT DEF Within, InSocket, Registers
  <2>2. \A f : Bound(f)' <=> Bound(f)
    BY <1>1, SMT DEF Bound
  <2>3. ~Bound(e) /\ \A u \in Threads : ~Registers(u, e) /\ ~Within(u, e)
    BY <1>1, Zenon DEF Safe, RegisteredOnce
  <2> SUFFICES ASSUME NEW f \in EventHandlers, NEW u \in Threads
               PROVE  /\ f \in fresh' => ~Bound(f)' /\ ~Registers(u, f)' /\ ~Within(u, f)'
                      /\ Registers(u, f)' =>
                            ~Bound(f)' /\ \A v \in Threads :
                                            ~Within(v, f)' /\ (Registers(v, f)' => v = u)
    BY Zenon DEF RegisteredOnce
  <2>4. CASE f = e
    <3>1. e \notin fresh' /\ ~Bound(e)'
      BY <1>1, <2>2, <2>3
    <3>2. \A v \in Threads : ~Within(v, e)' /\ (Registers(v, e)' => v = t)
      BY <2>1, <2>3, Zenon
    <3> QED  BY <2>4, <3>1, <3>2, Zenon
  <2>5. CASE f # e
    <3>1. /\ f \in fresh => ~Bound(f) /\ ~Registers(u, f) /\ ~Within(u, f)
          /\ Registers(u, f) =>
                ~Bound(f) /\ \A v \in Threads : ~Within(v, f) /\ (Registers(v, f) => v = u)
      BY Zenon DEF Safe, RegisteredOnce
    <3>2. f \in fresh' => f \in fresh
      BY <1>1, SMT
    <3>3. \A v \in Threads : (Within(v, f)' <=> Within(v, f)) /\ (Registers(v, f)' => Registers(v, f))
      BY <2>1, <2>5, Zenon
    <3>4. Bound(f)' <=> Bound(f)
      BY <2>2, Zenon
    <3> QED  BY <3>1, <3>2, <3>3, <3>4, Zenon
  <2> QED  BY <2>4, <2>5
<1> QED  BY <1>3, <1>4, <1>5, HandlersKept DEF Safe

(* A thread asks for what its upcall is about.                             *)
LEMMA AskAfterUpcall ==
  ASSUME TypeOK, Safe, NEW t \in Threads, NEW c, InSocket(t),
         call' = [call EXCEPT ![t] = c],
         \/ c.op = "post_process"
         \/ c.op = "resume" /\ c.eh = upcall[t].eh /\ c.eh \in AppResumes /\ ~upcall[t].resumed,
         UNCHANGED <<upcall, event_handlers, wait_set, suspend_set, fresh, met>>
  PROVE  Safe'
<1>1. call'[t] = c /\ \A u \in Threads \ {t} : call'[u] = call[u]
  BY SMT DEF TypeOK
<1>2. SameHandlers /\ NobodyEnters
  BY DEF SameHandlers, NobodyEnters
<1>3. NobodyAsksTo({"register"})
  BY <1>1, SMT DEF NobodyAsksTo
<1>4. RegisteredOnce'
  <2>1. \A e \in EventHandlers : Bound(e)' => Bound(e)
    BY SMT DEF Bound
  <2> QED  BY <1>2, <1>3, <2>1, StayIfNobodyEnters, RegisteredKept DEF Safe
<1>5. CallsOfUpcalls'
  <2> SUFFICES ASSUME NEW u \in Threads
               PROVE  /\ call'[u] # None =>
                            /\ call'[u].op = "resume" =>
                                  /\ Within(u, call[u].eh)' /\ ~upcall'[u].resumed
                                  /\ call'[u].eh \in AppResumes
                            /\ call'[u].op = "post_process" => InSocket(u)'
                      /\ InSocket(u)' /\ upcall'[u].resumed => upcall'[u].eh \in AppResumes
    BY Zenon DEF CallsOfUpcalls
  <2>1. CASE u = t
    BY <1>1, <2>1, SMT DEF Safe, CallsOfUpcalls, Within, InSocket
  <2>2. CASE u # t
    BY <1>1, <2>2, SMT DEF Safe, CallsOfUpcalls, Within, InSocket
  <2> QED  BY <2>1, <2>2
<1> QED  BY <1>2, <1>4, <1>5, HandlersKept DEF Safe

-----------------------------------------------------------------------------
(* One upcall per handler: a thread enters a handler.                      *)

(* Who enters a handler finds nothing of it suspended, so that nobody else *)
(* is within, and suspends all of it.                                      *)
LEMMA SafeEntry ==
  ASSUME TypeOK, ReadyIsWanted, EventsBound, Safe, SelectorIsFree, NEW t \in Pool,
         handle_socket_events(t)
  PROVE  Safe'
<1> USE DEF handlers
<1>1. PICK b \in candidates :
         /\ wait_set' = wait_set \ suspend_i(b[1])
         /\ suspend_set' = suspend_set \cup suspend_i(b[1])
         /\ upcall' = [upcall EXCEPT ![t] = [kind |-> "socket", mask |-> b[2],
                eh |-> event_handlers[b[1]], resumed |-> FALSE]]
  BY Zenon DEF handle_socket_events
<1> DEFINE h == b[1]
           e == event_handlers[h]
<1>2. UNCHANGED <<call, event_handlers, fresh, met>>
  BY Zenon DEF handle_socket_events
<1>3. b \in wait_set /\ e # None /\ \A c \in suspend_set : c[1] # h
  <2>1. b # PipeBit /\ b \in dispatch_set /\ of_handle(b[1], suspend_set) = {}
    BY SMT DEF handle_socket_events, candidates
  <2>2. b \in wait_set /\ event_handlers[b[1]] # None
    BY <2>1, DispatchSet, DispatchBound, SMT
  <2> QED  BY <2>1, <2>2, OfHandle, Zenon
<1>4. h \in Handles /\ e # None /\ e \in EventHandlers /\ Handle[e] = h
  BY <1>3, BitFacts, SMT DEF TypeOK, Safe, HandlesAgree
<1>5. t \in Threads /\ upcall[t] = None /\ call[t] = None
  BY SMT DEF Threads, SelectorIsFree, handle_socket_events
<1>6. /\ upcall'[t] # None /\ upcall'[t].kind = "socket" /\ upcall'[t].eh = e
      /\ ~upcall'[t].resumed
      /\ \A u \in Threads \ {t} : upcall'[u] = upcall[u]
  <2> DEFINE c == [kind |-> "socket", mask |-> b[2], eh |-> e, resumed |-> FALSE]
  <2>1. upcall'[t] = c /\ \A u \in Threads \ {t} : upcall'[u] = upcall[u]
    BY <1>1, <1>5, SMT DEF TypeOK
  <2>2. c.kind = "socket" /\ c.eh = e /\ ~c.resumed
    BY SMT
  <2>3. c # None
    <3>1. b[2] \in {"READ", "WRITE"}
      BY <1>3, BitFacts, SMT DEF TypeOK
    <3>2. c \in Upcall
      BY <1>4, <3>1, SMT DEF Upcall
    <3> QED  BY <3>2, NoneAssumption
  <2> QED  BY <2>1, <2>2, <2>3
<1> HIDE DEF h, e
<1>7. \A u \in Threads : \A f : Within(u, f)' <=> (u = t /\ f = e) \/ (u # t /\ Within(u, f))
  BY <1>6, SMT DEF Within, InSocket
<1>8. /\ \A c : c \in suspend_set' <=> c \in suspend_set \/ (c \in wait_set /\ c[1] = h)
      /\ \A c : c \in wait_set' <=> c \in wait_set /\ c[1] # h
  BY <1>1, OfHandle, SMT DEF suspend_i, h
<1>9. Bound(e) /\ \A f : Bound(f)' <=> Bound(f)
  BY <1>2, <1>4, SMT DEF Bound, e
<1>10. met' = {} => \A u \in Threads : Within(u, e) => upcall[u].resumed
  BY <1>2, <1>3, <1>4, <1>9, Zenon DEF Safe, SuspendedWithin
<1>11. HandlesAgree'
  <2>1. \A c \in suspend_set' : event_handlers[c[1]] # None
    BY <1>4, <1>8, Zenon DEF Safe, HandlesAgree, e
  <2> QED  BY <1>2, <2>1, Zenon DEF Safe, HandlesAgree
<1>12. RegisteredOnce'
  <2>1. \A u : \A f : Registers(u, f)' <=> Registers(u, f)
    BY <1>2, SMT DEF Registers
  <2>2. e \notin fresh /\ \A u \in Threads : ~Registers(u, e)
    BY <1>4, <1>5, <1>9, Zenon DEF Safe, RegisteredOnce
  <2> QED  BY <1>2, <1>7, <1>9, <2>1, <2>2, Zenon DEF Safe, RegisteredOnce
<1>13. CallsOfUpcalls'
  BY <1>2, <1>5, <1>6, SMT DEF Safe, CallsOfUpcalls, Within, InSocket
<1>14. SuspendedWithin'
  <2> SUFFICES ASSUME met' = {}, NEW u \in Threads, NEW f \in EventHandlers,
                      Within(u, f)', ~upcall'[u].resumed, Bound(f)'
               PROVE  /\ \E c \in suspend_set' : c[1] = Handle[f]
                      /\ \A c \in wait_set' : c[1] # Handle[f]
    BY Zenon DEF SuspendedWithin
  <2>1. CASE f = e
    BY <1>3, <1>4, <1>8, <2>1, SMT DEF h
  <2>2. CASE f # e
    <3>1. Within(u, f) /\ ~upcall[u].resumed /\ Bound(f)
      BY <1>6, <1>7, <1>9, <2>2
    <3> QED  BY <1>2, <1>8, <3>1, Zenon DEF Safe, SuspendedWithin
  <2> QED  BY <2>1, <2>2
<1>15. OneWithin'
  <2> SUFFICES ASSUME met' = {}, NEW u \in Threads, NEW v \in Threads, NEW f \in EventHandlers,
                      u # v, Within(u, f)', Within(v, f)'
               PROVE  upcall'[u].resumed \/ upcall'[v].resumed
    BY Zenon DEF OneWithin
  <2>1. CASE u = t
    BY <1>6, <1>7, <1>10, <2>1
  <2>2. CASE v = t
    BY <1>6, <1>7, <1>10, <2>2
  <2>3. CASE u # t /\ v # t
    BY <1>2, <1>6, <1>7, <2>3, Zenon DEF Safe, OneWithin
  <2> QED  BY <2>1, <2>2, <2>3
<1> QED  BY <1>11, <1>12, <1>13, <1>14, <1>15 DEF Safe

-----------------------------------------------------------------------------
(* One upcall per handler: steps that change what is registered for one    *)
(* file descriptor.                                                        *)

OnlyAbout(h) ==
    /\ \A g \in Handles \ {h} : event_handlers'[g] = event_handlers[g]
    /\ \A b \in Bits : b[1] # h =>
          (b \in wait_set' <=> b \in wait_set) /\ (b \in suspend_set' <=> b \in suspend_set)

(* It is enough to look at that file descriptor.                           *)
LEMMA OneHandle ==
  ASSUME TypeOK, TypeOK', Safe, NEW h \in Handles, UpcallsStay, OnlyAbout(h), met \subseteq met',
         event_handlers'[h] # None => Handle[event_handlers'[h]] = h,
         \A b \in suspend_set' : b[1] = h => event_handlers'[h] # None,
         met' = {} => \A t \in Threads, e \in EventHandlers :
             Handle[e] = h /\ Within(t, e)' /\ ~upcall'[t].resumed /\ Bound(e)' =>
                 /\ \E b \in suspend_set' : b[1] = h
                 /\ \A b \in wait_set' : b[1] # h
  PROVE  HandlesAgree' /\ SuspendedWithin' /\ OneWithin'
<1>1. /\ wait_set \subseteq Bits /\ suspend_set \subseteq Bits
      /\ wait_set' \subseteq Bits /\ suspend_set' \subseteq Bits
  BY Zenon DEF TypeOK
<1>2. \A t \in Threads : \A e : Within(t, e)' =>
          Within(t, e) /\ (upcall[t].resumed => upcall'[t].resumed)
  BY SMT DEF UpcallsStay, Within
<1>3. HandlesAgree' /\ (met' = {} => met = {})
  BY <1>1, BitFacts, SMT DEF Safe, HandlesAgree, OnlyAbout
<1>4. SuspendedWithin'
  <2> SUFFICES ASSUME met' = {}, NEW t \in Threads, NEW e \in EventHandlers, Handle[e] # h,
                      Within(t, e)', ~upcall'[t].resumed, Bound(e)'
               PROVE  /\ \E b \in suspend_set' : b[1] = Handle[e]
                      /\ \A b \in wait_set' : b[1] # Handle[e]
    BY Zenon DEF SuspendedWithin
  <2>1. Within(t, e) /\ ~upcall[t].resumed
    BY <1>2
  <2>2. Bound(e)
    <3>1. Handle[e] \in Handles \ {h}
      BY BitFacts
    <3>2. event_handlers'[Handle[e]] = event_handlers[Handle[e]]
      BY <3>1, Zenon DEF OnlyAbout
    <3> QED  BY <3>2, Zenon DEF Bound
  <2>3. /\ \E b \in suspend_set : b[1] = Handle[e]
        /\ \A b \in wait_set : b[1] # Handle[e]
    BY <1>3, <2>1, <2>2, Zenon DEF Safe, SuspendedWithin
  <2> QED  BY <1>1, <2>3, SMT DEF OnlyAbout
<1>5. OneWithin'
  <2> SUFFICES ASSUME met' = {}, NEW t \in Threads, NEW u \in Threads, NEW e \in EventHandlers,
                      t # u, Within(t, e)', Within(u, e)'
               PROVE  upcall'[t].resumed \/ upcall'[u].resumed
    BY Zenon DEF OneWithin
  <2>1. upcall[t].resumed \/ upcall[u].resumed
    BY <1>2, <1>3, Zenon DEF Safe, OneWithin
  <2> QED  BY <1>2, <2>1
<1> QED  BY <1>3, <1>4, <1>5

(* The call is over.                                                       *)
LEMMA TokenCalls ==
  ASSUME TypeOK, Safe, NEW t \in Threads, call' = [call EXCEPT ![t] = None],
         \A u \in Threads \ {t} : upcall'[u] = upcall[u],
         InSocket(t)' /\ upcall'[t].resumed => upcall'[t].eh \in AppResumes
  PROVE  CallsOfUpcalls' /\ NobodyAsksTo({"register"})
<1>1. call'[t] = None /\ \A u \in Threads \ {t} : call'[u] = call[u]
  BY SMT DEF TypeOK
<1>2. CallsOfUpcalls'
  <2> SUFFICES ASSUME NEW u \in Threads
               PROVE  /\ call'[u] # None =>
                            /\ call'[u].op = "resume" =>
                                  /\ Within(u, call[u].eh)' /\ ~upcall'[u].resumed
                                  /\ call'[u].eh \in AppResumes
                            /\ call'[u].op = "post_process" => InSocket(u)'
                      /\ InSocket(u)' /\ upcall'[u].resumed => upcall'[u].eh \in AppResumes
    BY Zenon DEF CallsOfUpcalls
  <2>1. CASE u = t
    BY <1>1, <2>1, Zenon
  <2>2. CASE u # t
    BY <1>1, <2>2, SMT DEF Safe, CallsOfUpcalls, Within, InSocket
  <2> QED  BY <2>1, <2>2
<1>3. NobodyAsksTo({"register"})
  BY <1>1, SMT DEF NobodyAsksTo
<1> QED  BY <1>2, <1>3

(* What has disturbed a handler is remembered.                             *)
LEMMA TokenMet ==
  ASSUME NEW t, has_token(t)
  PROVE  met \subseteq met'
BY Zenon DEF has_token

(* A handler that is removed, whoever asked for it, is bound no longer.    *)
LEMMA SafeRemove ==
  ASSUME TypeOK, TypeOK', Safe, NEW t \in Threads, has_token(t), call[t].op = "remove"
  PROVE  Safe'
<1> USE DEF handlers
<1> DEFINE e == call[t].eh
           h == Handle[e]
<1>1. remove_handler_i(e) /\ UNCHANGED upcall
  BY SMT DEF has_token
<1>2. call[t] # None /\ call' = [call EXCEPT ![t] = None] /\ UNCHANGED fresh
  BY DEF has_token
<1>3. e \in EventHandlers /\ h \in Handles /\ e # None
  <2>1. e \in EventHandlers
    BY <1>2, CallFacts
  <2> QED  BY <2>1, BitFacts, TPReactorAssumption
<1> HIDE DEF h, e
<1>4. CallsOfUpcalls' /\ NobodyAsksTo({"register"})
  BY <1>1, <1>2, TokenCalls, Zenon DEF Safe, CallsOfUpcalls, InSocket
<1>5. NobodyEnters /\ UpcallsStay
  BY <1>1, StayIfNobodyEnters, Zenon DEF NobodyEnters
<1>0. met \subseteq met'
  BY TokenMet
<1>6. CASE UNCHANGED handlers
  <2>1. SameHandlers
    BY <1>0, <1>6, Zenon DEF SameHandlers
  <2>2. \A f \in EventHandlers : Bound(f)' => Bound(f)
    BY <2>1, SMT DEF SameHandlers, Bound
  <2> QED  BY <1>2, <1>4, <1>5, <2>1, <2>2, HandlersKept, RegisteredKept DEF Safe
<1>7. CASE ~UNCHANGED handlers
  <2>1. /\ wait_set' = wait_set \ of_handle(h, Bits)
        /\ suspend_set' = suspend_set \ of_handle(h, Bits)
        /\ unbind(h, of_handle(h, Bits), 0)
    BY <1>1, <1>7, Zenon DEF remove_handler_i, h
  <2>2. of_handle(h, wait_set \cup suspend_set) \subseteq of_handle(h, Bits)
    BY OfHandle, SMT DEF TypeOK
  <2>3. event_handlers' = [event_handlers EXCEPT ![h] = None]
    BY <2>1, <2>2, Zenon DEF unbind
  <2>4. event_handlers'[h] = None /\ \A g \in Handles \ {h} : event_handlers'[g] = event_handlers[g]
    BY <1>3, <2>3, SMT DEF TypeOK
  <2>5. /\ \A b : b \in wait_set' <=> b \in wait_set /\ ~(b \in Bits /\ b[1] = h)
        /\ \A b : b \in suspend_set' <=> b \in suspend_set /\ ~(b \in Bits /\ b[1] = h)
    BY <2>1, OfHandle, SMT
  <2>6. OnlyAbout(h)
    BY <2>4, <2>5, Zenon DEF OnlyAbout
  <2>7. \A b \in suspend_set' : b[1] # h
    BY <2>5, SMT DEF TypeOK
  <2>8. \A f \in EventHandlers : Bound(f)' => Bound(f) /\ Handle[f] # h
    <3> SUFFICES ASSUME NEW f \in EventHandlers, Bound(f)' PROVE Bound(f) /\ Handle[f] # h
      OBVIOUS
    <3>1. event_handlers'[Handle[f]] = f
      BY DEF Bound
    <3>2. f # None
      BY TPReactorAssumption
    <3>3. Handle[f] \in Handles \ {h}
      BY <2>4, <3>1, <3>2, BitFacts
    <3>4. event_handlers[Handle[f]] = f
      BY <2>4, <3>1, <3>3, Zenon
    <3> QED  BY <3>3, <3>4, Zenon DEF Bound
  <2>9. HandlesAgree' /\ SuspendedWithin' /\ OneWithin'
    BY <1>0, <1>3, <1>5, <2>4, <2>6, <2>7, <2>8, OneHandle
  <2>10. RegisteredOnce'
    BY <1>2, <1>4, <1>5, <2>8, RegisteredKept DEF Safe
  <2> QED  BY <1>4, <2>9, <2>10 DEF Safe
<1> QED  BY <1>6, <1>7

(* A handler that is registered is in no upcall, and replaces whoever had  *)
(* its file descriptor.                                                    *)
LEMMA SafeRegister ==
  ASSUME TypeOK, TypeOK', Safe, NEW t \in Threads, has_token(t), call[t].op = "register"
  PROVE  Safe'
<1> USE DEF handlers
<1> DEFINE e == call[t].eh
           h == Handle[e]
<1>1. register_handler_i(e) /\ UNCHANGED upcall
  BY SMT DEF has_token
<1>2. call[t] # None /\ call' = [call EXCEPT ![t] = None] /\ UNCHANGED fresh
  BY DEF has_token
<1>3. e \in EventHandlers /\ h \in Handles /\ e # None /\ Registers(t, e)
  <2>1. e \in EventHandlers
    BY <1>2, CallFacts
  <2> QED  BY <1>2, <2>1, BitFacts, TPReactorAssumption DEF Registers
<1>4. /\ event_handlers' = [event_handlers EXCEPT ![h] = e]
      /\ wait_set' = wait_set \cup {<<h, "READ">>} /\ suspend_set' = suspend_set
  BY <1>1, Zenon DEF register_handler_i
<1> HIDE DEF h
<1>5. CallsOfUpcalls' /\ NobodyAsksTo({"register"})
  BY <1>1, <1>2, TokenCalls, Zenon DEF Safe, CallsOfUpcalls, InSocket
<1>6. NobodyEnters /\ UpcallsStay
  BY <1>1, StayIfNobodyEnters, Zenon DEF NobodyEnters
<1>7. event_handlers'[h] = e /\ \A g \in Handles \ {h} : event_handlers'[g] = event_handlers[g]
  BY <1>3, <1>4, SMT DEF TypeOK
<1>8. OnlyAbout(h)
  <2>1. \A b \in Bits : b[1] # h => (b \in wait_set' <=> b \in wait_set)
    BY <1>4, SMT
  <2> QED  BY <1>4, <1>7, <2>1, Zenon DEF OnlyAbout
<1>9. e \notin fresh /\ \A u \in Threads : ~Within(u, e) /\ (Registers(u, e) => u = t)
  BY <1>3, Zenon DEF Safe, RegisteredOnce
<1>10. \A u \in Threads, f \in EventHandlers : Within(u, f)' <=> Within(u, f)
  BY <1>1, SMT DEF Within, InSocket
<1>11. \A f \in EventHandlers \ {e} : Bound(f)' => Bound(f) /\ Handle[f] # h
  <2> SUFFICES ASSUME NEW f \in EventHandlers \ {e}, Bound(f)' PROVE Bound(f) /\ Handle[f] # h
    OBVIOUS
  <2>1. event_handlers'[Handle[f]] = f
    BY DEF Bound
  <2>2. Handle[f] \in Handles \ {h}
    BY <1>7, <2>1, BitFacts
  <2>3. event_handlers[Handle[f]] = f
    BY <1>7, <2>1, <2>2, Zenon
  <2> QED  BY <2>2, <2>3, Zenon DEF Bound
<1>12. HandlesAgree' /\ SuspendedWithin' /\ OneWithin'
  <2>1. \A u \in Threads, f \in EventHandlers : ~(Handle[f] = h /\ Within(u, f)' /\ Bound(f)')
    BY <1>9, <1>10, <1>11, Zenon
  <2>2. Handle[event_handlers'[h]] = h /\ event_handlers'[h] # None
    BY <1>3, <1>7 DEF h
  <2> QED  BY <1>3, <1>6, <1>8, <2>1, <2>2, OneHandle, TokenMet, Zenon
<1>13. RegisteredOnce'
  <2>1. \A u \in Threads : \A f : Registers(u, f)' => Registers(u, f) /\ u # t
    <3>1. call'[t] = None /\ \A u \in Threads \ {t} : call'[u] = call[u]
      BY <1>2, SMT DEF TypeOK
    <3> QED  BY <3>1, SMT DEF Registers
  <2> SUFFICES ASSUME NEW f \in EventHandlers, NEW u \in Threads
               PROVE  /\ f \in fresh' => ~Bound(f)' /\ ~Registers(u, f)' /\ ~Within(u, f)'
                      /\ Registers(u, f)' =>
                            ~Bound(f)' /\ \A v \in Threads :
                                            ~Within(v, f)' /\ (Registers(v, f)' => v = u)
    BY Zenon DEF RegisteredOnce
  <2>2. CASE f = e
    <3>1. e \notin fresh'
      BY <1>2, <1>9
    <3>2. ~Registers(u, f)'
      BY <1>9, <2>1, <2>2, Zenon
    <3> QED  BY <2>2, <3>1, <3>2, Zenon
  <2>3. CASE f # e
    <3>1. /\ f \in fresh => ~Bound(f) /\ ~Registers(u, f) /\ ~Within(u, f)
          /\ Registers(u, f) =>
                ~Bound(f) /\ \A v \in Threads : ~Within(v, f) /\ (Registers(v, f) => v = u)
      BY Zenon DEF Safe, RegisteredOnce
    <3>2. \A v \in Threads : (Within(v, f)' <=> Within(v, f)) /\ (Registers(v, f)' => Registers(v, f))
      BY <1>10, <2>1, Zenon
    <3>3. (Bound(f)' => Bound(f)) /\ (f \in fresh' <=> f \in fresh)
      BY <1>2, <1>11, <2>3
    <3> QED  BY <3>1, <3>2, <3>3, Zenon
  <2> QED  BY <2>2, <2>3
<1> QED  BY <1>5, <1>12, <1>13 DEF Safe

(* Who resumes its handler was alone in it.                                *)
LEMMA SafeResume ==
  ASSUME TypeOK, TypeOK', Safe, NEW t \in Threads, has_token(t), call[t].op = "resume"
  PROVE  Safe'
<1> USE DEF handlers
<1> DEFINE e == call[t].eh
           h == Handle[e]
<1>1. resume_i(e) /\ upcall' = [upcall EXCEPT ![t].resumed = TRUE]
  BY SMT DEF has_token
<1>2. call[t] # None /\ call' = [call EXCEPT ![t] = None] /\ UNCHANGED fresh
  BY DEF has_token
<1>3. Within(t, e) /\ ~upcall[t].resumed /\ e \in AppResumes
  BY <1>2, Zenon DEF Safe, CallsOfUpcalls
<1>4. e \in EventHandlers /\ h \in Handles
  <2>1. e \in EventHandlers
    BY <1>2, CallFacts
  <2> QED  BY <2>1, BitFacts
<1> HIDE DEF h, e
<1>5. /\ InSocket(t)' /\ upcall'[t].eh = e /\ upcall'[t].resumed
      /\ \A u \in Threads \ {t} : upcall'[u] = upcall[u]
  <2>1. upcall'[t] = [upcall[t] EXCEPT !.resumed = TRUE]
        /\ \A u \in Threads \ {t} : upcall'[u] = upcall[u]
    BY <1>1, SMT DEF TypeOK
  <2>2. upcall[t] \in [kind : {"socket"}, eh : EventHandlers, mask : {"READ", "WRITE"},
                       resumed : BOOLEAN]
    BY <1>3, UpcallFacts DEF Within, InSocket
  <2>3. /\ upcall'[t].kind = "socket" /\ upcall'[t].eh = upcall[t].eh /\ upcall'[t].resumed
    BY <2>1, <2>2, SMT
  <2>4. upcall'[t] # None
    <3> DEFINE S == [kind : {"socket"}, eh : EventHandlers, mask : {"READ", "WRITE"},
                     resumed : BOOLEAN]
    <3>1. [upcall[t] EXCEPT !.resumed = TRUE] \in S
      BY <2>2, ResumedType, Zenon
    <3>2. None \notin S
      BY NoneAssumption, Zenon DEF Upcall
    <3> HIDE DEF S
    <3> QED  BY <2>1, <3>1, <3>2
  <2> QED  BY <1>3, <2>1, <2>3, <2>4, Zenon DEF Within, InSocket
<1>6. UpcallsStay
  BY <1>3, <1>5, SMT DEF UpcallsStay, Within, InSocket
<1>7. CallsOfUpcalls' /\ NobodyAsksTo({"register"})
  BY <1>2, <1>3, <1>5, TokenCalls
<1>8. UNCHANGED event_handlers /\ \A f : Bound(f)' <=> Bound(f)
  BY <1>1, Zenon DEF resume_i, Bound
<1>9. RegisteredOnce'
  BY <1>2, <1>6, <1>7, <1>8, RegisteredKept, Zenon DEF Safe
<1>0. met \subseteq met'
  BY TokenMet
<1>10. OnlyAbout(h) /\ suspend_set' \subseteq suspend_set
  <2>1. PICK back \in {{}, of_handle(h, suspend_set)} :
            wait_set' = wait_set \cup back /\ suspend_set' = suspend_set \ back
    BY <1>1, Zenon DEF resume_i, h
  <2>2. \A b \in back : b \in suspend_set /\ b[1] = h
    BY <2>1, OfHandle, SMT
  <2> QED  BY <1>8, <2>1, <2>2, SMT DEF OnlyAbout
<1>11. met' = {} => \A u \in Threads, f \in EventHandlers :
          Handle[f] = h /\ Within(u, f)' /\ ~upcall'[u].resumed /\ Bound(f)' =>
              /\ \E b \in suspend_set' : b[1] = h
              /\ \A b \in wait_set' : b[1] # h
  <2> SUFFICES ASSUME met' = {}, NEW u \in Threads, NEW f \in EventHandlers, Handle[f] = h,
                      Within(u, f)', ~upcall'[u].resumed, Bound(f)'
               PROVE  /\ \E b \in suspend_set' : b[1] = h
                      /\ \A b \in wait_set' : b[1] # h
    OBVIOUS
  <2>1. u # t /\ Within(u, f) /\ ~upcall[u].resumed /\ Bound(f)
    BY <1>5, <1>6, <1>8, SMT DEF UpcallsStay, Within
  <2>2. CASE f = e
    <3>1. upcall[t].resumed
      BY <1>0, <1>3, <1>4, <2>1, <2>2, Zenon DEF Safe, OneWithin
    <3>2. FALSE
      BY <1>3, <2>1, <2>2, <3>1
    <3> QED  BY <3>2
  <2>3. CASE f # e
    <3>1. event_handlers[h] = f /\ f \notin {e, None}
      BY <2>1, <2>3, TPReactorAssumption, Zenon DEF Bound
    <3>2. "stale_resume" \in disturbance(call[t])
      BY <3>1, SMT DEF disturbance, e, h
    <3>3. met' = met \cup disturbance(call[t])
      BY Zenon DEF has_token
    <3> QED  BY <3>2, <3>3, Zenon
  <2> QED  BY <2>2, <2>3
<1>12. HandlesAgree' /\ SuspendedWithin' /\ OneWithin'
  <2>1. /\ event_handlers'[h] # None => Handle[event_handlers'[h]] = h
        /\ \A b \in suspend_set' : b[1] = h => event_handlers'[h] # None
    BY <1>4, <1>8, <1>10, Zenon DEF Safe, HandlesAgree
  <2> QED  BY <1>0, <1>4, <1>6, <1>10, <1>11, <2>1, OneHandle
<1> QED  BY <1>7, <1>9, <1>12 DEF Safe

(* The mask of a suspended handler is switched on and off in the suspend   *)
(* set; it is another matter when nothing is left there.                   *)
LEMMA SafeMaskOps ==
  ASSUME TypeOK, TypeOK', Safe, NEW t \in Threads, has_token(t),
         call[t].op \in {"wakeup", "unwakeup"}
  PROVE  Safe'
<1> USE DEF handlers
<1> DEFINE e == call[t].eh
           h == Handle[e]
           bit == <<h, Switched>>
           is_suspended == event_handlers[h] # None /\ of_handle(h, suspend_set) # {}
<1>0. met \subseteq met' /\ met' = met \cup disturbance(call[t])
  BY TokenMet, Zenon DEF has_token
<1>1. mask_ops(e, call[t].op) /\ UNCHANGED upcall
  BY SMT DEF has_token
<1>2. call[t] # None /\ call' = [call EXCEPT ![t] = None] /\ UNCHANGED fresh
  BY DEF has_token
<1>3. e \in EventHandlers /\ h \in Handles /\ e # None
  <2>1. e \in EventHandlers
    BY <1>2, CallFacts
  <2> QED  BY <2>1, BitFacts, TPReactorAssumption
<1>4. CallsOfUpcalls' /\ NobodyAsksTo({"register"})
  BY <1>1, <1>2, TokenCalls, Zenon DEF Safe, CallsOfUpcalls, InSocket
<1>5. NobodyEnters /\ UpcallsStay
  BY <1>1, StayIfNobodyEnters, Zenon DEF NobodyEnters
<1>6. UNCHANGED event_handlers
  BY <1>1, Zenon DEF mask_ops
<1>7. RegisteredOnce'
  <2>1. \A f \in EventHandlers : Bound(f)' => Bound(f)
    BY <1>6, SMT DEF Bound
  <2> QED  BY <1>2, <1>4, <1>5, <2>1, RegisteredKept DEF Safe
<1>8. \/ SameHandlers
      \/ /\ ~is_suspended /\ suspend_set' = suspend_set
         /\ wait_set' \in {wait_set \cup {bit}, wait_set \ {bit}}
      \/ /\ is_suspended /\ wait_set' = wait_set
         /\ \/ suspend_set' = suspend_set \cup {bit}
            \/ call[t].op = "unwakeup" /\ suspend_set' = suspend_set \ {bit}
  <2>1. \/ UNCHANGED <<wait_set, suspend_set>>
        \/ /\ wait_set' = IF is_suspended THEN wait_set
                          ELSE IF call[t].op = "wakeup" THEN wait_set \cup {bit} ELSE wait_set \ {bit}
           /\ suspend_set' = IF ~is_suspended THEN suspend_set
                             ELSE IF call[t].op = "wakeup" THEN suspend_set \cup {bit}
                             ELSE suspend_set \ {bit}
    BY <1>1, SMTT(30) DEF mask_ops
  <2> HIDE DEF is_suspended, bit
  <2> QED  BY <1>0, <1>6, <2>1, SMT DEF SameHandlers
<1>9. CASE SameHandlers
  BY <1>2, <1>4, <1>5, <1>7, <1>9, HandlersKept DEF Safe
<1>10. CASE ~SameHandlers
  <2>1. bit[1] = h
    BY SMT
  <2>2. is_suspended <=> event_handlers[h] # None /\ \E b \in suspend_set : b[1] = h
    BY Zenon DEF of_handle
  <2>3. ASSUME call[t].op = "unwakeup", \A b \in suspend_set : b[1] = h => b = bit,
               \E b \in suspend_set : b[1] = h
        PROVE  met' # {}
    <3>1. of_handle(h, suspend_set) = {bit}
      BY <2>3, OfHandle, SMT
    <3>2. "cancelled" \in disturbance(call[t])
      BY <2>3, <3>1, SMT DEF disturbance
    <3> QED  BY <1>0, <3>2, Zenon
  <2> HIDE DEF bit, h, is_suspended
  <2>4. OnlyAbout(h)
    BY <1>6, <1>8, <1>10, <2>1, SMT DEF OnlyAbout
  <2>5. met' = {} => \A u \in Threads, f \in EventHandlers :
            Handle[f] = h /\ Within(u, f)' /\ ~upcall'[u].resumed /\ Bound(f)' =>
                /\ \E b \in suspend_set' : b[1] = h
                /\ \A b \in wait_set' : b[1] # h
    <3> SUFFICES ASSUME met' = {}, NEW u \in Threads, NEW f \in EventHandlers, Handle[f] = h,
                        Within(u, f)', ~upcall'[u].resumed, Bound(f)'
                 PROVE  /\ \E b \in suspend_set' : b[1] = h
                        /\ \A b \in wait_set' : b[1] # h
      OBVIOUS
    <3>1. Within(u, f) /\ ~upcall[u].resumed /\ Bound(f) /\ met = {}
      BY <1>0, <1>1, <1>6, SMT DEF Within, InSocket, Bound
    <3>2. /\ \E b \in suspend_set : b[1] = h
          /\ \A b \in wait_set : b[1] # h
      BY <3>1, Zenon DEF Safe, SuspendedWithin
    <3>3. is_suspended
      BY <2>2, <3>1, <3>2, TPReactorAssumption DEF Bound
    <3>4. CASE suspend_set' = suspend_set \cup {bit}
      BY <1>8, <1>10, <3>2, <3>3, <3>4, SMT
    <3>5. CASE call[t].op = "unwakeup" /\ suspend_set' = suspend_set \ {bit}
      <4>1. \E b \in suspend_set : b[1] = h /\ b # bit
        BY <2>3, <3>2, <3>5
      <4> QED  BY <1>8, <1>10, <3>2, <3>3, <3>5, <4>1, SMT
    <3> QED  BY <1>8, <1>10, <3>3, <3>4, <3>5
  <2>6. event_handlers'[h] # None => Handle[event_handlers'[h]] = h
    BY <1>3, <1>6, Zenon DEF Safe, HandlesAgree
  <2>7. \A b \in suspend_set' : b[1] = h => event_handlers'[h] # None
    BY <1>6, <1>8, <1>10, <2>2, SMT DEF Safe, HandlesAgree
  <2>8. HandlesAgree' /\ SuspendedWithin' /\ OneWithin'
    BY <1>0, <1>3, <1>5, <2>4, <2>5, <2>6, <2>7, OneHandle
  <2> QED  BY <1>4, <1>7, <2>8 DEF Safe
<1> QED  BY <1>9, <1>10

(* A handler that resumes itself keeps what is suspended; another is in no *)
(* other upcall.                                                           *)
LEMMA SafePostProcess ==
  ASSUME TypeOK, TypeOK', Safe, NEW t \in Threads, has_token(t), call[t].op = "post_process"
  PROVE  Safe'
<1> USE DEF handlers
<1> DEFINE e == upcall[t].eh
           h == Handle[e]
           go == IF call[t].status = 0 THEN {} ELSE {<<h, upcall[t].mask>>}
           resume == IF e \in AppResumes THEN {} ELSE of_handle(h, suspend_set) \ go
<1>1. post_process(t)
  BY SMT DEF has_token
<1>2. call[t] # None /\ call' = [call EXCEPT ![t] = None] /\ UNCHANGED fresh
  BY DEF has_token
<1>3. Within(t, e)
  BY <1>2, Zenon DEF Safe, CallsOfUpcalls, Within
<1>4. e \in EventHandlers /\ h \in Handles /\ e # None
  <2>1. e \in EventHandlers
    BY <1>3, UpcallFacts, SMT DEF Within, InSocket
  <2> QED  BY <2>1, BitFacts, TPReactorAssumption
<1>5. upcall'[t] = None /\ \A u \in Threads \ {t} : upcall'[u] = upcall[u]
  <2>1. upcall' = [upcall EXCEPT ![t] = None]
    BY <1>1, Zenon DEF post_process
  <2> QED  BY <2>1, SMT DEF TypeOK
<1>6. NobodyEnters /\ UpcallsStay
  BY <1>5, StayIfNobodyEnters, Zenon DEF NobodyEnters, InSocket
<1>7. CallsOfUpcalls' /\ NobodyAsksTo({"register"})
  BY <1>2, <1>5, TokenCalls, Zenon DEF InSocket
<1>8. CASE ~recognised(t)
  <2>1. SameHandlers
    BY <1>1, <1>8, TokenMet, SMT DEF post_process, SameHandlers
  <2>2. \A f \in EventHandlers : Bound(f)' => Bound(f)
    BY <2>1, SMT DEF SameHandlers, Bound
  <2> QED  BY <1>2, <1>6, <1>7, <2>1, <2>2, HandlersKept, RegisteredKept DEF Safe
<1>9. CASE recognised(t)
  <2>1. event_handlers[h] = e /\ Bound(e)
    BY <1>9, Zenon DEF recognised, Bound
  <2>2. /\ wait_set' = (wait_set \ go) \cup resume
        /\ suspend_set' = suspend_set \ (go \cup resume)
    BY <1>1, <1>9, Zenon DEF post_process
  <2>3. go = {} \/ go = {<<h, upcall[t].mask>>}
    BY Zenon
  <2>4. \/ /\ UNCHANGED event_handlers
           /\ go = {} \/ \E b \in wait_set \cup suspend_set : b[1] = h /\ b \notin go
        \/ /\ event_handlers' = [event_handlers EXCEPT ![h] = None]
           /\ \A b \in wait_set \cup suspend_set : b[1] = h => b \in go
    <3>1. CASE call[t].status = 0
      BY <1>1, <1>9, <3>1, Zenon DEF post_process
    <3>2. CASE call[t].status # 0
      <4>1. unbind(h, go, 1)
        BY <1>1, <1>9, <3>2, Zenon DEF post_process
      <4> DEFINE complete == of_handle(h, wait_set \cup suspend_set) \subseteq go
      <4>2. event_handlers' = [event_handlers EXCEPT ![h] = IF complete THEN None ELSE @]
        BY <4>1, Zenon DEF unbind
      <4> HIDE DEF go, h
      <4>3. complete <=> \A b \in wait_set \cup suspend_set : b[1] = h => b \in go
        BY ONLY WithinHandle
      <4> HIDE DEF complete
      <4>4. CASE complete
        BY <4>2, <4>3, <4>4
      <4>5. CASE ~complete
        <5>1. event_handlers' = event_handlers
          BY <1>4, <4>2, <4>5, SMT DEF TypeOK
        <5> QED  BY <4>3, <4>5, <5>1
      <4> QED  BY <4>4, <4>5
    <3> QED  BY <3>1, <3>2
  <2>5. \A b \in resume : b \in suspend_set /\ b \notin go
    BY OfHandle, SMT
  <2>6. \A b \in go \cup resume : b[1] = h
    <3>1. \A b \in go : b[1] = h
      BY <2>3, SMT
    <3>2. \A b \in resume : b[1] = h
      BY OfHandle, SMT
    <3> QED  BY <3>1, <3>2
  <2>14. e \in AppResumes => resume = {}
    OBVIOUS
  <2> HIDE DEF go, resume, h, e
  <2>7. /\ \A g \in Handles \ {h} : event_handlers'[g] = event_handlers[g]
        /\ event_handlers'[h] \in {e, None}
    BY <1>4, <2>1, <2>4, SMT DEF TypeOK
  <2>8. OnlyAbout(h)
    BY <2>2, <2>6, <2>7, SMT DEF OnlyAbout
  <2>9. \A f \in EventHandlers : Bound(f)' => Bound(f) /\ (Handle[f] = h => f = e)
    <3> SUFFICES ASSUME NEW f \in EventHandlers, Bound(f)'
                 PROVE  Bound(f) /\ (Handle[f] = h => f = e)
      OBVIOUS
    <3>1. event_handlers'[Handle[f]] = f /\ f # None /\ Handle[f] \in Handles
      BY BitFacts, TPReactorAssumption, Zenon DEF Bound
    <3>2. CASE Handle[f] = h
      BY <2>1, <2>7, <3>1, <3>2
    <3>3. CASE Handle[f] # h
      <4>1. event_handlers[Handle[f]] = f
        BY <2>7, <3>1, <3>3
      <4> QED  BY <3>3, <4>1, Zenon DEF Bound
    <3> QED  BY <3>2, <3>3
  <2>10. RegisteredOnce'
    BY <1>2, <1>6, <1>7, <2>9, RegisteredKept DEF Safe
  <2>11. \A b \in suspend_set' : b[1] = h => event_handlers'[h] # None
    <3> SUFFICES ASSUME NEW b \in suspend_set', b[1] = h
                 PROVE  event_handlers'[h] # None
      OBVIOUS
    <3>1. b \in suspend_set /\ b \notin go
      BY <2>2, SMT
    <3>2. UNCHANGED event_handlers
      BY <2>4, <3>1
    <3> QED  BY <1>4, <2>1, <3>2
  <2>12. met' = {} => \A u \in Threads, f \in EventHandlers :
            Handle[f] = h /\ Within(u, f)' /\ ~upcall'[u].resumed /\ Bound(f)' =>
                /\ \E b \in suspend_set' : b[1] = h
                /\ \A b \in wait_set' : b[1] # h
    <3> SUFFICES ASSUME met' = {}, NEW u \in Threads, NEW f \in EventHandlers, Handle[f] = h,
                        Within(u, f)', ~upcall'[u].resumed, Bound(f)'
                 PROVE  /\ \E b \in suspend_set' : b[1] = h
                        /\ \A b \in wait_set' : b[1] # h
      OBVIOUS
    <3>1. f = e
      BY <2>9
    <3>2. u # t /\ Within(u, f) /\ ~upcall[u].resumed
      BY <1>5, SMT DEF Within, InSocket
    <3>8. met = {}
      BY TokenMet, Zenon
    <3>3. resume = {}
      <4>1. upcall[t].resumed
        BY <1>3, <1>4, <3>1, <3>2, <3>8, Zenon DEF Safe, OneWithin
      <4> QED  BY <1>3, <2>14, <4>1, Zenon DEF Safe, CallsOfUpcalls, Within, e
    <3>4. /\ \E b \in suspend_set : b[1] = h
          /\ \A b \in wait_set : b[1] # h
      BY <2>1, <3>1, <3>2, <3>8, Zenon DEF Safe, SuspendedWithin
    <3>5. event_handlers'[h] # None
      BY <1>4, <3>1, Zenon DEF Bound
    <3>6. go = {} \/ \E b \in wait_set \cup suspend_set : b[1] = h /\ b \notin go
      BY <1>4, <2>4, <3>5, SMT DEF TypeOK
    <3>7. \E b \in suspend_set : b[1] = h /\ b \notin go
      BY <3>4, <3>6
    <3> QED  BY <2>2, <3>3, <3>4, <3>7
  <2>13. HandlesAgree' /\ SuspendedWithin' /\ OneWithin'
    BY <1>4, <1>6, <2>1, <2>7, <2>8, <2>11, <2>12, OneHandle, TokenMet DEF h
  <2> QED  BY <1>7, <2>10, <2>13 DEF Safe
<1> QED  BY <1>8, <1>9

(* Every call, made with the token.                                        *)
LEMMA SafeToken ==
  ASSUME TypeOK, TypeOK', Safe, NEW t \in Threads, has_token(t)
  PROVE  Safe'
<1> USE DEF handlers
<1>1. CASE call[t].op \in {"schedule", "cancel", "deactivate"}
  <2>1. UNCHANGED <<event_handlers, wait_set, suspend_set, upcall, fresh>>
    BY <1>1, SMT DEF has_token, schedule_timer, cancel_timer, deactivate_i
  <2>2. call' = [call EXCEPT ![t] = None]
    BY DEF has_token
  <2>3. CallsOfUpcalls' /\ NobodyAsksTo({"register"})
    BY <2>1, <2>2, TokenCalls, Zenon DEF Safe, CallsOfUpcalls, InSocket
  <2>4. NobodyEnters /\ UpcallsStay /\ SameHandlers
    BY <2>1, StayIfNobodyEnters, TokenMet, Zenon DEF NobodyEnters, SameHandlers
  <2>5. \A e \in EventHandlers : Bound(e)' => Bound(e)
    BY <2>1, SMT DEF Bound
  <2> QED  BY <2>1, <2>3, <2>4, <2>5, HandlersKept, RegisteredKept DEF Safe
<1>2. call[t].op \in {"post_process", "register", "remove", "resume", "wakeup", "unwakeup",
                      "schedule", "cancel", "deactivate"}
  BY SMT DEF has_token
<1> QED  BY <1>1, <1>2, SafePostProcess, SafeRegister, SafeRemove, SafeResume, SafeMaskOps

-----------------------------------------------------------------------------
(* All steps.                                                              *)

(* Every step.                                                             *)
LEMMA SafeStep ==
  ASSUME TypeOK, TypeOK', ReadyIsWanted, EventsBound, Safe, SelectorIsFree, [Next]_vars
  PROVE  Safe'
<1> USE DEF handlers
<1>0. Pool \subseteq Threads /\ Clients \subseteq Threads
  BY DEF Threads
<1>1. CASE UNCHANGED <<upcall, call, event_handlers, wait_set, suspend_set, fresh, met>>
  <2>1. Quiet
    BY <1>1 DEF Quiet, SameHandlers, NobodyEnters, NobodyAsksTo
  <2> QED  BY <2>1, QuietStep
<1>2. ASSUME NEW t \in Pool, NEW e \in Timed, handle_timer_events(t, e) PROVE Safe'
  <2>1. upcall' = [upcall EXCEPT ![t] = [kind |-> "timer", eh |-> e]]
    BY <1>2, Zenon DEF handle_timer_events
  <2>2. UNCHANGED <<call, event_handlers, wait_set, suspend_set, fresh, met>> /\ call[t] = None
    BY <1>0, <1>2, SMT DEF handle_timer_events, SelectorIsFree
  <2>3. [kind |-> "timer", eh |-> e].kind # "socket"
    BY SMT
  <2> QED  BY <1>0, <2>1, <2>2, <2>3, UpcallEnds
<1>3. ASSUME NEW t \in Pool, handle_notify_events(t) PROVE Safe'
  <2>1. upcall' = [upcall EXCEPT ![t] = [kind |-> "pop"]]
    BY <1>3, Zenon DEF handle_notify_events
  <2>2. UNCHANGED <<call, event_handlers, wait_set, suspend_set, fresh, met>> /\ call[t] = None
    BY <1>0, <1>3, SMT DEF handle_notify_events, SelectorIsFree
  <2>3. [kind |-> "pop"].kind # "socket"
    BY SMT
  <2> QED  BY <1>0, <2>1, <2>2, <2>3, UpcallEnds
<1>4. ASSUME NEW t \in Pool, dispatch_notify(t) PROVE Safe'
  <2>1. UNCHANGED <<call, event_handlers, wait_set, suspend_set, fresh, met>> /\ ~InSocket(t)
    BY <1>4, SMT DEF dispatch_notify, Popping, InSocket
  <2>2. \/ upcall' = [upcall EXCEPT ![t] = None]
        \/ upcall' = [upcall EXCEPT ![t] = [kind |-> "notify", eh |-> Head(notify_queue)]]
    <3>1. CASE notify_queue = <<>> \/ Head(notify_queue) = None
      BY <1>4, <3>1, SMT DEF dispatch_notify
    <3>2. CASE ~(notify_queue = <<>> \/ Head(notify_queue) = None)
      BY <1>4, <3>2, SMT DEF dispatch_notify
    <3> QED  BY <3>1, <3>2
  <2>3. [kind |-> "notify", eh |-> Head(notify_queue)].kind # "socket"
    BY SMT
  <2> QED  BY <1>0, <2>1, <2>2, <2>3, UpcallEnds
<1>5. ASSUME NEW t \in Pool, handle_socket_events(t) PROVE Safe'
  BY <1>5, SafeEntry
<1>6. ASSUME NEW t \in Pool, upcall_returns(t) PROVE Safe'
  <2>1. ASSUME upcall_ends(t), InUpcall(t) PROVE Safe'
    <3>1. /\ upcall' = [upcall EXCEPT ![t] = None] /\ call[t] = None
          /\ UNCHANGED <<call, event_handlers, wait_set, suspend_set, fresh, met>>
      BY <2>1, Zenon DEF upcall_ends, InUpcall
    <3> QED  BY <1>0, <3>1, UpcallEnds
  <2>2. ASSUME NEW status \in {0, -1}, socket_upcall_returns(t, status) PROVE Safe'
    <3>1. /\ InSocket(t) /\ call' = [call EXCEPT ![t] = [op |-> "post_process", status |-> status]]
          /\ UNCHANGED <<upcall, event_handlers, wait_set, suspend_set, fresh, met>>
      BY <2>2, Zenon DEF socket_upcall_returns, acquire_token, InSocketUpcall, InUpcall, InSocket
    <3>2. [op |-> "post_process", status |-> status].op = "post_process"
      BY SMT
    <3> QED  BY <1>0, <3>1, <3>2, AskAfterUpcall
  <2> QED  BY <1>6, <2>1, <2>2, Zenon DEF upcall_returns, other_upcall_returns,
             resumed_upcall_returns, InSocketUpcall
<1>7. ASSUME NEW t \in Pool, resume_handler(t) PROVE Safe'
  <2>1. /\ InSocket(t) /\ upcall[t].eh \in AppResumes /\ ~upcall[t].resumed
        /\ call' = [call EXCEPT ![t] = [op |-> "resume", eh |-> upcall[t].eh]]
        /\ UNCHANGED <<upcall, event_handlers, wait_set, suspend_set, fresh, met>>
    BY <1>7, Zenon DEF resume_handler, acquire_token, InSocketUpcall, InUpcall, InSocket
  <2>2. /\ [op |-> "resume", eh |-> upcall[t].eh].op = "resume"
        /\ [op |-> "resume", eh |-> upcall[t].eh].eh = upcall[t].eh
    BY SMT
  <2> QED  BY <1>0, <2>1, <2>2, AskAfterUpcall
<1>8. ASSUME NEW t \in Threads, has_token(t) PROVE Safe'
  BY <1>8, SafeToken
<1>9. ASSUME NEW t \in Threads, NEW e \in EventHandlers, register_handler(t, e) PROVE Safe'
  BY <1>9, AskRegister
<1>10. ASSUME NEW t \in Threads, NEW e \in EventHandlers, uses_reactor(t, e) PROVE Safe'
  <2>1. PICK op \in {"remove", "wakeup", "unwakeup", "schedule", "cancel"} :
            asks(t, e, op) /\ UNCHANGED fresh
    BY <1>10, Zenon DEF uses_reactor
  <2>2. /\ call' = [call EXCEPT ![t] = [op |-> op, eh |-> e]]
        /\ UNCHANGED <<upcall, event_handlers, wait_set, suspend_set, met>>
    BY <2>1, Zenon DEF asks, acquire_token
  <2>3. [op |-> op, eh |-> e].op \notin {"register", "resume", "post_process"}
    BY SMT
  <2> QED  BY <2>1, <2>2, <2>3, SafeAsk
<1>11. ASSUME NEW t \in Clients, deactivate(t) PROVE Safe'
  <2>1. /\ call' = [call EXCEPT ![t] = [op |-> "deactivate"]]
        /\ UNCHANGED <<upcall, event_handlers, wait_set, suspend_set, fresh, met>>
    BY <1>11, Zenon DEF deactivate, acquire_token
  <2>2. [op |-> "deactivate"].op \notin {"register", "resume", "post_process"}
    BY SMT
  <2> QED  BY <1>0, <2>1, <2>2, SafeAsk
<1>12. ASSUME NEW t \in Pool, handle_events(t) PROVE Safe'
  <2>1. /\ UNCHANGED <<upcall, call, event_handlers, suspend_set, fresh, met>>
        /\ wait_set' \subseteq wait_set
    BY <1>12, Zenon DEF handle_events, check_handles
  <2>2. Quiet
    BY <2>1 DEF Quiet, SameHandlers, NobodyEnters, NobodyAsksTo
  <2> QED  BY <2>2, QuietStep
<1>13. ASSUME NEW t \in Threads, NEW e \in EventHandlers,
              notify(t, e) \/ purge_pending_notifications(t, e)
       PROVE  Safe'
  BY <1>1, <1>13, Zenon DEF notify, purge_pending_notifications
<1>14. ASSUME NEW t \in Clients, NEW e \in EventHandlers, remove_reference(t, e) PROVE Safe'
  BY <1>1, <1>14, Zenon DEF remove_reference
<1>15. ASSUME (\E b \in Bits : arrives(b)) \/ (\E e \in Timed : timer_expires(e)) PROVE Safe'
  BY <1>1, <1>15, Zenon DEF arrives, timer_expires
<1>16. CASE UNCHANGED vars
  BY <1>1, <1>16 DEF vars
<1> QED
  BY <1>2, <1>3, <1>4, <1>5, <1>6, <1>7, <1>8, <1>9, <1>10, <1>11, <1>12, <1>13, <1>14, <1>15,
     <1>16, Zenon DEF Next, PoolStep, dispatch_i

(* Every step leaves the thread that selects alone.                        *)
LEMMA SelectorStep ==
  ASSUME TypeOK, SelectorIsFree, [Next]_vars
  PROVE  SelectorIsFree'
<1> SUFFICES ASSUME NEW s \in Threads, token' = s PROVE upcall'[s] = None /\ call'[s] = None
  BY Zenon DEF SelectorIsFree
<1>0. Pool \subseteq Threads /\ Clients \subseteq Threads /\ s # None
  BY TPReactorAssumption DEF Threads
<1>1. CASE UNCHANGED <<token, upcall, call>>
  BY <1>1, Zenon DEF SelectorIsFree
<1>2. ASSUME NEW t \in Pool, handle_events(t) PROVE upcall'[s] = None /\ call'[s] = None
  <2>1. UNCHANGED <<upcall, call>> /\ upcall[t] = None /\ call[t] = None
    BY <1>0, <1>2, SMT DEF handle_events, Waiting
  <2>2. token' \in {t, None}
    BY <1>2, SMT DEF handle_events
  <2> QED  BY <1>0, <2>1, <2>2
<1>3. ASSUME NEW t \in Pool, dispatch_i(t) PROVE FALSE
  <2>1. token' = None
    BY <1>3, Zenon DEF dispatch_i, handle_timer_events, handle_notify_events, handle_socket_events
  <2> QED  BY <1>0, <2>1
<1>4. ASSUME NEW t \in Threads, upcall[t] # None, UNCHANGED <<token, call>>,
             NEW c, upcall' = [upcall EXCEPT ![t] = c]
      PROVE  upcall'[s] = None /\ call'[s] = None
  <2>1. upcall[s] = None /\ call[s] = None
    BY <1>4, Zenon DEF SelectorIsFree
  <2>2. upcall'[s] = upcall[s]
    BY <1>4, <2>1, SMT DEF TypeOK
  <2> QED  BY <1>4, <2>1, <2>2
<1>5. ASSUME NEW t \in Threads, t \in Clients \/ upcall[t] # None,
             UNCHANGED <<token, upcall>>, NEW c, call' = [call EXCEPT ![t] = c]
      PROVE  upcall'[s] = None /\ call'[s] = None
  <2>1. upcall[s] = None /\ call[s] = None
    BY <1>5, Zenon DEF SelectorIsFree
  <2>2. s \notin Clients
    BY <1>0, <1>5, TPReactorAssumption, SMT DEF TypeOK
  <2>3. call'[s] = call[s]
    BY <1>5, <2>1, <2>2, SMT DEF TypeOK
  <2> QED  BY <1>5, <2>1, <2>3
<1>6. ASSUME NEW t \in Pool, dispatch_notify(t) PROVE upcall'[s] = None /\ call'[s] = None
  <2>1. upcall[t] # None /\ UNCHANGED <<token, call>>
    BY <1>6, Zenon DEF dispatch_notify, Popping
  <2>2. \E c : upcall' = [upcall EXCEPT ![t] = c]
    <3>1. CASE notify_queue = <<>>
      BY <1>6, <3>1, SMT DEF dispatch_notify
    <3>2. CASE notify_queue # <<>>
      <4>1. \/ upcall' = [upcall EXCEPT ![t] = None]
            \/ upcall' = [upcall EXCEPT ![t] = [kind |-> "notify", eh |-> Head(notify_queue)]]
        BY <1>6, <3>2, SMT DEF dispatch_notify
      <4> QED  BY <4>1, Zenon
    <3> QED  BY <3>1, <3>2
  <2> QED  BY <1>0, <1>4, <2>1, <2>2
<1>7. ASSUME NEW t \in Pool, upcall_returns(t) PROVE upcall'[s] = None /\ call'[s] = None
  <2>1. ASSUME upcall_ends(t), InUpcall(t) PROVE upcall'[s] = None /\ call'[s] = None
    BY <1>0, <1>4, <2>1, Zenon DEF upcall_ends, InUpcall
  <2>2. ASSUME NEW status \in {0, -1}, socket_upcall_returns(t, status)
        PROVE  upcall'[s] = None /\ call'[s] = None
    BY <1>0, <1>5, <2>2, Zenon DEF socket_upcall_returns, acquire_token, InSocketUpcall, InUpcall
  <2> QED  BY <1>7, <2>1, <2>2, Zenon DEF upcall_returns, other_upcall_returns,
             resumed_upcall_returns, InSocketUpcall
<1>8. ASSUME NEW t \in Pool, resume_handler(t) PROVE upcall'[s] = None /\ call'[s] = None
  BY <1>0, <1>5, <1>8, Zenon DEF resume_handler, acquire_token, InSocketUpcall, InUpcall
<1>9. ASSUME NEW t \in Threads, has_token(t) PROVE FALSE
  <2>1. token' = None
    BY <1>9, Zenon DEF has_token
  <2> QED  BY <1>0, <2>1
<1>10. ASSUME NEW t \in Threads, NEW e \in EventHandlers, register_handler(t, e)
       PROVE  upcall'[s] = None /\ call'[s] = None
  <2>1. t \in Clients \/ upcall[t] # None
    BY <1>10, Zenon DEF register_handler, InUpcall, Threads
  <2> QED  BY <1>5, <1>10, <2>1, Zenon DEF register_handler, asks, acquire_token
<1>11. ASSUME NEW t \in Threads, NEW e \in EventHandlers, uses_reactor(t, e)
       PROVE  upcall'[s] = None /\ call'[s] = None
  <2>1. t \in Clients \/ upcall[t] # None
    BY <1>11, Zenon DEF uses_reactor, MayCall, InUpcall
  <2>2. \E op : asks(t, e, op)
    BY <1>11, Zenon DEF uses_reactor
  <2> QED  BY <1>5, <2>1, <2>2, Zenon DEF asks, acquire_token
<1>12. ASSUME NEW t \in Clients, deactivate(t) PROVE upcall'[s] = None /\ call'[s] = None
  BY <1>0, <1>5, <1>12, Zenon DEF deactivate, acquire_token
<1>13. ASSUME NEW t \in Threads, NEW e \in EventHandlers,
              notify(t, e) \/ purge_pending_notifications(t, e)
       PROVE  UNCHANGED <<token, upcall, call>>
  BY <1>13, Zenon DEF notify, purge_pending_notifications
<1>14. ASSUME NEW t \in Clients, NEW e \in EventHandlers, remove_reference(t, e)
       PROVE  UNCHANGED <<token, upcall, call>>
  BY <1>14, Zenon DEF remove_reference
<1>15. ASSUME (\E b \in Bits : arrives(b)) \/ (\E e \in Timed : timer_expires(e))
       PROVE  UNCHANGED <<token, upcall, call>>
  BY <1>15, Zenon DEF arrives, timer_expires
<1>16. CASE UNCHANGED vars
  BY <1>1, <1>16 DEF vars
<1> QED
  BY <1>1, <1>2, <1>3, <1>6, <1>7, <1>8, <1>9, <1>10, <1>11, <1>12, <1>13, <1>14, <1>15, <1>16,
     Zenon DEF Next, PoolStep

(* The invariant is inductive.                                             *)
LEMMA InvStep ==
  ASSUME Inv, [Next]_vars
  PROVE  Inv'
<1>1. TypeOK'
  BY TypeStep DEF Inv
<1>2. ReadyIsWanted'
  BY ReadyStep DEF Inv
<1>3. SelectorIsFree'
  BY SelectorStep DEF Inv
<1>4. Safe'
  BY <1>1, SafeStep DEF Inv, Safe
<1>5. EventsBound'
  BY BoundStep DEF Inv
<1> QED  BY <1>1, <1>2, <1>3, <1>4, <1>5 DEF Inv, Safe

(* And holds of every behaviour.                                           *)
THEOREM InvHolds == Spec => []Inv
BY InitInv, InvStep, PTL DEF Spec

(* Every variable has its type: in particular, who is dispatched for a     *)
(* file descriptor that was remembered as ready is a registered handler.   *)
THEOREM TypeCorrect == Spec => []TypeOK
<1>1. Inv => TypeOK
  BY DEF Inv
<1> QED  BY <1>1, InvHolds, PTL

(* As long as no call has resumed another's handler, or cancelled the last *)
(* mask of one in its upcall, a handler is in one upcall for its file      *)
(* descriptor at a time.                                                   *)
THEOREM OneUpcall == Spec => []OneUpcallUndisturbed
<1>1. Inv => OneUpcallUndisturbed
  <2> SUFFICES ASSUME Inv, met = {}, NEW t \in Pool, NEW u \in Pool, t # u,
                      upcall[t] # None, upcall[t].kind = "socket",
                      upcall[u] # None, upcall[u].kind = "socket", upcall[t].eh = upcall[u].eh
               PROVE  upcall[t].resumed \/ upcall[u].resumed
    BY Zenon DEF OneUpcallUndisturbed, OneUpcallPerHandler
  <2>1. t \in Threads /\ u \in Threads
    BY DEF Threads
  <2>2. upcall[t].eh \in EventHandlers
    BY <2>1, UpcallFacts, SMT DEF Inv
  <2>3. Within(t, upcall[t].eh) /\ Within(u, upcall[t].eh)
    BY Zenon DEF Within, InSocket
  <2> QED  BY <2>1, <2>2, <2>3, Zenon DEF Inv, OneWithin
<1> QED  BY <1>1, InvHolds, PTL

-----------------------------------------------------------------------------
(* Reference counts.                                                       *)
(*                                                                         *)
(* The uses of a handler are counted kind by kind; a step changes at most  *)
(* one of a kind.                                                          *)

QueuedAt(q, e) == {j \in DOMAIN q : q[j] = e}
EnteredBy(u, e) == {t \in Pool : u[t] # None /\ u[t].kind # "pop" /\ u[t].eh = e}
ExpiredBy(u, e) == {t \in Pool : u[t] # None /\ u[t].kind = "timer" /\ u[t].eh = e}

One(condition) == IF condition THEN 1 ELSE 0
TimerHeld(e) == e \in Timed /\ timer[e] \in {"set", "due"}
Queued(q, e) == Cardinality(QueuedAt(q, e))
Upcalls(u, e) == Cardinality(EnteredBy(u, e)) + Cardinality(ExpiredBy(u, e))

Settled(e) == One(e \in owned) + One(Bound(e)) + One(TimerHeld(e)) + Queued(notify_queue, e)
Count(e) == Settled(e) + Upcalls(upcall, e)
Counted == \A e \in EventHandlers : refs[e] = Count(e)

(* T has the elements of S, each with a tag.                               *)
IsTagged(T, S) ==
    /\ \A y \in T : y[2] \in S
    /\ \A y, z \in T : y[2] = z[2] => y = z
    /\ \A x \in S : \E y \in T : y[2] = x

(* A set with a tag is one.                                                *)
LEMMA Tagging ==
  ASSUME NEW S, NEW tag
  PROVE  IsTagged({<<tag, x>> : x \in S}, S)
<1> DEFINE T == {<<tag, x>> : x \in S}
<1>1. \A y \in T : \E x \in S : y = <<tag, x>>
  OBVIOUS
<1>2. \A x \in S : <<tag, x>> \in T /\ <<tag, x>>[2] = x
  BY SMT
<1> HIDE DEF T
<1>3. \A y \in T : y[2] \in S /\ y = <<tag, y[2]>>
  BY <1>1, SMT
<1>4. IsTagged(T, S)
  BY <1>2, <1>3, Zenon DEF IsTagged
<1> QED  BY <1>4 DEF T

(* A tag makes no difference to how many there are.                        *)
LEMMA Tagged ==
  ASSUME NEW S, IsFiniteSet(S), NEW T, IsTagged(T, S)
  PROVE  IsFiniteSet(T) /\ Cardinality(T) = Cardinality(S)
<1> DEFINE g == [x \in S |-> CHOOSE y \in T : y[2] = x]
<1>1. \A x \in S : g[x] \in T /\ g[x][2] = x
  BY DEF IsTagged
<1> HIDE DEF g
<1>2. g \in [S -> T]
  BY <1>1 DEF g
<1>3. \A x, y \in S : g[x] = g[y] => x = y
  BY <1>1
<1>4. \A y \in T : \E x \in S : g[x] = y
  BY <1>1 DEF IsTagged
<1>5. g \in Bijection(S, T)
  BY <1>2, <1>3, <1>4, Zenon DEF Bijection, Injection, Surjection, IsInjective
<1>6. ExistsBijection(S, T)
  BY <1>5, Zenon DEF ExistsBijection
<1> QED  BY <1>6, FS_Bijection

(* The size of a set of one element at most.                               *)
LEMMA AtMostOne ==
  ASSUME NEW S, NEW x, \A y \in S : y = x
  PROVE  IsFiniteSet(S) /\ Cardinality(S) = One(x \in S)
<1>1. CASE x \in S
  <2>1. S = {x}
    BY <1>1
  <2> QED  BY <1>1, <2>1, FS_Singleton DEF One
<1>2. CASE x \notin S
  <2>1. S = {}
    BY <1>2
  <2> QED  BY <1>2, <2>1, FS_EmptySet DEF One
<1> QED  BY <1>1, <1>2

(* The size of a union of two sets that have nothing in common.            *)
LEMMA Apart ==
  ASSUME NEW S, NEW T, IsFiniteSet(S), IsFiniteSet(T), S \cap T = {}
  PROVE  IsFiniteSet(S \cup T) /\ Cardinality(S \cup T) = Cardinality(S) + Cardinality(T)
<1>1. Cardinality(S \cap T) = 0
  BY FS_EmptySet, Zenon
<1>2. /\ IsFiniteSet(S \cup T)
      /\ Cardinality(S \cup T) = Cardinality(S) + Cardinality(T) - Cardinality(S \cap T)
  BY FS_Union
<1>3. Cardinality(S) \in Nat /\ Cardinality(T) \in Nat
  BY FS_CardinalityType
<1> QED  BY <1>1, <1>2, <1>3, SMT

(* Two sets that differ in one element at most.                            *)
LEMMA OneElement ==
  ASSUME NEW A, NEW B, NEW t, IsFiniteSet(A), \A u : u # t => (u \in A <=> u \in B)
  PROVE  /\ IsFiniteSet(B)
         /\ Cardinality(B) = Cardinality(A) + One(t \in B) - One(t \in A)
<1>1. Cardinality(A) \in Nat
  BY FS_CardinalityType
<1>2. /\ IsFiniteSet(A \ {t}) /\ IsFiniteSet(A \cup {t})
      /\ Cardinality(A \ {t}) = IF t \in A THEN Cardinality(A) - 1 ELSE Cardinality(A)
      /\ Cardinality(A \cup {t}) = IF t \in A THEN Cardinality(A) ELSE Cardinality(A) + 1
  BY FS_AddElement, FS_RemoveElement
<1>3. CASE t \in B
  <2>1. B = A \cup {t}
    BY <1>3
  <2> QED  BY <1>1, <1>2, <1>3, <2>1, SMT DEF One
<1>4. CASE t \notin B
  <2>1. B = A \ {t}
    BY <1>4
  <2> QED  BY <1>1, <1>2, <1>4, <2>1, SMT DEF One
<1> QED  BY <1>3, <1>4

(* Where a handler's notifications are.                                    *)
LEMMA QueuedFinite ==
  ASSUME NEW S, NEW q \in Seq(S), NEW e
  PROVE  IsFiniteSet(QueuedAt(q, e)) /\ Queued(q, e) \in Nat
<1>1. IsFiniteSet(1..Len(q)) /\ QueuedAt(q, e) \in SUBSET (1..Len(q))
  BY FS_Interval, SMT DEF QueuedAt
<1>2. IsFiniteSet(QueuedAt(q, e))
  BY <1>1, FS_Subset
<1> QED  BY <1>2, FS_CardinalityType DEF Queued

(* Who is in an upcall.                                                    *)
LEMMA UpcallsFinite ==
  ASSUME NEW u, NEW e
  PROVE  /\ IsFiniteSet(EnteredBy(u, e)) /\ IsFiniteSet(ExpiredBy(u, e))
         /\ Cardinality(EnteredBy(u, e)) \in Nat /\ Cardinality(ExpiredBy(u, e)) \in Nat
         /\ Upcalls(u, e) \in Nat
<1>1. EnteredBy(u, e) \in SUBSET Pool /\ ExpiredBy(u, e) \in SUBSET Pool
  BY DEF EnteredBy, ExpiredBy
<1>2. IsFiniteSet(EnteredBy(u, e)) /\ IsFiniteSet(ExpiredBy(u, e))
  BY <1>1, FS_Subset, PoolAssumption
<1>3. Cardinality(EnteredBy(u, e)) \in Nat /\ Cardinality(ExpiredBy(u, e)) \in Nat
  BY <1>2, FS_CardinalityType
<1> QED  BY <1>2, <1>3, SMT DEF Upcalls

(* A notification is queued.                                               *)
LEMMA QueuedPush ==
  ASSUME NEW S, NEW q \in Seq(S), NEW x \in S, NEW e
  PROVE  Queued(Append(q, x), e) = Queued(q, e) + One(x = e)
<1> DEFINE r == Append(q, x)
           n == Len(q) + 1
<1>1. n \notin QueuedAt(q, e) /\ (n \in QueuedAt(r, e) <=> x = e)
  BY SMT DEF QueuedAt
<1>2. \A j : j # n => (j \in QueuedAt(q, e) <=> j \in QueuedAt(r, e))
  BY SMT DEF QueuedAt
<1>3. IsFiniteSet(QueuedAt(q, e)) /\ Cardinality(QueuedAt(q, e)) \in Nat
  BY QueuedFinite DEF Queued
<1> HIDE DEF r, n
<1>4. Cardinality(QueuedAt(r, e))
         = Cardinality(QueuedAt(q, e)) + One(n \in QueuedAt(r, e)) - One(n \in QueuedAt(q, e))
  BY <1>2, <1>3, OneElement
<1> QED  BY <1>1, <1>3, <1>4, SMT DEF Queued, One, r

(* A notification leaves the queue, and those behind it move up.           *)
LEMMA QueuedLeave ==
  ASSUME NEW S, NEW q \in Seq(S), NEW r \in Seq(S), NEW i \in 1..Len(q), NEW e,
         Len(r) = Len(q) - 1,
         \A j \in 1..Len(r) : r[j] = IF j < i THEN q[j] ELSE q[j + 1]
  PROVE  Queued(r, e) = Queued(q, e) - One(q[i] = e)
<1> DEFINE Q == QueuedAt(q, e)
           R == QueuedAt(r, e)
           f == [j \in Q \ {i} |-> IF j < i THEN j ELSE j - 1]
<1>1. \A j : /\ j \in Q <=> j \in 1..Len(q) /\ q[j] = e
             /\ j \in R <=> j \in 1..Len(r) /\ r[j] = e
  BY SMT DEF QueuedAt
<1>2. IsFiniteSet(Q) /\ Cardinality(Q) \in Nat
  BY QueuedFinite DEF Queued
<1> HIDE DEF Q, R
<1>7. Len(q) \in Nat /\ Len(r) \in Nat /\ i \in Int
  BY SMT
<1>3. f \in Bijection(Q \ {i}, R)
  <2>1. f \in [Q \ {i} -> R]
    <3>1. ASSUME NEW x \in Q \ {i} PROVE (IF x < i THEN x ELSE x - 1) \in R
      <4>1. CASE x < i
        BY <1>1, <1>7, <4>1, SMT
      <4>2. CASE ~(x < i)
        <5>1. x - 1 \in 1..Len(r) /\ ~(x - 1 < i) /\ (x - 1) + 1 = x
          BY <1>1, <1>7, <4>2, SMT
        <5>2. r[x - 1] = q[x]
          BY <5>1
        <5>3. x - 1 \in R
          BY <1>1, <5>1, <5>2
        <5> QED  BY <4>2, <5>3
      <4> QED  BY <4>1, <4>2
    <3> QED  BY <3>1
  <2>2. \A x, y \in Q \ {i} : f[x] = f[y] => x = y
    BY <1>1, SMT
  <2>3. \A y \in R : \E x \in Q \ {i} : f[x] = y
    <3> SUFFICES ASSUME NEW y \in R PROVE \E x \in Q \ {i} : f[x] = y
      OBVIOUS
    <3>1. CASE y < i
      <4>1. y \in Q \ {i} /\ f[y] = y
        BY <1>1, <3>1, SMT
      <4> QED  BY <4>1
    <3>2. CASE ~(y < i)
      <4>1. y + 1 \in Q \ {i} /\ ~(y + 1 < i) /\ (y + 1) - 1 = y
        BY <1>1, <1>7, <3>2, SMT
      <4>2. f[y + 1] = y
        BY <4>1, SMT
      <4> QED  BY <4>1, <4>2
    <3> QED  BY <3>1, <3>2
  <2> QED  BY <2>1, <2>2, <2>3, Zenon DEF Bijection, Injection, Surjection, IsInjective
<1>4. /\ IsFiniteSet(Q \ {i})
      /\ Cardinality(Q \ {i}) = IF i \in Q THEN Cardinality(Q) - 1 ELSE Cardinality(Q)
  BY <1>2, FS_RemoveElement
<1>5. Cardinality(R) = Cardinality(Q \ {i})
  <2>1. ExistsBijection(Q \ {i}, R)
    BY <1>3, Zenon DEF ExistsBijection
  <2> QED  BY <1>4, <2>1, FS_Bijection
<1>6. i \in Q <=> q[i] = e
  BY <1>1
<1> QED  BY <1>2, <1>4, <1>5, <1>6, SMT DEF Queued, One, Q, R

(* The first notification is taken.                                        *)
LEMMA QueuedTail ==
  ASSUME NEW S, NEW q \in Seq(S), q # <<>>, NEW e
  PROVE  Queued(Tail(q), e) = Queued(q, e) - One(Head(q) = e)
<1> DEFINE r == Tail(q)
<1>1. /\ r \in Seq(S) /\ 1 \in 1..Len(q) /\ Len(r) = Len(q) - 1 /\ q[1] = Head(q)
      /\ \A j \in 1..Len(r) : r[j] = IF j < 1 THEN q[j] ELSE q[j + 1]
  BY SMT
<1> HIDE DEF r
<1>2. Queued(r, e) = Queued(q, e) - One(q[1] = e)
  BY <1>1, QueuedLeave
<1> QED  BY <1>1, <1>2 DEF r

(* Any notification is taken.                                              *)
LEMMA QueuedTaken ==
  ASSUME NEW S, NEW q \in Seq(S), NEW i \in 1..Len(q), NEW e
  PROVE  Queued(SubSeq(q, 1, i - 1) \o SubSeq(q, i + 1, Len(q)), e) = Queued(q, e) - One(q[i] = e)
<1> DEFINE n == Len(q)
           a == SubSeq(q, 1, i - 1)
           b == SubSeq(q, i + 1, n)
           r == a \o b
<1>1. n \in Nat /\ i \in 1..n
  OBVIOUS
<1>2. /\ a \in Seq(S) /\ Len(a) = i - 1
      /\ \A j \in 1..(i - 1) : a[j] = q[j]
  BY SMT
<1>3. /\ b \in Seq(S) /\ Len(b) = n - i
      /\ \A j \in 1..(n - i) : b[j] = q[j + i]
  BY SMT
<1> HIDE DEF a, b, n
<1>4. /\ r \in Seq(S) /\ Len(r) = Len(a) + Len(b)
      /\ \A j \in 1..(Len(a) + Len(b)) : r[j] = IF j <= Len(a) THEN a[j] ELSE b[j - Len(a)]
  BY <1>2, <1>3, ConcatProperties
<1> HIDE DEF r
<1>5. ASSUME NEW j \in 1..Len(r) PROVE r[j] = IF j < i THEN q[j] ELSE q[j + 1]
  <2>1. CASE j < i
    BY <1>1, <1>2, <1>3, <1>4, <2>1, SMT
  <2>2. CASE ~(j < i)
    <3>1. j - (i - 1) \in 1..(n - i) /\ (j - (i - 1)) + i = j + 1
      BY <1>1, <1>2, <1>3, <1>4, <2>2, SMT
    <3>2. b[j - (i - 1)] = q[j + 1]
      BY <1>3, <3>1, SMT
    <3>3. r[j] = b[j - (i - 1)]
      BY <1>1, <1>2, <1>3, <1>4, <2>2, SMT
    <3> QED  BY <2>2, <3>2, <3>3
  <2> QED  BY <2>1, <2>2
<1>6. Len(r) = Len(q) - 1
  BY <1>1, <1>2, <1>3, <1>4, SMT DEF n
<1>7. Queued(r, e) = Queued(q, e) - One(q[i] = e)
  <2>1. \A j \in 1..Len(r) : r[j] = IF j < i THEN q[j] ELSE q[j + 1]
    BY <1>5
  <2>2. r \in Seq(S) /\ i \in 1..Len(q)
    BY <1>1, <1>4 DEF n
  <2> QED  BY <1>6, <2>1, <2>2, QueuedLeave
<1> QED  BY <1>7 DEF r, a, b, n

(* What an upcall holds: a reference, and the one of its timer.            *)
Holds(c, e) == One(c # None /\ c.kind # "pop" /\ c.eh = e)
               + One(c # None /\ c.kind = "timer" /\ c.eh = e)

(* One thread's upcall begins, changes or ends.                            *)
LEMMA UpcallChanges ==
  ASSUME NEW u \in [Threads -> Upcall \cup {None}], NEW t \in Pool, NEW c, NEW e
  PROVE  Upcalls([u EXCEPT ![t] = c], e) = Upcalls(u, e) + Holds(c, e) - Holds(u[t], e)
<1> DEFINE v == [u EXCEPT ![t] = c]
<1>1. t \in Threads /\ \A x \in Pool : v[x] = IF x = t THEN c ELSE u[x]
  BY SMT DEF Threads
<1> HIDE DEF v
<1>2. Cardinality(EnteredBy(v, e)) = Cardinality(EnteredBy(u, e))
         + One(c # None /\ c.kind # "pop" /\ c.eh = e)
         - One(u[t] # None /\ u[t].kind # "pop" /\ u[t].eh = e)
  <2>1. \A x : x # t => (x \in EnteredBy(u, e) <=> x \in EnteredBy(v, e))
    BY <1>1, SMT DEF EnteredBy
  <2>2. /\ t \in EnteredBy(v, e) <=> c # None /\ c.kind # "pop" /\ c.eh = e
        /\ t \in EnteredBy(u, e) <=> u[t] # None /\ u[t].kind # "pop" /\ u[t].eh = e
    BY <1>1, SMT DEF EnteredBy
  <2>3. Cardinality(EnteredBy(v, e)) = Cardinality(EnteredBy(u, e))
           + One(t \in EnteredBy(v, e)) - One(t \in EnteredBy(u, e))
    BY <2>1, UpcallsFinite, OneElement
  <2> QED  BY <2>2, <2>3, Zenon DEF One
<1>3. Cardinality(ExpiredBy(v, e)) = Cardinality(ExpiredBy(u, e))
         + One(c # None /\ c.kind = "timer" /\ c.eh = e)
         - One(u[t] # None /\ u[t].kind = "timer" /\ u[t].eh = e)
  <2>1. \A x : x # t => (x \in ExpiredBy(u, e) <=> x \in ExpiredBy(v, e))
    BY <1>1, SMT DEF ExpiredBy
  <2>2. /\ t \in ExpiredBy(v, e) <=> c # None /\ c.kind = "timer" /\ c.eh = e
        /\ t \in ExpiredBy(u, e) <=> u[t] # None /\ u[t].kind = "timer" /\ u[t].eh = e
    BY <1>1, SMT DEF ExpiredBy
  <2>3. Cardinality(ExpiredBy(v, e)) = Cardinality(ExpiredBy(u, e))
           + One(t \in ExpiredBy(v, e)) - One(t \in ExpiredBy(u, e))
    BY <2>1, UpcallsFinite, OneElement
  <2> QED  BY <2>2, <2>3, Zenon DEF One
<1>4. /\ Cardinality(EnteredBy(u, e)) \in Nat /\ Cardinality(ExpiredBy(u, e)) \in Nat
      /\ Cardinality(EnteredBy(v, e)) \in Nat /\ Cardinality(ExpiredBy(v, e)) \in Nat
  BY UpcallsFinite
<1>5. \A b : One(b) \in {0, 1}
  BY DEF One
<1>6. Upcalls(v, e) = Upcalls(u, e) + Holds(c, e) - Holds(u[t], e)
  BY <1>2, <1>3, <1>4, <1>5, SMT DEF Upcalls, Holds
<1> QED  BY <1>6 DEF v

(* The set of a handler's uses is counted kind by kind.                    *)
LEMMA UsesCounted ==
  ASSUME TypeOK, HandlesAgree, NEW e \in EventHandlers
  PROVE  Cardinality(Uses(e)) = Count(e)
<1> USE TPReactorAssumption
<1> DEFINE owner == owned \cap {e}
           bound == {x \in Handles : event_handlers[x] = e}
           timed == {x \in Timed \cap {e} : timer[x] \in {"set", "due"}}
           expired == {u \in InHandler(e) : upcall[u].kind = "timer"}
           O == {<<"owner", x>> : x \in owner}
           B == {<<"bound", x>> : x \in bound}
           T == {<<"timer", x>> : x \in timed}
           Q == {<<"queue", x>> : x \in QueuedAt(notify_queue, e)}
           U == {<<"upcall", x>> : x \in InHandler(e)}
           X == {<<"expired", x>> : x \in expired}
<1>0. /\ IsTagged(O, owner) /\ IsTagged(B, bound) /\ IsTagged(T, timed)
      /\ IsTagged(Q, QueuedAt(notify_queue, e))
      /\ IsTagged(U, InHandler(e)) /\ IsTagged(X, expired)
  <2> HIDE DEF owner, bound, timed, expired
  <2> QED  BY Tagging
<1>8. /\ \A x \in O : x[1] = "owner"
      /\ \A x \in B : x[1] = "bound"
      /\ \A x \in T : x[1] = "timer"
      /\ \A x \in Q : x[1] = "queue"
      /\ \A x \in U : x[1] = "upcall"
      /\ \A x \in X : x[1] = "expired"
  <2> HIDE DEF owner, bound, timed, expired
  <2> QED  BY SMT
<1>9. Uses(e) = O \cup B \cup T \cup Q \cup U \cup X
  BY Zenon DEF Uses, QueuedAt
<1> HIDE DEF O, B, T, Q, U, X
<1>1. IsFiniteSet(O) /\ Cardinality(O) = One(e \in owned)
  <2>1. (\A x \in owner : x = e) /\ (e \in owner <=> e \in owned)
    OBVIOUS
  <2> HIDE DEF owner
  <2>2. IsFiniteSet(owner) /\ Cardinality(owner) = One(e \in owner)
    BY <2>1, AtMostOne
  <2>3. One(e \in owner) = One(e \in owned)
    BY <2>1, Zenon DEF One
  <2> QED  BY <1>0, <2>2, <2>3, Tagged
<1>2. IsFiniteSet(B) /\ Cardinality(B) = One(Bound(e))
  <2>1. (\A x \in bound : x = Handle[e]) /\ (Handle[e] \in bound <=> Bound(e))
    <3>1. \A x \in Handles : event_handlers[x] = e => x = Handle[e]
      BY Zenon DEF HandlesAgree
    <3> QED  BY <3>1, BitFacts, Zenon DEF Bound
  <2> HIDE DEF bound
  <2>2. IsFiniteSet(bound) /\ Cardinality(bound) = One(Handle[e] \in bound)
    BY <2>1, AtMostOne
  <2>3. One(Handle[e] \in bound) = One(Bound(e))
    BY <2>1, Zenon DEF One
  <2> QED  BY <1>0, <2>2, <2>3, Tagged
<1>3. IsFiniteSet(T) /\ Cardinality(T) = One(TimerHeld(e))
  <2>1. (\A x \in timed : x = e) /\ (e \in timed <=> TimerHeld(e))
    BY Zenon DEF TimerHeld
  <2> HIDE DEF timed
  <2>2. IsFiniteSet(timed) /\ Cardinality(timed) = One(e \in timed)
    BY <2>1, AtMostOne
  <2>3. One(e \in timed) = One(TimerHeld(e))
    BY <2>1, Zenon DEF One
  <2> QED  BY <1>0, <2>2, <2>3, Tagged
<1>4. IsFiniteSet(Q) /\ Cardinality(Q) = Queued(notify_queue, e)
  <2>1. IsFiniteSet(QueuedAt(notify_queue, e))
    BY QueuedFinite DEF TypeOK
  <2> QED  BY <1>0, <2>1, Tagged DEF Queued
<1>5. InHandler(e) = EnteredBy(upcall, e)
  BY Zenon DEF InHandler, EnteredBy, Popping
<1>6. IsFiniteSet(U) /\ Cardinality(U) = Cardinality(EnteredBy(upcall, e))
  <2>1. IsFiniteSet(InHandler(e))
    BY <1>5, UpcallsFinite
  <2> QED  BY <1>0, <1>5, <2>1, Tagged
<1>7. IsFiniteSet(X) /\ Cardinality(X) = Cardinality(ExpiredBy(upcall, e))
  <2>1. expired = ExpiredBy(upcall, e)
    BY <1>5, SMT DEF EnteredBy, ExpiredBy
  <2> HIDE DEF expired
  <2>2. IsFiniteSet(expired)
    BY <2>1, UpcallsFinite
  <2> QED  BY <1>0, <2>1, <2>2, Tagged
<1>10. IsFiniteSet(O \cup B) /\ Cardinality(O \cup B) = Cardinality(O) + Cardinality(B)
  <2>1. O \cap B = {}
    BY <1>8
  <2> QED  BY <1>1, <1>2, <2>1, Apart
<1>11. /\ IsFiniteSet(O \cup B \cup T)
       /\ Cardinality(O \cup B \cup T) = Cardinality(O \cup B) + Cardinality(T)
  <2>1. (O \cup B) \cap T = {}
    BY <1>8
  <2> QED  BY <1>3, <1>10, <2>1, Apart
<1>12. /\ IsFiniteSet(O \cup B \cup T \cup Q)
       /\ Cardinality(O \cup B \cup T \cup Q) = Cardinality(O \cup B \cup T) + Cardinality(Q)
  <2>1. (O \cup B \cup T) \cap Q = {}
    BY <1>8
  <2> QED  BY <1>4, <1>11, <2>1, Apart
<1>13. /\ IsFiniteSet(O \cup B \cup T \cup Q \cup U)
       /\ Cardinality(O \cup B \cup T \cup Q \cup U)
             = Cardinality(O \cup B \cup T \cup Q) + Cardinality(U)
  <2>1. (O \cup B \cup T \cup Q) \cap U = {}
    BY <1>8
  <2> QED  BY <1>6, <1>12, <2>1, Apart
<1>14. Cardinality(O \cup B \cup T \cup Q \cup U \cup X)
             = Cardinality(O \cup B \cup T \cup Q \cup U) + Cardinality(X)
  <2>1. (O \cup B \cup T \cup Q \cup U) \cap X = {}
    BY <1>8
  <2> QED  BY <1>7, <1>13, <2>1, Apart
<1>15. /\ Queued(notify_queue, e) \in Nat
       /\ Cardinality(EnteredBy(upcall, e)) \in Nat /\ Cardinality(ExpiredBy(upcall, e)) \in Nat
       /\ \A b : One(b) \in Nat
  BY QueuedFinite, UpcallsFinite DEF TypeOK, One
<1> QED
  BY <1>1, <1>2, <1>3, <1>4, <1>6, <1>7, <1>9, <1>10, <1>11, <1>12, <1>13, <1>14, <1>15, SMT
     DEF Count, Settled, Upcalls

(* The counts are numbers.                                                 *)
LEMMA CountTypes ==
  ASSUME TypeOK, NEW e \in EventHandlers
  PROVE  /\ refs[e] \in Int /\ Settled(e) \in Nat /\ Upcalls(upcall, e) \in Nat
         /\ Queued(notify_queue, e) \in Nat
<1>1. /\ Queued(notify_queue, e) \in Nat /\ Upcalls(upcall, e) \in Nat
      /\ \A b : One(b) \in Nat
  BY QueuedFinite, UpcallsFinite DEF TypeOK, One
<1>2. refs[e] \in Int
  BY SMT DEF TypeOK
<1> QED  BY <1>1, <1>2, SMT DEF Settled

(* The counts stay right when references and uses change alike: no upcall  *)
(* begins or ends,                                                         *)
LEMMA CountedSettled ==
  ASSUME TypeOK, TypeOK', Counted, UNCHANGED upcall,
         \A e \in EventHandlers : refs'[e] - refs[e] = Settled(e)' - Settled(e)
  PROVE  Counted'
<1> SUFFICES ASSUME NEW e \in EventHandlers PROVE refs'[e] = Count(e)'
  BY DEF Counted
<1>1. refs[e] = Settled(e) + Upcalls(upcall, e)
  BY DEF Counted, Count
<1>2. refs'[e] \in Int /\ Settled(e)' \in Nat
  <2>1. /\ refs' \in [EventHandlers -> Int]
        /\ notify_queue' \in Seq(EventHandlers \cup {None})
    BY Zenon DEF TypeOK
  <2>2. Queued(notify_queue', e) \in Nat
    BY <2>1, QueuedFinite
  <2>3. \A b : One(b) \in Nat
    BY DEF One
  <2>4. Settled(e)' \in Nat
    BY <2>2, <2>3, SMT DEF Settled
  <2> QED  BY <2>1, <2>4
<1>3. refs'[e] = Settled(e)' + Upcalls(upcall, e)
  BY <1>1, <1>2, CountTypes, SMT
<1> QED  BY <1>3 DEF Count

(* or one does.                                                            *)
LEMMA CountedUpcall ==
  ASSUME TypeOK, TypeOK', Counted, NEW t \in Pool, NEW c, upcall' = [upcall EXCEPT ![t] = c],
         \A e \in EventHandlers :
             refs'[e] - refs[e] = Settled(e)' - Settled(e) + Holds(c, e) - Holds(upcall[t], e)
  PROVE  Counted'
<1> SUFFICES ASSUME NEW e \in EventHandlers PROVE refs'[e] = Count(e)'
  BY DEF Counted
<1>1. refs[e] = Settled(e) + Upcalls(upcall, e)
  BY DEF Counted, Count
<1>2. refs'[e] \in Int /\ Settled(e)' \in Nat
  <2>1. /\ refs' \in [EventHandlers -> Int]
        /\ notify_queue' \in Seq(EventHandlers \cup {None})
    BY Zenon DEF TypeOK
  <2>2. Queued(notify_queue', e) \in Nat
    BY <2>1, QueuedFinite
  <2>3. \A b : One(b) \in Nat
    BY DEF One
  <2>4. Settled(e)' \in Nat
    BY <2>2, <2>3, SMT DEF Settled
  <2> QED  BY <2>1, <2>4
<1>3. Upcalls(upcall', e) = Upcalls(upcall, e) + Holds(c, e) - Holds(upcall[t], e)
  <2>1. upcall \in [Threads -> Upcall \cup {None}]
    BY DEF TypeOK
  <2>2. Upcalls([upcall EXCEPT ![t] = c], e)
           = Upcalls(upcall, e) + Holds(c, e) - Holds(upcall[t], e)
    BY <2>1, UpcallChanges
  <2> QED  BY <2>2
<1>4. Holds(c, e) \in Nat /\ Holds(upcall[t], e) \in Nat
  BY SMT DEF Holds, One
<1>5. refs'[e] = Settled(e)' + Upcalls(upcall', e)
  BY <1>1, <1>2, <1>3, <1>4, CountTypes, SMT
<1> QED  BY <1>5 DEF Count

(* A notification is queued.                                               *)
LEMMA PushCounts ==
  ASSUME TypeOK, NEW x \in EventHandlers \cup {None}, push_new_notification(x), NEW e
  PROVE  Queued(notify_queue, e)' = Queued(notify_queue, e) + One(x = e)
<1>1. notify_queue' = Append(notify_queue, x)
  BY DEF push_new_notification
<1> QED  BY <1>1, QueuedPush DEF TypeOK

(* Waking whoever selects is no use of a handler.                          *)
LEMMA SleepCounts ==
  ASSUME TypeOK, sleep_hook, NEW e \in EventHandlers
  PROVE  Queued(notify_queue, e)' = Queued(notify_queue, e)
<1>1. CASE token = None
  <2>1. notify_queue' = notify_queue
    BY <1>1, Zenon DEF sleep_hook, notifications
  <2> QED  BY <2>1
<1>2. CASE token # None
  <2>1. push_new_notification(None)
    BY <1>2, Zenon DEF sleep_hook
  <2>2. None # e
    BY TPReactorAssumption
  <2>3. Queued(notify_queue, e)' = Queued(notify_queue, e) + One(None = e)
    BY <2>1, PushCounts
  <2> QED  BY <2>2, <2>3, CountTypes, SMT DEF One
<1> QED  BY <1>1, <1>2

(* A thread asks for the token.                                            *)
LEMMA AskCounts ==
  ASSUME TypeOK, TypeOK', Counted, sleep_hook,
         UNCHANGED <<upcall, event_handlers, refs, owned, timer>>
  PROVE  Counted'
<1>1. ASSUME NEW e \in EventHandlers PROVE refs'[e] - refs[e] = Settled(e)' - Settled(e)
  <2>1. /\ (e \in owned)' <=> e \in owned
        /\ Bound(e)' <=> Bound(e)
        /\ TimerHeld(e)' <=> TimerHeld(e)
    BY SMT DEF Bound, TimerHeld
  <2>2. Settled(e)' = Settled(e)
    BY <2>1, SleepCounts, SMT DEF Settled, One
  <2> QED  BY <2>2, CountTypes, SMT
<1> QED  BY <1>1, CountedSettled

(* A handler that is unbound loses the reference of the repository.        *)
LEMMA UnbindCounts ==
  ASSUME TypeOK, NEW e \in EventHandlers, Bound(e), NEW go, NEW held \in Int,
         unbind(Handle[e], go, held)
  PROVE  \A f \in EventHandlers :
             refs'[f] - refs[f] = One(Bound(f)') - One(Bound(f)) - IF f = e THEN held ELSE 0
<1> SUFFICES ASSUME NEW f \in EventHandlers
             PROVE  refs'[f] - refs[f] = One(Bound(f)') - One(Bound(f)) - IF f = e THEN held ELSE 0
  OBVIOUS
<1> DEFINE h == Handle[e]
           complete == of_handle(h, wait_set \cup suspend_set) \subseteq go
<1>1. h \in Handles /\ event_handlers[h] = e /\ None \notin EventHandlers /\ Handle[f] \in Handles
  BY BitFacts, TPReactorAssumption DEF Bound
<1>2. /\ event_handlers' = [event_handlers EXCEPT ![h] = IF complete THEN None ELSE @]
      /\ refs' = [refs EXCEPT ![e] = @ - held - (IF complete THEN 1 ELSE 0)]
  BY <1>1, Zenon DEF unbind
<1> HIDE DEF h, complete
<1>3. refs \in [EventHandlers -> Int] /\ event_handlers \in [Handles -> EventHandlers \cup {None}]
  BY DEF TypeOK
<1>4. CASE f = e
  <2>1. refs'[f] = refs[f] - held - (IF complete THEN 1 ELSE 0)
    BY <1>2, <1>3, <1>4, SMT
  <2>2. Bound(f) /\ (Bound(f)' <=> ~complete)
    BY <1>1, <1>2, <1>3, <1>4, SMT DEF Bound, h
  <2> QED  BY <1>3, <1>4, <2>1, <2>2, SMT DEF One
<1>5. CASE f # e
  <2>1. refs'[f] = refs[f]
    BY <1>2, <1>3, <1>5, SMT
  <2>2. Bound(f)' <=> Bound(f)
    BY <1>1, <1>2, <1>3, <1>5, SMT DEF Bound
  <2> QED  BY <1>3, <1>5, <2>1, <2>2, SMT DEF One
<1> QED  BY <1>4, <1>5

(* What the kinds of upcalls hold.                                         *)
LEMMA HoldsOf ==
  ASSUME NEW e
  PROVE  /\ Holds(None, e) = 0
         /\ \A c \in Upcall :
               /\ c.kind = "pop" => Holds(c, e) = 0
               /\ c.kind = "timer" => Holds(c, e) = IF c.eh = e THEN 2 ELSE 0
               /\ c.kind \in {"socket", "notify"} => Holds(c, e) = IF c.eh = e THEN 1 ELSE 0
<1>1. Holds(None, e) = 0
  BY SMT DEF Holds, One
<1>2. \A c \in Upcall : c # None
  BY NoneAssumption
<1> QED  BY <1>1, <1>2, SMT DEF Holds, One

(* A step that leaves a handler's settled uses alone.                      *)
LEMMA SettledKept ==
  ASSUME UNCHANGED <<owned, event_handlers, timer, notify_queue>>, NEW e
  PROVE  Settled(e)' = Settled(e)
<1>1. /\ (e \in owned)' <=> e \in owned
      /\ Bound(e)' <=> Bound(e)
      /\ TimerHeld(e)' <=> TimerHeld(e)
      /\ Queued(notify_queue, e)' = Queued(notify_queue, e)
  BY SMT DEF Bound, TimerHeld
<1> QED  BY <1>1, Zenon DEF Settled, One

(* A timer's reference becomes one of two that its upcall holds.           *)
LEMMA CountTimer ==
  ASSUME TypeOK, TypeOK', Counted, SelectorIsFree, NEW t \in Pool, NEW e \in Timed,
         handle_timer_events(t, e)
  PROVE  Counted'
<1> DEFINE c == [kind |-> "timer", eh |-> e]
<1>1. t \in Threads /\ upcall[t] = None /\ e \in EventHandlers
  BY TPReactorAssumption, SMT DEF Threads, SelectorIsFree, handle_timer_events
<1>2. c \in Upcall /\ c.kind = "timer" /\ c.eh = e
  BY <1>1, SMT DEF Upcall
<1>3. /\ upcall' = [upcall EXCEPT ![t] = c]
      /\ refs' = [refs EXCEPT ![e] = @ + 1]
      /\ timer[e] = "due" /\ timer' = [timer EXCEPT ![e] = "gone"]
      /\ UNCHANGED <<owned, event_handlers, notify_queue>>
  BY Zenon DEF handle_timer_events, handlers, notifications
<1> HIDE DEF c
<1>4. ASSUME NEW f \in EventHandlers
      PROVE  refs'[f] - refs[f]
                = Settled(f)' - Settled(f) + Holds(c, f) - Holds(upcall[t], f)
  <2>1. /\ (f \in owned)' <=> f \in owned
        /\ Bound(f)' <=> Bound(f)
        /\ Queued(notify_queue, f)' = Queued(notify_queue, f)
    BY <1>3, SMT DEF Bound
  <2>2. Holds(c, f) = (IF e = f THEN 2 ELSE 0) /\ Holds(upcall[t], f) = 0
    BY <1>1, <1>2, HoldsOf
  <2>3. refs'[f] = IF f = e THEN refs[f] + 1 ELSE refs[f]
    BY <1>1, <1>3, SMT DEF TypeOK
  <2>4. /\ f = e => TimerHeld(f) /\ ~TimerHeld(f)'
        /\ f # e => (TimerHeld(f)' <=> TimerHeld(f))
    BY <1>3, SMT DEF TimerHeld, TypeOK
  <2>5. refs[f] \in Int /\ Queued(notify_queue, f) \in Nat
    BY CountTypes
  <2>6. CASE f = e
    <3>1. Settled(f)' = Settled(f) - 1
      BY <2>1, <2>4, <2>5, <2>6, SMT DEF Settled, One
    <3> QED  BY <2>2, <2>3, <2>5, <2>6, <3>1, CountTypes, SMT
  <2>7. CASE f # e
    <3>1. Settled(f)' = Settled(f)
      BY <2>1, <2>4, <2>7, Zenon DEF Settled, One
    <3> QED  BY <2>2, <2>3, <2>5, <2>7, <3>1, CountTypes, SMT
  <2> QED  BY <2>6, <2>7
<1> QED  BY <1>3, <1>4, CountedUpcall

(* A message is read from the pipe.                                        *)
LEMMA CountPop ==
  ASSUME TypeOK, TypeOK', Counted, SelectorIsFree, NEW t \in Pool, handle_notify_events(t)
  PROVE  Counted'
<1> DEFINE c == [kind |-> "pop"]
<1>1. t \in Threads /\ upcall[t] = None
  BY TPReactorAssumption, SMT DEF Threads, SelectorIsFree, handle_notify_events
<1>2. c \in Upcall /\ c.kind = "pop"
  BY SMT DEF Upcall
<1>3. /\ upcall' = [upcall EXCEPT ![t] = c]
      /\ UNCHANGED <<refs, owned, event_handlers, timer, notify_queue>>
  BY Zenon DEF handle_notify_events, handlers
<1> HIDE DEF c
<1>4. ASSUME NEW f \in EventHandlers
      PROVE  refs'[f] - refs[f]
                = Settled(f)' - Settled(f) + Holds(c, f) - Holds(upcall[t], f)
  <2>1. Holds(c, f) = 0 /\ Holds(upcall[t], f) = 0
    BY <1>1, <1>2, HoldsOf
  <2>2. Settled(f)' = Settled(f)
    BY <1>3, SettledKept
  <2> QED  BY <1>3, <2>1, <2>2, CountTypes, SMT
<1> QED  BY <1>3, <1>4, CountedUpcall

(* The reference of a notification becomes that of its upcall.             *)
LEMMA CountNotify ==
  ASSUME TypeOK, TypeOK', Counted, NEW t \in Pool, dispatch_notify(t)
  PROVE  Counted'
<1>1. t \in Threads /\ upcall[t] \in Upcall /\ upcall[t].kind = "pop"
  BY UpcallFacts, SMT DEF Threads, dispatch_notify, Popping
<1>2. UNCHANGED <<refs, owned, event_handlers, timer>>
  BY Zenon DEF dispatch_notify, handlers
<1>3. \A f : Holds(upcall[t], f) = 0
  BY <1>1, HoldsOf
<1>4. CASE notify_queue = <<>>
  <2>1. upcall' = [upcall EXCEPT ![t] = None] /\ UNCHANGED notify_queue
    BY <1>4, Zenon DEF dispatch_notify, notifications
  <2>2. ASSUME NEW f \in EventHandlers
        PROVE  refs'[f] - refs[f]
                  = Settled(f)' - Settled(f) + Holds(None, f) - Holds(upcall[t], f)
    <3>1. Settled(f)' = Settled(f) /\ Holds(None, f) = 0
      BY <1>2, <2>1, SettledKept, HoldsOf
    <3> QED  BY <1>2, <1>3, <3>1, CountTypes, SMT
  <2> QED  BY <2>1, <2>2, CountedUpcall
<1>5. CASE notify_queue # <<>>
  <2> DEFINE x == Head(notify_queue)
             c == IF x = None THEN None ELSE [kind |-> "notify", eh |-> x]
  <2>1. notify_queue' = Tail(notify_queue) /\ upcall' = [upcall EXCEPT ![t] = c]
    BY <1>5, Zenon DEF dispatch_notify
  <2>2. x \in EventHandlers \cup {None}
    BY <1>5, SMT DEF TypeOK
  <2>3. ASSUME NEW f \in EventHandlers PROVE Holds(c, f) = One(x = f)
    <3>1. CASE x = None
      <4>1. c = None /\ x # f
        BY <3>1, TPReactorAssumption
      <4> QED  BY <4>1, HoldsOf DEF One
    <3>2. CASE x # None
      <4>1. c = [kind |-> "notify", eh |-> x]
        BY <3>2
      <4>2. c \in Upcall /\ c.kind = "notify" /\ c.eh = x
        BY <2>2, <3>2, <4>1, SMT DEF Upcall
      <4> HIDE DEF c
      <4>3. Holds(c, f) = IF c.eh = f THEN 1 ELSE 0
        BY <4>2, HoldsOf
      <4> QED  BY <4>2, <4>3 DEF One
    <3> QED  BY <3>1, <3>2
  <2> HIDE DEF x, c
  <2>4. ASSUME NEW f \in EventHandlers
        PROVE  refs'[f] - refs[f]
                  = Settled(f)' - Settled(f) + Holds(c, f) - Holds(upcall[t], f)
    <3>1. Queued(notify_queue', f) = Queued(notify_queue, f) - One(x = f)
      <4>1. notify_queue \in Seq(EventHandlers \cup {None})
        BY DEF TypeOK
      <4> QED  BY <1>5, <2>1, <4>1, QueuedTail DEF x
    <3>2. /\ (f \in owned)' <=> f \in owned
          /\ Bound(f)' <=> Bound(f)
          /\ TimerHeld(f)' <=> TimerHeld(f)
      BY <1>2, SMT DEF Bound, TimerHeld
    <3>3. Settled(f)' = Settled(f) - One(x = f)
      <4>1. One(x = f) \in Nat /\ Queued(notify_queue, f) \in Nat
        BY CountTypes DEF One
      <4> QED  BY <3>1, <3>2, <4>1, SMT DEF Settled, One
    <3>4. One(x = f) \in Nat
      BY DEF One
    <3> QED  BY <1>2, <1>3, <2>3, <3>3, <3>4, CountTypes, SMT
  <2> QED  BY <2>1, <2>4, CountedUpcall
<1> QED  BY <1>4, <1>5

(* Who enters a handler for its file descriptor takes a reference.         *)
LEMMA CountEntry ==
  ASSUME TypeOK, TypeOK', Counted, ReadyIsWanted, EventsBound, SelectorIsFree,
         NEW t \in Pool, handle_socket_events(t)
  PROVE  Counted'
<1>1. PICK b \in candidates :
         /\ refs' = [refs EXCEPT ![event_handlers[b[1]]] = @ + 1]
         /\ upcall' = [upcall EXCEPT ![t] = [kind |-> "socket", mask |-> b[2],
                eh |-> event_handlers[b[1]], resumed |-> FALSE]]
  BY Zenon DEF handle_socket_events
<1> DEFINE e == event_handlers[b[1]]
           c == [kind |-> "socket", mask |-> b[2], eh |-> e, resumed |-> FALSE]
<1>2. t \in Threads /\ upcall[t] = None
  BY TPReactorAssumption, SMT DEF Threads, SelectorIsFree, handle_socket_events
<1>3. b \in wait_set /\ e # None
  <2>1. b # PipeBit /\ b \in dispatch_set
    BY SMT DEF handle_socket_events, candidates
  <2> QED  BY <2>1, DispatchSet, DispatchBound, SMT
<1>4. e \in EventHandlers /\ b[2] \in {"READ", "WRITE"}
  BY <1>3, BitFacts, SMT DEF TypeOK
<1>5. c \in Upcall /\ c.kind = "socket" /\ c.eh = e
  BY <1>4, SMT DEF Upcall
<1>6. UNCHANGED <<owned, event_handlers, timer, notify_queue>>
  BY Zenon DEF handle_socket_events, notifications
<1> HIDE DEF c, e
<1>7. ASSUME NEW f \in EventHandlers
      PROVE  refs'[f] - refs[f]
                = Settled(f)' - Settled(f) + Holds(c, f) - Holds(upcall[t], f)
  <2>1. Settled(f)' = Settled(f)
    BY <1>6, SettledKept
  <2>2. Holds(c, f) = (IF e = f THEN 1 ELSE 0) /\ Holds(upcall[t], f) = 0
    BY <1>2, <1>5, HoldsOf
  <2>3. refs'[f] = IF f = e THEN refs[f] + 1 ELSE refs[f]
    BY <1>1, <1>4, SMT DEF TypeOK, e
  <2> QED  BY <2>1, <2>2, <2>3, CountTypes, SMT
<1>8. upcall' = [upcall EXCEPT ![t] = c]
  BY <1>1 DEF c, e
<1> QED  BY <1>7, <1>8, CountedUpcall

(* What an upcall holds is released when it ends.                          *)
LEMMA CountEnd ==
  ASSUME TypeOK, TypeOK', Counted, NEW t \in Pool, InUpcall(t), upcall_ends(t)
  PROVE  Counted'
<1> DEFINE e == upcall[t].eh
<1>1. /\ t \in Threads /\ upcall[t] \in Upcall /\ e \in EventHandlers
      /\ upcall[t].kind \in {"socket", "timer", "notify"}
  BY UpcallFacts, SMT DEF Threads, InUpcall, Popping
<1>2. /\ upcall' = [upcall EXCEPT ![t] = None]
      /\ refs' = [refs EXCEPT ![e] = @ - IF upcall[t].kind = "timer" THEN 2 ELSE 1]
      /\ UNCHANGED <<owned, event_handlers, timer, notify_queue>>
  BY Zenon DEF upcall_ends, handlers, notifications
<1>3. ASSUME NEW f \in EventHandlers
      PROVE  refs'[f] - refs[f]
                = Settled(f)' - Settled(f) + Holds(None, f) - Holds(upcall[t], f)
  <2>1. Settled(f)' = Settled(f)
    BY <1>2, SettledKept
  <2>2. Holds(None, f) = 0
    BY HoldsOf
  <2>3. Holds(upcall[t], f) =
            IF e = f THEN IF upcall[t].kind = "timer" THEN 2 ELSE 1 ELSE 0
    BY <1>1, HoldsOf, SMT
  <2>4. refs'[f] = refs[f] - Holds(upcall[t], f)
    <3>1. refs'[f] = IF f = e THEN refs[f] - (IF upcall[t].kind = "timer" THEN 2 ELSE 1)
                     ELSE refs[f]
      BY <1>1, <1>2, SMT DEF TypeOK
    <3> QED  BY <2>3, <3>1, CountTypes, SMT
  <2>5. Holds(upcall[t], f) \in Int
    BY <2>3, SMT
  <2> QED  BY <2>1, <2>2, <2>4, <2>5, CountTypes, SMT
<1> QED  BY <1>2, <1>3, CountedUpcall

-----------------------------------------------------------------------------
(* Reference counts: what else the counts rest on.                         *)

(* Only threads of the pool are in upcalls.                                *)
ClientsAreOutside == \A t \in Clients : upcall[t] = None

(* Until a handler is registered, its file descriptor is nobody's, and     *)
(* nobody else waits to register one for it.                               *)
SlotIsFree ==
    \A t \in Threads, e \in EventHandlers :
        Registers(t, e) =>
            /\ event_handlers[Handle[e]] = None
            /\ \A u \in Threads, f \in EventHandlers :
                   Registers(u, f) /\ Handle[f] = Handle[e] => u = t

(* Upcalls begin, change and end in threads of the pool.                   *)
LEMMA UpcallMoves ==
  ASSUME TypeOK, CallsOfUpcalls, ClientsAreOutside, [Next]_vars
  PROVE  UNCHANGED upcall \/ \E t \in Pool : \A u \in Threads \ {t} : upcall'[u] = upcall[u]
<1>0. Pool \subseteq Threads
  BY DEF Threads
<1>1. ASSUME NEW t \in Pool, NEW c, upcall' = [upcall EXCEPT ![t] = c]
      PROVE  \A u \in Threads \ {t} : upcall'[u] = upcall[u]
  BY <1>0, <1>1, SMT DEF TypeOK
<1>2. ASSUME NEW t \in Pool, PoolStep(t)
      PROVE  UNCHANGED upcall \/ \A u \in Threads \ {t} : upcall'[u] = upcall[u]
  <2>1. UNCHANGED upcall \/ \E c : upcall' = [upcall EXCEPT ![t] = c]
    <3>1. ASSUME dispatch_notify(t) PROVE \E c : upcall' = [upcall EXCEPT ![t] = c]
      <4>1. CASE notify_queue = <<>>
        BY <3>1, <4>1, Zenon DEF dispatch_notify
      <4>2. CASE notify_queue # <<>>
        BY <3>1, <4>2, Zenon DEF dispatch_notify
      <4> QED  BY <4>1, <4>2
    <3>2. ASSUME handle_events(t) \/ handle_notify_events(t)
                 \/ (\E e \in Timed : handle_timer_events(t, e)) \/ upcall_returns(t)
          PROVE  UNCHANGED upcall \/ \E c : upcall' = [upcall EXCEPT ![t] = c]
      BY <3>2, Zenon DEF handle_events, handle_notify_events, handle_timer_events, upcall_returns,
         other_upcall_returns, resumed_upcall_returns, upcall_ends, socket_upcall_returns
    <3>3. ASSUME handle_socket_events(t) PROVE \E c : upcall' = [upcall EXCEPT ![t] = c]
      BY <3>3, Zenon DEF handle_socket_events
    <3> QED  BY <1>2, <3>1, <3>2, <3>3, Zenon DEF PoolStep, dispatch_i
  <2> QED  BY <1>1, <2>1
<1>3. ASSUME NEW t \in Threads, has_token(t)
      PROVE  UNCHANGED upcall \/ (t \in Pool /\ \A u \in Threads \ {t} : upcall'[u] = upcall[u])
  <2>1. \/ UNCHANGED upcall
        \/ call[t].op = "post_process" /\ upcall' = [upcall EXCEPT ![t] = None]
        \/ call[t].op = "resume" /\ upcall' = [upcall EXCEPT ![t].resumed = TRUE]
    BY <1>3, Zenon DEF has_token, post_process
  <2>2. call[t].op \in {"post_process", "resume"} => t \in Pool
    <3>1. call[t].op \in {"post_process", "resume"} => InSocket(t)
      BY <1>3, Zenon DEF has_token, CallsOfUpcalls, Within
    <3> QED  BY <3>1, Zenon DEF InSocket, ClientsAreOutside, Threads
  <2>3. upcall' = [upcall EXCEPT ![t].resumed = TRUE] =>
            \A u \in Threads \ {t} : upcall'[u] = upcall[u]
    BY SMT DEF TypeOK
  <2>4. upcall' = [upcall EXCEPT ![t] = None] => \A u \in Threads \ {t} : upcall'[u] = upcall[u]
    BY SMT DEF TypeOK
  <2> QED  BY <2>1, <2>2, <2>3, <2>4
<1>4. ASSUME NEW t \in Threads, NEW e \in EventHandlers,
             register_handler(t, e) \/ uses_reactor(t, e) \/ notify(t, e)
             \/ purge_pending_notifications(t, e) \/ remove_reference(t, e)
      PROVE  UNCHANGED upcall
  BY <1>4, Zenon DEF register_handler, uses_reactor, asks, notify, purge_pending_notifications,
     remove_reference
<1>5. ASSUME NEW t \in Threads, deactivate(t) \/ resume_handler(t) PROVE UNCHANGED upcall
  BY <1>5, Zenon DEF deactivate, resume_handler
<1>6. ASSUME (\E b \in Bits : arrives(b)) \/ (\E e \in Timed : timer_expires(e))
      PROVE  UNCHANGED upcall
  BY <1>6, Zenon DEF arrives, timer_expires
<1>7. CASE UNCHANGED vars
  BY <1>7 DEF vars
<1> QED  BY <1>0, <1>2, <1>3, <1>4, <1>5, <1>6, <1>7, Zenon DEF Next, Threads

(* A thread outside stays there.                                           *)
LEMMA ClientsStep ==
  ASSUME TypeOK, CallsOfUpcalls, ClientsAreOutside, [Next]_vars
  PROVE  ClientsAreOutside'
<1>1. Pool \cap Clients = {} /\ Clients \subseteq Threads
  BY TPReactorAssumption DEF Threads
<1> QED  BY <1>1, UpcallMoves DEF ClientsAreOutside

(* Nobody asks to register, and nothing is registered.                     *)
LEMMA SlotsKept ==
  ASSUME SlotIsFree, NobodyAsksTo({"register"}),
         \A h \in Handles : event_handlers[h] = None => event_handlers'[h] = None
  PROVE  SlotIsFree'
<1>1. \A t \in Threads : \A e : Registers(t, e)' => Registers(t, e)
  BY SMT DEF NobodyAsksTo, Registers
<1>2. \A e \in EventHandlers : Handle[e] \in Handles
  BY BitFacts
<1> QED  BY <1>1, <1>2, Zenon DEF SlotIsFree

(* Each call, made with the token, frees file descriptors but that of a    *)
(* handler that is registered.                                             *)
LEMMA SlotsToken ==
  ASSUME TypeOK, CallsOfUpcalls, SlotIsFree, NEW t \in Threads, has_token(t)
  PROVE  SlotIsFree'
<1> USE DEF handlers
<1>1. call[t] # None /\ call'[t] = None /\ \A u \in Threads \ {t} : call'[u] = call[u]
  BY SMT DEF has_token, TypeOK
<1>2. NobodyAsksTo({"register"})
  BY <1>1, SMT DEF NobodyAsksTo
<1>3. CASE call[t].op = "register"
  <2> DEFINE e == call[t].eh
             h == Handle[e]
  <2>1. e \in EventHandlers /\ Registers(t, e) /\ h \in Handles
    BY <1>1, <1>3, CallFacts, BitFacts, Zenon DEF Registers
  <2>2. event_handlers' = [event_handlers EXCEPT ![h] = e]
    BY <1>3, SMT DEF has_token, register_handler_i
  <2>3. \A g \in Handles \ {h} : event_handlers'[g] = event_handlers[g]
    BY <2>1, <2>2, SMT DEF TypeOK
  <2>4. \A u \in Threads : \A f : Registers(u, f)' => u # t /\ Registers(u, f)
    BY <1>1, SMT DEF Registers
  <2> HIDE DEF e, h
  <2>5. \A u \in Threads, f \in EventHandlers : Registers(u, f)' => Handle[f] \in Handles \ {h}
    BY <2>1, <2>4, BitFacts, Zenon DEF SlotIsFree, h
  <2> QED  BY <2>3, <2>4, <2>5, Zenon DEF SlotIsFree
<1>4. CASE call[t].op # "register"
  <2>1. ASSUME NEW h, NEW go, NEW held, unbind(h, go, held)
        PROVE  \A g \in Handles : event_handlers[g] = None => event_handlers'[g] = None
    BY <2>1, SMT DEF unbind, TypeOK
  <2>2. \A g \in Handles : event_handlers[g] = None => event_handlers'[g] = None
    <3>1. \/ UNCHANGED event_handlers
          \/ \E h, go, held : unbind(h, go, held)
      <4>1. CASE call[t].op = "post_process"
        <5>1. post_process(t)
          BY <4>1, SMT DEF has_token
        <5> QED  BY <5>1, Zenon DEF post_process
      <4>2. CASE call[t].op = "remove"
        <5>1. remove_handler_i(call[t].eh)
          BY <4>2, SMT DEF has_token
        <5> QED  BY <5>1, Zenon DEF remove_handler_i
      <4>3. CASE call[t].op \notin {"post_process", "remove"}
        BY <1>4, <4>3, Zenon DEF has_token, resume_i, mask_ops, schedule_timer, cancel_timer, deactivate_i
      <4> QED  BY <4>1, <4>2, <4>3
    <3> QED  BY <2>1, <3>1
  <2> QED  BY <1>2, <2>2, SlotsKept
<1> QED  BY <1>3, <1>4

(* Who asks to register finds the file descriptor free.                    *)
LEMMA SlotsRegister ==
  ASSUME TypeOK, SlotIsFree, NEW t \in Threads, NEW e \in EventHandlers, register_handler(t, e)
  PROVE  SlotIsFree'
<1>1. /\ call' = [call EXCEPT ![t] = [op |-> "register", eh |-> e]]
      /\ UNCHANGED event_handlers /\ Free(Handle[e])
  BY Zenon DEF register_handler, asks, acquire_token, handlers
<1>2. call'[t] = [op |-> "register", eh |-> e] /\ \A u \in Threads \ {t} : call'[u] = call[u]
  BY <1>1, SMT DEF TypeOK
<1>3. event_handlers[Handle[e]] = None
  BY <1>1 DEF Free
<1>4. \A u \in Threads : \A f : Registers(u, f) => Handle[f] # Handle[e]
  <2> SUFFICES ASSUME NEW u \in Threads, NEW f, Registers(u, f), Handle[f] = Handle[e]
               PROVE  FALSE
    OBVIOUS
  <2>1. call[u] # None /\ call[u].op = "register" /\ call[u].eh = f
    BY DEF Registers
  <2>2. f \in Pending("register")
    BY <2>1, Zenon DEF Pending
  <2>3. \A x \in Pending("register") : Handle[x] # Handle[e]
    BY <1>1, SMT DEF Free
  <2> QED  BY <2>2, <2>3
<1>5. \A u \in Threads : \A f : Registers(u, f)' => (u = t /\ f = e) \/ (u # t /\ Registers(u, f))
  BY <1>2, SMT DEF Registers
<1> SUFFICES ASSUME NEW u \in Threads, NEW f \in EventHandlers, Registers(u, f)'
             PROVE  /\ event_handlers[Handle[f]] = None
                    /\ \A v \in Threads, g \in EventHandlers :
                           Registers(v, g)' /\ Handle[g] = Handle[f] => v = u
  BY <1>1, Zenon DEF SlotIsFree
<1>6. CASE u = t /\ f = e
  BY <1>3, <1>4, <1>5, <1>6, Zenon
<1>7. CASE u # t /\ Registers(u, f)
  <2>1. Handle[f] # Handle[e]
    BY <1>4, <1>7
  <2> QED  BY <1>5, <1>7, <2>1, Zenon DEF SlotIsFree
<1> QED  BY <1>5, <1>6, <1>7

(* And nothing else disturbs it.                                           *)
LEMMA SlotsStep ==
  ASSUME TypeOK, CallsOfUpcalls, SlotIsFree, [Next]_vars
  PROVE  SlotIsFree'
<1> USE DEF handlers
<1>0. Pool \subseteq Threads /\ Clients \subseteq Threads
  BY DEF Threads
<1>1. CASE UNCHANGED <<call, event_handlers>>
  <2>1. NobodyAsksTo({"register"})
    BY <1>1 DEF NobodyAsksTo
  <2> QED  BY <1>1, <2>1, SlotsKept, Zenon
<1>2. ASSUME NEW t \in Threads, NEW c, c.op # "register", call' = [call EXCEPT ![t] = c],
             UNCHANGED event_handlers
      PROVE  SlotIsFree'
  <2>1. call'[t] = c /\ \A u \in Threads \ {t} : call'[u] = call[u]
    BY <1>2, SMT DEF TypeOK
  <2>2. NobodyAsksTo({"register"})
    BY <1>2, <2>1, SMT DEF NobodyAsksTo
  <2> QED  BY <1>2, <2>2, SlotsKept, Zenon
<1>3. ASSUME NEW t \in Pool, PoolStep(t) PROVE SlotIsFree'
  <2>1. ASSUME NEW status \in {0, -1}, socket_upcall_returns(t, status) PROVE SlotIsFree'
    <3>1. /\ call' = [call EXCEPT ![t] = [op |-> "post_process", status |-> status]]
          /\ UNCHANGED event_handlers
      BY <2>1, Zenon DEF socket_upcall_returns, acquire_token
    <3>2. [op |-> "post_process", status |-> status].op # "register"
      BY SMT
    <3> QED  BY <1>0, <1>2, <3>1, <3>2
  <2>2. ASSUME handle_events(t) \/ dispatch_notify(t) \/ handle_notify_events(t)
               \/ handle_socket_events(t) \/ (\E e \in Timed : handle_timer_events(t, e))
               \/ upcall_ends(t)
        PROVE  UNCHANGED <<call, event_handlers>>
    BY <2>2, Zenon DEF handle_events, dispatch_notify, handle_notify_events, handle_socket_events,
       handle_timer_events, upcall_ends
  <2> QED  BY <1>1, <1>3, <2>1, <2>2, Zenon DEF PoolStep, dispatch_i, upcall_returns,
             other_upcall_returns, resumed_upcall_returns
<1>4. ASSUME NEW t \in Pool, resume_handler(t) PROVE SlotIsFree'
  <2>1. /\ call' = [call EXCEPT ![t] = [op |-> "resume", eh |-> upcall[t].eh]]
        /\ UNCHANGED event_handlers
    BY <1>4, Zenon DEF resume_handler, acquire_token
  <2>2. [op |-> "resume", eh |-> upcall[t].eh].op # "register"
    BY SMT
  <2> QED  BY <1>0, <1>2, <2>1, <2>2
<1>5. ASSUME NEW t \in Threads, NEW e \in EventHandlers, uses_reactor(t, e) PROVE SlotIsFree'
  <2>1. PICK op \in {"remove", "wakeup", "unwakeup", "schedule", "cancel"} : asks(t, e, op)
    BY <1>5, Zenon DEF uses_reactor
  <2>2. call' = [call EXCEPT ![t] = [op |-> op, eh |-> e]] /\ UNCHANGED event_handlers
    BY <2>1, Zenon DEF asks, acquire_token
  <2>3. [op |-> op, eh |-> e].op # "register"
    BY SMT
  <2> QED  BY <1>2, <2>2, <2>3
<1>6. ASSUME NEW t \in Clients, deactivate(t) PROVE SlotIsFree'
  <2>1. call' = [call EXCEPT ![t] = [op |-> "deactivate"]] /\ UNCHANGED event_handlers
    BY <1>6, Zenon DEF deactivate, acquire_token
  <2>2. [op |-> "deactivate"].op # "register"
    BY SMT
  <2> QED  BY <1>0, <1>2, <2>1, <2>2
<1>7. ASSUME NEW t \in Threads, NEW e \in EventHandlers,
             notify(t, e) \/ purge_pending_notifications(t, e) \/ remove_reference(t, e)
      PROVE  UNCHANGED <<call, event_handlers>>
  BY <1>7, Zenon DEF notify, purge_pending_notifications, remove_reference
<1>8. ASSUME (\E b \in Bits : arrives(b)) \/ (\E e \in Timed : timer_expires(e))
      PROVE  UNCHANGED <<call, event_handlers>>
  BY <1>8, Zenon DEF arrives, timer_expires
<1>9. CASE UNCHANGED vars
  BY <1>1, <1>9 DEF vars
<1> QED
  BY <1>0, <1>1, <1>3, <1>4, <1>5, <1>6, <1>7, <1>8, <1>9, SlotsRegister, SlotsToken, Zenon
     DEF Next

-----------------------------------------------------------------------------
(* Reference counts: what threads ask of the reactor.                      *)

(* A notification holds a reference.                                       *)
LEMMA CountSend ==
  ASSUME TypeOK, TypeOK', Counted, NEW t, NEW e \in EventHandlers, notify(t, e)
  PROVE  Counted'
<1>1. /\ refs' = [refs EXCEPT ![e] = @ + 1] /\ push_new_notification(e)
      /\ UNCHANGED <<upcall, event_handlers, owned, timer>>
  BY Zenon DEF notify, handlers
<1>2. ASSUME NEW f \in EventHandlers PROVE refs'[f] - refs[f] = Settled(f)' - Settled(f)
  <2>1. Queued(notify_queue, f)' = Queued(notify_queue, f) + One(e = f)
    BY <1>1, PushCounts
  <2>2. /\ (f \in owned)' <=> f \in owned
        /\ Bound(f)' <=> Bound(f)
        /\ TimerHeld(f)' <=> TimerHeld(f)
    BY <1>1, SMT DEF Bound, TimerHeld
  <2>3. One(e = f) \in Nat
    BY DEF One
  <2>4. Settled(f)' = Settled(f) + One(e = f)
    BY <2>1, <2>2, <2>3, CountTypes, SMT DEF Settled, One
  <2>5. refs'[f] = refs[f] + One(e = f)
    BY <1>1, SMT DEF TypeOK, One
  <2> QED  BY <2>3, <2>4, <2>5, CountTypes, SMT
<1> QED  BY <1>1, <1>2, CountedSettled

(* And releases it when it is taken back.                                  *)
LEMMA CountPurge ==
  ASSUME TypeOK, TypeOK', Counted, NEW t, NEW e \in EventHandlers,
         purge_pending_notifications(t, e)
  PROVE  Counted'
<1> DEFINE at == {i \in DOMAIN notify_queue : notify_queue[i] = e}
<1>1. UNCHANGED <<upcall, event_handlers, owned, timer>>
  BY Zenon DEF purge_pending_notifications, handlers
<1>2. CASE at = {}
  <2>1. UNCHANGED <<notify_queue, refs>>
    BY <1>2, Zenon DEF purge_pending_notifications
  <2>2. ASSUME NEW f \in EventHandlers PROVE refs'[f] - refs[f] = Settled(f)' - Settled(f)
    <3>1. Settled(f)' = Settled(f)
      BY <1>1, <2>1, SettledKept
    <3> QED  BY <2>1, <3>1, CountTypes, SMT
  <2> QED  BY <1>1, <2>2, CountedSettled
<1>3. CASE at # {}
  <2>1. PICK i \in at :
            /\ notify_queue' = SubSeq(notify_queue, 1, i - 1)
                               \o SubSeq(notify_queue, i + 1, Len(notify_queue))
            /\ refs' = [refs EXCEPT ![e] = @ - 1]
    BY <1>3, Zenon DEF purge_pending_notifications
  <2>2. i \in 1..Len(notify_queue) /\ notify_queue[i] = e
    BY SMT DEF TypeOK
  <2>3. notify_queue \in Seq(EventHandlers \cup {None})
    BY DEF TypeOK
  <2> HIDE DEF at
  <2>5. ASSUME NEW f \in EventHandlers PROVE refs'[f] - refs[f] = Settled(f)' - Settled(f)
    <3>1. Queued(notify_queue', f) = Queued(notify_queue, f) - One(e = f)
      <4>1. Queued(notify_queue', f) = Queued(notify_queue, f) - One(notify_queue[i] = f)
        BY <2>1, <2>2, <2>3, QueuedTaken
      <4> QED  BY <2>2, <4>1
    <3>2. /\ (f \in owned)' <=> f \in owned
          /\ Bound(f)' <=> Bound(f)
          /\ TimerHeld(f)' <=> TimerHeld(f)
      BY <1>1, SMT DEF Bound, TimerHeld
    <3>3. One(e = f) \in Nat
      BY DEF One
    <3>4. Settled(f)' = Settled(f) - One(e = f)
      BY <3>1, <3>2, <3>3, CountTypes, SMT DEF Settled, One
    <3>5. refs'[f] = refs[f] - One(e = f)
      BY <2>1, SMT DEF TypeOK, One
    <3> QED  BY <3>3, <3>4, <3>5, CountTypes, SMT
  <2> QED  BY <1>1, <2>5, CountedSettled
<1> QED  BY <1>2, <1>3

(* The application's reference is one.                                     *)
LEMMA CountRelease ==
  ASSUME TypeOK, TypeOK', Counted, NEW t, NEW e \in EventHandlers, remove_reference(t, e)
  PROVE  Counted'
<1>1. /\ refs' = [refs EXCEPT ![e] = @ - 1] /\ e \in owned /\ owned' = owned \ {e}
      /\ UNCHANGED <<upcall, event_handlers, timer, notify_queue>>
  BY Zenon DEF remove_reference, MayCall, handlers, notifications
<1>2. ASSUME NEW f \in EventHandlers PROVE refs'[f] - refs[f] = Settled(f)' - Settled(f)
  <2>1. /\ f \in owned' <=> f \in owned /\ f # e
        /\ Bound(f)' <=> Bound(f)
        /\ TimerHeld(f)' <=> TimerHeld(f)
        /\ Queued(notify_queue, f)' = Queued(notify_queue, f)
    BY <1>1, SMT DEF Bound, TimerHeld
  <2>2. Settled(f)' = Settled(f) - One(e = f)
    BY <1>1, <2>1, CountTypes, SMT DEF Settled, One
  <2>3. refs'[f] = refs[f] - One(e = f)
    BY <1>1, SMT DEF TypeOK, One
  <2>4. One(e = f) \in Nat
    BY DEF One
  <2> QED  BY <2>2, <2>3, <2>4, CountTypes, SMT
<1> QED  BY <1>1, <1>2, CountedSettled

-----------------------------------------------------------------------------
(* Reference counts: the calls, made with the token.                       *)

(* The upcall's reference is released, and perhaps that of the repository. *)
LEMMA CountPostProcess ==
  ASSUME TypeOK, TypeOK', Counted, CallsOfUpcalls, ClientsAreOutside, NEW t \in Threads,
         has_token(t), call[t].op = "post_process"
  PROVE  Counted'
<1> DEFINE e == upcall[t].eh
           go == IF call[t].status = 0 THEN {} ELSE {<<Handle[e], upcall[t].mask>>}
<1>1. post_process(t) /\ call[t] # None /\ UNCHANGED owned
  BY SMT DEF has_token
<1>2. InSocket(t) /\ t \in Pool /\ e \in EventHandlers /\ upcall[t] \in Upcall
  <2>1. InSocket(t)
    BY <1>1, Zenon DEF CallsOfUpcalls
  <2>2. t \in Pool
    BY <2>1, Zenon DEF InSocket, ClientsAreOutside, Threads
  <2>3. e \in EventHandlers /\ upcall[t] \in Upcall
    BY <2>1, UpcallFacts, SMT DEF InSocket
  <2> QED  BY <2>1, <2>2, <2>3
<1>3. UNCHANGED <<notify_queue, timer>> /\ upcall' = [upcall EXCEPT ![t] = None]
  BY <1>1, Zenon DEF post_process, notifications
<1>4. \A f \in EventHandlers : Holds(upcall[t], f) = (IF e = f THEN 1 ELSE 0) /\ Holds(None, f) = 0
  BY <1>2, HoldsOf, SMT DEF InSocket
<1>5. ASSUME NEW f \in EventHandlers
      PROVE  refs'[f] - refs[f] = One(Bound(f)') - One(Bound(f)) - IF f = e THEN 1 ELSE 0
  <2>1. CASE ~recognised(t) \/ call[t].status = 0
    <3>1. refs' = [refs EXCEPT ![e] = @ - 1] /\ UNCHANGED event_handlers
      BY <1>1, <2>1, Zenon DEF post_process, handlers
    <3>2. refs'[f] = refs[f] - IF f = e THEN 1 ELSE 0
      BY <1>2, <3>1, SMT DEF TypeOK
    <3>3. Bound(f)' <=> Bound(f)
      BY <3>1, Zenon DEF Bound
    <3> QED  BY <3>2, <3>3, CountTypes, SMT DEF One
  <2>2. CASE recognised(t) /\ call[t].status # 0
    <3>1. unbind(Handle[e], go, 1)
      BY <1>1, <2>2, Zenon DEF post_process
    <3>2. Bound(e)
      BY <2>2, Zenon DEF recognised, Bound
    <3> HIDE DEF go, e
    <3>3. PICK held \in Int : held = 1
      OBVIOUS
    <3>4. refs'[f] - refs[f] = One(Bound(f)') - One(Bound(f)) - IF f = e THEN held ELSE 0
      BY <1>2, <3>1, <3>2, <3>3, UnbindCounts
    <3> QED  BY <3>3, <3>4, SMT
  <2> QED  BY <2>1, <2>2
<1> HIDE DEF go, e
<1>6. ASSUME NEW f \in EventHandlers
      PROVE  refs'[f] - refs[f]
                = Settled(f)' - Settled(f) + Holds(None, f) - Holds(upcall[t], f)
  <2>1. /\ (f \in owned)' <=> f \in owned
        /\ TimerHeld(f)' <=> TimerHeld(f)
        /\ Queued(notify_queue, f)' = Queued(notify_queue, f)
    BY <1>1, <1>3, SMT DEF TimerHeld
  <2>2. Settled(f)' = Settled(f) + One(Bound(f)') - One(Bound(f))
    BY <2>1, CountTypes, SMT DEF Settled, One
  <2>3. One(Bound(f)') \in Nat /\ One(Bound(f)) \in Nat
    BY DEF One
  <2> QED  BY <1>4, <1>5, <2>2, <2>3, CountTypes, SMT
<1> QED  BY <1>2, <1>3, <1>6, CountedUpcall

(* A handler that resumes itself stays in its upcall.                      *)
LEMMA CountResume ==
  ASSUME TypeOK, TypeOK', Counted, CallsOfUpcalls, ClientsAreOutside, NEW t \in Threads,
         has_token(t), call[t].op = "resume"
  PROVE  Counted'
<1> DEFINE c == [upcall[t] EXCEPT !.resumed = TRUE]
<1>1. resume_i(call[t].eh) /\ call[t] # None /\ upcall' = [upcall EXCEPT ![t].resumed = TRUE]
      /\ UNCHANGED owned
  BY SMT DEF has_token
<1>2. UNCHANGED <<refs, owned, event_handlers, timer, notify_queue>>
  BY <1>1, Zenon DEF resume_i, notifications
<1>3. InSocket(t) /\ t \in Pool /\ upcall[t] \in Upcall
      /\ upcall[t] \in [kind : {"socket"}, eh : EventHandlers, mask : {"READ", "WRITE"},
                        resumed : BOOLEAN]
  <2>1. InSocket(t)
    BY <1>1, Zenon DEF CallsOfUpcalls, Within
  <2>2. t \in Pool
    BY <2>1, Zenon DEF InSocket, ClientsAreOutside, Threads
  <2> QED  BY <2>1, <2>2, UpcallFacts DEF InSocket
<1>4. c \in Upcall /\ c.kind = "socket" /\ c.eh = upcall[t].eh
  <2>1. c \in [kind : {"socket"}, eh : EventHandlers, mask : {"READ", "WRITE"}, resumed : BOOLEAN]
    BY <1>3, ResumedType, Zenon
  <2>2. c.kind = "socket" /\ c.eh = upcall[t].eh
    BY <1>3, SMT
  <2> QED  BY <2>1, <2>2, Zenon DEF Upcall
<1>5. upcall' = [upcall EXCEPT ![t] = c]
  BY <1>1, Zenon
<1> HIDE DEF c
<1>6. ASSUME NEW f \in EventHandlers
      PROVE  refs'[f] - refs[f]
                = Settled(f)' - Settled(f) + Holds(c, f) - Holds(upcall[t], f)
  <2>1. Settled(f)' = Settled(f)
    BY <1>2, SettledKept
  <2>2. Holds(c, f) = Holds(upcall[t], f) /\ Holds(c, f) \in Int
    BY <1>3, <1>4, HoldsOf, SMT DEF InSocket
  <2> QED  BY <1>2, <2>1, <2>2, CountTypes, SMT
<1> QED  BY <1>3, <1>5, <1>6, CountedUpcall

(* A handler that is registered replaces nobody.                           *)
LEMMA CountRegister ==
  ASSUME TypeOK, TypeOK', Counted, SlotIsFree, NEW t \in Threads, has_token(t),
         call[t].op = "register"
  PROVE  Counted'
<1> DEFINE e == call[t].eh
           h == Handle[e]
<1>1. register_handler_i(e) /\ UNCHANGED <<upcall, owned>> /\ call[t] # None
  BY SMT DEF has_token
<1>2. e \in EventHandlers /\ h \in Handles /\ e # None /\ event_handlers[h] = None
  <2>1. e \in EventHandlers
    BY <1>1, CallFacts
  <2>2. Registers(t, e)
    BY <1>1 DEF Registers
  <2> QED  BY <2>1, <2>2, BitFacts, TPReactorAssumption, Zenon DEF SlotIsFree
<1>3. /\ event_handlers' = [event_handlers EXCEPT ![h] = e]
      /\ refs' = [refs EXCEPT ![e] = @ + 1] /\ UNCHANGED <<timer, notify_queue>>
  BY <1>1, Zenon DEF register_handler_i, notifications
<1> HIDE DEF e
<1>4. ASSUME NEW f \in EventHandlers PROVE refs'[f] - refs[f] = Settled(f)' - Settled(f)
  <2>1. /\ (f \in owned)' <=> f \in owned
        /\ TimerHeld(f)' <=> TimerHeld(f)
        /\ Queued(notify_queue, f)' = Queued(notify_queue, f)
    BY <1>1, <1>3, SMT DEF TimerHeld
  <2>2. /\ f = e => ~Bound(f) /\ Bound(f)'
        /\ f # e => (Bound(f)' <=> Bound(f))
    <3>1. Handle[f] \in Handles /\ f # None
      BY BitFacts, TPReactorAssumption
    <3>2. event_handlers'[Handle[f]] = IF Handle[f] = h THEN e ELSE event_handlers[Handle[f]]
      BY <1>2, <1>3, <3>1, SMT DEF TypeOK
    <3> QED  BY <1>2, <3>1, <3>2, Zenon DEF Bound
  <2>3. Settled(f)' = Settled(f) + IF f = e THEN 1 ELSE 0
    BY <2>1, <2>2, CountTypes, SMT DEF Settled, One
  <2>4. refs'[f] = refs[f] + IF f = e THEN 1 ELSE 0
    BY <1>2, <1>3, SMT DEF TypeOK
  <2> QED  BY <2>3, <2>4, CountTypes, SMT
<1> QED  BY <1>1, <1>4, CountedSettled

(* Whatever handler is removed loses the reference of the repository.      *)
LEMMA CountRemove ==
  ASSUME TypeOK, TypeOK', Counted, HandlesAgree, NEW t \in Threads, has_token(t), call[t].op = "remove"
  PROVE  Counted'
<1> DEFINE e == call[t].eh
           g == event_handlers[Handle[e]]
           go == of_handle(Handle[e], Bits)
<1>1. remove_handler_i(e) /\ UNCHANGED <<upcall, owned>> /\ call[t] # None
  BY SMT DEF has_token
<1>2. e \in EventHandlers
  BY <1>1, CallFacts
<1>3. UNCHANGED <<timer, notify_queue>>
  BY <1>1, Zenon DEF remove_handler_i, notifications
<1>4. ASSUME NEW f \in EventHandlers
      PROVE  refs'[f] - refs[f] = One(Bound(f)') - One(Bound(f))
  <2>0. Handle[e] \in Handles
    BY <1>2, BitFacts
  <2>1. ASSUME unbind(Handle[e], go, 0), g # None
        PROVE  refs'[f] - refs[f] = One(Bound(f)') - One(Bound(f))
    <3>1. g \in EventHandlers /\ Handle[g] = Handle[e] /\ Bound(g)
      <4>1. g \in EventHandlers
        BY <2>0, <2>1, SMT DEF TypeOK
      <4>2. Handle[g] = Handle[e]
        BY <2>0, <2>1, Zenon DEF HandlesAgree
      <4> QED  BY <4>1, <4>2, Zenon DEF Bound
    <3>2. refs'[f] - refs[f] = One(Bound(f)') - One(Bound(f)) - 0
      <4>1. unbind(Handle[g], go, 0)
        BY <2>1, <3>1
      <4> HIDE DEF go, e, g
      <4>2. PICK held \in Int : held = 0
        OBVIOUS
      <4>3. refs'[f] - refs[f] = One(Bound(f)') - One(Bound(f)) - IF f = g THEN held ELSE 0
        BY <3>1, <4>1, <4>2, UnbindCounts
      <4> QED  BY <4>2, <4>3, SMT
    <3>3. One(Bound(f)') \in Nat /\ One(Bound(f)) \in Nat
      BY DEF One
    <3> QED  BY <3>2, <3>3, SMT
  <2>2. ASSUME UNCHANGED <<event_handlers, refs>>
        PROVE  refs'[f] - refs[f] = One(Bound(f)') - One(Bound(f))
    <3>1. Bound(f)' <=> Bound(f)
      BY <2>2, Zenon DEF Bound
    <3> QED  BY <2>2, <3>1, CountTypes, SMT DEF One
  <2>3. ASSUME unbind(Handle[e], go, 0), g = None PROVE UNCHANGED <<event_handlers, refs>>
    <3>1. refs' = refs
      BY <2>3, Zenon DEF unbind
    <3>2. \/ event_handlers' = [event_handlers EXCEPT ![Handle[e]] = None]
          \/ event_handlers' = [event_handlers EXCEPT ![Handle[e]] = @]
      BY <2>3, Zenon DEF unbind
    <3>3. event_handlers' = event_handlers
      BY <2>0, <2>3, <3>2, SMT DEF TypeOK
    <3> QED  BY <3>1, <3>3
  <2>4. unbind(Handle[e], go, 0) \/ UNCHANGED <<event_handlers, refs>>
    BY <1>1, Zenon DEF remove_handler_i, handlers
  <2> QED  BY <2>1, <2>2, <2>3, <2>4
<1> HIDE DEF go, e, g
<1>5. ASSUME NEW f \in EventHandlers PROVE refs'[f] - refs[f] = Settled(f)' - Settled(f)
  <2>1. /\ (f \in owned)' <=> f \in owned
        /\ TimerHeld(f)' <=> TimerHeld(f)
        /\ Queued(notify_queue, f)' = Queued(notify_queue, f)
    BY <1>1, <1>3, SMT DEF TimerHeld
  <2>2. Settled(f)' = Settled(f) + One(Bound(f)') - One(Bound(f))
    BY <2>1, CountTypes, SMT DEF Settled, One
  <2>3. One(Bound(f)') \in Nat /\ One(Bound(f)) \in Nat
    BY DEF One
  <2> QED  BY <1>4, <2>2, <2>3, CountTypes, SMT
<1> QED  BY <1>1, <1>5, CountedSettled

(* A timer that is scheduled takes a reference, and one that is cancelled  *)
(* before its upcall releases it.                                          *)
LEMMA CountTimerCall ==
  ASSUME TypeOK, TypeOK', Counted, NEW t \in Threads, has_token(t),
         call[t].op \in {"schedule", "cancel"}
  PROVE  Counted'
<1> DEFINE e == call[t].eh
<1>1. /\ \/ call[t].op = "schedule" /\ schedule_timer(e)
         \/ call[t].op = "cancel" /\ cancel_timer(e)
      /\ UNCHANGED <<upcall, owned>> /\ call[t] # None
  BY SMT DEF has_token
<1>2. e \in Timed /\ e \in EventHandlers
  BY <1>1, CallFacts, TPReactorAssumption
<1>3. UNCHANGED <<event_handlers, notify_queue>>
  BY <1>1, Zenon DEF schedule_timer, cancel_timer, handlers, notifications
<1>4. \/ UNCHANGED <<timer, refs>>
      \/ /\ timer[e] = "unset" /\ timer' = [timer EXCEPT ![e] = "set"]
         /\ refs' = [refs EXCEPT ![e] = @ + 1]
      \/ /\ timer[e] \in {"set", "due"} /\ timer' = [timer EXCEPT ![e] = "gone"]
         /\ refs' = [refs EXCEPT ![e] = @ - 1]
  BY <1>1, Zenon DEF schedule_timer, cancel_timer
<1> HIDE DEF e
<1>5. ASSUME NEW f \in EventHandlers PROVE refs'[f] - refs[f] = Settled(f)' - Settled(f)
  <2>1. /\ (f \in owned)' <=> f \in owned
        /\ Bound(f)' <=> Bound(f)
        /\ Queued(notify_queue, f)' = Queued(notify_queue, f)
    BY <1>1, <1>3, SMT DEF Bound
  <2>2. Settled(f)' = Settled(f) + One(TimerHeld(f)') - One(TimerHeld(f))
    BY <2>1, CountTypes, SMT DEF Settled, One
  <2>3. refs'[f] - refs[f] = One(TimerHeld(f)') - One(TimerHeld(f))
    <3>1. CASE UNCHANGED <<timer, refs>>
      <4>1. TimerHeld(f)' <=> TimerHeld(f)
        BY <3>1, Zenon DEF TimerHeld
      <4> QED  BY <3>1, <4>1, CountTypes, SMT DEF One
    <3>2. CASE f # e
      <4>1. (TimerHeld(f)' <=> TimerHeld(f)) /\ refs'[f] = refs[f]
        BY <1>2, <1>4, <3>2, SMT DEF TimerHeld, TypeOK
      <4> QED  BY <4>1, CountTypes, SMT DEF One
    <3>3. CASE /\ f = e /\ timer[e] = "unset" /\ timer' = [timer EXCEPT ![e] = "set"]
               /\ refs' = [refs EXCEPT ![e] = @ + 1]
      <4>1. ~TimerHeld(f) /\ TimerHeld(f)' /\ refs'[f] = refs[f] + 1
        BY <1>2, <3>3, SMT DEF TimerHeld, TypeOK
      <4> QED  BY <4>1, CountTypes, SMT DEF One
    <3>4. CASE /\ f = e /\ timer[e] \in {"set", "due"} /\ timer' = [timer EXCEPT ![e] = "gone"]
               /\ refs' = [refs EXCEPT ![e] = @ - 1]
      <4>1. TimerHeld(f) /\ ~TimerHeld(f)' /\ refs'[f] = refs[f] - 1
        BY <1>2, <3>4, SMT DEF TimerHeld, TypeOK
      <4> QED  BY <4>1, CountTypes, SMT DEF One
    <3> QED  BY <1>4, <3>1, <3>2, <3>3, <3>4
  <2>4. One(TimerHeld(f)') \in Nat /\ One(TimerHeld(f)) \in Nat
    BY DEF One
  <2> QED  BY <2>2, <2>3, <2>4, CountTypes, SMT
<1> QED  BY <1>1, <1>5, CountedSettled

(* Every call, made with the token.                                        *)
LEMMA CountToken ==
  ASSUME TypeOK, TypeOK', Counted, HandlesAgree, CallsOfUpcalls, ClientsAreOutside, SlotIsFree,
         NEW t \in Threads, has_token(t)
  PROVE  Counted'
<1>1. call[t].op \in {"post_process", "register", "remove", "resume", "wakeup", "unwakeup",
                      "schedule", "cancel", "deactivate"}
  BY SMT DEF has_token
<1>2. CASE call[t].op \in {"wakeup", "unwakeup"}
  <2>1. UNCHANGED <<upcall, refs, owned, event_handlers, timer, notify_queue>>
    BY <1>2, SMT DEF has_token, mask_ops, notifications
  <2>2. ASSUME NEW f \in EventHandlers PROVE refs'[f] - refs[f] = Settled(f)' - Settled(f)
    <3>1. Settled(f)' = Settled(f)
      BY <2>1, SettledKept
    <3> QED  BY <2>1, <3>1, CountTypes, SMT
  <2> QED  BY <2>1, <2>2, CountedSettled
<1>3. CASE call[t].op = "deactivate"
  <2>1. /\ push_new_notification(None)
        /\ UNCHANGED <<upcall, refs, owned, event_handlers, timer>>
    BY <1>3, SMT DEF has_token, deactivate_i, handlers
  <2>2. ASSUME NEW f \in EventHandlers PROVE refs'[f] - refs[f] = Settled(f)' - Settled(f)
    <3>1. Queued(notify_queue, f)' = Queued(notify_queue, f) + One(None = f)
      BY <2>1, PushCounts
    <3>2. None # f
      BY TPReactorAssumption
    <3>3. Queued(notify_queue, f)' = Queued(notify_queue, f)
      BY <3>1, <3>2, CountTypes, SMT DEF One
    <3>4. /\ (f \in owned)' <=> f \in owned
          /\ Bound(f)' <=> Bound(f)
          /\ TimerHeld(f)' <=> TimerHeld(f)
      BY <2>1, SMT DEF Bound, TimerHeld
    <3>5. Settled(f)' = Settled(f)
      BY <3>3, <3>4, Zenon DEF Settled, One
    <3> QED  BY <2>1, <3>5, CountTypes, SMT
  <2> QED  BY <2>1, <2>2, CountedSettled
<1> QED
  BY <1>1, <1>2, <1>3, CountPostProcess, CountRegister, CountRemove, CountResume, CountTimerCall

-----------------------------------------------------------------------------
(* Reference counts: all steps.                                            *)

(* Every step.                                                             *)
LEMMA CountStep ==
  ASSUME Inv, TypeOK', Counted, ClientsAreOutside, SlotIsFree, [Next]_vars
  PROVE  Counted'
<1> USE DEF handlers, notifications
<1>0. TypeOK /\ ReadyIsWanted /\ HandlesAgree /\ EventsBound /\ CallsOfUpcalls /\ SelectorIsFree
  BY DEF Inv
<1>1. CASE UNCHANGED <<upcall, event_handlers, refs, owned, timer, notify_queue>>
  <2>1. ASSUME NEW f \in EventHandlers PROVE refs'[f] - refs[f] = Settled(f)' - Settled(f)
    <3>1. Settled(f)' = Settled(f)
      BY <1>1, SettledKept
    <3> QED  BY <1>0, <1>1, <3>1, CountTypes, SMT
  <2> QED  BY <1>0, <1>1, <2>1, CountedSettled
<1>2. ASSUME NEW t \in Pool, upcall_returns(t) PROVE Counted'
  <2>1. ASSUME InUpcall(t), upcall_ends(t) PROVE Counted'
    BY <1>0, <2>1, CountEnd
  <2>2. ASSUME NEW status \in {0, -1}, socket_upcall_returns(t, status) PROVE Counted'
    <3>1. sleep_hook /\ UNCHANGED <<upcall, event_handlers, refs, owned, timer>>
      BY <2>2, Zenon DEF socket_upcall_returns, acquire_token
    <3> QED  BY <1>0, <3>1, AskCounts
  <2> QED  BY <1>2, <2>1, <2>2, Zenon DEF upcall_returns, other_upcall_returns,
             resumed_upcall_returns, InSocketUpcall
<1>3. ASSUME NEW t \in Pool, handle_events(t) PROVE Counted'
  BY <1>1, <1>3, Zenon DEF handle_events
<1>4. ASSUME NEW t \in Pool, PoolStep(t) PROVE Counted'
  BY <1>0, <1>2, <1>3, <1>4, CountTimer, CountPop, CountNotify, CountEntry, Zenon
     DEF PoolStep, dispatch_i
<1>5. ASSUME NEW t, NEW e, register_handler(t, e) \/ uses_reactor(t, e) PROVE Counted'
  <2>1. \E op : asks(t, e, op)
    BY <1>5, Zenon DEF register_handler, uses_reactor
  <2>2. sleep_hook /\ UNCHANGED <<upcall, event_handlers, refs, owned, timer>>
    BY <2>1, Zenon DEF asks, acquire_token
  <2> QED  BY <1>0, <2>2, AskCounts
<1>6. ASSUME NEW t, resume_handler(t) \/ deactivate(t) PROVE Counted'
  <2>1. sleep_hook /\ UNCHANGED <<upcall, event_handlers, refs, owned, timer>>
    BY <1>6, Zenon DEF resume_handler, deactivate, acquire_token
  <2> QED  BY <1>0, <2>1, AskCounts
<1>7. ASSUME NEW e \in Timed, timer_expires(e) PROVE Counted'
  <2>1. /\ timer[e] = "set" /\ timer' = [timer EXCEPT ![e] = "due"]
        /\ UNCHANGED <<upcall, event_handlers, refs, owned, notify_queue>>
    BY <1>7, Zenon DEF timer_expires
  <2>2. ASSUME NEW f \in EventHandlers PROVE refs'[f] - refs[f] = Settled(f)' - Settled(f)
    <3>1. TimerHeld(f)' <=> TimerHeld(f)
      BY <1>0, <2>1, SMT DEF TimerHeld, TypeOK
    <3>2. /\ (f \in owned)' <=> f \in owned
          /\ Bound(f)' <=> Bound(f)
          /\ Queued(notify_queue, f)' = Queued(notify_queue, f)
      BY <2>1, SMT DEF Bound
    <3>3. Settled(f)' = Settled(f)
      BY <3>1, <3>2, Zenon DEF Settled, One
    <3> QED  BY <1>0, <2>1, <3>3, CountTypes, SMT
  <2> QED  BY <1>0, <2>1, <2>2, CountedSettled
<1>8. ASSUME NEW b, arrives(b) PROVE Counted'
  BY <1>1, <1>8, Zenon DEF arrives
<1>9. ASSUME NEW t \in Threads, has_token(t) PROVE Counted'
  BY <1>0, <1>9, CountToken
<1>10. ASSUME NEW t, NEW e \in EventHandlers,
              notify(t, e) \/ purge_pending_notifications(t, e) \/ remove_reference(t, e)
       PROVE  Counted'
  BY <1>0, <1>10, CountSend, CountPurge, CountRelease
<1>11. CASE UNCHANGED vars
  BY <1>1, <1>11 DEF vars
<1> QED
  BY <1>4, <1>5, <1>6, <1>7, <1>8, <1>9, <1>10, <1>11, Zenon DEF Next

(* The first references are those of the repository and the application.   *)
LEMMA CountInit == Init => Counted /\ ClientsAreOutside /\ SlotIsFree
<1> SUFFICES ASSUME Init PROVE Counted /\ ClientsAreOutside /\ SlotIsFree
  OBVIOUS
<1> USE TPReactorAssumption DEF Init
<1>1. ClientsAreOutside
  BY SMT DEF ClientsAreOutside, Threads
<1>2. SlotIsFree
  BY SMT DEF SlotIsFree, Registers
<1>3. ASSUME NEW e \in EventHandlers PROVE refs[e] = Count(e)
  <2>1. refs[e] = Cardinality({e} \cap Registered) + Cardinality({e} \cap Owned)
    BY SMT
  <2>2. ASSUME NEW S PROVE Cardinality({e} \cap S) = One(e \in S)
    <3>1. \A y \in {e} \cap S : y = e
      OBVIOUS
    <3>2. Cardinality({e} \cap S) = One(e \in {e} \cap S)
      BY <3>1, AtMostOne
    <3>3. e \in {e} \cap S <=> e \in S
      OBVIOUS
    <3> QED  BY <3>2, <3>3, Zenon DEF One
  <2>3. Bound(e) <=> e \in Registered
    <3>1. event_handlers[Handle[e]] = IF \E x \in Registered : Handle[x] = Handle[e]
                                      THEN CHOOSE x \in Registered : Handle[x] = Handle[e] ELSE None
      BY BitFacts, Zenon
    <3>2. CASE \E x \in Registered : Handle[x] = Handle[e]
      <4> DEFINE y == CHOOSE x \in Registered : Handle[x] = Handle[e]
      <4>1. y \in Registered /\ Handle[y] = Handle[e]
        BY <3>2
      <4>2. event_handlers[Handle[e]] = y
        BY <3>1, <3>2
      <4> HIDE DEF y
      <4> QED  BY <4>1, <4>2, Zenon DEF Bound
    <3>3. CASE ~\E x \in Registered : Handle[x] = Handle[e]
      BY <3>1, <3>3, Zenon DEF Bound
    <3> QED  BY <3>2, <3>3
  <2>4. ~TimerHeld(e)
    BY SMT DEF TimerHeld
  <2>5. Queued(notify_queue, e) = 0
    <3>1. QueuedAt(notify_queue, e) = {}
      BY SMT DEF QueuedAt
    <3> QED  BY <3>1, FS_EmptySet, Zenon DEF Queued
  <2>6. Upcalls(upcall, e) = 0
    <3>0. \A t \in Pool : upcall[t] = None
      BY SMT DEF Threads
    <3>1. EnteredBy(upcall, e) = {} /\ ExpiredBy(upcall, e) = {}
      BY <3>0, Zenon DEF EnteredBy, ExpiredBy
    <3>2. Cardinality({}) = 0
      BY FS_EmptySet
    <3>3. Cardinality(EnteredBy(upcall, e)) = 0 /\ Cardinality(ExpiredBy(upcall, e)) = 0
      BY <3>1, <3>2, Zenon
    <3> QED  BY ONLY <3>3, SMT DEF Upcalls
  <2>7. e \in owned <=> e \in Owned
    OBVIOUS
  <2>8. Cardinality({e} \cap Registered) = One(Bound(e)) /\ Cardinality({e} \cap Owned) = One(e \in owned)
    BY <2>2, <2>3, <2>7, Zenon DEF One
  <2>9. One(TimerHeld(e)) = 0 /\ \A b : One(b) \in Nat
    BY <2>4 DEF One
  <2> QED  BY <2>1, <2>5, <2>6, <2>8, <2>9, SMT DEF Count, Settled
<1> QED  BY <1>1, <1>2, <1>3 DEF Counted

(* A handler's reference count is the number of its uses, so that it is    *)
(* not deleted while the application, the repository, its timer, a         *)
(* notification or an upcall uses it, and nothing that is over keeps it.   *)
THEOREM ReferencesAreExact == Spec => []ReferencesExact
<1> DEFINE Counting == Inv /\ Counted /\ ClientsAreOutside /\ SlotIsFree
<1>1. Init => Counting
  BY InitInv, CountInit
<1>2. Counting /\ [Next]_vars => Counting'
  <2> SUFFICES ASSUME Counting, [Next]_vars PROVE Counting'
    OBVIOUS
  <2>1. TypeOK /\ CallsOfUpcalls
    BY DEF Inv
  <2>2. Inv' /\ ClientsAreOutside' /\ SlotIsFree'
    BY <2>1, InvStep, ClientsStep, SlotsStep
  <2>3. TypeOK'
    BY <2>2 DEF Inv
  <2>4. Counted'
    BY <2>3, CountStep
  <2> QED  BY <2>2, <2>4
<1>3. Counting => ReferencesExact
  BY UsesCounted, SMT DEF Inv, Counted, ReferencesExact
<1> QED  BY <1>1, <1>2, <1>3, PTL DEF Spec
=============================================================================
