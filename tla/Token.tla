------------------------------- MODULE Token -------------------------------
(***************************************************************************)
(* ACE_Token (ACE/ace/Token.h, Token.inl, Token.cpp): the recursive,       *)
(* strictly ordered mutex that serialises the threads running an           *)
(* ACE_Reactor event loop.                                                 *)
(*                                                                         *)
(* Every public operation runs under lock_, and the only place where it is *)
(* given up is ACE_Token_Queue_Entry::wait.  An operation that never waits *)
(* is therefore one action, and one that waits is two: the part that       *)
(* queues the caller, and the part that runs once wait has returned.       *)
(*                                                                         *)
(* The linked list of stack-allocated queue entries is a sequence of       *)
(* threads; a thread has at most one entry, so the fields of the entry     *)
(* (runable_, its condition variable) are functions of the thread.         *)
(***************************************************************************)
EXTENDS Naturals, Sequences, SequencesExt

CONSTANTS
    Threads,            \* the threads that use the token
    NULL_thread,        \* ACE_OS::NULL_thread
    Strategies,         \* the queueing strategies a token may be given: FIFO, LIFO
    USES_SEMAPHORE,     \* ACE_TOKEN_USES_SEMAPHORE is defined (Win32, VxWorks)
    RequeuePositions,   \* the arguments of renew: "front" is 0, "strategy" is -1
    TimedCalls,         \* TRUE \in TimedCalls: callers may pass a timeout
    WaitMayFail,        \* wait may return -1 with errno neither EINTR nor ETIME
    MaxNesting          \* bound: nested acquires of one client

ASSUME TokenAssumption ==
    /\ NULL_thread \notin Threads
    /\ Strategies \subseteq {"FIFO", "LIFO"}
    /\ USES_SEMAPHORE \in BOOLEAN
    /\ RequeuePositions \subseteq {"front", "strategy"}
    /\ TimedCalls \subseteq BOOLEAN
    /\ WaitMayFail \in BOOLEAN
    /\ MaxNesting \in Nat \ {0}

VARIABLES
    queueing_strategy,  \* queueing_strategy_, set before the token is used
    in_use,         \* in_use_: "FREE" (0), "READ_TOKEN" or "WRITE_TOKEN"
    owner,          \* owner_
    nesting_level,  \* nesting_level_
    waiters,        \* waiters_
    writers,        \* writers_, the entries from head_ to tail_
    readers,        \* readers_
    runable,        \* my_entry.runable_, of the threads that have an entry
    signaled,       \* my_entry.cv_ holds a wakeup its thread has not consumed
    pc,             \* where a thread is: "idle", or in the wait of a call
    my_queue,       \* the queue a waiting thread chose (queue, this_threads_queue)
    timed,          \* the waiting call has a timeout
    save_nesting,   \* save_nesting_level_ of a thread in renew
    depth,          \* history: acquires the client has to match with a release
    before          \* history: pairs of waiting threads, earlier request first

vars == <<queueing_strategy, in_use, owner, nesting_level, waiters, writers,
          readers, runable, signaled, pc, my_queue, timed, save_nesting,
          depth, before>>

OpTypes == {"READ_TOKEN", "WRITE_TOKEN"}

Waiting(t) == pc[t] # "idle"

(* What the client believes: its calls returned 0, and it is in none.      *)
Holds(t) == ~Waiting(t) /\ depth[t] > 0

LIFO == queueing_strategy = "LIFO"

TypeOK ==
    /\ queueing_strategy \in Strategies
    /\ in_use \in OpTypes \cup {"FREE"}
    /\ owner \in Threads \cup {NULL_thread}
    /\ nesting_level \in Nat
    /\ waiters \in Nat
    /\ writers \in Seq(Threads)
    /\ readers \in Seq(Threads)
    /\ runable \in [Threads -> BOOLEAN]
    /\ signaled \in [Threads -> BOOLEAN]
    /\ pc \in [Threads -> {"idle", "acquire", "renew"}]
    /\ my_queue \in [Threads -> OpTypes]
    /\ timed \in [Threads -> BOOLEAN]
    /\ save_nesting \in [Threads -> Nat]
    /\ depth \in [Threads -> Nat]
    /\ before \in SUBSET (Threads \X Threads)

Init ==
    /\ queueing_strategy \in Strategies
    /\ in_use = "FREE"
    /\ owner = NULL_thread
    /\ nesting_level = 0
    /\ waiters = 0
    /\ writers = <<>>
    /\ readers = <<>>
    /\ runable = [t \in Threads |-> FALSE]
    /\ signaled = [t \in Threads |-> FALSE]
    /\ pc = [t \in Threads |-> "idle"]
    /\ my_queue = [t \in Threads |-> "WRITE_TOKEN"]
    /\ timed = [t \in Threads |-> FALSE]
    /\ save_nesting = [t \in Threads |-> 0]
    /\ depth = [t \in Threads |-> 0]
    /\ before = {}

-----------------------------------------------------------------------------
(* ACE_Token_Queue                                                         *)

insert_entry_swapped(q, t, front) == IF front THEN Append(q, t) ELSE Cons(t, q)    \* a faulty variant

insert_entry(q, t, front) == IF front THEN Cons(t, q) ELSE Append(q, t)

remove_entry_at_head(q, t) == IF q # <<>> THEN Tail(q) ELSE q    \* a faulty variant

remove_entry(q, t) ==
    IF t \in ToSet(q) THEN RemoveAt(q, CHOOSE i \in DOMAIN q : q[i] = t) ELSE q

(* ACE_Token_Queue_Entry::signal on the entry of h, called by t.  A        *)
(* condition variable that nobody waits on forgets the signal, a semaphore *)
(* keeps it: the two differ when renew selects its own caller, who is not  *)
(* in wait yet.                                                            *)
signal_lost(t, h, sig) == sig    \* a faulty variant

signal(t, h, sig) == [sig EXCEPT ![h] = USES_SEMAPHORE \/ h # t]

(* "Writer threads get priority to run first."                             *)
readers_first(w, r) == IF r # <<>> THEN "READ_TOKEN" ELSE "WRITE_TOKEN"    \* a faulty variant

next_queue(w, r) == IF w # <<>> THEN "WRITE_TOKEN" ELSE "READ_TOKEN"

(* wakeup_next_waiter, called by t when the queues hold w and r and the    *)
(* entries' fields are run and sig.                                        *)
wakeup_next_waiter(t, w, r, run, sig) ==
    IF w = <<>> /\ r = <<>>
    THEN /\ owner' = NULL_thread
         /\ in_use' = "FREE"
         /\ runable' = run
         /\ signaled' = sig
    ELSE LET op == next_queue(w, r)
             h  == Head(IF op = "WRITE_TOKEN" THEN w ELSE r)
         IN  /\ owner' = h
             /\ in_use' = op
             /\ runable' = [run EXCEPT ![h] = TRUE]
             /\ signaled' = signal(t, h, sig)

(* The entry t builds on its stack and links into the queue of op; goNext  *)
(* is renew's wish to go to the front whatever the queueing strategy.      *)
Enqueue(t, op, goNext, where) ==
    LET front  == goNext \/ LIFO
        others == {u \in Threads : Waiting(u)}
    IN  /\ writers' = IF op = "WRITE_TOKEN" THEN insert_entry(writers, t, front)
                                            ELSE writers
        /\ readers' = IF op = "READ_TOKEN" THEN insert_entry(readers, t, front)
                                           ELSE readers
        /\ waiters' = waiters + 1
        /\ pc' = [pc EXCEPT ![t] = where]
        /\ my_queue' = [my_queue EXCEPT ![t] = op]
        /\ before' = before \cup (IF goNext /\ ~LIFO THEN {t} \X others
                                                     ELSE others \X {t})
        /\ UNCHANGED queueing_strategy

(* "Do this always and irrespective of the result of wait()."              *)
LeaveQueue(t) ==
    /\ writers' = IF my_queue[t] = "WRITE_TOKEN" THEN remove_entry(writers, t)
                                                 ELSE writers
    /\ readers' = IF my_queue[t] = "READ_TOKEN" THEN remove_entry(readers, t)
                                                ELSE readers
    /\ waiters' = waiters - 1
    /\ pc' = [pc EXCEPT ![t] = "idle"]
    /\ timed' = [timed EXCEPT ![t] = FALSE]
    /\ save_nesting' = [save_nesting EXCEPT ![t] = 0]
    /\ before' = {p \in before : t \notin {p[1], p[2]}}
    /\ UNCHANGED <<my_queue, queueing_strategy>>

-----------------------------------------------------------------------------
(* shared_acquire, up to wait.  A polling call (tryacquire) that finds the *)
(* token taken by another thread returns without touching anything.        *)

AcquireFree(t, op) ==
    /\ pc[t] = "idle"
    /\ in_use = "FREE"
    /\ in_use' = op
    /\ owner' = t
    /\ depth' = [depth EXCEPT ![t] = 1]
    /\ UNCHANGED <<nesting_level, waiters, writers, readers, runable, signaled,
                   pc, my_queue, timed, save_nesting, before, queueing_strategy>>

AcquireNested(t) ==
    /\ pc[t] = "idle"
    /\ in_use # "FREE"
    /\ owner = t
    /\ depth[t] < MaxNesting
    /\ nesting_level' = nesting_level + 1
    /\ depth' = [depth EXCEPT ![t] = @ + 1]
    /\ UNCHANGED <<in_use, owner, waiters, writers, readers, runable, signaled,
                   pc, my_queue, timed, save_nesting, before, queueing_strategy>>

AcquireBlock(t, op, hasTimeout) ==
    /\ pc[t] = "idle"
    /\ in_use # "FREE"
    /\ owner # t
    /\ Enqueue(t, op, FALSE, "acquire")
    /\ timed' = [timed EXCEPT ![t] = hasTimeout]
    /\ UNCHANGED <<in_use, owner, nesting_level, runable, signaled,
                   save_nesting, depth>>

(* renew.  The caller holds the token, and keeps it if nobody is worth     *)
(* giving it up for.                                                       *)

RenewAtOnce ==
    /\ writers = <<>>
    /\ in_use = "WRITE_TOKEN" \/ readers = <<>>

RenewBlock(t, pos, hasTimeout) ==
    /\ pc[t] = "idle"
    /\ depth[t] > 0
    /\ ~RenewAtOnce
    /\ Enqueue(t, in_use, pos = "front", "renew")
    /\ timed' = [timed EXCEPT ![t] = hasTimeout]
    /\ save_nesting' = [save_nesting EXCEPT ![t] = nesting_level]
    /\ nesting_level' = 0
    /\ wakeup_next_waiter(t, writers', readers', runable, signaled)
    /\ UNCHANGED depth

(* release.  The caller holds the token.                                   *)

ReleaseNestedAlways(t) ==    \* a faulty variant
    /\ pc[t] = "idle"
    /\ depth[t] > 0
    /\ nesting_level' = nesting_level - 1
    /\ depth' = [depth EXCEPT ![t] = @ - 1]
    /\ UNCHANGED <<in_use, owner, waiters, writers, readers, runable, signaled,
                   pc, my_queue, timed, save_nesting, before, queueing_strategy>>

ReleaseNested(t) ==
    /\ pc[t] = "idle"
    /\ depth[t] > 0
    /\ nesting_level > 0
    /\ nesting_level' = nesting_level - 1
    /\ depth' = [depth EXCEPT ![t] = @ - 1]
    /\ UNCHANGED <<in_use, owner, waiters, writers, readers, runable, signaled,
                   pc, my_queue, timed, save_nesting, before, queueing_strategy>>

ReleaseLast(t) ==
    /\ pc[t] = "idle"
    /\ depth[t] > 0
    /\ nesting_level = 0
    /\ wakeup_next_waiter(t, writers, readers, runable, signaled)
    /\ depth' = [depth EXCEPT ![t] = @ - 1]
    /\ UNCHANGED <<nesting_level, waiters, writers, readers, pc, my_queue,
                   timed, save_nesting, before, queueing_strategy>>

-----------------------------------------------------------------------------
(* shared_acquire and renew, after wait has returned and lock_ is held.    *)

nesting_forgotten(t) == 0    \* a faulty variant

nesting_reinstated(t) == IF pc[t] = "renew" THEN save_nesting[t] ELSE nesting_level

(* The loop ends: the thread owns the token, and the entry goes out of     *)
(* scope with its runable_ and its condition variable.                     *)
ReturnOwning(t) ==
    /\ Waiting(t)
    /\ owner = t
    /\ LeaveQueue(t)
    /\ nesting_level' = nesting_reinstated(t)
    /\ depth' = IF pc[t] = "renew" THEN depth ELSE [depth EXCEPT ![t] = 1]
    /\ runable' = [runable EXCEPT ![t] = FALSE]
    /\ signaled' = [signaled EXCEPT ![t] = FALSE]
    /\ UNCHANGED <<in_use, owner>>

(* wait consumed a signal.                                                 *)
Wakeup(t) ==
    /\ signaled[t]
    /\ ReturnOwning(t)

(* wait returned spuriously or with EINTR, and "continue" evaluates the    *)
(* loop's condition.                                                       *)
SpuriousWakeup(t) ==
    /\ ~signaled[t]
    /\ ReturnOwning(t)

(* "This thread was still selected to own the token."                      *)
never_selected(t) == FALSE    \* a faulty variant
always_selected(t) == TRUE    \* a faulty variant
still_selected(t) == runable[t]

(* wait timed out: the token is handed on when this thread had been        *)
(* selected, even if its signal is still on its way.                       *)
TimeOut(t) ==
    /\ Waiting(t)
    /\ timed[t]
    /\ LeaveQueue(t)
    /\ LET run == [runable EXCEPT ![t] = FALSE]
           sig == [signaled EXCEPT ![t] = FALSE]
       IN  IF still_selected(t)
           THEN wakeup_next_waiter(t, writers', readers', run, sig)
           ELSE /\ runable' = run
                /\ signaled' = sig
                /\ UNCHANGED <<owner, in_use>>
    /\ depth' = [depth EXCEPT ![t] = 0]
    /\ UNCHANGED nesting_level

(* wait failed for another reason: nothing is handed on.                   *)
WaitError(t) ==
    /\ WaitMayFail
    /\ Waiting(t)
    /\ LeaveQueue(t)
    /\ runable' = [runable EXCEPT ![t] = FALSE]
    /\ signaled' = [signaled EXCEPT ![t] = FALSE]
    /\ depth' = [depth EXCEPT ![t] = 0]
    /\ UNCHANGED <<owner, in_use, nesting_level>>

-----------------------------------------------------------------------------

Acquire(t) ==
    \/ \E op \in OpTypes : AcquireFree(t, op)
    \/ AcquireNested(t)
    \/ \E op \in OpTypes, hasTimeout \in TimedCalls : AcquireBlock(t, op, hasTimeout)

Renew(t) ==
    \E pos \in RequeuePositions, hasTimeout \in TimedCalls :
        RenewBlock(t, pos, hasTimeout)

Release(t) == ReleaseNested(t) \/ ReleaseLast(t)

Next ==
    \E t \in Threads :
        \/ Acquire(t)
        \/ Renew(t)
        \/ Release(t)
        \/ Wakeup(t)
        \/ SpuriousWakeup(t)
        \/ TimeOut(t)
        \/ WaitError(t)

Spec == Init /\ [][Next]_vars

(* A signalled thread is scheduled eventually, and a client that is again  *)
(* and again about to give up its last hold of the token does so.          *)
Fairness ==
    \A t \in Threads : WF_vars(Wakeup(t)) /\ SF_vars(ReleaseLast(t))

FairSpec == Spec /\ Fairness

-----------------------------------------------------------------------------

(* Of all clients that were told they have the token only one is right     *)
(* now in possession of it, and the token knows it as its owner, through   *)
(* nested acquires, hand-overs, renewals and time-outs.                    *)
MutualExclusion ==
    \A t, u \in Threads : Holds(t) /\ Holds(u) => t = u /\ owner = t

(* The token is never lost: it is free only when nobody waits, and when it *)
(* is not free its owner either holds it or has been made runable (the     *)
(* ACE_ASSERT (my_entry.runable_) of shared_acquire and renew).            *)
NoLostToken ==
    /\ in_use = "FREE" <=> owner = NULL_thread
    /\ owner = NULL_thread => \A t \in Threads : ~Waiting(t)
    /\ \A t \in Threads : owner = t => Holds(t) \/ (Waiting(t) /\ runable[t])

(* The queues hold exactly the entries of the threads in wait, each in the *)
(* queue of its request, waiters_ counts them, and only the owner among    *)
(* them is runable.                                                        *)
QueuesExact ==
    /\ ToSet(writers) = {t \in Threads : Waiting(t) /\ my_queue[t] = "WRITE_TOKEN"}
    /\ ToSet(readers) = {t \in Threads : Waiting(t) /\ my_queue[t] = "READ_TOKEN"}
    /\ waiters = Len(writers) + Len(readers)
    /\ \A t \in Threads : runable[t] => Waiting(t) /\ owner = t

(* "Threads that are blocked awaiting the token are serviced in strict     *)
(* FIFO/LIFO order", and writers before readers: the thread that is        *)
(* selected in a step is first among the requests of its kind, and a       *)
(* reader is selected only when no writer waits.                           *)
FirstInLine(t) ==
    \A u \in Threads \ {t} :
        Waiting(u) =>
            /\ my_queue[t] = "READ_TOKEN" => my_queue[u] = "READ_TOKEN"
            /\ my_queue[t] = my_queue[u] =>
                   (IF LIFO THEN <<t, u>> ELSE <<u, t>>) \notin before

Selected(t) == Waiting(t) /\ owner = t

SelectsFirst == \A t \in Threads : ~Selected(t) /\ Selected(t)' => FirstInLine(t)'

ServiceOrder == [][SelectsFirst]_vars

(* To its clients the token is a recursive mutex that can be yielded.      *)
ClientHolds == [t \in Threads |-> IF Waiting(t) THEN 0 ELSE depth[t]]
ClientOwed == [t \in Threads |-> IF Waiting(t) THEN depth[t] ELSE 0]

Client == INSTANCE RecursiveMutex WITH holds <- ClientHolds, owed <- ClientOwed

ImplementsRecursiveMutex == Client!Spec

(* A thread that has been made the owner of the token while it waits gets  *)
(* to run ("Wake up waiter and make it runable").                          *)
SelectedRuns == \A t \in Threads : Selected(t) ~> ~Waiting(t)

(* A wait that failed for good took a selected token with it (it is what   *)
(* WaitError leaves behind): its owner, who is in no call, was told that   *)
(* it does not have the token, or has acquired one level more since.       *)
TokenLost == owner # NULL_thread /\ ~Waiting(owner) /\ depth[owner] # nesting_level + 1

RenewToFront == \E t \in Threads, hasTimeout \in TimedCalls : RenewBlock(t, "front", hasTimeout)

(* Strict FIFO order, and writers first: a writer that waits is served     *)
(* (or times out) however many other threads keep coming back, as long as  *)
(* they do not renew to the front for ever and the token was not lost.     *)
WritersServed ==
    <>[][~RenewToFront]_vars =>
        \A t \in Threads :
            (Waiting(t) /\ my_queue[t] = "WRITE_TOKEN" /\ ~LIFO)
                ~> (~Waiting(t) \/ TokenLost)

=============================================================================
