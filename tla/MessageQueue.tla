---------------------------- MODULE MessageQueue ----------------------------
(***************************************************************************)
(* ACE_Message_Queue<ACE_MT_SYNCH> (ACE/ace/Message_Queue_T.{h,cpp}): the  *)
(* bounded queue that passes message blocks between the threads of         *)
(* ACE_Tasks.                                                              *)
(*                                                                         *)
(* Every method holds lock_ from its first to its last access, and gives   *)
(* it up only in the wait of one of its two condition variables.  A call   *)
(* that need not wait is one action; one that waits is split at the wait.  *)
(* A thread of Suppliers only waits on not_full_cond_ and one of Consumers *)
(* only on not_empty_cond_.                                                *)
(***************************************************************************)
EXTENDS Naturals, Sequences, FiniteSets, SequencesExt

CONSTANTS
    Suppliers, Consumers,   \* the threads that enqueue and that dequeue
    Blocks,                 \* the message blocks, in the queue or elsewhere
    Size,                   \* total_size of a block with its continuations
    Priority,               \* msg_priority of a block
    HWM, LWM,               \* high_water_mark_, low_water_mark_
    EnqueueOps,             \* subset of {"head", "tail", "prio"}
    DequeueOps,             \* subset of {"head", "tail", "prio", "peek"}
    MaxChain                \* bound: blocks chained by next() in one call

Threads == Suppliers \cup Consumers

ASSUME MessageQueueAssumption ==
    /\ Suppliers \cap Consumers = {}
    /\ IsFiniteSet(Consumers)
    /\ Size \in [Blocks -> Nat]
    /\ Priority \in [Blocks -> Nat]
    /\ HWM \in Nat \ {0}
    /\ LWM \in 0..HWM
    /\ EnqueueOps \subseteq {"head", "tail", "prio"}
    /\ DequeueOps \subseteq {"head", "tail", "prio", "peek"}
    /\ MaxChain \in Nat \ {0}

VARIABLES
    queue,      \* the list from head_ to tail_
    cur_bytes,  \* cur_bytes_
    cur_count,  \* cur_count_
    state,      \* state_
    op,         \* the operation of each thread, in the wait of a call
    item,       \* the chain a supplier is about to enqueue, <<>> if none
    woken,      \* waiting threads that a signal or broadcast has reached
    before,     \* history: pairs of blocks in the queue, of which the first
                \* was there when the second was enqueued
    met         \* history: which of "flush", "pulse" and "ends" (an insertion
                \* at an end of the list) there has been

vars == <<queue, cur_bytes, cur_count, state, op, item, woken, before,
          met>>

Waiting(t) == op[t] # "none"

(* The threads asleep on a condition variable.                             *)
Asleep(group) == {t \in group \ woken : Waiting(t)}

Chains == UNION {[1..n -> Blocks] : n \in 1..MaxChain}

TypeOK ==
    /\ queue \in Seq(Blocks)
    /\ cur_bytes \in Nat
    /\ cur_count \in Nat
    /\ state \in {"ACTIVATED", "DEACTIVATED", "PULSED"}
    /\ op \in [Threads -> EnqueueOps \cup DequeueOps \cup {"none"}]
    /\ item \in [Suppliers -> Chains \cup {<<>>}]
    /\ woken \subseteq {t \in Threads : Waiting(t)}
    /\ before \subseteq Blocks \X Blocks
    /\ met \subseteq {"flush", "pulse", "ends"}

(* open() *)
Init ==
    /\ queue = <<>>
    /\ cur_bytes = 0
    /\ cur_count = 0
    /\ state = "ACTIVATED"
    /\ op = [t \in Threads |-> "none"]
    /\ item = [t \in Suppliers |-> <<>>]
    /\ woken = {}
    /\ before = {}
    /\ met = {}

-----------------------------------------------------------------------------
(* The list.                                                               *)

is_full == cur_bytes >= HWM
is_empty == queue = <<>>

TotalSize(blocks) ==
    LET upto[n \in 0..Len(blocks)] ==
            IF n = 0 THEN 0 ELSE upto[n - 1] + Size[blocks[n]]
    IN  upto[Len(blocks)]

(* enqueue_i places a block behind the last one of greater or equal        *)
(* priority; the other two link a whole chain at an end.                   *)
prio_position_ahead_of_equals(b) ==      \* a faulty variant
    LET behind == {i \in DOMAIN queue : Priority[queue[i]] > Priority[b]}
    IN  1 + (IF behind = {} THEN 0 ELSE Max(behind))

prio_position(b) ==
    LET behind == {i \in DOMAIN queue : Priority[queue[i]] >= Priority[b]}
    IN  1 + (IF behind = {} THEN 0 ELSE Max(behind))

inserted(how, chain) ==
    CASE how = "head" -> chain \o queue
      [] how = "tail" -> queue \o chain
      [] how = "prio" -> InsertAt(queue, prio_position(chain[1]), chain[1])

(* dequeue_prio_i takes the earliest of the blocks of lowest priority.     *)
chosen(how) ==
    CASE how = "head" -> 1
      [] how = "tail" -> Len(queue)
      [] how = "prio" ->
            Min({i \in DOMAIN queue :
                    \A j \in DOMAIN queue : Priority[queue[i]] <= Priority[queue[j]]})

(* signal on a condition variable: one sleeping thread of the group, if    *)
(* there is one, joins the threads that are already awake.                 *)
Signal(group, awake) ==
    IF Asleep(group) = {}
    THEN woken' = awake
    ELSE \E t \in Asleep(group) : woken' = awake \cup {t}

signal_if_it_was_empty(awake) ==         \* a faulty variant
    IF is_empty THEN Signal(Consumers, awake) ELSE woken' = awake
signal_the_other_side(awake) == Signal(Consumers, awake)    \* a faulty variant

signal_dequeue_waiters(awake) == Signal(Consumers, awake)
signal_enqueue_waiters(awake) == Signal(Suppliers, awake)

-----------------------------------------------------------------------------
(* enqueue_head, enqueue_tail and enqueue_prio.                            *)

EndCall(t) ==
    /\ op' = [op EXCEPT ![t] = "none"]
    /\ item' = IF t \in Suppliers THEN [item EXCEPT ![t] = <<>>] ELSE item

(* wait_not_full_cond and wait_not_empty_cond, after wait has returned 0:  *)
(* the state is looked at first, and ESHUTDOWN ends the call.              *)
not_checked_after_wait == FALSE          \* a faulty variant
shut_after_wait == state # "ACTIVATED"

ShutDown(t) ==
    /\ shut_after_wait
    /\ EndCall(t)
    /\ woken' = woken \ {t}
    /\ UNCHANGED <<queue, cur_bytes, cur_count, before, met>>

WaitAgain(t) ==
    /\ ~shut_after_wait
    /\ woken' = woken \ {t}
    /\ UNCHANGED <<queue, cur_bytes, cur_count, before, op, item, met>>

(* The bytes that enqueueing adds to cur_bytes_: the whole chain's.        *)
counted(chain) == TotalSize(chain)

(* enqueue_head_i, enqueue_tail_i, enqueue_i: the whole chain is linked    *)
(* and counted, and one dequeuer is signalled.                             *)
Insert(t, how, chain) ==
    /\ queue' = inserted(how, chain)
    /\ cur_bytes' = cur_bytes + counted(chain)
    /\ cur_count' = cur_count + Len(chain)
    /\ before' = before \cup (ToSet(queue) \X ToSet(chain))
    /\ met' = IF how = "prio" THEN met ELSE met \cup {"ends"}
    /\ signal_dequeue_waiters(woken \ {t})

Owned == ToSet(queue) \cup UNION {ToSet(item[s]) : s \in Suppliers}

may_call == state # "DEACTIVATED"

Enqueue(t, how, chain) ==
    /\ ~Waiting(t)
    /\ may_call
    /\ ToSet(chain) \cap Owned = {}
    /\ IsInjective(chain)
    /\ how = "prio" => Len(chain) = 1
    /\ IF is_full
       THEN /\ op' = [op EXCEPT ![t] = how]
            /\ item' = [item EXCEPT ![t] = chain]
            /\ UNCHANGED <<queue, cur_bytes, cur_count, before, woken, met>>
       ELSE /\ Insert(t, how, chain)
            /\ UNCHANGED <<op, item>>
    /\ UNCHANGED state

EnqueueResume(t) ==
    /\ Waiting(t)
    /\ \/ ShutDown(t)
       \/ is_full /\ WaitAgain(t)
       \/ /\ ~shut_after_wait
          /\ ~is_full
          /\ Insert(t, op[t], item[t])
          /\ EndCall(t)
    /\ UNCHANGED state

-----------------------------------------------------------------------------
(* dequeue_head, dequeue_tail, dequeue_prio and peek_dequeue_head.         *)

(* "Only signal enqueueing threads if we've fallen below the low water     *)
(* mark."                                                                  *)
drained_below(bytes) == bytes < LWM      \* a faulty variant
drained(bytes) == bytes <= LWM

Extract(t, how) ==
    LET b == queue[chosen(how)]
    IN  /\ queue' = RemoveAt(queue, chosen(how))
        /\ cur_bytes' = cur_bytes - Size[b]
        /\ cur_count' = cur_count - 1
        /\ before' = {p \in before : b \notin {p[1], p[2]}}
        /\ IF drained(cur_bytes - Size[b])
           THEN signal_enqueue_waiters(woken \ {t})
           ELSE woken' = woken \ {t}

(* The call's result once the queue is not empty.                          *)
Obtain(t, how) ==
    IF how = "peek"
    THEN /\ woken' = woken \ {t}
         /\ UNCHANGED <<queue, cur_bytes, cur_count, before>>
    ELSE Extract(t, how)

Dequeue(t, how) ==
    /\ ~Waiting(t)
    /\ may_call
    /\ IF is_empty
       THEN /\ op' = [op EXCEPT ![t] = how]
            /\ UNCHANGED <<queue, cur_bytes, cur_count, before, woken>>
       ELSE /\ Obtain(t, how)
            /\ UNCHANGED op
    /\ UNCHANGED <<state, item, met>>

DequeueResume(t) ==
    /\ Waiting(t)
    /\ \/ ShutDown(t)
       \/ is_empty /\ WaitAgain(t)
       \/ /\ ~shut_after_wait
          /\ ~is_empty
          /\ Obtain(t, op[t])
          /\ EndCall(t)
          /\ UNCHANGED met
    /\ UNCHANGED state

(* wait returned -1 (ETIME, or an interruption): the call fails at once,   *)
(* without another look at the queue.                                      *)
TimeOut(t) ==
    /\ Waiting(t)
    /\ t \notin woken
    /\ EndCall(t)
    /\ UNCHANGED <<queue, cur_bytes, cur_count, state, woken, before, met>>

-----------------------------------------------------------------------------
(* deactivate, pulse, activate, flush and close.                           *)

(* not_empty_cond_.broadcast and not_full_cond_.broadcast.                *)
reached_consumers_only == {t \in Consumers : Waiting(t)}    \* a faulty variant
reached_by_broadcast == {t \in Threads : Waiting(t)}

deactivate_i(next) ==
    IF state # "DEACTIVATED"
    THEN /\ state' = next
         /\ woken' = woken \cup reached_by_broadcast
    ELSE UNCHANGED <<state, woken>>

Deactivate ==
    /\ deactivate_i("DEACTIVATED")
    /\ UNCHANGED <<queue, cur_bytes, cur_count, op, item, before, met>>

Pulse ==
    /\ deactivate_i("PULSED")
    /\ met' = met \cup {"pulse"}
    /\ UNCHANGED <<queue, cur_bytes, cur_count, op, item, before>>

Activate ==
    /\ state' = "ACTIVATED"
    /\ UNCHANGED <<queue, cur_bytes, cur_count, op, item, woken, before, met>>

flush_without_bytes ==                   \* a faulty variant
    /\ queue' = <<>>
    /\ cur_count' = cur_count - Len(queue)
    /\ before' = {}
    /\ UNCHANGED cur_bytes

flush_i ==
    /\ queue' = <<>>
    /\ cur_bytes' = cur_bytes - TotalSize(queue)
    /\ cur_count' = cur_count - Len(queue)
    /\ before' = {}

Flush ==
    /\ flush_i
    /\ met' = met \cup {"flush"}
    /\ UNCHANGED <<state, op, item, woken>>

Close ==
    /\ deactivate_i("DEACTIVATED")
    /\ flush_i
    /\ UNCHANGED <<op, item, met>>

-----------------------------------------------------------------------------

Next ==
    \/ \E t \in Suppliers :
          \/ \E how \in EnqueueOps, chain \in Chains : Enqueue(t, how, chain)
          \/ EnqueueResume(t)
    \/ \E t \in Consumers :
          \/ \E how \in DequeueOps : Dequeue(t, how)
          \/ DequeueResume(t)
    \/ \E t \in Threads : TimeOut(t)
    \/ Deactivate
    \/ Pulse
    \/ Activate
    \/ Flush
    \/ Close

Spec == Init /\ [][Next]_vars

(* A thread that has been woken runs, and consumers keep asking for        *)
(* messages.                                                               *)
Fairness ==
    /\ \A t \in Suppliers : WF_vars(t \in woken /\ EnqueueResume(t))
    /\ \A t \in Consumers : WF_vars(t \in woken /\ DequeueResume(t))
    /\ \A t \in Consumers : WF_vars(\E how \in DequeueOps \ {"peek"} : Dequeue(t, how))

FairSpec == Spec /\ Fairness

-----------------------------------------------------------------------------
(* The books agree with the list: water marks are compared with the bytes  *)
(* that are really in the queue, and no block is in two places.            *)
(* total_size_and_length in the enqueue, dequeue and flush methods.        *)
Accounting ==
    /\ cur_bytes = TotalSize(queue)
    /\ cur_count = Len(queue)
    /\ IsInjective(queue)
    /\ \A s \in Suppliers : ToSet(item[s]) \cap ToSet(queue) = {}

(* As long as blocks are only enqueued by priority, the queue is ordered   *)
(* by priority and blocks of one priority are in the order in which they   *)
(* were enqueued, whatever dequeue_head, dequeue_tail and dequeue_prio     *)
(* have taken out in between.  enqueue_i: "This ensures that FIFO order is *)
(* maintained when messages of the same priority are inserted              *)
(* consecutively."                                                         *)
PriorityOrder ==
    "ends" \notin met =>
        \A i, j \in DOMAIN queue : i < j =>
            \/ Priority[queue[i]] > Priority[queue[j]]
            \/ /\ Priority[queue[i]] = Priority[queue[j]]
               /\ <<queue[i], queue[j]>> \in before

(* No consumer sleeps beside a message nobody has been woken for: every    *)
(* block an asleep consumer could have has a woken consumer on its way to  *)
(* it.  With chained blocks and with peek one signal stands for several    *)
(* messages, and a pulsed queue throws signals away.                       *)
(* signal_dequeue_waiters in the enqueue methods, wait_not_empty_cond.     *)
NoStrandedConsumer ==
    /\ "pulse" \notin met
    /\ MaxChain = 1
    /\ "peek" \notin DequeueOps
    /\ Asleep(Consumers) # {}
    => Len(queue) <= Cardinality(woken \cap Consumers)

(* No supplier sleeps beside an empty queue unless another one is on its   *)
(* way to fill it: only a dequeue that reaches the low water mark signals  *)
(* not_full_cond_.                                                         *)
(* signal_enqueue_waiters in the dequeue methods, wait_not_full_cond.      *)
NoStrandedSupplier ==
    queue = <<>> /\ Asleep(Suppliers) # {} => woken \cap Suppliers # {}

(* The same, of a queue that has been neither flushed nor pulsed.          *)
NoStrandedSupplierUndisturbed ==
    met \cap {"flush", "pulse"} = {} => NoStrandedSupplier

(* A deactivated queue neither takes in nor gives out a message, also not  *)
(* by the hand of a thread that was waiting when it was deactivated; the   *)
(* only thing that can happen to it is to be flushed.                      *)
(* state_ is checked again after each wait, before the water mark.         *)
DeactivatedIsFrozen ==
    [][state = "DEACTIVATED" /\ queue' # queue => queue' = <<>> /\ op' = op]_vars

(* A queue that is deactivated for good lets go of every thread.           *)
(* deactivate_i: "Wakeup all waiters."                                     *)
ShutdownReleasesAll ==
    <>[](state = "DEACTIVATED") => <>[](\A t \in Threads : ~Waiting(t))

(* As long as the queue is neither flushed, pulsed nor deactivated and     *)
(* consumers keep dequeueing, the suppliers do not all wait for ever,      *)
(* without any timeout.                                                    *)
SuppliersServed ==
    (\A s \in Suppliers : Waiting(s))
        ~> \/ \E s \in Suppliers : ~Waiting(s)
           \/ state # "ACTIVATED"
           \/ met \cap {"flush", "pulse"} # {}

=============================================================================
