------------------------- MODULE MessageQueueProofs -------------------------
(***************************************************************************)
(* Proofs about MessageQueue, for any number of suppliers and consumers,   *)
(* any blocks, sizes, priorities and water marks.                          *)
(***************************************************************************)
EXTENDS MessageQueue, ListProofs, FiniteSetTheorems

-----------------------------------------------------------------------------
(* The positions that enqueue_i and dequeue_prio_i compute are in range.   *)

(* A set of naturals up to n has a greatest element.                       *)
LEMMA GreatestExists ==
    ASSUME NEW n \in Nat, NEW S \in SUBSET (1..n), S # {}
    PROVE  \E x \in S : \A y \in S : x >= y
<1> DEFINE D == {d \in Nat : \E x \in S : d = n - x}
<1>1. D \in SUBSET Nat /\ D # {}
  <2>1. PICK x \in S : TRUE
    OBVIOUS
  <2>2. n - x \in D
    BY <2>1, SMT
  <2> QED  BY <2>2
<1>2. PICK d \in D : \A e \in D : d <= e
  BY <1>1, LeastExists
<1>3. PICK x \in S : d = n - x
  BY <1>2
<1>4. \A y \in S : n - y \in D
  BY SMT
<1>5. \A y \in S : x >= y
  BY <1>2, <1>3, <1>4, SMT
<1> QED  BY <1>5

(* dequeue_head, dequeue_tail and dequeue_prio take out a block that is    *)
(* in the queue.                                                           *)
LEMMA ChosenIsInQueue ==
    ASSUME queue \in Seq(Blocks), queue # <<>>, NEW how \in {"head", "tail", "prio"}
    PROVE  chosen(how) \in 1..Len(queue)
<1> DEFINE n == Len(queue)
           P == {Priority[queue[i]] : i \in DOMAIN queue}
           L == {i \in DOMAIN queue : \A j \in DOMAIN queue :
                    Priority[queue[i]] <= Priority[queue[j]]}
<1>1. n \in Nat \ {0} /\ DOMAIN queue = 1..n /\ \A i \in 1..n : queue[i] \in Blocks
  BY EmptySeq, ElementOfSeq, LenProperties, SMT
<1>2. \A b \in Blocks : Priority[b] \in Nat
  BY MessageQueueAssumption DEF MessageQueueAssumption
<1>3. P \in SUBSET Nat /\ P # {}
  <2>1. \A i \in DOMAIN queue : Priority[queue[i]] \in Nat
    BY <1>1, <1>2
  <2>2. 1 \in DOMAIN queue
    BY <1>1, SMT
  <2> QED  BY <2>1, <2>2
<1>4. PICK p \in P : \A q \in P : p <= q
  BY <1>3, LeastExists
<1>5. PICK k \in DOMAIN queue : Priority[queue[k]] = p
  BY <1>4
<1>6. k \in L
  BY <1>4, <1>5
<1>7. L \in SUBSET Nat /\ L # {}
  <2>1. \A i \in DOMAIN queue : i \in Nat
    BY <1>1, SMT
  <2> QED  BY <2>1, <1>6
<1>8. \E x \in L : \A y \in L : x <= y
  BY <1>7, LeastExists
<1>9. Min(L) \in L
  BY <1>8 DEF Min
<1>10. Min(L) \in 1..n
  BY <1>1, <1>9
<1> QED  BY <1>1, <1>10, SMT DEF chosen

(* enqueue_i links a block between two blocks, or at an end.               *)
LEMMA PositionInRange ==
    ASSUME queue \in Seq(Blocks), NEW b
    PROVE  prio_position(b) \in 1..(Len(queue) + 1)
<1> DEFINE n == Len(queue)
           behind == {i \in DOMAIN queue : Priority[queue[i]] >= Priority[b]}
<1>1. n \in Nat /\ behind \in SUBSET (1..n)
  BY LenProperties
<1>2. CASE behind = {}
  BY <1>1, <1>2, SMT DEF prio_position
<1>3. CASE behind # {}
  <2>1. \E x \in behind : \A y \in behind : x >= y
    BY <1>1, <1>3, GreatestExists
  <2>2. Max(behind) \in behind
    BY <2>1 DEF Max
  <2>3. Max(behind) \in 1..n
    BY <1>1, <2>2
  <2>4. prio_position(b) = 1 + Max(behind)
    BY <1>3 DEF prio_position
  <2> HIDE DEF behind
  <2> QED  BY <1>1, <2>3, <2>4, SMT
<1> QED  BY <1>2, <1>3

(* Unlinking a block makes the list shorter by one.                        *)
LEMMA RemoveAtLength ==
    ASSUME NEW S, NEW q \in Seq(S), NEW k \in 1..Len(q)
    PROVE  RemoveAt(q, k) \in Seq(S) /\ Len(RemoveAt(q, k)) = Len(q) - 1
<1> DEFINE n == Len(q)
           a == SubSeq(q, 1, k - 1)
           b == SubSeq(q, k + 1, n)
<1>1. n \in Nat /\ k \in 1..n /\ \A i \in 1..n : q[i] \in S
  BY ElementOfSeq, LenProperties, SMT
<1>2. a \in Seq(S) /\ Len(a) = k - 1
  BY <1>1, SMT
<1>3. b \in Seq(S) /\ Len(b) = n - k
  <2>1. /\ k + 1 \in Int /\ n \in Int
        /\ \A i \in (k + 1)..n : q[i] \in S
    BY <1>1, SMT
  <2>2. /\ b \in Seq(S)
        /\ Len(b) = IF k + 1 <= n THEN n - (k + 1) + 1 ELSE 0
    BY <2>1, SubSeqProperties
  <2> HIDE DEF b
  <2> QED  BY <1>1, <2>2, SMT
<1> HIDE DEF a, b
<1>4. a \o b \in Seq(S) /\ Len(a \o b) = Len(a) + Len(b)
  BY <1>2, <1>3, ConcatProperties
<1>5. RemoveAt(q, k) = a \o b
  BY DEF RemoveAt, a, b
<1>6. Len(a) + Len(b) = n - 1
  BY <1>1, <1>2, <1>3, SMT
<1> QED  BY <1>4, <1>5, <1>6

(* Linking one block makes it longer by one.                               *)
LEMMA InsertAtLength ==
    ASSUME NEW S, NEW q \in Seq(S), NEW k \in 1..(Len(q) + 1), NEW e \in S
    PROVE  InsertAt(q, k, e) \in Seq(S) /\ Len(InsertAt(q, k, e)) = Len(q) + 1
<1> DEFINE n == Len(q)
           a == SubSeq(q, 1, k - 1)
           b == SubSeq(q, k, n)
           c == a \o <<e>>
<1>1. n \in Nat /\ k \in 1..(n + 1) /\ \A i \in 1..n : q[i] \in S
  BY ElementOfSeq, LenProperties, SMT
<1>2. a \in Seq(S) /\ Len(a) = k - 1
  <2>1. 1 \in Int /\ k - 1 \in Int /\ \A i \in 1..(k - 1) : q[i] \in S
    BY <1>1, SMT
  <2>2. a \in Seq(S) /\ Len(a) = IF 1 <= k - 1 THEN (k - 1) - 1 + 1 ELSE 0
    BY <2>1, SubSeqProperties
  <2> HIDE DEF a
  <2> QED  BY <1>1, <2>2, SMT
<1>3. b \in Seq(S) /\ Len(b) = n - k + 1
  <2>1. k \in Int /\ n \in Int /\ \A i \in k..n : q[i] \in S
    BY <1>1, SMT
  <2>2. b \in Seq(S) /\ Len(b) = IF k <= n THEN n - k + 1 ELSE 0
    BY <2>1, SubSeqProperties
  <2> HIDE DEF b
  <2> QED  BY <1>1, <2>2, SMT
<1> HIDE DEF a, b
<1>4. <<e>> \in Seq(S) /\ Len(<<e>>) = 1
  OBVIOUS
<1>5. c \in Seq(S) /\ Len(c) = Len(a) + 1
  BY <1>2, <1>4, ConcatProperties
<1> HIDE DEF c
<1>6. c \o b \in Seq(S) /\ Len(c \o b) = Len(c) + Len(b)
  BY <1>3, <1>5, ConcatProperties
<1>7. InsertAt(q, k, e) = c \o b
  BY DEF InsertAt, a, b, c
<1> QED  BY <1>1, <1>2, <1>3, <1>5, <1>6, <1>7, SMT

(* The list that an enqueue leaves.                                        *)
LEMMA InsertedList ==
    ASSUME queue \in Seq(Blocks), NEW how \in {"head", "tail", "prio"},
           NEW chain \in Chains
    PROVE  /\ inserted(how, chain) \in Seq(Blocks)
           /\ MaxChain = 1 => Len(inserted(how, chain)) = Len(queue) + 1
<1>1. PICK n \in 1..MaxChain : chain \in [1..n -> Blocks]
  BY DEF Chains
<1>2. MaxChain \in Nat
  BY MessageQueueAssumption DEF MessageQueueAssumption
<1>3. /\ chain \in Seq(Blocks) /\ Len(chain) = n /\ chain[1] \in Blocks
      /\ MaxChain = 1 => n = 1
  BY <1>1, <1>2, SMT
<1>4. Len(queue) \in Nat
  BY LenProperties
<1>5. CASE how = "head"
  <2>1. inserted(how, chain) = chain \o queue
    BY <1>5 DEF inserted
  <2>2. chain \o queue \in Seq(Blocks) /\ Len(chain \o queue) = Len(chain) + Len(queue)
    BY <1>3, ConcatProperties
  <2> QED  BY <1>3, <1>4, <2>1, <2>2
<1>6. CASE how = "tail"
  <2>1. inserted(how, chain) = queue \o chain
    BY <1>6 DEF inserted
  <2>2. queue \o chain \in Seq(Blocks) /\ Len(queue \o chain) = Len(queue) + Len(chain)
    BY <1>3, ConcatProperties
  <2> QED  BY <1>3, <1>4, <2>1, <2>2
<1>7. CASE how = "prio"
  <2>1. inserted(how, chain) = InsertAt(queue, prio_position(chain[1]), chain[1])
    BY <1>7 DEF inserted
  <2>2. prio_position(chain[1]) \in 1..(Len(queue) + 1)
    BY PositionInRange
  <2> QED  BY <1>3, <2>1, <2>2, InsertAtLength
<1> QED  BY <1>5, <1>6, <1>7

-----------------------------------------------------------------------------
(* The inductive invariant.                                                *)

Typed ==
    /\ queue \in Seq(Blocks)
    /\ state \in {"ACTIVATED", "DEACTIVATED", "PULSED"}
    /\ op \in [Threads -> EnqueueOps \cup DequeueOps \cup {"none"}]
    /\ item \in [Suppliers -> Chains \cup {<<>>}]
    /\ \A s \in Suppliers : Waiting(s) => op[s] \in EnqueueOps /\ item[s] \in Chains
    /\ \A c \in Consumers : Waiting(c) => op[c] \in DequeueOps
    /\ woken \subseteq {t \in Threads : Waiting(t)}

(* Deactivation has woken every waiter, and nobody waits afterwards.       *)
Closed == state = "DEACTIVATED" => \A t \in Threads : Waiting(t) => t \in woken

Pulsed == state = "PULSED" => "pulse" \in met

IInv == Typed /\ Closed /\ Pulsed /\ NoStrandedConsumer

(* Signalling adds at most one thread, a sleeping one of the group.        *)
LEMMA SignalledThread ==
    ASSUME NEW group, NEW awake, Signal(group, awake)
    PROVE  \/ Asleep(group) = {} /\ woken' = awake
           \/ \E u \in Asleep(group) : woken' = awake \cup {u}
BY DEF Signal

LEMMA InitInv == Init => IInv
<1> SUFFICES ASSUME Init PROVE IInv
  OBVIOUS
<1>1. Typed
  BY EmptySeq DEF Init, Typed, Waiting, Threads
<1>2. Asleep(Consumers) = {}
  BY DEF Init, Asleep, Waiting, Threads
<1> QED  BY <1>1, <1>2 DEF Init, IInv, Closed, Pulsed, NoStrandedConsumer

(* Each step keeps the types, and the waiting threads where they may be.   *)
LEMMA NextTyped == Typed /\ [Next]_vars => Typed'
<1> SUFFICES ASSUME Typed, [Next]_vars PROVE Typed'
  OBVIOUS
<1> USE DEF Typed
<1>0. /\ Suppliers \cap Consumers = {} /\ Threads = Suppliers \cup Consumers
      /\ EnqueueOps \subseteq {"head", "tail", "prio"}
      /\ DequeueOps \subseteq {"head", "tail", "prio", "peek"}
      /\ "none" \notin EnqueueOps /\ "none" \notin DequeueOps
  BY MessageQueueAssumption DEF MessageQueueAssumption, Threads
(* What a thread leaves when its call ends.                                *)
<1>1. ASSUME NEW t \in Threads, EndCall(t), UNCHANGED state, queue' \in Seq(Blocks),
             woken' \subseteq {u \in Threads : Waiting(u)} \ {t}
      PROVE  Typed'
  <2>1. /\ op' = [op EXCEPT ![t] = "none"]
        /\ item' = IF t \in Suppliers THEN [item EXCEPT ![t] = <<>>] ELSE item
    BY <1>1 DEF EndCall
  <2>2. op' \in [Threads -> EnqueueOps \cup DequeueOps \cup {"none"}]
    BY <2>1
  <2>3. item' \in [Suppliers -> Chains \cup {<<>>}]
    BY <2>1
  <2>4. \A u \in Threads : op'[u] = IF u = t THEN "none" ELSE op[u]
    BY <2>1
  <2>5. \A u \in Suppliers : u # t => item'[u] = item[u]
    BY <2>1
  <2> QED  BY <1>0, <1>1, <2>2, <2>3, <2>4, <2>5 DEF Waiting
(* An insertion signals a sleeping thread.                                 *)
<1>2. ASSUME NEW t \in Suppliers, NEW how \in EnqueueOps, NEW chain \in Chains,
             Insert(t, how, chain)
      PROVE  /\ queue' \in Seq(Blocks)
             /\ woken' \subseteq {u \in Threads : Waiting(u)}
             /\ Waiting(t) => t \notin woken'
  <2>1. queue' \in Seq(Blocks)
    BY <1>0, <1>2, InsertedList DEF Insert
  <2>2. Signal(Consumers, woken \ {t})
    BY <1>2 DEF Insert, signal_dequeue_waiters
  <2>3. woken' \subseteq (woken \ {t}) \cup Asleep(Consumers)
    BY <2>2, SignalledThread
  <2> QED  BY <1>0, <1>2, <2>1, <2>3 DEF Asleep
(* So may an extraction.                                                   *)
<1>3. ASSUME NEW t \in Consumers, NEW how \in DequeueOps, ~is_empty, Obtain(t, how)
      PROVE  /\ queue' \in Seq(Blocks)
             /\ woken' \subseteq {u \in Threads : Waiting(u)} \ {t}
  <2>1. CASE how = "peek"
    BY <1>3, <2>1 DEF Obtain
  <2>2. CASE how # "peek"
    <3>1. Extract(t, how) /\ how \in {"head", "tail", "prio"}
      BY <1>0, <1>3, <2>2 DEF Obtain
    <3>2. queue' \in Seq(Blocks)
      BY <1>3, <3>1, ChosenIsInQueue, RemoveAtLength DEF Extract, is_empty
    <3>3. woken' \subseteq (woken \ {t}) \cup Asleep(Suppliers)
      BY <3>1, SignalledThread DEF Extract, signal_enqueue_waiters
    <3> QED  BY <1>0, <3>2, <3>3 DEF Asleep
  <2> QED  BY <2>1, <2>2
<1>4. CASE \E t \in Suppliers, how \in EnqueueOps, chain \in Chains : Enqueue(t, how, chain)
  <2>1. PICK t \in Suppliers, how \in EnqueueOps, chain \in Chains : Enqueue(t, how, chain)
    BY <1>4
  <2>2. CASE is_full
    <3>1. /\ op' = [op EXCEPT ![t] = how] /\ item' = [item EXCEPT ![t] = chain]
          /\ UNCHANGED <<queue, woken, state>>
      BY <2>1, <2>2 DEF Enqueue
    <3>2. /\ op' \in [Threads -> EnqueueOps \cup DequeueOps \cup {"none"}]
          /\ item' \in [Suppliers -> Chains \cup {<<>>}]
          /\ \A u \in Threads : op'[u] = IF u = t THEN how ELSE op[u]
          /\ \A u \in Suppliers : item'[u] = IF u = t THEN chain ELSE item[u]
      BY <1>0, <3>1
    <3> QED  BY <1>0, <3>1, <3>2 DEF Waiting
  <2>3. CASE ~is_full
    <3>1. Insert(t, how, chain) /\ UNCHANGED <<op, item, state>>
      BY <2>1, <2>3 DEF Enqueue
    <3> QED  BY <1>2, <3>1 DEF Waiting
  <2> QED  BY <2>2, <2>3
<1>5. CASE \E t \in Suppliers : EnqueueResume(t)
  <2>1. PICK t \in Suppliers : EnqueueResume(t)
    BY <1>5
  <2>2. Waiting(t) /\ UNCHANGED state /\ op[t] \in EnqueueOps /\ item[t] \in Chains
    BY <2>1 DEF EnqueueResume
  <2>3. CASE ShutDown(t)
    BY <1>0, <1>1, <2>2, <2>3 DEF ShutDown
  <2>4. CASE WaitAgain(t)
    BY <1>0, <2>2, <2>4 DEF WaitAgain, Waiting
  <2>5. CASE Insert(t, op[t], item[t]) /\ EndCall(t)
    BY <1>0, <1>1, <1>2, <2>2, <2>5
  <2> QED  BY <2>1, <2>3, <2>4, <2>5 DEF EnqueueResume
<1>6. CASE \E t \in Consumers, how \in DequeueOps : Dequeue(t, how)
  <2>1. PICK t \in Consumers, how \in DequeueOps : Dequeue(t, how)
    BY <1>6
  <2>2. CASE is_empty
    <3>1. op' = [op EXCEPT ![t] = how] /\ UNCHANGED <<queue, woken, state, item>>
      BY <2>1, <2>2 DEF Dequeue
    <3>2. /\ op' \in [Threads -> EnqueueOps \cup DequeueOps \cup {"none"}]
          /\ \A u \in Threads : op'[u] = IF u = t THEN how ELSE op[u]
      BY <1>0, <3>1
    <3> QED  BY <1>0, <3>1, <3>2 DEF Waiting
  <2>3. CASE ~is_empty
    <3>1. Obtain(t, how) /\ UNCHANGED <<op, item, state>>
      BY <2>1, <2>3 DEF Dequeue
    <3> QED  BY <1>3, <2>3, <3>1 DEF Waiting
  <2> QED  BY <2>2, <2>3
<1>7. CASE \E t \in Consumers : DequeueResume(t)
  <2>1. PICK t \in Consumers : DequeueResume(t)
    BY <1>7
  <2>2. Waiting(t) /\ UNCHANGED state /\ op[t] \in DequeueOps
    BY <2>1 DEF DequeueResume
  <2>3. CASE ShutDown(t)
    BY <1>0, <1>1, <2>2, <2>3 DEF ShutDown
  <2>4. CASE WaitAgain(t)
    BY <1>0, <2>2, <2>4 DEF WaitAgain, Waiting
  <2>5. CASE ~is_empty /\ Obtain(t, op[t]) /\ EndCall(t)
    BY <1>0, <1>1, <1>3, <2>2, <2>5
  <2> QED  BY <2>1, <2>3, <2>4, <2>5 DEF DequeueResume
<1>8. CASE \E t \in Threads : TimeOut(t)
  <2>1. PICK t \in Threads : TimeOut(t)
    BY <1>8
  <2> QED  BY <1>1, <2>1 DEF TimeOut
<1>9. CASE Deactivate \/ Pulse \/ Close
  <2>1. UNCHANGED <<op, item>> /\ queue' \in {queue, <<>>}
    BY <1>9 DEF Deactivate, Pulse, Close, flush_i
  <2>2. /\ state' \in {"DEACTIVATED", "PULSED", state}
        /\ woken' \subseteq woken \cup {t \in Threads : Waiting(t)}
    BY <1>9 DEF Deactivate, Pulse, Close, deactivate_i, reached_by_broadcast
  <2> QED  BY <2>1, <2>2, EmptySeq DEF Waiting
<1>10. CASE Activate
  BY <1>10 DEF Activate, Waiting
<1>11. CASE Flush
  BY <1>11, EmptySeq DEF Flush, flush_i, Waiting
<1>12. CASE UNCHANGED vars
  BY <1>12 DEF vars, Waiting
<1> QED
  BY <1>4, <1>5, <1>6, <1>7, <1>8, <1>9, <1>10, <1>11, <1>12 DEF Next

(* Nobody can be asleep while the queue is deactivated: deactivate_i wakes *)
(* all waiters, no call starts and no waiter waits again.                  *)
LEMMA NextClosed == Typed /\ Closed /\ [Next]_vars => Closed'
<1> SUFFICES ASSUME Typed, Closed, [Next]_vars,
                    state' = "DEACTIVATED",
                    NEW u \in Threads, Waiting(u)'
             PROVE  u \in woken'
  BY DEF Closed
<1> USE DEF Typed
<1>0. Threads = Suppliers \cup Consumers /\ (Waiting(u) => op[u] # "none")
  BY DEF Threads, Waiting
(* The end of a call leaves the other threads waiting.                     *)
<1>1. ASSUME NEW t \in Threads, EndCall(t) \/ UNCHANGED op
      PROVE  Waiting(u) /\ (EndCall(t) => u # t)
  BY <1>1 DEF EndCall, Waiting
<1>2. ASSUME state = "DEACTIVATED", Waiting(u)
      PROVE  u \in woken
  BY <1>2 DEF Closed
<1>3. CASE \E t \in Suppliers, how \in EnqueueOps, chain \in Chains : Enqueue(t, how, chain)
  BY <1>3 DEF Enqueue, may_call
<1>4. CASE \E t \in Suppliers : EnqueueResume(t)
  <2>1. PICK t \in Suppliers : EnqueueResume(t)
    BY <1>4
  <2>2. state = "DEACTIVATED" /\ shut_after_wait
    BY <2>1 DEF EnqueueResume, shut_after_wait
  <2>3. EndCall(t) /\ woken' = woken \ {t}
    BY <2>1, <2>2 DEF EnqueueResume, ShutDown, WaitAgain
  <2> QED  BY <1>0, <1>1, <1>2, <2>2, <2>3
<1>5. CASE \E t \in Consumers, how \in DequeueOps : Dequeue(t, how)
  BY <1>5 DEF Dequeue, may_call
<1>6. CASE \E t \in Consumers : DequeueResume(t)
  <2>1. PICK t \in Consumers : DequeueResume(t)
    BY <1>6
  <2>2. state = "DEACTIVATED" /\ shut_after_wait
    BY <2>1 DEF DequeueResume, shut_after_wait
  <2>3. EndCall(t) /\ woken' = woken \ {t}
    BY <2>1, <2>2 DEF DequeueResume, ShutDown, WaitAgain
  <2> QED  BY <1>0, <1>1, <1>2, <2>2, <2>3
<1>7. CASE \E t \in Threads : TimeOut(t)
  BY <1>1, <1>2, <1>7 DEF TimeOut
<1>8. CASE Deactivate \/ Pulse \/ Close
  <2>1. Waiting(u) /\ (deactivate_i("DEACTIVATED") \/ deactivate_i("PULSED"))
    BY <1>8 DEF Deactivate, Pulse, Close, Waiting
  <2> QED  BY <1>2, <2>1 DEF deactivate_i, reached_by_broadcast
<1>9. CASE Activate \/ Flush \/ UNCHANGED vars
  BY <1>2, <1>9 DEF Activate, Flush, vars, Waiting
<1> QED
  BY <1>3, <1>4, <1>5, <1>6, <1>7, <1>8, <1>9 DEF Next

(* Only pulse leads to PULSED, and the history remembers it.               *)
LEMMA NextPulsed == Pulsed /\ [Next]_vars => Pulsed' /\ met \subseteq met'
<1> SUFFICES ASSUME Pulsed, [Next]_vars
             PROVE  Pulsed' /\ met \subseteq met'
  OBVIOUS
<1> USE DEF Pulsed
<1>1. CASE \E t \in Suppliers, how \in EnqueueOps, chain \in Chains : Enqueue(t, how, chain)
  BY <1>1 DEF Enqueue, Insert
<1>2. CASE \E t \in Suppliers : EnqueueResume(t)
  BY <1>2 DEF EnqueueResume, Insert, ShutDown, WaitAgain
<1>3. CASE \E t \in Consumers, how \in DequeueOps : Dequeue(t, how)
  BY <1>3 DEF Dequeue
<1>4. CASE \E t \in Consumers : DequeueResume(t)
  BY <1>4 DEF DequeueResume, ShutDown, WaitAgain
<1>5. CASE \E t \in Threads : TimeOut(t)
  BY <1>5 DEF TimeOut
<1>6. CASE Deactivate \/ Pulse \/ Close \/ Activate \/ Flush
  BY <1>6 DEF Deactivate, Pulse, Close, Activate, Flush, deactivate_i
<1>7. CASE UNCHANGED vars
  BY <1>7 DEF vars
<1> QED
  BY <1>1, <1>2, <1>3, <1>4, <1>5, <1>6, <1>7 DEF Next

(* Signals and messages stay in balance: an insertion adds one of each, a  *)
(* consumer that takes a message uses up at most the one signal it had.    *)
LEMMA NextUnstranded == IInv /\ [Next]_vars => NoStrandedConsumer'
<1> DEFINE Reached == woken \cap Consumers
<1> SUFFICES ASSUME IInv, [Next]_vars, "pulse" \notin met', MaxChain = 1,
                    "peek" \notin DequeueOps, Asleep(Consumers)' # {}
             PROVE  Len(queue)' <= Cardinality(Reached)'
  BY DEF NoStrandedConsumer
<1> USE DEF IInv, Typed
<1>0. /\ Suppliers \cap Consumers = {} /\ Threads = Suppliers \cup Consumers
      /\ EnqueueOps \subseteq {"head", "tail", "prio"}
      /\ DequeueOps \subseteq {"head", "tail", "prio"}
      /\ IsFiniteSet(Consumers)
  BY MessageQueueAssumption DEF MessageQueueAssumption, Threads
<1>1. state # "PULSED"
  BY NextPulsed DEF Pulsed
<1>2. ASSUME Asleep(Consumers) # {}
      PROVE  Len(queue) <= Cardinality(Reached)
  BY <1>2, NextPulsed DEF NoStrandedConsumer
<1>3. IsFiniteSet(Reached) /\ Cardinality(Reached) \in Nat /\ Len(queue) \in Nat
  BY <1>0, FS_Subset, FS_CardinalityType, LenProperties
<1>4. IsFiniteSet(Reached') /\ Cardinality(Reached') \in Nat
  BY <1>0, FS_Subset, FS_CardinalityType
(* A step that lets a thread go, or nothing, and awakes no consumer.       *)
<1>5. ASSUME NEW t \in Threads, UNCHANGED op \/ EndCall(t),
             (woken \cap Consumers) \ {t} \subseteq woken',
             Reached' \subseteq Reached, Waiting(t)' => t \notin woken
      PROVE  Asleep(Consumers) # {}
  <2>1. PICK u \in Consumers : u \notin woken' /\ Waiting(u)'
    BY DEF Asleep
  <2>2. op' = [op EXCEPT ![t] = "none"] \/ op' = op
    BY <1>5 DEF EndCall
  <2>3. Waiting(u) /\ (u = t => Waiting(t)')
    BY <1>0, <2>1, <2>2 DEF Waiting
  <2>4. u \notin woken
    BY <1>5, <2>1, <2>3
  <2> QED  BY <2>1, <2>3, <2>4 DEF Asleep
<1>6. ASSUME \A u \in Threads : Waiting(u)' => Waiting(u) /\ u \in woken'
      PROVE  FALSE
  BY <1>0, <1>6 DEF Asleep
(* Insertion.                                                              *)
<1>7. ASSUME NEW t \in Suppliers, NEW how \in EnqueueOps, NEW chain \in Chains,
             Insert(t, how, chain), UNCHANGED op \/ EndCall(t)
      PROVE  Len(queue)' <= Cardinality(Reached)'
  <2>1. Len(queue') = Len(queue) + 1
    BY <1>0, <1>7, InsertedList DEF Insert
  <2>2. Signal(Consumers, woken \ {t})
    BY <1>7 DEF Insert, signal_dequeue_waiters
  <2>3. CASE Asleep(Consumers) = {}
    <3>1. woken' = woken \ {t}
      BY <2>2, <2>3 DEF Signal
    <3>2. t \notin Consumers
      BY <1>0
    <3>3. \A u \in Consumers : Waiting(u)' => Waiting(u)
      BY <1>0, <1>7 DEF EndCall, Waiting
    <3> QED  BY <2>3, <3>1, <3>2, <3>3 DEF Asleep
  <2>4. CASE Asleep(Consumers) # {}
    <3>1. PICK u \in Asleep(Consumers) : woken' = (woken \ {t}) \cup {u}
      BY <2>2, <2>4 DEF Signal
    <3>2. u \notin Reached /\ Reached' = Reached \cup {u}
      BY <1>0, <3>1 DEF Asleep
    <3>3. Cardinality(Reached') = Cardinality(Reached) + 1
      BY <1>3, <3>2, FS_AddElement
    <3> HIDE DEF Reached
    <3> QED  BY <1>2, <1>3, <2>1, <2>4, <3>3, SMT
  <2> QED  BY <2>3, <2>4
(* Extraction.                                                             *)
<1>8. ASSUME NEW t \in Consumers, NEW how \in DequeueOps, ~is_empty, Obtain(t, how),
             \/ UNCHANGED op /\ ~Waiting(t)
             \/ EndCall(t)
      PROVE  Len(queue)' <= Cardinality(Reached)'
  <2>1. Extract(t, how) /\ how \in {"head", "tail", "prio"}
    BY <1>0, <1>8 DEF Obtain
  <2>2. Len(queue') = Len(queue) - 1
    BY <1>8, <2>1, ChosenIsInQueue, RemoveAtLength DEF Extract, is_empty
  <2>3. Reached' = Reached \ {t} /\ (woken \cap Consumers) \ {t} \subseteq woken'
    <3>1. CASE woken' = woken \ {t}
      BY <3>1
    <3>2. CASE Signal(Suppliers, woken \ {t})
      BY <1>0, <3>2, SignalledThread DEF Asleep
    <3> QED  BY <2>1, <3>1, <3>2 DEF Extract, signal_enqueue_waiters
  <2>4. Waiting(t)' => t \notin woken
    BY <1>0, <1>8 DEF EndCall, Waiting
  <2>5. Asleep(Consumers) # {}
    BY <1>0, <1>5, <1>8, <2>3, <2>4
  <2>6. Cardinality(Reached') >= Cardinality(Reached) - 1
    <3>1. Cardinality(Reached \ {t}) \in {Cardinality(Reached), Cardinality(Reached) - 1}
      BY <1>3, FS_RemoveElement
    <3> HIDE DEF Reached
    <3> QED  BY <1>3, <2>3, <3>1, SMT
  <2> HIDE DEF Reached
  <2> QED  BY <1>2, <1>3, <1>4, <2>2, <2>5, <2>6, SMT
(* ESHUTDOWN: the queue is deactivated, and all are awake.                 *)
<1>9. ASSUME NEW t \in Threads, ShutDown(t)
      PROVE  FALSE
  <2>1. state = "DEACTIVATED" /\ EndCall(t) /\ woken' = woken \ {t}
    BY <1>1, <1>9 DEF ShutDown, shut_after_wait
  <2>2. \A u \in Threads : Waiting(u)' => Waiting(u) /\ u # t
    BY <2>1 DEF EndCall, Waiting
  <2> QED  BY <1>6, <2>1, <2>2 DEF Closed
(* The empty queue strands nobody.                                         *)
<1>10. ASSUME queue' = <<>>
       PROVE  Len(queue)' <= Cardinality(Reached)'
  <2>1. Len(queue') = 0
    BY <1>10
  <2> HIDE DEF Reached
  <2> QED  BY <1>4, <2>1, SMT
<1>12. CASE \E t \in Suppliers, how \in EnqueueOps, chain \in Chains : Enqueue(t, how, chain)
  <2>1. PICK t \in Suppliers, how \in EnqueueOps, chain \in Chains : Enqueue(t, how, chain)
    BY <1>12
  <2>2. CASE is_full
    <3>1. op' = [op EXCEPT ![t] = how] /\ UNCHANGED <<queue, woken>>
      BY <2>1, <2>2 DEF Enqueue
    <3>2. \A u \in Consumers : Waiting(u)' => Waiting(u)
      BY <1>0, <3>1 DEF Waiting
    <3>3. Asleep(Consumers) # {}
      BY <3>1, <3>2 DEF Asleep
    <3> QED  BY <1>2, <3>1, <3>3
  <2>3. CASE ~is_full
    BY <1>7, <2>1, <2>3 DEF Enqueue
  <2> QED  BY <2>2, <2>3
<1>13. CASE \E t \in Suppliers : EnqueueResume(t)
  <2>1. PICK t \in Suppliers : EnqueueResume(t)
    BY <1>13
  <2>2. CASE WaitAgain(t)
    <3>1. UNCHANGED <<queue, op>> /\ woken' = woken \ {t} /\ t \notin Consumers
      BY <1>0, <2>2 DEF WaitAgain
    <3>2. Reached' = Reached /\ Asleep(Consumers) # {}
      BY <3>1 DEF Asleep, Waiting
    <3> QED  BY <1>2, <3>1, <3>2
  <2>3. CASE Insert(t, op[t], item[t]) /\ EndCall(t)
    <3>1. op[t] \in EnqueueOps /\ item[t] \in Chains
      BY <2>1 DEF EnqueueResume
    <3> QED  BY <1>7, <2>3, <3>1
  <2> QED  BY <1>0, <1>9, <2>1, <2>2, <2>3 DEF EnqueueResume
<1>14. CASE \E t \in Consumers, how \in DequeueOps : Dequeue(t, how)
  <2>1. PICK t \in Consumers, how \in DequeueOps : Dequeue(t, how)
    BY <1>14
  <2>2. CASE is_empty
    BY <1>10, <2>1, <2>2 DEF Dequeue, is_empty
  <2>3. CASE ~is_empty
    BY <1>8, <2>1, <2>3 DEF Dequeue
  <2> QED  BY <2>2, <2>3
<1>15. CASE \E t \in Consumers : DequeueResume(t)
  <2>1. PICK t \in Consumers : DequeueResume(t)
    BY <1>15
  <2>2. CASE is_empty /\ WaitAgain(t)
    BY <1>10, <2>2 DEF WaitAgain, is_empty
  <2>3. CASE ~is_empty /\ Obtain(t, op[t]) /\ EndCall(t)
    <3>1. op[t] \in DequeueOps
      BY <2>1 DEF DequeueResume
    <3> QED  BY <1>8, <2>3, <3>1
  <2> QED  BY <1>0, <1>9, <2>1, <2>2, <2>3 DEF DequeueResume
<1>16. CASE \E t \in Threads : TimeOut(t)
  <2>1. PICK t \in Threads : TimeOut(t)
    BY <1>16
  <2>2. EndCall(t) /\ UNCHANGED <<queue, woken>> /\ t \notin woken
    BY <2>1 DEF TimeOut
  <2> QED  BY <1>2, <1>5, <2>2
<1>17. CASE Deactivate \/ Close
  <2>1. deactivate_i("DEACTIVATED") /\ UNCHANGED op
    BY <1>17 DEF Deactivate, Close
  <2>2. \A u \in Threads : Waiting(u)' => Waiting(u) /\ u \in woken'
    BY <2>1 DEF deactivate_i, reached_by_broadcast, Closed, Waiting
  <2> QED  BY <1>6, <2>2
<1>18. CASE Pulse
  BY <1>18 DEF Pulse
<1>19. CASE Activate \/ UNCHANGED vars
  BY <1>2, <1>19 DEF Activate, vars, Asleep, Waiting
<1>20. CASE Flush
  BY <1>10, <1>20 DEF Flush, flush_i
<1> QED
  BY <1>12, <1>13, <1>14, <1>15, <1>16, <1>17, <1>18, <1>19, <1>20 DEF Next

-----------------------------------------------------------------------------

LEMMA IInvInvariant == Spec => []IInv
<1>1. Init => IInv
  BY InitInv
<1>2. IInv /\ [Next]_vars => IInv'
  BY NextTyped, NextClosed, NextPulsed, NextUnstranded DEF IInv
<1> QED  BY <1>1, <1>2, PTL DEF Spec

(* A signal per unchained message is enough: in a queue that is not pulsed *)
(* and not peeked into, no consumer sleeps in wait_not_empty_cond beside a *)
(* message that no woken consumer is on its way to, however many suppliers *)
(* and consumers call, time out, wake spuriously, deactivate, flush and    *)
(* close.                                                                  *)
THEOREM NoConsumerStranded == Spec => []NoStrandedConsumer
<1>1. IInv => NoStrandedConsumer
  BY DEF IInv
<1> QED  BY <1>1, IInvInvariant, PTL

(* The state is looked at again after every wait: no message moves through *)
(* a queue that has been deactivated, whoever was waiting in it.           *)
THEOREM DeactivatedQueueIsFrozen == Spec => DeactivatedIsFrozen
<1>1. [Next]_vars => [state = "DEACTIVATED" /\ queue' # queue => queue' = <<>> /\ op' = op]_vars
  <2> SUFFICES ASSUME [Next]_vars, state = "DEACTIVATED", queue' # queue
               PROVE  queue' = <<>> /\ op' = op
    OBVIOUS
  <2>1. CASE \E t \in Suppliers, how \in EnqueueOps, chain \in Chains : Enqueue(t, how, chain)
    BY <2>1 DEF Enqueue, may_call
  <2>2. CASE \E t \in Suppliers : EnqueueResume(t)
    BY <2>2 DEF EnqueueResume, ShutDown, WaitAgain, shut_after_wait
  <2>3. CASE \E t \in Consumers, how \in DequeueOps : Dequeue(t, how)
    BY <2>3 DEF Dequeue, may_call
  <2>4. CASE \E t \in Consumers : DequeueResume(t)
    BY <2>4 DEF DequeueResume, ShutDown, WaitAgain, shut_after_wait
  <2>5. CASE \E t \in Threads : TimeOut(t)
    BY <2>5 DEF TimeOut
  <2>6. CASE Deactivate \/ Pulse \/ Close \/ Activate \/ Flush
    BY <2>6 DEF Deactivate, Pulse, Close, Activate, Flush, flush_i
  <2>7. CASE UNCHANGED vars
    BY <2>7 DEF vars
  <2> QED
    BY <2>1, <2>2, <2>3, <2>4, <2>5, <2>6, <2>7 DEF Next
<1> QED  BY <1>1, PTL DEF Spec, DeactivatedIsFrozen

-----------------------------------------------------------------------------
(* The accounts of the queue.                                              *)

(* What total_size_and_length adds up, block by block.                     *)
LEMMA TotalIsSum ==
    ASSUME NEW s \in Seq(Blocks), NEW f,
           SumsOf(f, [i \in 1..Len(s) |-> Size[s[i]]], Len(s))
    PROVE  TotalSize(s) = f[Len(s)]
<1> DEFINE n == Len(s)
           w == [i \in 1..n |-> Size[s[i]]]
           Body(g) == [i \in 0..n |-> IF i = 0 THEN 0 ELSE g[i - 1] + Size[s[i]]]
           upto == CHOOSE g : g = Body(g)
<1>1. n \in Nat /\ \A i \in 1..n : s[i] \in Blocks /\ Size[s[i]] \in Nat
  BY LenProperties, ElementOfSeq, MessageQueueAssumption DEF MessageQueueAssumption
<1>2. TotalSize(s) = upto[n]
  BY DEF TotalSize
<1>3. f = Body(f)
  <2>1. \A i \in 0..n : f[i] = Body(f)[i]
    <3> TAKE i \in 0..n
    <3>1. CASE i = 0
      BY <3>1 DEF SumsOf
    <3>2. CASE i # 0
      <4>1. i \in 1..n
        BY <1>1, <3>2, SMT
      <4>2. f[i] = f[i - 1] + w[i] /\ w[i] = Size[s[i]]
        BY <4>1 DEF SumsOf
      <4> QED  BY <3>2, <4>2
    <3> QED  BY <3>1, <3>2
  <2>2. f \in [0..n -> Nat]
    BY DEF SumsOf
  <2> QED  BY <2>1, <2>2
<1> HIDE DEF Body
<1>4. upto = Body(upto)
  BY <1>3
<1> HIDE DEF upto
<1>5. SumsOf(upto, w, n)
  <2>1. upto[0] = 0 /\ DOMAIN upto = 0..n
    BY <1>1, <1>4, SMT DEF Body
  <2>2. \A i \in 1..n : upto[i] = upto[i - 1] + w[i]
    BY <1>1, <1>4, SMT DEF Body
  <2> DEFINE S == {k \in Nat : k <= n => upto[k] = f[k]}
  <2>3. 0 \in S
    BY <2>1 DEF SumsOf
  <2>4. ASSUME NEW k \in Nat, k \in S
        PROVE  k + 1 \in S
    <3> SUFFICES ASSUME k + 1 <= n PROVE upto[k + 1] = f[k + 1]
      OBVIOUS
    <3>1. k + 1 \in 1..n /\ (k + 1) - 1 = k /\ upto[k] = f[k]
      BY <1>1, <2>4, SMT
    <3> QED  BY <2>2, <3>1 DEF SumsOf
  <2> HIDE DEF S
  <2>5. \A k \in Nat : k \in S
    BY <2>3, <2>4, SetInduction
  <2>6. \A k \in 0..n : upto[k] = f[k]
    BY <2>5, SMT DEF S
  <2>7. upto = [k \in 0..n |-> upto[k]]
    BY <1>4 DEF Body
  <2>8. upto \in [0..n -> Nat]
    BY <2>6, <2>7 DEF SumsOf
  <2> QED  BY <2>1, <2>2, <2>8 DEF SumsOf
<1>6. upto = f
  BY <1>1, <1>5, SumsAreUnique
<1> QED  BY <1>2, <1>6

(* Chaining two lists adds up their sizes.                                 *)
LEMMA TotalOfConcat ==
    ASSUME NEW s \in Seq(Blocks), NEW t \in Seq(Blocks)
    PROVE  /\ TotalSize(s) \in Nat
           /\ TotalSize(t) \in Nat
           /\ TotalSize(s \o t) = TotalSize(s) + TotalSize(t)
<1> DEFINE m == Len(s)
           n == Len(t)
           st == s \o t
           v == [i \in 1..m |-> Size[s[i]]]
           w == [i \in 1..n |-> Size[t[i]]]
           vw == [i \in 1..(m + n) |-> Size[st[i]]]
<1>1. /\ m \in Nat /\ n \in Nat /\ Len(st) = m + n /\ st \in Seq(Blocks)
      /\ \A i \in 1..(m + n) : st[i] = IF i <= m THEN s[i] ELSE t[i - m]
  BY LenProperties, ConcatProperties
<1>2. \A b \in Blocks : Size[b] \in Nat
  BY MessageQueueAssumption DEF MessageQueueAssumption
<1>3. v \in [1..m -> Nat] /\ w \in [1..n -> Nat]
  BY <1>2, ElementOfSeq
<1>4. PICK f : SumsOf(f, v, m)
  BY <1>1, <1>3, SumsExist
<1>5. PICK g : SumsOf(g, w, n)
  BY <1>1, <1>3, SumsExist
<1>6. TotalSize(s) = f[m] /\ TotalSize(t) = g[n]
  BY <1>4, <1>5, TotalIsSum
<1> HIDE DEF st, m, n
<1>7. /\ \A i \in 0..m : f[i] \in Nat
      /\ \A i \in 0..n : g[i] \in Nat
      /\ g[0] = 0
      /\ \A i \in 1..m : f[i] = f[i - 1] + Size[s[i]]
      /\ \A i \in 1..n : g[i] = g[i - 1] + Size[t[i]]
  BY <1>4, <1>5 DEF SumsOf
<1> DEFINE h == [i \in 0..(m + n) |-> IF i <= m THEN f[i] ELSE f[m] + g[i - m]]
<1>8. \A i \in 0..(m + n) : i >= m => h[i] = f[m] + g[i - m] /\ i - m \in 0..n
  <2> TAKE i \in 0..(m + n)
  <2>1. CASE i = m
    <3>1. i - m = 0 /\ f[m] \in Nat /\ h[i] = f[m]
      BY <1>1, <1>7, <2>1, SMT
    <3> QED  BY <1>1, <1>7, <3>1, SMT
  <2>2. CASE i > m
    <3>1. h[i] = f[m] + g[i - m] /\ i - m \in 0..n
      BY <1>1, <2>2, SMT
    <3> QED  BY <3>1
  <2> QED  BY <1>1, <2>1, <2>2, SMT
<1>9. SumsOf(h, vw, m + n)
  <2>1. h \in [0..(m + n) -> Nat]
    <3>1. ASSUME NEW i \in 0..(m + n)
          PROVE  h[i] \in Nat
      <4>1. CASE i <= m
        <5>1. i \in 0..m /\ h[i] = f[i]
          BY <1>1, <4>1, SMT
        <5> QED  BY <1>7, <5>1
      <4>2. CASE ~(i <= m)
        <5>1. i >= m /\ m \in 0..m
          BY <1>1, <4>2, SMT
        <5>2. h[i] = f[m] + g[i - m] /\ f[m] \in Nat /\ g[i - m] \in Nat
          BY <1>7, <1>8, <5>1
        <5> HIDE DEF h
        <5> QED  BY <5>2, SMT
      <4> QED  BY <4>1, <4>2
    <3> QED  BY <3>1
  <2>2. h[0] = 0
    <3>1. 0 \in 0..(m + n) /\ 0 <= m /\ h[0] = f[0]
      BY <1>1, SMT
    <3> QED  BY <1>4, <3>1 DEF SumsOf
  <2>3. ASSUME NEW i \in 1..(m + n)
        PROVE  h[i] = h[i - 1] + Size[st[i]]
    <3>1. CASE i <= m
      <4>1. /\ i \in 1..m /\ st[i] = s[i]
            /\ h[i] = f[i] /\ h[i - 1] = f[i - 1]
        BY <1>1, <3>1, SMT
      <4> QED  BY <1>7, <4>1
    <3>2. CASE ~(i <= m)
      <4>1. /\ i - m \in 1..n /\ st[i] = t[i - m] /\ (i - m) - 1 = (i - 1) - m
            /\ i \in 0..(m + n) /\ i >= m /\ i - 1 \in 0..(m + n) /\ i - 1 >= m
            /\ i - m \in 0..n /\ (i - m) - 1 \in 0..n /\ m \in 0..m
        BY <1>1, <3>2, SMT
      <4>2. h[i] = f[m] + g[i - m] /\ h[i - 1] = f[m] + g[(i - m) - 1]
        BY <1>8, <4>1
      <4>3. g[i - m] = g[(i - m) - 1] + Size[t[i - m]]
        BY <1>7, <4>1
      <4>4. f[m] \in Nat /\ g[(i - m) - 1] \in Nat /\ Size[t[i - m]] \in Nat
        <5>1. t[i - m] \in Blocks
          BY <4>1, ElementOfSeq DEF n
        <5> QED  BY <1>2, <1>7, <4>1, <5>1
      <4> HIDE DEF h
      <4>5. h[i] = h[i - 1] + Size[t[i - m]]
        BY <4>2, <4>3, <4>4, SMT
      <4> QED  BY <4>1, <4>5
    <3> QED  BY <3>1, <3>2
  <2>4. \A i \in 1..(m + n) : vw[i] = Size[st[i]]
    OBVIOUS
  <2> HIDE DEF h, vw
  <2> QED  BY <2>1, <2>2, <2>3, <2>4 DEF SumsOf
<1> HIDE DEF h
<1>10. TotalSize(st) = h[m + n]
  BY <1>1, <1>9, TotalIsSum
<1>11. h[m + n] = f[m] + g[n]
  <2>1. m + n \in 0..(m + n) /\ m + n >= m /\ (m + n) - m = n
    BY <1>1, SMT
  <2> QED  BY <1>8, <2>1
<1>12. m \in 0..m /\ n \in 0..n
  BY <1>1, SMT
<1> QED  BY <1>6, <1>7, <1>10, <1>11, <1>12 DEF st

(* No block, and one.                                                      *)
LEMMA EmptyTotal == TotalSize(<<>>) = 0
<1> DEFINE z == [i \in 0..0 |-> 0]
<1>1. <<>> \in Seq(Blocks) /\ Len(<<>>) = 0
  BY EmptySeq
<1>2. SumsOf(z, [i \in 1..0 |-> Size[<<>>[i]]], 0)
  BY SMT DEF SumsOf
<1>3. TotalSize(<<>>) = z[0]
  BY <1>1, <1>2, TotalIsSum
<1> QED  BY <1>3

LEMMA TotalOfOne ==
    ASSUME NEW b \in Blocks
    PROVE  TotalSize(<<b>>) = Size[b] /\ Size[b] \in Nat
<1> DEFINE f == [i \in 0..1 |-> IF i = 0 THEN 0 ELSE Size[b]]
           s == <<b>>
<1>1. Size[b] \in Nat /\ s \in Seq(Blocks) /\ Len(s) = 1 /\ s[1] = b
  BY MessageQueueAssumption DEF MessageQueueAssumption
<1> HIDE DEF s
<1>2. SumsOf(f, [i \in 1..1 |-> Size[s[i]]], 1)
  BY <1>1, SMT DEF SumsOf
<1>3. TotalSize(s) = f[1]
  BY <1>1, <1>2, TotalIsSum
<1> QED  BY <1>1, <1>3 DEF s

(* What is in two lists that are chained, and that nothing is there twice. *)
LEMMA ConcatElements ==
    ASSUME NEW s \in Seq(Blocks), NEW t \in Seq(Blocks)
    PROVE  /\ ToSet(s \o t) = ToSet(s) \cup ToSet(t)
           /\ IsInjective(s \o t) <=> /\ IsInjective(s) /\ IsInjective(t)
                                      /\ ToSet(s) \cap ToSet(t) = {}
<1> DEFINE m == Len(s)
           n == Len(t)
           st == s \o t
<1>1. /\ m \in Nat /\ n \in Nat /\ Len(st) = m + n /\ st \in Seq(Blocks)
      /\ \A i \in 1..(m + n) : st[i] = IF i <= m THEN s[i] ELSE t[i - m]
      /\ DOMAIN s = 1..m /\ DOMAIN t = 1..n /\ DOMAIN st = 1..(m + n)
  <2>1. /\ m \in Nat /\ n \in Nat /\ Len(st) = m + n /\ st \in Seq(Blocks)
        /\ \A i \in 1..(m + n) : st[i] = IF i <= m THEN s[i] ELSE t[i - m]
    BY LenProperties, ConcatProperties
  <2> QED  BY <2>1, LenProperties
<1> HIDE DEF st, m, n
<1>2. \A i \in 1..m : i \in 1..(m + n) /\ st[i] = s[i]
  BY <1>1, SMT
<1>3. \A i \in 1..n : i + m \in 1..(m + n) /\ st[i + m] = t[i]
  BY <1>1, SMT
<1>4. \A i \in 1..(m + n) : \/ i \in 1..m
                            \/ i - m \in 1..n /\ i = (i - m) + m
  BY <1>1, SMT
<1>5. ToSet(st) = ToSet(s) \cup ToSet(t)
  <2>1. \A i \in 1..(m + n) : (\E j \in 1..m : st[i] = s[j]) \/ (\E j \in 1..n : st[i] = t[j])
    BY <1>2, <1>3, <1>4
  <2>2. ToSet(st) \subseteq ToSet(s) \cup ToSet(t)
    BY <1>1, <2>1 DEF ToSet
  <2>3. ToSet(s) \subseteq ToSet(st) /\ ToSet(t) \subseteq ToSet(st)
    <3>1. \A i \in 1..m : s[i] \in ToSet(st)
      <4>1. \A j \in 1..(m + n) : st[j] \in ToSet(st)
        BY <1>1 DEF ToSet
      <4> QED  BY <1>2, <4>1
    <3>2. \A i \in 1..n : t[i] \in ToSet(st)
      <4>1. \A j \in 1..(m + n) : st[j] \in ToSet(st)
        BY <1>1 DEF ToSet
      <4> QED  BY <1>3, <4>1
    <3>3. ToSet(s) = {s[i] : i \in 1..m} /\ ToSet(t) = {t[i] : i \in 1..n}
      BY <1>1 DEF ToSet
    <3> QED  BY <3>1, <3>2, <3>3
  <2> QED  BY <2>2, <2>3
<1>6. ASSUME IsInjective(st)
      PROVE  IsInjective(s) /\ IsInjective(t) /\ ToSet(s) \cap ToSet(t) = {}
  <2>1. \A i, j \in 1..(m + n) : st[i] = st[j] => i = j
    BY <1>1, <1>6 DEF IsInjective
  <2>2. \A i, j \in 1..m : s[i] = s[j] => i = j
    BY <1>2, <2>1
  <2>3. \A i, j \in 1..n : t[i] = t[j] => i = j
    <3> TAKE i, j \in 1..n
    <3>1. t[i] = t[j] => i + m = j + m
      BY <1>3, <2>1
    <3> QED  BY <1>1, <3>1, SMT
  <2>4. \A i \in 1..m, j \in 1..n : s[i] # t[j]
    <3> TAKE i \in 1..m, j \in 1..n
    <3>1. s[i] = t[j] => i = j + m
      BY <1>2, <1>3, <2>1
    <3> QED  BY <1>1, <3>1, SMT
  <2> QED  BY <1>1, <2>2, <2>3, <2>4 DEF IsInjective, ToSet
<1>7. ASSUME IsInjective(s), IsInjective(t), ToSet(s) \cap ToSet(t) = {}
      PROVE  IsInjective(st)
  <2>1. \A i \in 1..m, j \in 1..n : s[i] # t[j]
    BY <1>1, <1>7 DEF ToSet
  <2>2. \A i, j \in 1..m : s[i] = s[j] => i = j
    BY <1>1, <1>7 DEF IsInjective
  <2>3. \A i, j \in 1..n : t[i] = t[j] => i = j
    BY <1>1, <1>7 DEF IsInjective
  <2>4. \A i, j \in 1..(m + n) : st[i] = st[j] => i = j
    <3> TAKE i, j \in 1..(m + n)
    <3>1. st[i] = IF i <= m THEN s[i] ELSE t[i - m]
      BY <1>1
    <3>2. st[j] = IF j <= m THEN s[j] ELSE t[j - m]
      BY <1>1
    <3> QED  BY <1>4, <2>1, <2>2, <2>3, <3>1, <3>2, SMT
  <2> QED  BY <1>1, <2>4 DEF IsInjective
<1> QED  BY <1>5, <1>6, <1>7 DEF st

(* The list on both sides of a block that is linked into it.               *)
LEMMA InsertParts ==
    ASSUME NEW q \in Seq(Blocks), NEW k \in 1..(Len(q) + 1), NEW b \in Blocks
    PROVE  \E x, y \in Seq(Blocks) : q = x \o y /\ InsertAt(q, k, b) = (x \o <<b>>) \o y
<1> DEFINE n == Len(q)
           x == SubSeq(q, 1, k - 1)
           y == SubSeq(q, k, n)
<1>1. n \in Nat /\ k - 1 \in 0..n /\ (k - 1) + 1 = k /\ \A i \in 1..n : q[i] \in Blocks
  BY LenProperties, ElementOfSeq, SMT
<1>2. x \in Seq(Blocks) /\ y \in Seq(Blocks)
  <2>1. \A i \in 1..(k - 1) : q[i] \in Blocks
    BY <1>1, SMT
  <2>2. \A i \in k..n : q[i] \in Blocks
    BY <1>1, SMT
  <2>3. k - 1 \in Int /\ k \in Int /\ n \in Int /\ 1 \in Int
    BY <1>1, SMT
  <2> QED  BY <2>1, <2>2, <2>3, SubSeqProperties
<1>3. x \o y = SubSeq(q, 1, n)
  <2>1. 1 \in 1..(n + 1) /\ k - 1 \in (1 - 1)..n /\ n \in (k - 1)..n
    BY <1>1, SMT
  <2>2. SubSeq(q, 1, k - 1) \o SubSeq(q, (k - 1) + 1, n) = SubSeq(q, 1, n)
    BY <2>1, ConcatAdjacentSubSeq
  <2> QED  BY <1>1, <2>2
<1>4. q = x \o y
  BY <1>3, SubSeqFull
<1>5. InsertAt(q, k, b) = (x \o <<b>>) \o y
  BY DEF InsertAt
<1> HIDE DEF x, y
<1> QED  BY <1>2, <1>4, <1>5

(* And on both sides of one that is unlinked.                              *)
LEMMA RemoveParts ==
    ASSUME NEW q \in Seq(Blocks), NEW k \in 1..Len(q)
    PROVE  \E x, y \in Seq(Blocks) : q = (x \o <<q[k]>>) \o y /\ RemoveAt(q, k) = x \o y
<1> DEFINE n == Len(q)
           x == SubSeq(q, 1, k - 1)
           y == SubSeq(q, k + 1, n)
<1>1. /\ n \in Nat /\ k \in 1..n /\ k - 1 \in 0..n /\ (k - 1) + 1 = k
      /\ \A i \in 1..n : q[i] \in Blocks
  BY LenProperties, ElementOfSeq, SMT
<1>2. x \in Seq(Blocks) /\ y \in Seq(Blocks)
  <2>1. \A i \in 1..(k - 1) : q[i] \in Blocks
    BY <1>1, SMT
  <2>2. \A i \in (k + 1)..n : q[i] \in Blocks
    BY <1>1, SMT
  <2>3. k - 1 \in Int /\ k + 1 \in Int /\ n \in Int /\ 1 \in Int
    BY <1>1, SMT
  <2> QED  BY <2>1, <2>2, <2>3, SubSeqProperties
<1>3. SubSeq(q, 1, k) = x \o <<q[k]>>
  <2>1. 1 \in 1..n /\ k \in 1..n
    BY <1>1, SMT
  <2> QED  BY <2>1, SubSeqRecursiveSecond
<1>4. SubSeq(q, 1, k) \o y = SubSeq(q, 1, n)
  <2>1. 1 \in 1..(n + 1) /\ k \in (1 - 1)..n /\ n \in k..n
    BY <1>1, SMT
  <2> QED  BY <2>1, ConcatAdjacentSubSeq
<1>5. q = (x \o <<q[k]>>) \o y
  BY <1>3, <1>4, SubSeqFull
<1>6. RemoveAt(q, k) = x \o y
  BY DEF RemoveAt
<1> HIDE DEF x, y
<1> QED  BY <1>2, <1>5, <1>6

(* A list and its accounts after a chain has been linked into it.          *)
LEMMA InsertAccounts ==
    ASSUME queue \in Seq(Blocks), IsInjective(queue), NEW how \in {"head", "tail", "prio"},
           NEW chain \in Chains, IsInjective(chain), how = "prio" => Len(chain) = 1,
           ToSet(chain) \cap ToSet(queue) = {}
    PROVE  /\ IsInjective(inserted(how, chain))
           /\ ToSet(inserted(how, chain)) = ToSet(queue) \cup ToSet(chain)
           /\ Len(inserted(how, chain)) = Len(queue) + Len(chain)
           /\ TotalSize(inserted(how, chain)) = TotalSize(queue) + TotalSize(chain)
<1>1. chain \in Seq(Blocks) /\ Len(chain) \in Nat \ {0} /\ chain[1] \in Blocks
  <2>1. PICK n \in 1..MaxChain : chain \in [1..n -> Blocks]
    BY DEF Chains
  <2> QED  BY <2>1, MessageQueueAssumption, SMT DEF MessageQueueAssumption
<1>2. /\ Len(queue) \in Nat /\ TotalSize(queue) \in Nat /\ TotalSize(chain) \in Nat
      /\ TotalSize(chain \o queue) = TotalSize(chain) + TotalSize(queue)
      /\ TotalSize(queue \o chain) = TotalSize(queue) + TotalSize(chain)
  BY <1>1, TotalOfConcat, LenProperties
<1>3. CASE how = "head"
  <2>1. inserted(how, chain) = chain \o queue
    BY <1>3 DEF inserted
  <2>2. Len(chain \o queue) = Len(chain) + Len(queue)
    BY <1>1, ConcatProperties
  <2>3. /\ IsInjective(chain \o queue)
        /\ ToSet(chain \o queue) = ToSet(queue) \cup ToSet(chain)
    BY <1>1, ConcatElements
  <2> QED  BY <1>1, <1>2, <2>1, <2>2, <2>3
<1>4. CASE how = "tail"
  <2>1. inserted(how, chain) = queue \o chain
    BY <1>4 DEF inserted
  <2>2. Len(queue \o chain) = Len(queue) + Len(chain)
    BY <1>1, ConcatProperties
  <2>3. /\ IsInjective(queue \o chain)
        /\ ToSet(queue \o chain) = ToSet(queue) \cup ToSet(chain)
    BY <1>1, ConcatElements
  <2> QED  BY <1>2, <2>1, <2>2, <2>3
<1>5. CASE how = "prio"
  <2> DEFINE b == chain[1]
             new == inserted(how, chain)
  <2>1. chain = <<b>>
    BY <1>1, <1>5
  <2> DEFINE k == prio_position(b)
  <2>2. new = InsertAt(queue, k, b)
    BY <1>5 DEF inserted
  <2>3. k \in 1..(Len(queue) + 1)
    BY PositionInRange
  <2>4. b \in Blocks
    BY <1>1
  <2> HIDE DEF b, new, k
  <2>5. PICK x, y \in Seq(Blocks) : queue = x \o y /\ new = (x \o <<b>>) \o y
    <3>1. \E x, y \in Seq(Blocks) : /\ queue = x \o y
                                    /\ InsertAt(queue, k, b) = (x \o <<b>>) \o y
      BY <2>3, <2>4, InsertParts
    <3> QED  BY <2>2, <3>1
  <2>6. /\ <<b>> \in Seq(Blocks) /\ x \o <<b>> \in Seq(Blocks)
        /\ Len(<<b>>) = 1 /\ ToSet(<<b>>) = {b} /\ IsInjective(<<b>>)
    <3>1. <<b>> \in Seq(Blocks) /\ Len(<<b>>) = 1 /\ ToSet(<<b>>) = {b} /\ IsInjective(<<b>>)
      BY <2>4 DEF ToSet, IsInjective
    <3> QED  BY <3>1, ConcatProperties
  <2>7. /\ ToSet(queue) = ToSet(x) \cup ToSet(y)
        /\ IsInjective(x) /\ IsInjective(y) /\ ToSet(x) \cap ToSet(y) = {}
    BY <2>5, ConcatElements
  <2> DEFINE xb == x \o <<b>>
  <2>8. ToSet(xb) = ToSet(x) \cup {b} /\ IsInjective(xb) /\ xb \in Seq(Blocks)
    <3>1. ToSet(x) \cap ToSet(<<b>>) = {}
      BY <2>1, <2>6, <2>7
    <3>2. ToSet(xb) = ToSet(x) \cup ToSet(<<b>>) /\ IsInjective(xb)
      BY <2>6, <2>7, <3>1, ConcatElements
    <3> QED  BY <2>6, <3>2
  <2>9. ToSet(new) = ToSet(queue) \cup {b} /\ IsInjective(new)
    <3>1. ToSet(xb) \cap ToSet(y) = {}
      BY <2>1, <2>6, <2>7, <2>8
    <3>2. new = xb \o y
      BY <2>5
    <3> HIDE DEF xb
    <3>3. ToSet(new) = ToSet(xb) \cup ToSet(y) /\ IsInjective(new)
      BY <2>7, <2>8, <3>1, <3>2, ConcatElements
    <3> QED  BY <2>7, <2>8, <3>3
  <2>10. /\ Len(queue) = Len(x) + Len(y) /\ Len(new) = (Len(x) + 1) + Len(y)
         /\ Len(x) \in Nat /\ Len(y) \in Nat
    BY <2>5, <2>6, ConcatProperties, LenProperties
  <2>11. /\ TotalSize(queue) = TotalSize(x) + TotalSize(y)
         /\ TotalSize(new) = (TotalSize(x) + TotalSize(<<b>>)) + TotalSize(y)
         /\ TotalSize(x) \in Nat /\ TotalSize(y) \in Nat /\ TotalSize(<<b>>) \in Nat
    BY <2>5, <2>6, TotalOfConcat
  <2>12. Len(new) = Len(queue) + 1 /\ TotalSize(new) = TotalSize(queue) + TotalSize(<<b>>)
    BY <2>10, <2>11, SMT
  <2> QED  BY <2>1, <2>6, <2>9, <2>12 DEF new
<1> QED  BY <1>3, <1>4, <1>5

(* And after a block has been unlinked.                                    *)
LEMMA RemoveAccounts ==
    ASSUME NEW q \in Seq(Blocks), IsInjective(q), NEW k \in 1..Len(q)
    PROVE  /\ IsInjective(RemoveAt(q, k))
           /\ ToSet(RemoveAt(q, k)) = ToSet(q) \ {q[k]}
           /\ Len(RemoveAt(q, k)) = Len(q) - 1
           /\ TotalSize(RemoveAt(q, k)) = TotalSize(q) - Size[q[k]]
           /\ TotalSize(RemoveAt(q, k)) \in Nat
<1> DEFINE b == q[k]
           new == RemoveAt(q, k)
<1>1. b \in Blocks
  BY ElementOfSeq
<1>2. PICK x, y \in Seq(Blocks) : q = (x \o <<b>>) \o y /\ new = x \o y
  BY RemoveParts
<1> HIDE DEF b, new
<1>3. /\ <<b>> \in Seq(Blocks) /\ x \o <<b>> \in Seq(Blocks)
      /\ Len(<<b>>) = 1 /\ ToSet(<<b>>) = {b}
  <2>1. <<b>> \in Seq(Blocks) /\ Len(<<b>>) = 1 /\ ToSet(<<b>>) = {b}
    BY <1>1 DEF ToSet
  <2> QED  BY <2>1, ConcatProperties
<1>4. /\ ToSet(x \o <<b>>) = ToSet(x) \cup {b}
      /\ ToSet(q) = (ToSet(x) \cup {b}) \cup ToSet(y)
      /\ IsInjective(x \o <<b>>) /\ IsInjective(y)
      /\ (ToSet(x) \cup {b}) \cap ToSet(y) = {}
  <2> DEFINE xb == x \o <<b>>
  <2>1. ToSet(xb) = ToSet(x) \cup {b}
    BY <1>3, ConcatElements
  <2>2. q = xb \o y /\ xb \in Seq(Blocks)
    BY <1>2, <1>3
  <2> HIDE DEF xb
  <2>3. /\ ToSet(q) = ToSet(xb) \cup ToSet(y)
        /\ IsInjective(xb) /\ IsInjective(y) /\ ToSet(xb) \cap ToSet(y) = {}
    BY <2>2, ConcatElements
  <2> QED  BY <2>1, <2>3 DEF xb
<1>5. IsInjective(x) /\ ToSet(x) \cap {b} = {}
  BY <1>3, <1>4, ConcatElements
<1>6. IsInjective(new) /\ ToSet(new) = ToSet(x) \cup ToSet(y)
  BY <1>2, <1>4, <1>5, ConcatElements
<1>7. ToSet(new) = ToSet(q) \ {b}
  BY <1>4, <1>5, <1>6
<1>8. Len(new) = Len(q) - 1
  <2>1. /\ Len(q) = (Len(x) + 1) + Len(y) /\ Len(new) = Len(x) + Len(y)
        /\ Len(x) \in Nat /\ Len(y) \in Nat
    BY <1>2, <1>3, ConcatProperties, LenProperties
  <2> QED  BY <2>1, SMT
<1>9. TotalSize(new) = TotalSize(q) - Size[b] /\ TotalSize(new) \in Nat
  <2>1. /\ TotalSize(new) = TotalSize(x) + TotalSize(y)
        /\ TotalSize(q) = (TotalSize(x) + Size[b]) + TotalSize(y)
        /\ TotalSize(x) \in Nat /\ TotalSize(y) \in Nat /\ Size[b] \in Nat
    <3> DEFINE xb == x \o <<b>>
    <3>1. /\ TotalSize(xb) = TotalSize(x) + Size[b]
          /\ TotalSize(x) \in Nat /\ Size[b] \in Nat
      BY <1>1, <1>3, TotalOfConcat, TotalOfOne
    <3>2. q = xb \o y /\ xb \in Seq(Blocks)
      BY <1>2, <1>3
    <3> HIDE DEF xb
    <3>3. TotalSize(q) = TotalSize(xb) + TotalSize(y) /\ TotalSize(y) \in Nat
      BY <3>2, TotalOfConcat
    <3>4. TotalSize(new) = TotalSize(x) + TotalSize(y)
      BY <1>2, TotalOfConcat
    <3> QED  BY <3>1, <3>3, <3>4
  <2> QED  BY <2>1, SMT
<1> QED  BY <1>6, <1>7, <1>8, <1>9 DEF b, new

(* The chains that waiting suppliers are about to link.                    *)
Held ==
    /\ \A s \in Suppliers : IsInjective(item[s])
    /\ \A s \in Suppliers : Waiting(s) /\ op[s] = "prio" => Len(item[s]) = 1
    /\ \A s, r \in Suppliers : s # r => ToSet(item[s]) \cap ToSet(item[r]) = {}

(* Every step keeps the books, and every block in one place.               *)
LEMMA NextAccounts == Typed /\ Accounting /\ Held /\ [Next]_vars => Accounting' /\ Held'
<1> SUFFICES ASSUME Typed, Accounting, Held, [Next]_vars
             PROVE  Accounting' /\ Held'
  OBVIOUS
<1>0. /\ Suppliers \cap Consumers = {} /\ Threads = Suppliers \cup Consumers
      /\ EnqueueOps \subseteq {"head", "tail", "prio"}
      /\ DequeueOps \subseteq {"head", "tail", "prio", "peek"}
  BY MessageQueueAssumption DEF MessageQueueAssumption, Threads
<1>1. /\ queue \in Seq(Blocks)
      /\ item \in [Suppliers -> Chains \cup {<<>>}]
      /\ op \in [Threads -> EnqueueOps \cup DequeueOps \cup {"none"}]
  BY DEF Typed
<1>2. ToSet(<<>>) = {} /\ IsInjective(<<>>)
  BY DEF ToSet, IsInjective
(* A call ends, or none does, and the queue is as it was.                  *)
<1>3. ASSUME NEW t \in Threads, EndCall(t) \/ UNCHANGED <<item, op>>,
             UNCHANGED <<queue, cur_bytes, cur_count>>
      PROVE  Accounting' /\ Held'
  <2>1. \A s \in Suppliers : \/ item'[s] = <<>> /\ op'[s] = "none"
                             \/ item'[s] = item[s] /\ op'[s] = op[s]
    BY <1>0, <1>1, <1>3 DEF EndCall
  <2>2. Accounting'
    BY <1>2, <1>3, <2>1 DEF Accounting
  <2>3. Held'
    BY <1>2, <2>1 DEF Held, Waiting
  <2> QED  BY <2>2, <2>3
(* The queue is emptied.                                                   *)
<1>4. ASSUME flush_i, UNCHANGED <<item, op>>
      PROVE  Accounting' /\ Held'
  <2>1. TotalSize(queue) \in Nat /\ Len(queue) \in Nat
    BY <1>1, TotalOfConcat, LenProperties
  <2>2. cur_bytes' = 0 /\ cur_count' = 0 /\ queue' = <<>>
    BY <1>4, <2>1, SMT DEF flush_i, Accounting
  <2>3. TotalSize(<<>>) = 0 /\ Len(<<>>) = 0
    BY EmptyTotal, EmptySeq
  <2>4. Accounting'
    BY <1>2, <1>4, <2>2, <2>3 DEF Accounting
  <2>5. Held'
    BY <1>4 DEF Held, Waiting
  <2> QED  BY <2>4, <2>5
(* A message is taken out, or looked at.                                   *)
<1>5. ASSUME NEW t \in Consumers, NEW how \in DequeueOps, ~is_empty, Obtain(t, how),
             EndCall(t) \/ UNCHANGED <<item, op>>
      PROVE  Accounting' /\ Held'
  <2>1. CASE how = "peek"
    BY <1>0, <1>3, <1>5, <2>1 DEF Obtain
  <2>2. CASE how # "peek"
    <3> DEFINE k == chosen(how)
               b == queue[k]
    <3>1. Extract(t, how) /\ how \in {"head", "tail", "prio"}
      BY <1>0, <1>5, <2>2 DEF Obtain
    <3>2. k \in 1..Len(queue)
      BY <1>1, <1>5, <3>1, ChosenIsInQueue DEF is_empty
    <3>3. queue' = RemoveAt(queue, k) /\ cur_bytes' = cur_bytes - Size[b] /\ cur_count' = cur_count - 1
      BY <3>1 DEF Extract
    <3> HIDE DEF k
    <3>4. /\ IsInjective(queue') /\ ToSet(queue') = ToSet(queue) \ {b}
          /\ cur_bytes' = TotalSize(queue') /\ cur_count' = Len(queue')
      BY <1>1, <3>2, <3>3, RemoveAccounts DEF Accounting
    <3>5. \A s \in Suppliers : item'[s] = item[s] /\ op'[s] = op[s]
      BY <1>0, <1>1, <1>5 DEF EndCall
    <3>6. Accounting'
      BY <3>4, <3>5 DEF Accounting
    <3>7. Held'
      BY <3>5 DEF Held, Waiting
    <3> QED  BY <3>6, <3>7
  <2> QED  BY <2>1, <2>2
(* A chain is linked.                                                      *)
<1>6. ASSUME NEW t \in Suppliers, NEW how \in EnqueueOps, NEW chain \in Chains,
             Insert(t, how, chain), IsInjective(chain), how = "prio" => Len(chain) = 1,
             ToSet(chain) \cap ToSet(queue) = {},
             \A s \in Suppliers : \/ item'[s] = <<>> /\ op'[s] = "none"
                                  \/ /\ item'[s] = item[s] /\ op'[s] = op[s]
                                     /\ ToSet(item[s]) \cap ToSet(chain) = {}
      PROVE  Accounting' /\ Held'
  <2>1. /\ queue' = inserted(how, chain)
        /\ cur_bytes' = cur_bytes + TotalSize(chain)
        /\ cur_count' = cur_count + Len(chain)
    BY <1>6 DEF Insert, counted
  <2>2. /\ IsInjective(queue') /\ ToSet(queue') = ToSet(queue) \cup ToSet(chain)
        /\ cur_bytes' = TotalSize(queue') /\ cur_count' = Len(queue')
    BY <1>0, <1>1, <1>6, <2>1, InsertAccounts DEF Accounting
  <2>3. \A s \in Suppliers : ToSet(item'[s]) \cap ToSet(queue') = {}
    BY <1>2, <1>6, <2>2 DEF Accounting
  <2>4. Accounting'
    BY <2>2, <2>3 DEF Accounting
  <2>5. Held'
    BY <1>2, <1>6 DEF Held, Waiting
  <2> QED  BY <2>4, <2>5
<1>7. CASE \E t \in Suppliers, how \in EnqueueOps, chain \in Chains : Enqueue(t, how, chain)
  <2>1. PICK t \in Suppliers, how \in EnqueueOps, chain \in Chains : Enqueue(t, how, chain)
    BY <1>7
  <2>2. /\ ToSet(chain) \cap ToSet(queue) = {}
        /\ \A s \in Suppliers : ToSet(item[s]) \cap ToSet(chain) = {}
        /\ IsInjective(chain)
        /\ how = "prio" => Len(chain) = 1
    BY <2>1 DEF Enqueue, Owned
  <2>3. CASE is_full
    <3>1. /\ UNCHANGED <<queue, cur_bytes, cur_count>>
          /\ op' = [op EXCEPT ![t] = how]
          /\ item' = [item EXCEPT ![t] = chain]
      BY <2>1, <2>3 DEF Enqueue
    <3>2. \A s \in Suppliers : IF s = t THEN item'[s] = chain /\ op'[s] = how
                                       ELSE item'[s] = item[s] /\ op'[s] = op[s]
      BY <1>0, <1>1, <3>1
    <3>3. Accounting'
      BY <2>2, <3>1, <3>2 DEF Accounting
    <3>4. Held'
      BY <2>2, <3>2 DEF Held, Waiting
    <3> QED  BY <3>3, <3>4
  <2>4. CASE ~is_full
    <3>1. Insert(t, how, chain) /\ UNCHANGED <<op, item>>
      BY <2>1, <2>4 DEF Enqueue
    <3> QED  BY <1>6, <2>2, <3>1
  <2> QED  BY <2>3, <2>4
<1>8. CASE \E t \in Suppliers : EnqueueResume(t)
  <2>1. PICK t \in Suppliers : EnqueueResume(t)
    BY <1>8
  <2>2. CASE ShutDown(t) \/ WaitAgain(t)
    BY <1>0, <1>3, <2>2 DEF ShutDown, WaitAgain
  <2>3. CASE Insert(t, op[t], item[t]) /\ EndCall(t)
    <3>1. op[t] \in EnqueueOps /\ item[t] \in Chains /\ Waiting(t)
      BY <2>1 DEF EnqueueResume, Typed
    <3>2. /\ ToSet(item[t]) \cap ToSet(queue) = {} /\ IsInjective(item[t])
          /\ op[t] = "prio" => Len(item[t]) = 1
      BY <3>1 DEF Accounting, Held
    <3>3. \A s \in Suppliers : \/ item'[s] = <<>> /\ op'[s] = "none"
                               \/ /\ item'[s] = item[s] /\ op'[s] = op[s]
                                  /\ ToSet(item[s]) \cap ToSet(item[t]) = {}
      BY <1>0, <1>1, <2>3 DEF EndCall, Held
    <3> QED  BY <1>6, <2>3, <3>1, <3>2, <3>3
  <2> QED  BY <2>1, <2>2, <2>3 DEF EnqueueResume
<1>9. CASE \E t \in Consumers, how \in DequeueOps : Dequeue(t, how)
  <2>1. PICK t \in Consumers, how \in DequeueOps : Dequeue(t, how)
    BY <1>9
  <2>2. CASE is_empty
    <3>1. /\ UNCHANGED <<queue, cur_bytes, cur_count, item>>
          /\ \A s \in Suppliers : op'[s] = op[s]
      BY <1>0, <1>1, <2>1, <2>2 DEF Dequeue
    <3> QED  BY <3>1 DEF Accounting, Held, Waiting
  <2>3. CASE ~is_empty
    BY <1>5, <2>1, <2>3 DEF Dequeue
  <2> QED  BY <2>2, <2>3
<1>10. CASE \E t \in Consumers : DequeueResume(t)
  <2>1. PICK t \in Consumers : DequeueResume(t)
    BY <1>10
  <2>2. CASE ShutDown(t) \/ WaitAgain(t)
    BY <1>0, <1>3, <2>2 DEF ShutDown, WaitAgain
  <2>3. CASE ~is_empty /\ Obtain(t, op[t]) /\ EndCall(t)
    <3>1. op[t] \in DequeueOps
      BY <2>1 DEF DequeueResume, Typed
    <3> QED  BY <1>5, <2>3, <3>1
  <2> QED  BY <2>1, <2>2, <2>3 DEF DequeueResume
<1>11. CASE \E t \in Threads : TimeOut(t)
  BY <1>3, <1>11 DEF TimeOut
<1>12. CASE Flush \/ Close
  BY <1>4, <1>12 DEF Flush, Close
<1>13. CASE Deactivate \/ Pulse \/ Activate \/ UNCHANGED vars
  <2>1. UNCHANGED <<queue, cur_bytes, cur_count, item, op>>
    BY <1>13 DEF Deactivate, Pulse, Activate, vars
  <2> QED  BY <2>1 DEF Accounting, Held, Waiting
<1> QED
  BY <1>7, <1>8, <1>9, <1>10, <1>11, <1>12, <1>13 DEF Next

LEMMA AccountsInvariant == Spec => [](Accounting /\ Held)
<1>1. Init => Accounting /\ Held
  <2> SUFFICES ASSUME Init PROVE Accounting /\ Held
    OBVIOUS
  <2>1. ToSet(<<>>) = {} /\ IsInjective(<<>>)
    BY DEF ToSet, IsInjective
  <2>2. TotalSize(<<>>) = 0 /\ Len(<<>>) = 0
    BY EmptyTotal, EmptySeq
  <2> QED  BY <2>1, <2>2 DEF Init, Accounting, Held, Waiting, Threads
<1>2. IInv /\ (Accounting /\ Held) /\ [Next]_vars => (Accounting /\ Held)'
  BY NextAccounts DEF IInv
<1> QED  BY <1>1, <1>2, IInvInvariant, PTL DEF Spec

(* The water marks are compared with the bytes that are in the queue,      *)
(* whatever was enqueued at which end, in chains or by a thread that had   *)
(* to wait, peeked at, dequeued and flushed: cur_bytes_ and cur_count_     *)
(* never drift away from the list, and no block is linked twice.           *)
THEOREM BooksAreKept == Spec => []Accounting
BY AccountsInvariant, PTL

(* A supplier sleeps only while there are bytes in the queue: the dequeue  *)
(* that takes out the last of them has passed the low water mark and wakes *)
(* one.                                                                    *)
LEMMA NextSupplied ==
    IInv /\ Accounting /\ NoStrandedSupplierUndisturbed /\ [Next]_vars
        => NoStrandedSupplierUndisturbed'
<1> SUFFICES ASSUME IInv, Accounting, NoStrandedSupplierUndisturbed, [Next]_vars,
                    met' \cap {"flush", "pulse"} = {}, queue' = <<>>,
                    Asleep(Suppliers)' # {}
             PROVE  woken' \cap Suppliers # {}
  BY DEF NoStrandedSupplierUndisturbed, NoStrandedSupplier
<1>0. /\ Suppliers \cap Consumers = {} /\ Threads = Suppliers \cup Consumers
      /\ EnqueueOps \subseteq {"head", "tail", "prio"}
      /\ DequeueOps \subseteq {"head", "tail", "prio", "peek"}
      /\ HWM \in Nat \ {0} /\ LWM \in Nat
  BY MessageQueueAssumption, SMT DEF MessageQueueAssumption, Threads
<1>1. /\ queue \in Seq(Blocks) /\ op \in [Threads -> EnqueueOps \cup DequeueOps \cup {"none"}]
      /\ met \cap {"flush", "pulse"} = {}
      /\ Typed' /\ Closed' /\ Pulsed'
  BY NextTyped, NextClosed, NextPulsed DEF IInv, Typed
<1>2. state' = "ACTIVATED"
  BY <1>1 DEF Typed, Closed, Pulsed, Asleep, Threads
<1>3. queue = <<>> /\ Asleep(Suppliers) # {} => woken \cap Suppliers # {}
  BY <1>1 DEF NoStrandedSupplierUndisturbed, NoStrandedSupplier
<1>4. is_full => queue # <<>>
  BY <1>0, EmptyTotal, SMT DEF is_full, Accounting
(* A step that takes nothing out, nor a supplier out of its wait.          *)
<1>5. ASSUME UNCHANGED queue, woken \cap Suppliers \subseteq woken',
             \A s \in Suppliers : s \notin woken' /\ Waiting(s)' => s \in Asleep(Suppliers)
      PROVE  woken' \cap Suppliers # {}
  <2>1. Asleep(Suppliers) # {}
    BY <1>5 DEF Asleep
  <2> QED  BY <1>3, <1>5, <2>1
<1>6. ASSUME NEW t \in Suppliers, NEW how \in EnqueueOps, NEW chain \in Chains,
             Insert(t, how, chain)
      PROVE  FALSE
  <2>1. queue' = inserted(how, chain)
    BY <1>6 DEF Insert
  <2>2. PICK n \in 1..MaxChain : chain \in [1..n -> Blocks]
    BY DEF Chains
  <2>3. chain \in Seq(Blocks) /\ Len(chain) \in Nat \ {0} /\ chain[1] \in Blocks
    BY <2>2, MessageQueueAssumption, SMT DEF MessageQueueAssumption
  <2>4. CASE how = "head" \/ how = "tail"
    <3>1. inserted(how, chain) \in {chain \o queue, queue \o chain}
      BY <2>4 DEF inserted
    <3>2. Len(chain \o queue) > 0 /\ Len(queue \o chain) > 0
      BY <1>1, <2>3, ConcatProperties, LenProperties, SMT
    <3> QED  BY <2>1, <3>1, <3>2, EmptySeq
  <2>5. CASE how = "prio"
    <3>1. queue' = InsertAt(queue, prio_position(chain[1]), chain[1])
      BY <2>1, <2>5 DEF inserted
    <3>2. Len(queue') = Len(queue) + 1
      BY <1>1, <2>3, <3>1, PositionInRange, InsertAtLength
    <3> QED  BY <1>1, <3>2, LenProperties, EmptySeq
  <2> QED  BY <1>0, <2>4, <2>5
<1>7. ASSUME NEW t \in Consumers, NEW how \in DequeueOps, ~is_empty, Obtain(t, how),
             EndCall(t) \/ UNCHANGED op
      PROVE  woken' \cap Suppliers # {}
  <2>1. Extract(t, how) /\ how \in {"head", "tail", "prio"}
    BY <1>0, <1>7 DEF Obtain, is_empty
  <2> DEFINE k == chosen(how)
  <2>2. k \in 1..Len(queue) /\ queue' = RemoveAt(queue, k)
    BY <1>1, <1>7, <2>1, ChosenIsInQueue DEF is_empty, Extract
  <2>3. TotalSize(queue') = cur_bytes - Size[queue[k]]
    BY <1>1, <2>2, RemoveAccounts DEF Accounting
  <2>4. drained(cur_bytes - Size[queue[k]])
    BY <1>0, <2>3, EmptyTotal, SMT DEF drained
  <2>5. Signal(Suppliers, woken \ {t})
    BY <2>1, <2>4 DEF Extract, signal_enqueue_waiters
  <2>6. \A s \in Suppliers : Waiting(s)' <=> Waiting(s)
    BY <1>0, <1>1, <1>7 DEF EndCall, Waiting
  <2>7. Asleep(Suppliers) # {}
    BY <1>0, <2>5, <2>6, SignalledThread DEF Asleep
  <2> QED  BY <2>5, <2>7 DEF Signal, Asleep
<1>8. CASE \E t \in Suppliers, how \in EnqueueOps, chain \in Chains : Enqueue(t, how, chain)
  <2>1. PICK t \in Suppliers, how \in EnqueueOps, chain \in Chains : Enqueue(t, how, chain)
    BY <1>8
  <2>2. CASE is_full
    BY <1>4, <2>1, <2>2 DEF Enqueue
  <2>3. CASE ~is_full
    BY <1>6, <2>1, <2>3 DEF Enqueue
  <2> QED  BY <2>2, <2>3
<1>9. CASE \E t \in Suppliers : EnqueueResume(t)
  <2>1. PICK t \in Suppliers : EnqueueResume(t)
    BY <1>9
  <2>2. CASE ShutDown(t)
    BY <1>2, <2>1, <2>2 DEF EnqueueResume, ShutDown, shut_after_wait
  <2>3. CASE is_full /\ WaitAgain(t)
    BY <1>4, <2>3 DEF WaitAgain
  <2>4. CASE Insert(t, op[t], item[t])
    <3>1. op[t] \in EnqueueOps /\ item[t] \in Chains
      BY <2>1 DEF EnqueueResume, IInv, Typed
    <3> QED  BY <1>6, <2>4, <3>1
  <2> QED  BY <2>1, <2>2, <2>3, <2>4 DEF EnqueueResume
<1>10. CASE \E t \in Consumers, how \in DequeueOps : Dequeue(t, how)
  <2>1. PICK t \in Consumers, how \in DequeueOps : Dequeue(t, how)
    BY <1>10
  <2>2. CASE is_empty
    <3>1. op' = [op EXCEPT ![t] = how] /\ UNCHANGED <<queue, woken>>
      BY <2>1, <2>2 DEF Dequeue
    <3>2. \A s \in Suppliers : Waiting(s)' <=> Waiting(s)
      BY <1>0, <1>1, <3>1 DEF Waiting
    <3> QED  BY <1>5, <3>1, <3>2 DEF Asleep
  <2>3. CASE ~is_empty
    BY <1>7, <2>1, <2>3 DEF Dequeue
  <2> QED  BY <2>2, <2>3
<1>11. CASE \E t \in Consumers : DequeueResume(t)
  <2>1. PICK t \in Consumers : DequeueResume(t)
    BY <1>11
  <2>2. CASE ShutDown(t)
    BY <1>2, <2>1, <2>2 DEF DequeueResume, ShutDown, shut_after_wait
  <2>3. CASE WaitAgain(t)
    BY <1>0, <1>5, <2>3 DEF WaitAgain, Asleep, Waiting
  <2>4. CASE ~is_empty /\ Obtain(t, op[t]) /\ EndCall(t)
    <3>1. op[t] \in DequeueOps
      BY <2>1 DEF DequeueResume, IInv, Typed
    <3> QED  BY <1>7, <2>4, <3>1
  <2> QED  BY <2>1, <2>2, <2>3, <2>4 DEF DequeueResume
<1>12. CASE \E t \in Threads : TimeOut(t)
  <2>1. PICK t \in Threads : TimeOut(t)
    BY <1>12
  <2>2. UNCHANGED <<queue, woken>> /\ op' = [op EXCEPT ![t] = "none"]
    BY <2>1 DEF TimeOut, EndCall
  <2>3. \A s \in Suppliers : Waiting(s)' => Waiting(s)
    BY <1>0, <1>1, <2>2 DEF Waiting
  <2> QED  BY <1>5, <2>2, <2>3 DEF Asleep
<1>13. CASE Deactivate \/ Close
  BY <1>2, <1>13 DEF Deactivate, Close, deactivate_i
<1>14. CASE Pulse \/ Flush
  BY <1>14 DEF Pulse, Flush
<1>15. CASE Activate \/ UNCHANGED vars
  BY <1>5, <1>15 DEF Activate, vars, Asleep, Waiting
<1> QED
  BY <1>8, <1>9, <1>10, <1>11, <1>12, <1>13, <1>14, <1>15 DEF Next

(* A signal at the low water mark is enough as long as the queue is        *)
(* emptied by dequeueing: no supplier sleeps in wait_not_full_cond beside  *)
(* an empty queue unless another one has been woken, whatever the water    *)
(* marks, the sizes of the blocks and the chains are.                      *)
THEOREM NoSupplierStranded == Spec => []NoStrandedSupplierUndisturbed
<1>1. Init => NoStrandedSupplierUndisturbed
  BY DEF Init, NoStrandedSupplierUndisturbed, NoStrandedSupplier, Asleep, Waiting, Threads
<1>2. /\ IInv /\ (Accounting /\ Held) /\ NoStrandedSupplierUndisturbed /\ [Next]_vars
      => NoStrandedSupplierUndisturbed'
  BY NextSupplied
<1> QED  BY <1>1, <1>2, IInvInvariant, AccountsInvariant, PTL DEF Spec

-----------------------------------------------------------------------------
(* The order of the queue.                                                 *)

(* What is where once a block has been unlinked.                           *)
LEMMA RemoveAtElements ==
    ASSUME NEW S, NEW q \in Seq(S), NEW k \in 1..Len(q),
           NEW i \in 1..Len(RemoveAt(q, k))
    PROVE  RemoveAt(q, k)[i] = IF i < k THEN q[i] ELSE q[i + 1]
<1> DEFINE n == Len(q)
           a == SubSeq(q, 1, k - 1)
           b == SubSeq(q, k + 1, n)
<1>1. n \in Nat /\ k \in 1..n /\ i \in 1..(n - 1) /\ \A j \in 1..n : q[j] \in S
  BY RemoveAtLength, ElementOfSeq, LenProperties, SMT
<1>2. a \in Seq(S) /\ Len(a) = k - 1 /\ \A j \in 1..(k - 1) : a[j] = q[j]
  <2>1. /\ 1 \in Int /\ k - 1 \in Int /\ \A j \in 1..(k - 1) : q[j] \in S
    BY <1>1, SMT
  <2>2. /\ a \in Seq(S) /\ Len(a) = IF 1 <= k - 1 THEN (k - 1) - 1 + 1 ELSE 0
        /\ \A j \in 1..((k - 1) - 1 + 1) : a[j] = q[1 + j - 1]
    BY <2>1, SubSeqProperties
  <2> HIDE DEF a
  <2>3. Len(a) = k - 1
    BY <1>1, <2>2, SMT
  <2>4. ASSUME NEW j \in 1..(k - 1)
        PROVE  a[j] = q[j]
    <3>1. j \in 1..((k - 1) - 1 + 1) /\ 1 + j - 1 = j
      BY <1>1, SMT
    <3> QED  BY <2>2, <3>1
  <2> QED  BY <2>2, <2>3, <2>4
<1>3. b \in Seq(S) /\ Len(b) = n - k /\ \A j \in 1..(n - k) : b[j] = q[k + j]
  <2>1. k + 1 \in Int /\ n \in Int /\ \A j \in (k + 1)..n : q[j] \in S
    BY <1>1, SMT
  <2>2. /\ b \in Seq(S) /\ Len(b) = IF k + 1 <= n THEN n - (k + 1) + 1 ELSE 0
        /\ \A j \in 1..(n - (k + 1) + 1) : b[j] = q[(k + 1) + j - 1]
    BY <2>1, SubSeqProperties
  <2> HIDE DEF b
  <2>3. Len(b) = n - k
    BY <1>1, <2>2, SMT
  <2>4. ASSUME NEW j \in 1..(n - k)
        PROVE  b[j] = q[k + j]
    <3>1. j \in 1..(n - (k + 1) + 1) /\ (k + 1) + j - 1 = k + j
      BY <1>1, SMT
    <3> QED  BY <2>2, <3>1
  <2> QED  BY <2>2, <2>3, <2>4
<1> HIDE DEF a, b
<1>4. \A j \in 1..(Len(a) + Len(b)) :
         (a \o b)[j] = IF j <= Len(a) THEN a[j] ELSE b[j - Len(a)]
  BY <1>2, <1>3, ConcatProperties
<1>5. RemoveAt(q, k) = a \o b
  BY DEF RemoveAt, a, b
<1>6. RemoveAt(q, k)[i] = IF i <= k - 1 THEN a[i] ELSE b[i - (k - 1)]
  BY <1>1, <1>2, <1>3, <1>4, <1>5, SMT
<1>7. CASE i < k
  BY <1>1, <1>2, <1>6, <1>7, SMT
<1>8. CASE ~(i < k)
  <2>1. b[i - (k - 1)] = q[k + (i - (k - 1))]
    BY <1>1, <1>3, <1>8, SMT
  <2>2. k + (i - (k - 1)) = i + 1
    BY <1>1, SMT
  <2> QED  BY <1>1, <1>6, <1>8, <2>1, <2>2, SMT
<1> QED  BY <1>7, <1>8

(* And once one has been linked.                                           *)
LEMMA InsertAtElements ==
    ASSUME NEW S, NEW q \in Seq(S), NEW k \in 1..(Len(q) + 1), NEW e \in S,
           NEW i \in 1..Len(InsertAt(q, k, e))
    PROVE  InsertAt(q, k, e)[i] =
              IF i < k THEN q[i] ELSE IF i = k THEN e ELSE q[i - 1]
<1> DEFINE n == Len(q)
           a == SubSeq(q, 1, k - 1)
           b == SubSeq(q, k, n)
           c == a \o <<e>>
<1>1. n \in Nat /\ k \in 1..(n + 1) /\ i \in 1..(n + 1) /\ \A j \in 1..n : q[j] \in S
  BY InsertAtLength, ElementOfSeq, LenProperties, SMT
<1>2. a \in Seq(S) /\ Len(a) = k - 1 /\ \A j \in 1..(k - 1) : a[j] = q[j]
  <2>1. /\ 1 \in Int /\ k - 1 \in Int /\ \A j \in 1..(k - 1) : q[j] \in S
    BY <1>1, SMT
  <2>2. /\ a \in Seq(S) /\ Len(a) = IF 1 <= k - 1 THEN (k - 1) - 1 + 1 ELSE 0
        /\ \A j \in 1..((k - 1) - 1 + 1) : a[j] = q[1 + j - 1]
    BY <2>1, SubSeqProperties
  <2> HIDE DEF a
  <2>3. Len(a) = k - 1
    BY <1>1, <2>2, SMT
  <2>4. ASSUME NEW j \in 1..(k - 1)
        PROVE  a[j] = q[j]
    <3>1. j \in 1..((k - 1) - 1 + 1) /\ 1 + j - 1 = j
      BY <1>1, SMT
    <3> QED  BY <2>2, <3>1
  <2> QED  BY <2>2, <2>3, <2>4
<1>3. b \in Seq(S) /\ Len(b) = n - k + 1 /\ \A j \in 1..(n - k + 1) : b[j] = q[k + j - 1]
  <2>1. k \in Int /\ n \in Int /\ \A j \in k..n : q[j] \in S
    BY <1>1, SMT
  <2>2. /\ b \in Seq(S) /\ Len(b) = IF k <= n THEN n - k + 1 ELSE 0
        /\ \A j \in 1..(n - k + 1) : b[j] = q[k + j - 1]
    BY <2>1, SubSeqProperties
  <2> HIDE DEF b
  <2>3. Len(b) = n - k + 1
    BY <1>1, <2>2, SMT
  <2> QED  BY <2>2, <2>3
<1> HIDE DEF a, b
<1>4. <<e>> \in Seq(S) /\ Len(<<e>>) = 1 /\ <<e>>[1] = e
  OBVIOUS
<1>5. c \in Seq(S) /\ Len(c) = k /\ \A j \in 1..k : c[j] = IF j <= k - 1 THEN a[j] ELSE e
  <2>1. /\ c \in Seq(S) /\ Len(c) = Len(a) + Len(<<e>>)
        /\ \A j \in 1..(Len(a) + Len(<<e>>)) :
              c[j] = IF j <= Len(a) THEN a[j] ELSE <<e>>[j - Len(a)]
    BY <1>2, <1>4, ConcatProperties
  <2> HIDE DEF c
  <2> QED  BY <1>1, <1>2, <1>4, <2>1, SMT
<1> HIDE DEF c
<1>6. \A j \in 1..(Len(c) + Len(b)) :
         (c \o b)[j] = IF j <= Len(c) THEN c[j] ELSE b[j - Len(c)]
  BY <1>3, <1>5, ConcatProperties
<1>7. InsertAt(q, k, e) = c \o b
  BY DEF InsertAt, a, b, c
<1>8. InsertAt(q, k, e)[i] = IF i <= k THEN c[i] ELSE b[i - k]
  BY <1>1, <1>3, <1>5, <1>6, <1>7, SMT
<1>9. CASE i <= k
  BY <1>1, <1>2, <1>5, <1>8, <1>9, SMT
<1>10. CASE i > k
  <2>1. b[i - k] = q[k + (i - k) - 1]
    BY <1>1, <1>3, <1>10, SMT
  <2>2. k + (i - k) - 1 = i - 1
    BY <1>1, SMT
  <2> QED  BY <1>1, <1>8, <1>10, <2>1, <2>2, SMT
<1> QED  BY <1>1, <1>9, <1>10, SMT

(* In an ordered queue enqueue_i stops between the blocks that are at      *)
(* least as important as the new one and those that are not.               *)
LEMMA PositionSplits ==
    ASSUME queue \in Seq(Blocks), NEW b \in Blocks,
           \A i, j \in DOMAIN queue : i < j => Priority[queue[i]] >= Priority[queue[j]],
           NEW i \in DOMAIN queue
    PROVE  IF i < prio_position(b) THEN Priority[queue[i]] >= Priority[b]
                                   ELSE Priority[queue[i]] < Priority[b]
<1> DEFINE n == Len(queue)
           behind == {j \in DOMAIN queue : Priority[queue[j]] >= Priority[b]}
<1>1. n \in Nat /\ DOMAIN queue = 1..n /\ behind \in SUBSET (1..n) /\ i \in 1..n
  BY LenProperties
<1>2. \A j \in 1..n : Priority[queue[j]] \in Nat
  BY ElementOfSeq, MessageQueueAssumption DEF MessageQueueAssumption
<1>3. Priority[b] \in Nat
  BY MessageQueueAssumption DEF MessageQueueAssumption
<1>4. i \notin behind => Priority[queue[i]] < Priority[b]
  BY <1>1, <1>2, <1>3
<1>5. CASE behind = {}
  <2>1. prio_position(b) = 1
    BY <1>5, SMT DEF prio_position
  <2> QED  BY <1>1, <1>4, <1>5, <2>1, SMT
<1>6. CASE behind # {}
  <2>1. \E x \in behind : \A y \in behind : x >= y
    BY <1>1, <1>6, GreatestExists
  <2>2. PICK m \in behind : m = Max(behind) /\ \A y \in behind : m >= y
    BY <2>1 DEF Max
  <2>3. prio_position(b) = 1 + m
    BY <1>6, <2>2 DEF prio_position
  <2>4. m \in 1..n /\ Priority[queue[m]] >= Priority[b]
    BY <1>1, <2>2
  <2>5. i < m => Priority[queue[i]] >= Priority[queue[m]]
    BY <1>1, <2>4
  <2>6. i <= m => Priority[queue[i]] >= Priority[b]
    BY <1>1, <1>2, <1>3, <2>4, <2>5, SMT
  <2>7. i > m => i \notin behind
    <3>1. i \in behind => m >= i
      BY <2>2
    <3> HIDE DEF behind
    <3> QED  BY <1>1, <2>4, <3>1, SMT
  <2> HIDE DEF behind
  <2> QED  BY <1>1, <1>4, <2>3, <2>4, <2>6, <2>7, SMT
<1> QED  BY <1>5, <1>6

Ordered ==
    \A i, j \in DOMAIN queue : i < j =>
        \/ Priority[queue[i]] > Priority[queue[j]]
        \/ /\ Priority[queue[i]] = Priority[queue[j]]
           /\ <<queue[i], queue[j]>> \in before

OrderInv == "ends" \notin met => Ordered

(* An insertion by priority.                                               *)
LEMMA InsertOrdered ==
    ASSUME Typed, Ordered, NEW t \in Suppliers, NEW chain \in Chains,
           Insert(t, "prio", chain), ToSet(chain) \cap ToSet(queue) = {}
    PROVE  Ordered'
<1> DEFINE b == chain[1]
           p == prio_position(b)
           n == Len(queue)
<1>1. queue \in Seq(Blocks)
  BY DEF Typed
<1>2. b \in Blocks /\ b \in ToSet(chain)
  <2>1. PICK m \in 1..MaxChain : chain \in [1..m -> Blocks]
    BY DEF Chains
  <2>2. 1 \in 1..m
    BY <2>1, MessageQueueAssumption, SMT DEF MessageQueueAssumption
  <2> QED  BY <2>1, <2>2 DEF ToSet
<1>3. queue' = InsertAt(queue, p, b) /\ before' = before \cup (ToSet(queue) \X ToSet(chain))
  BY DEF Insert, inserted
<1> HIDE DEF b
<1>4. n \in Nat /\ DOMAIN queue = 1..n /\ p \in 1..(n + 1)
  BY <1>1, LenProperties, PositionInRange
<1>5. /\ \A i \in 1..n : queue[i] \in Blocks /\ queue[i] \in ToSet(queue) /\ queue[i] # b
      /\ \A i \in 1..n : Priority[queue[i]] \in Nat
      /\ Priority[b] \in Nat
  <2>1. \A i \in 1..n : queue[i] \in Blocks
    BY <1>1, <1>4, ElementOfSeq
  <2>2. \A i \in 1..n : queue[i] \in ToSet(queue)
    BY <1>4 DEF ToSet
  <2>3. \A x \in Blocks : Priority[x] \in Nat
    BY MessageQueueAssumption DEF MessageQueueAssumption
  <2> QED  BY <1>2, <2>1, <2>2, <2>3
<1>6. \A i, j \in DOMAIN queue : i < j => Priority[queue[i]] >= Priority[queue[j]]
  <2> HIDE DEF n
  <2> SUFFICES ASSUME NEW i \in 1..n, NEW j \in 1..n, i < j
               PROVE  Priority[queue[i]] >= Priority[queue[j]]
    BY <1>4
  <2>1. \/ Priority[queue[i]] > Priority[queue[j]]
        \/ Priority[queue[i]] = Priority[queue[j]]
    BY <1>4 DEF Ordered
  <2> QED  BY <1>5, <2>1, SMT
<1>7. \A i \in 1..n : IF i < p THEN Priority[queue[i]] >= Priority[b]
                               ELSE Priority[queue[i]] < Priority[b]
  BY <1>1, <1>2, <1>4, <1>6, PositionSplits
<1>8. /\ queue' \in Seq(Blocks) /\ Len(queue') = n + 1 /\ DOMAIN queue' = 1..(n + 1)
  BY <1>1, <1>2, <1>3, <1>4, InsertAtLength, LenProperties
<1>9. \A i \in 1..(n + 1) :
         queue'[i] = IF i < p THEN queue[i] ELSE IF i = p THEN b ELSE queue[i - 1]
  BY <1>1, <1>2, <1>3, <1>4, <1>8, InsertAtElements
<1> HIDE DEF p, n
(* Where the blocks of the queue were before.                              *)
<1>10. ASSUME NEW i \in 1..(n + 1), i # p
       PROVE  \E k \in 1..n : /\ queue'[i] = queue[k]
                              /\ k = IF i < p THEN i ELSE i - 1
  <2>1. CASE i < p
    BY <1>4, <1>9, <2>1, SMT
  <2>2. CASE ~(i < p)
    <3>1. i - 1 \in 1..n
      BY <1>4, <1>10, <2>2, SMT
    <3> QED  BY <1>9, <1>10, <2>2, <3>1
  <2> QED  BY <2>1, <2>2
<1>11. queue'[p] = b
  BY <1>4, <1>9, SMT
<1>12. ASSUME NEW i \in 1..(n + 1), NEW j \in 1..(n + 1), i < j
       PROVE  \/ Priority[queue'[i]] > Priority[queue'[j]]
              \/ /\ Priority[queue'[i]] = Priority[queue'[j]]
                 /\ <<queue'[i], queue'[j]>> \in before'
  <2>1. CASE i # p /\ j # p
    <3>1. PICK k \in 1..n : queue'[i] = queue[k] /\ k = IF i < p THEN i ELSE i - 1
      BY <1>10, <2>1
    <3>2. PICK l \in 1..n : queue'[j] = queue[l] /\ l = IF j < p THEN j ELSE j - 1
      BY <1>10, <2>1
    <3>3. k < l
      BY <1>4, <1>12, <2>1, <3>1, <3>2, SMT
    <3> QED  BY <1>3, <1>4, <3>1, <3>2, <3>3 DEF Ordered
  <2>2. CASE j = p
    <3>1. PICK k \in 1..n : queue'[i] = queue[k] /\ k < p
      BY <1>4, <1>10, <1>12, <2>2, SMT
    <3>2. Priority[queue[k]] >= Priority[b]
      BY <1>7, <3>1
    <3>3. <<queue[k], b>> \in before'
      BY <1>2, <1>3, <1>5
    <3>4. Priority[queue[k]] > Priority[b] \/ Priority[queue[k]] = Priority[b]
      BY <1>5, <3>2, SMT
    <3> QED  BY <1>11, <2>2, <3>1, <3>3, <3>4
  <2>3. CASE i = p
    <3>1. PICK k \in 1..n : queue'[j] = queue[k] /\ ~(k < p)
      BY <1>4, <1>10, <1>12, <2>3, SMT
    <3>2. Priority[queue[k]] < Priority[b]
      BY <1>7, <3>1
    <3>3. Priority[b] > Priority[queue[k]]
      BY <1>5, <3>2, SMT
    <3> QED  BY <1>11, <2>3, <3>1, <3>3
  <2> QED  BY <2>1, <2>2, <2>3
<1> QED  BY <1>8, <1>12 DEF Ordered

(* An extraction from any place.                                           *)
LEMMA ExtractOrdered ==
    ASSUME Typed, IsInjective(queue), Ordered, NEW t \in Consumers,
           NEW how \in {"head", "tail", "prio"}, ~is_empty, Extract(t, how)
    PROVE  Ordered'
<1> DEFINE k == chosen(how)
           n == Len(queue)
<1>1. queue \in Seq(Blocks) /\ queue # <<>>
  BY DEF Typed, is_empty
<1>2. k \in 1..n
  BY <1>1, ChosenIsInQueue
<1>3. queue' = RemoveAt(queue, k) /\ before' = {p \in before : queue[k] \notin {p[1], p[2]}}
  BY DEF Extract
<1> HIDE DEF k
<1>4. n \in Nat /\ DOMAIN queue = 1..n
  BY <1>1, LenProperties
<1>5. /\ queue' \in Seq(Blocks) /\ Len(queue') = n - 1 /\ DOMAIN queue' = 1..(n - 1)
  BY <1>1, <1>2, <1>3, RemoveAtLength, LenProperties
<1>6. \A i \in 1..(n - 1) : queue'[i] = IF i < k THEN queue[i] ELSE queue[i + 1]
  BY <1>1, <1>2, <1>3, <1>5, RemoveAtElements
<1> HIDE DEF n
(* Where the blocks of the queue were before.                              *)
<1>7. ASSUME NEW i \in 1..(n - 1)
      PROVE  \E l \in 1..n : /\ queue'[i] = queue[l] /\ l # k
                             /\ l = IF i < k THEN i ELSE i + 1
  <2>1. CASE i < k
    BY <1>2, <1>4, <1>6, <2>1, SMT
  <2>2. CASE ~(i < k)
    <3>1. i + 1 \in 1..n /\ i + 1 # k
      BY <1>2, <1>4, <2>2, SMT
    <3> QED  BY <1>6, <2>2, <3>1
  <2> QED  BY <2>1, <2>2
<1>8. ASSUME NEW i \in 1..(n - 1), NEW j \in 1..(n - 1), i < j
      PROVE  \/ Priority[queue'[i]] > Priority[queue'[j]]
             \/ /\ Priority[queue'[i]] = Priority[queue'[j]]
                /\ <<queue'[i], queue'[j]>> \in before'
  <2>1. PICK l \in 1..n : queue'[i] = queue[l] /\ l # k /\ l = IF i < k THEN i ELSE i + 1
    BY <1>7
  <2>2. PICK m \in 1..n : queue'[j] = queue[m] /\ m # k /\ m = IF j < k THEN j ELSE j + 1
    BY <1>7
  <2>3. l < m
    BY <1>2, <1>4, <1>8, <2>1, <2>2, SMT
  <2>4. queue[l] # queue[k] /\ queue[m] # queue[k]
    BY <1>2, <1>4, <2>1, <2>2 DEF IsInjective
  <2>5. <<queue[l], queue[m]>> \in before => <<queue[l], queue[m]>> \in before'
    BY <1>3, <2>4
  <2> QED  BY <1>4, <2>1, <2>2, <2>3, <2>4, <2>5 DEF Ordered
<1> QED  BY <1>5, <1>8 DEF Ordered

(* Each step keeps the order, as long as all insertions are by priority.   *)
LEMMA NextOrder == IInv /\ Accounting /\ OrderInv /\ [Next]_vars => OrderInv'
<1> SUFFICES ASSUME IInv, Accounting, OrderInv, [Next]_vars, "ends" \notin met'
             PROVE  Ordered'
  BY DEF OrderInv
<1>0. DequeueOps \subseteq {"head", "tail", "prio", "peek"}
  BY MessageQueueAssumption DEF MessageQueueAssumption
<1>1. Ordered /\ Typed /\ IsInjective(queue)
  BY NextPulsed DEF OrderInv, IInv, Accounting
(* The queue is as it was, or has been emptied.                            *)
<1>2. ASSUME UNCHANGED <<queue, before>> \/ queue' = <<>>
      PROVE  Ordered'
  BY <1>1, <1>2 DEF Ordered
(* A message is taken out, or looked at.                                   *)
<1>3. ASSUME NEW t \in Consumers, NEW how \in DequeueOps, ~is_empty, Obtain(t, how)
      PROVE  Ordered'
  <2>1. CASE how = "peek"
    BY <1>2, <1>3, <2>1 DEF Obtain
  <2>2. CASE how # "peek"
    BY <1>0, <1>1, <1>3, <2>2, ExtractOrdered DEF Obtain
  <2> QED  BY <2>1, <2>2
<1>4. CASE \E t \in Suppliers, how \in EnqueueOps, chain \in Chains : Enqueue(t, how, chain)
  <2>1. PICK t \in Suppliers, how \in EnqueueOps, chain \in Chains : Enqueue(t, how, chain)
    BY <1>4
  <2>2. CASE is_full
    BY <1>2, <2>1, <2>2 DEF Enqueue
  <2>3. CASE ~is_full
    <3>1. Insert(t, how, chain) /\ ToSet(chain) \cap ToSet(queue) = {}
      BY <2>1, <2>3 DEF Enqueue, Owned
    <3>2. how = "prio"
      BY <3>1 DEF Insert
    <3> QED  BY <1>1, <3>1, <3>2, InsertOrdered
  <2> QED  BY <2>2, <2>3
<1>5. CASE \E t \in Suppliers : EnqueueResume(t)
  <2>1. PICK t \in Suppliers : EnqueueResume(t)
    BY <1>5
  <2>2. CASE ShutDown(t) \/ WaitAgain(t)
    BY <1>2, <2>2 DEF ShutDown, WaitAgain
  <2>3. CASE Insert(t, op[t], item[t])
    <3>1. op[t] = "prio" /\ item[t] \in Chains
      BY <1>1, <2>1, <2>3 DEF Insert, EnqueueResume, Typed
    <3>2. ToSet(item[t]) \cap ToSet(queue) = {}
      BY DEF Accounting
    <3> QED  BY <1>1, <2>3, <3>1, <3>2, InsertOrdered
  <2> QED  BY <2>1, <2>2, <2>3 DEF EnqueueResume
<1>6. CASE \E t \in Consumers, how \in DequeueOps : Dequeue(t, how)
  <2>1. PICK t \in Consumers, how \in DequeueOps : Dequeue(t, how)
    BY <1>6
  <2>2. CASE is_empty
    BY <1>2, <2>1, <2>2 DEF Dequeue
  <2>3. CASE ~is_empty
    BY <1>3, <2>1, <2>3 DEF Dequeue
  <2> QED  BY <2>2, <2>3
<1>7. CASE \E t \in Consumers : DequeueResume(t)
  <2>1. PICK t \in Consumers : DequeueResume(t)
    BY <1>7
  <2>2. CASE ShutDown(t) \/ WaitAgain(t)
    BY <1>2, <2>2 DEF ShutDown, WaitAgain
  <2>3. CASE ~is_empty /\ Obtain(t, op[t])
    <3>1. op[t] \in DequeueOps
      BY <1>1, <2>1 DEF DequeueResume, Typed
    <3> QED  BY <1>3, <2>3, <3>1
  <2> QED  BY <2>1, <2>2, <2>3 DEF DequeueResume
<1>8. CASE \E t \in Threads : TimeOut(t)
  BY <1>2, <1>8 DEF TimeOut
<1>9. CASE Flush \/ Close \/ Deactivate \/ Pulse \/ Activate \/ UNCHANGED vars
  BY <1>2, <1>9 DEF Flush, Close, flush_i, Deactivate, Pulse, Activate, vars
<1> QED
  BY <1>4, <1>5, <1>6, <1>7, <1>8, <1>9 DEF Next

(* A queue into which blocks are only enqueued by priority is ordered by   *)
(* priority, and FIFO among equals, whatever is taken out of it, however   *)
(* many blocks and threads there are and whoever had to wait.              *)
THEOREM QueueIsOrdered == Spec => []PriorityOrder
<1>1. Init => OrderInv
  BY DEF Init, OrderInv, Ordered
<1>2. IInv /\ (Accounting /\ Held) /\ OrderInv /\ [Next]_vars => OrderInv'
  BY NextOrder
<1>3. OrderInv => PriorityOrder
  BY DEF OrderInv, Ordered, PriorityOrder
<1> QED  BY <1>1, <1>2, <1>3, IInvInvariant, AccountsInvariant, PTL DEF Spec

(* The counters are never negative: the bytes and blocks that a dequeue    *)
(* or a flush takes off cur_bytes_ and cur_count_ have been added before.  *)
THEOREM TypeCorrect == Spec => []TypeOK
<1> DEFINE History == before \subseteq Blocks \X Blocks /\ met \subseteq {"flush", "pulse", "ends"}
<1>1. Init => History
  BY DEF Init
<1>2. IInv /\ History /\ [Next]_vars => History'
  <2> SUFFICES ASSUME IInv, History, [Next]_vars
               PROVE  before' \subseteq Blocks \X Blocks /\ met' \subseteq met \cup {"flush", "pulse", "ends"}
    OBVIOUS
  <2>1. ToSet(queue) \subseteq Blocks
    BY ElementOfSeq, LenProperties DEF ToSet, IInv, Typed
  <2>2. ASSUME NEW t, NEW how, NEW chain \in Chains, Insert(t, how, chain)
        PROVE  before' \subseteq Blocks \X Blocks /\ met' \subseteq met \cup {"ends"}
    <3>1. ToSet(chain) \subseteq Blocks
      BY DEF Chains, ToSet
    <3> QED  BY <2>1, <2>2, <3>1 DEF Insert
  <2>3. ASSUME NEW t, NEW how, Obtain(t, how)
        PROVE  before' \subseteq before
    BY <2>3 DEF Obtain, Extract
  <2>4. CASE \E t \in Suppliers, how \in EnqueueOps, chain \in Chains : Enqueue(t, how, chain)
    BY <2>2, <2>4 DEF Enqueue
  <2>5. CASE \E t \in Suppliers : EnqueueResume(t)
    <3>1. \A t \in Suppliers : Waiting(t) => item[t] \in Chains
      BY DEF IInv, Typed
    <3> QED  BY <2>2, <2>5, <3>1 DEF EnqueueResume, ShutDown, WaitAgain
  <2>6. CASE \E t \in Consumers, how \in DequeueOps : Dequeue(t, how)
    BY <2>3, <2>6 DEF Dequeue
  <2>7. CASE \E t \in Consumers : DequeueResume(t)
    BY <2>3, <2>7 DEF DequeueResume, ShutDown, WaitAgain
  <2>8. CASE \E t \in Threads : TimeOut(t)
    BY <2>8 DEF TimeOut
  <2>9. CASE Flush \/ Close \/ Deactivate \/ Pulse \/ Activate \/ UNCHANGED vars
    BY <2>9 DEF Flush, Close, flush_i, Deactivate, Pulse, Activate, vars
  <2> QED
    BY <2>4, <2>5, <2>6, <2>7, <2>8, <2>9 DEF Next
<1>3. IInv /\ (Accounting /\ Held) /\ History => TypeOK
  <2> SUFFICES ASSUME IInv, Accounting, History PROVE TypeOK
    OBVIOUS
  <2>1. TotalSize(queue) \in Nat /\ Len(queue) \in Nat
    BY TotalOfConcat, LenProperties DEF IInv, Typed
  <2> QED  BY <2>1 DEF IInv, Typed, Accounting, TypeOK
<1> HIDE DEF History
<1> QED  BY <1>1, <1>2, <1>3, IInvInvariant, AccountsInvariant, PTL DEF Spec
=============================================================================
