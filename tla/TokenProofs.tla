---------------------------- MODULE TokenProofs ----------------------------
(***************************************************************************)
(* Proofs about Token, for any number of threads, both queueing            *)
(* strategies, both builds and any nesting.                                *)
(***************************************************************************)
EXTENDS Token, ListProofs

-----------------------------------------------------------------------------
(* ACE_Token_Queue: what linking and unlinking an entry does to the list.  *)

(* insert_entry adds the entry, at either end, and keeps the others.       *)
LEMMA InsertEntry ==
    ASSUME NEW S, NEW q, QueueOf(q, S), NEW t, t \notin S, NEW front \in BOOLEAN
    PROVE  /\ QueueOf(insert_entry(q, t, front), S \cup {t})
           /\ Len(insert_entry(q, t, front)) = Len(q) + 1
<1> DEFINE r == Cons(t, q)
           n == Len(q)
<1>1. /\ q \in Seq(S) /\ q \in Seq(S \cup {t}) /\ n \in Nat
      /\ \A i \in 1..n : q[i] \in S /\ q[i] # t
  BY ElementOfSeq, SMT DEF QueueOf
<1>2. /\ r \in Seq(S \cup {t})
      /\ Len(r) = n + 1
      /\ \A i \in 1..(n + 1) : r[i] = IF i = 1 THEN t ELSE q[i - 1]
  BY <1>1, SMT DEF Cons
<1>3. \A u \in S : \E i \in 1..n : q[i] = u
  BY DEF QueueOf
<1>4. \A i, j \in 1..n : q[i] = q[j] => i = j
  BY DEF QueueOf
<1> HIDE DEF r, n
<1>5. ASSUME NEW i \in 1..(n + 1), NEW j \in 1..(n + 1), r[i] = r[j]
      PROVE  i = j
  <2>1. \A k \in 2..(n + 1) : k - 1 \in 1..n /\ r[k] = q[k - 1] /\ r[k] # t
    BY <1>1, <1>2, SMT
  <2>2. r[1] = t
    BY <1>1, <1>2, SMT
  <2>3. CASE i = 1 \/ j = 1
    BY <1>1, <1>5, <2>1, <2>2, <2>3, SMT
  <2>4. CASE i # 1 /\ j # 1
    <3>1. i \in 2..(n + 1) /\ j \in 2..(n + 1)
      BY <1>1, <2>4, SMT
    <3>2. i - 1 \in 1..n /\ j - 1 \in 1..n /\ q[i - 1] = q[j - 1]
      BY <1>5, <2>1, <3>1
    <3> QED  BY <1>1, <1>4, <3>1, <3>2, SMT
  <2> QED  BY <2>3, <2>4
<1>6. \A u \in S \cup {t} : \E i \in 1..(n + 1) : r[i] = u
  <2>1. r[1] = t /\ 1 \in 1..(n + 1)
    BY <1>1, <1>2, SMT
  <2>2. \A i \in 1..n : i + 1 \in 1..(n + 1) /\ r[i + 1] = q[i]
    BY <1>1, <1>2, SMT
  <2> QED  BY <1>3, <2>1, <2>2, SMT
<1>7. QueueOf(r, S \cup {t}) /\ Len(r) = n + 1
  BY <1>2, <1>5, <1>6 DEF QueueOf
<1> QED  BY <1>7, LinkLast DEF insert_entry, r, n

(* remove_entry unlinks the entry wherever it is, and keeps the others.    *)
LEMMA RemoveEntry ==
    ASSUME NEW S, NEW q, QueueOf(q, S), NEW t \in S
    PROVE  /\ QueueOf(remove_entry(q, t), S \ {t})
           /\ Len(remove_entry(q, t)) = Len(q) - 1
<1> DEFINE k == CHOOSE i \in DOMAIN q : q[i] = t
<1>1. DOMAIN q = 1..Len(q)
  BY ElementOfSeq, SMT DEF QueueOf
<1>2. k \in 1..Len(q) /\ q[k] = t
  BY <1>1 DEF QueueOf
<1>3. remove_entry(q, t) = RemoveAt(q, k)
  BY <1>1, <1>2 DEF remove_entry, ToSet
<1> HIDE DEF k
<1>4. /\ QueueOf(RemoveAt(q, k), S \ {q[k]})
      /\ Len(RemoveAt(q, k)) = Len(q) - 1
  BY <1>2, UnlinkAt
<1> QED  BY <1>2, <1>3, <1>4

-----------------------------------------------------------------------------
(* The inductive invariant.                                                *)

WaitersIn(op) == {t \in Threads : Waiting(t) /\ my_queue[t] = op}

QueueInv ==
    /\ QueueOf(writers, WaitersIn("WRITE_TOKEN"))
    /\ QueueOf(readers, WaitersIn("READ_TOKEN"))
    /\ waiters = Len(writers) + Len(readers)

OwnerInv ==
    /\ in_use = "FREE" <=> owner = NULL_thread
    /\ \A t \in Threads : runable[t] => Waiting(t) /\ owner = t

(* nesting_level_ and save_nesting_level_ never fall short of what the     *)
(* client has acquired: a release that hands the token on is its last.     *)
NestingInv ==
    /\ \A t \in Threads : Holds(t) => owner = t /\ depth[t] <= nesting_level + 1
    /\ \A t \in Threads : pc[t] = "renew" => depth[t] <= save_nesting[t] + 1

IInv == TypeOK /\ QueueInv /\ OwnerInv /\ NestingInv

(* Queueing the caller, and taking it out again, keep the lists exact.     *)
LEMMA EnqueueKeepsQueues ==
    ASSUME TypeOK, QueueInv, NEW t \in Threads, ~Waiting(t),
           NEW op \in OpTypes, NEW goNext \in BOOLEAN,
           NEW where \in {"acquire", "renew"}, Enqueue(t, op, goNext, where)
    PROVE  /\ QueueInv'
           /\ writers' \in Seq(Threads) /\ readers' \in Seq(Threads)
           /\ waiters' \in Nat
<1> DEFINE W == WaitersIn("WRITE_TOKEN")
           R == WaitersIn("READ_TOKEN")
           front == goNext \/ LIFO
<1>1. t \notin W /\ t \notin R /\ W \subseteq Threads /\ R \subseteq Threads
  BY DEF WaitersIn
<1>2. front \in BOOLEAN
  OBVIOUS
<1>3. QueueOf(writers, W) /\ QueueOf(readers, R)
      /\ waiters = Len(writers) + Len(readers)
  BY DEF QueueInv
<1>4. /\ writers' = IF op = "WRITE_TOKEN" THEN insert_entry(writers, t, front) ELSE writers
      /\ readers' = IF op = "READ_TOKEN" THEN insert_entry(readers, t, front) ELSE readers
      /\ waiters' = waiters + 1
  BY DEF Enqueue
<1>5. /\ W' = IF op = "WRITE_TOKEN" THEN W \cup {t} ELSE W
      /\ R' = IF op = "READ_TOKEN" THEN R \cup {t} ELSE R
  BY DEF WaitersIn, Waiting, Enqueue, TypeOK, OpTypes
<1>6. /\ Len(writers) \in Nat /\ Len(readers) \in Nat
  BY <1>3, LenProperties DEF QueueOf
<1> HIDE DEF front
<1>7. /\ QueueOf(insert_entry(writers, t, front), W \cup {t})
      /\ Len(insert_entry(writers, t, front)) = Len(writers) + 1
  BY <1>1, <1>2, <1>3, InsertEntry
<1>8. /\ QueueOf(insert_entry(readers, t, front), R \cup {t})
      /\ Len(insert_entry(readers, t, front)) = Len(readers) + 1
  BY <1>1, <1>2, <1>3, InsertEntry
<1> HIDE DEF W, R
<1>9. /\ QueueOf(writers', W') /\ QueueOf(readers', R')
      /\ waiters' = Len(writers') + Len(readers')
  <2>1. CASE op = "WRITE_TOKEN"
    BY <1>3, <1>4, <1>5, <1>6, <1>7, <2>1, SMT
  <2>2. CASE op = "READ_TOKEN"
    BY <1>3, <1>4, <1>5, <1>6, <1>8, <2>2, SMT
  <2> QED  BY <2>1, <2>2 DEF OpTypes
<1>10. W' \subseteq Threads /\ R' \subseteq Threads
  BY <1>1, <1>5
<1>11. writers' \in Seq(Threads) /\ readers' \in Seq(Threads) /\ waiters' \in Nat
  BY <1>4, <1>6, <1>9, <1>10, <1>3, SeqMonotonic, SMT DEF QueueOf
<1> QED  BY <1>9, <1>11 DEF QueueInv, W, R

(* Whatever wait returned, the entry is taken out of the list it is in.    *)
LEMMA LeaveKeepsQueues ==
    ASSUME TypeOK, QueueInv, NEW t \in Threads, Waiting(t), LeaveQueue(t)
    PROVE  /\ QueueInv'
           /\ writers' \in Seq(Threads) /\ readers' \in Seq(Threads)
           /\ waiters' \in Nat
<1> DEFINE W == WaitersIn("WRITE_TOKEN")
           R == WaitersIn("READ_TOKEN")
           op == my_queue[t]
<1>1. /\ op \in OpTypes /\ W \subseteq Threads /\ R \subseteq Threads
      /\ op = "WRITE_TOKEN" => t \in W
      /\ op = "READ_TOKEN" => t \in R
  BY DEF WaitersIn, TypeOK
<1>2. QueueOf(writers, W) /\ QueueOf(readers, R)
      /\ waiters = Len(writers) + Len(readers)
  BY DEF QueueInv
<1>3. /\ writers' = IF op = "WRITE_TOKEN" THEN remove_entry(writers, t) ELSE writers
      /\ readers' = IF op = "READ_TOKEN" THEN remove_entry(readers, t) ELSE readers
      /\ waiters' = waiters - 1
  BY DEF LeaveQueue
<1>4. /\ W' = IF op = "WRITE_TOKEN" THEN W \ {t} ELSE W
      /\ R' = IF op = "READ_TOKEN" THEN R \ {t} ELSE R
  BY DEF WaitersIn, Waiting, LeaveQueue, TypeOK, OpTypes
<1>5. /\ Len(writers) \in Nat /\ Len(readers) \in Nat
  BY <1>2, LenProperties DEF QueueOf
<1>6. op = "WRITE_TOKEN" => /\ QueueOf(remove_entry(writers, t), W \ {t})
                            /\ Len(remove_entry(writers, t)) = Len(writers) - 1
  BY <1>1, <1>2, RemoveEntry
<1>7. op = "READ_TOKEN" => /\ QueueOf(remove_entry(readers, t), R \ {t})
                           /\ Len(remove_entry(readers, t)) = Len(readers) - 1
  BY <1>1, <1>2, RemoveEntry
<1> HIDE DEF W, R
<1>8. /\ QueueOf(writers', W') /\ QueueOf(readers', R')
      /\ waiters' = Len(writers') + Len(readers')
  <2>1. CASE op = "WRITE_TOKEN"
    BY <1>2, <1>3, <1>4, <1>5, <1>6, <2>1, SMT
  <2>2. CASE op = "READ_TOKEN"
    BY <1>2, <1>3, <1>4, <1>5, <1>7, <2>2, SMT
  <2> QED  BY <1>1, <2>1, <2>2 DEF OpTypes
<1>9. W' \subseteq Threads /\ R' \subseteq Threads
  BY <1>1, <1>4
<1>10. writers' \in Seq(Threads) /\ readers' \in Seq(Threads)
  BY <1>8, <1>9, SeqMonotonic DEF QueueOf
<1>11. waiters' \in Nat
  BY <1>8, <1>10, LenProperties, SMT
<1> QED  BY <1>8, <1>10, <1>11 DEF QueueInv, W, R

(* Handing the token on when nobody is runable: the thread it goes to has  *)
(* an entry in one of the lists w and r, which hold the threads in wait.   *)
LEMMA HandOver ==
    ASSUME NEW t, NEW run \in [Threads -> BOOLEAN],
           NEW sig \in [Threads -> BOOLEAN],
           \A u \in Threads : ~run[u],
           writers' \in Seq(Threads), readers' \in Seq(Threads), QueueInv',
           wakeup_next_waiter(t, writers', readers', run, sig)
    PROVE  /\ in_use' \in OpTypes \cup {"FREE"}
           /\ owner' \in Threads \cup {NULL_thread}
           /\ runable' \in [Threads -> BOOLEAN]
           /\ signaled' \in [Threads -> BOOLEAN]
           /\ OwnerInv'
           /\ \A u \in Threads : owner' = u => Waiting(u)' /\ runable'[u]
           /\ owner' = NULL_thread => writers' = <<>> /\ readers' = <<>>
<1>1. CASE writers' = <<>> /\ readers' = <<>>
  <2>1. /\ owner' = NULL_thread /\ in_use' = "FREE"
        /\ runable' = run /\ signaled' = sig
    BY <1>1 DEF wakeup_next_waiter
  <2> QED  BY <1>1, <2>1, TokenAssumption DEF OwnerInv
<1>2. CASE ~(writers' = <<>> /\ readers' = <<>>)
  <2> DEFINE op == next_queue(writers', readers')
             h == Head(IF op = "WRITE_TOKEN" THEN writers' ELSE readers')
  <2>1. /\ owner' = h
        /\ in_use' = op
        /\ runable' = [run EXCEPT ![h] = TRUE]
        /\ signaled' = [sig EXCEPT ![h] = USES_SEMAPHORE \/ h # t]
    BY <1>2 DEF wakeup_next_waiter, signal
  <2>2. op \in OpTypes /\ h \in Threads /\ pc'[h] # "idle"
    <3>1. /\ writers' \in Seq(WaitersIn("WRITE_TOKEN")')
          /\ readers' \in Seq(WaitersIn("READ_TOKEN")')
      BY DEF QueueInv, QueueOf
    <3>2. /\ op \in OpTypes
          /\ h \in WaitersIn("WRITE_TOKEN")' \/ h \in WaitersIn("READ_TOKEN")'
      BY <1>2, <3>1, SMT DEF next_queue, OpTypes
    <3> QED  BY <3>2 DEF WaitersIn, Waiting
  <2> HIDE DEF op, h
  <2>3. owner' # NULL_thread /\ in_use' # "FREE" /\ in_use' \in OpTypes
    BY <2>1, <2>2, TokenAssumption DEF OpTypes
  <2>4. /\ runable' \in [Threads -> BOOLEAN] /\ runable'[h]
        /\ \A u \in Threads : runable'[u] => u = h
    BY <2>1, <2>2
  <2>5. signaled' \in [Threads -> BOOLEAN]
    BY <2>1, Zenon
  <2>6. OwnerInv'
    BY <2>1, <2>2, <2>3, <2>4 DEF OwnerInv, Waiting
  <2> QED  BY <2>1, <2>2, <2>3, <2>4, <2>5, <2>6 DEF Waiting
<1> QED  BY <1>1, <1>2

-----------------------------------------------------------------------------

(* The invariant holds of a token nobody uses.                             *)
LEMMA InitInv == Init => IInv
<1> SUFFICES ASSUME Init PROVE IInv
  OBVIOUS
<1> USE DEF Init
<1>1. TypeOK
  BY EmptySeq DEF TypeOK, OpTypes
<1>2. QueueInv
  <2>1. WaitersIn("WRITE_TOKEN") = {} /\ WaitersIn("READ_TOKEN") = {}
    BY DEF WaitersIn, Waiting
  <2>2. QueueOf(<<>>, {}) /\ Len(<<>>) = 0
    BY EmptySeq, SMT DEF QueueOf
  <2>3. writers = <<>> /\ readers = <<>> /\ waiters = Len(<<>>) + Len(<<>>)
    BY <2>2
  <2> QED  BY <2>1, <2>2, <2>3, Zenon DEF QueueInv
<1>3. OwnerInv
  BY DEF OwnerInv
<1>4. NestingInv
  BY DEF NestingInv, Holds, Waiting
<1> QED  BY <1>1, <1>2, <1>3, <1>4 DEF IInv

(* Every operation preserves the invariant.                                *)
LEMMA NextInv == IInv /\ [Next]_vars => IInv'
<1> SUFFICES ASSUME IInv, [Next]_vars PROVE IInv'
  OBVIOUS
<1> USE DEF IInv
<1>0. ASSUME UNCHANGED <<writers, readers, waiters, pc, my_queue>>
      PROVE  QueueInv'
  <2>1. /\ WaitersIn("WRITE_TOKEN")' = WaitersIn("WRITE_TOKEN")
        /\ WaitersIn("READ_TOKEN")' = WaitersIn("READ_TOKEN")
    BY <1>0 DEF WaitersIn, Waiting
  <2> QED  BY <1>0, <2>1 DEF QueueInv
<1>1. ASSUME NEW t \in Threads, NEW op \in OpTypes, AcquireFree(t, op)
      PROVE  IInv'
  <2> USE <1>1 DEF AcquireFree
  <2>1. \A u \in Threads : ~Holds(u) /\ ~runable[u]
    BY TokenAssumption DEF OwnerInv, NestingInv
  <2>2. TypeOK'
    BY DEF TypeOK
  <2>3. QueueInv'
    BY <1>0
  <2>4. OwnerInv'
    BY <2>1, TokenAssumption DEF OwnerInv, OpTypes, Waiting
  <2>5. NestingInv'
    BY <2>1, SMT DEF NestingInv, Holds, Waiting, TypeOK
  <2> QED  BY <2>2, <2>3, <2>4, <2>5
<1>2. ASSUME NEW t \in Threads, AcquireNested(t)
      PROVE  IInv'
  <2> USE <1>2 DEF AcquireNested
  <2>1. TypeOK'
    BY SMTT(30) DEF TypeOK
  <2>2. QueueInv'
    BY <1>0
  <2>3. OwnerInv'
    BY DEF OwnerInv, Waiting
  <2>4. NestingInv'
    BY SMT DEF NestingInv, Holds, Waiting, TypeOK
  <2> QED  BY <2>1, <2>2, <2>3, <2>4
<1>3. ASSUME NEW t \in Threads, NEW op \in OpTypes, NEW hasTimeout \in TimedCalls,
             AcquireBlock(t, op, hasTimeout)
      PROVE  IInv'
  <2> USE <1>3 DEF AcquireBlock
  <2>1. /\ QueueInv' /\ waiters' \in Nat
        /\ writers' \in Seq(Threads) /\ readers' \in Seq(Threads)
    BY EnqueueKeepsQueues DEF Waiting
  <2>2. /\ pc' = [pc EXCEPT ![t] = "acquire"] /\ my_queue' = [my_queue EXCEPT ![t] = op]
        /\ UNCHANGED queueing_strategy
    BY DEF Enqueue
  <2>3. before' \in SUBSET (Threads \X Threads)
    BY DEF Enqueue, TypeOK, Waiting
  <2>4. hasTimeout \in BOOLEAN
    BY TokenAssumption
  <2>5. TypeOK'
    BY <2>1, <2>2, <2>3, <2>4 DEF TypeOK
  <2>6. OwnerInv'
    BY <2>2 DEF OwnerInv, Waiting, TypeOK
  <2>7. NestingInv'
    BY <2>2 DEF NestingInv, Holds, Waiting, TypeOK
  <2> QED  BY <2>1, <2>5, <2>6, <2>7
<1>4. ASSUME NEW t \in Threads, ReleaseNested(t)
      PROVE  IInv'
  <2> USE <1>4 DEF ReleaseNested
  <2>1. TypeOK'
    BY SMTT(30) DEF TypeOK
  <2>2. QueueInv'
    BY <1>0
  <2>3. OwnerInv'
    BY DEF OwnerInv, Waiting
  <2>4. NestingInv'
    BY SMT DEF NestingInv, Holds, Waiting, TypeOK
  <2> QED  BY <2>1, <2>2, <2>3, <2>4
<1>5. ASSUME NEW t \in Threads, ReleaseLast(t)
      PROVE  IInv'
  <2> USE <1>5 DEF ReleaseLast
  <2>1. owner = t /\ depth[t] = 1 /\ \A u \in Threads \ {t} : ~Holds(u)
    BY SMT DEF NestingInv, Holds, Waiting, TypeOK
  <2>2. \A u \in Threads : ~runable[u]
    BY <2>1 DEF OwnerInv, Waiting
  <2>3. QueueInv'
    BY <1>0
  <2>4. /\ in_use' \in OpTypes \cup {"FREE"}
        /\ owner' \in Threads \cup {NULL_thread}
        /\ runable' \in [Threads -> BOOLEAN]
        /\ signaled' \in [Threads -> BOOLEAN]
        /\ OwnerInv'
    <3>1. /\ writers' \in Seq(Threads) /\ readers' \in Seq(Threads)
          /\ wakeup_next_waiter(t, writers', readers', runable, signaled)
          /\ runable \in [Threads -> BOOLEAN] /\ signaled \in [Threads -> BOOLEAN]
      BY DEF TypeOK
    <3> QED  BY <2>2, <2>3, <3>1, HandOver
  <2>5. depth' = [depth EXCEPT ![t] = 0]
    BY <2>1 DEF TypeOK
  <2>6. TypeOK'
    BY <2>4, <2>5 DEF TypeOK
  <2>7. NestingInv'
    BY <2>1, <2>5 DEF NestingInv, Holds, Waiting, TypeOK
  <2> QED  BY <2>3, <2>4, <2>6, <2>7
<1>6. ASSUME NEW t \in Threads, NEW pos \in RequeuePositions,
             NEW hasTimeout \in TimedCalls, RenewBlock(t, pos, hasTimeout)
      PROVE  IInv'
  <2> USE <1>6 DEF RenewBlock
  <2> DEFINE goNext == pos = "front"
  <2>1. owner = t /\ in_use \in OpTypes /\ \A u \in Threads \ {t} : ~Holds(u)
    BY TokenAssumption DEF NestingInv, OwnerInv, Holds, Waiting, TypeOK
  <2>2. \A u \in Threads : ~runable[u]
    BY <2>1 DEF OwnerInv, Waiting
  <2>3. /\ QueueInv' /\ waiters' \in Nat
        /\ writers' \in Seq(Threads) /\ readers' \in Seq(Threads)
    <3>1. Enqueue(t, in_use, goNext, "renew") /\ goNext \in BOOLEAN
      OBVIOUS
    <3> HIDE DEF goNext
    <3> QED  BY <2>1, <3>1, EnqueueKeepsQueues DEF Waiting
  <2>4. /\ in_use' \in OpTypes \cup {"FREE"}
        /\ owner' \in Threads \cup {NULL_thread}
        /\ runable' \in [Threads -> BOOLEAN]
        /\ signaled' \in [Threads -> BOOLEAN]
        /\ OwnerInv'
    BY <2>2, <2>3, HandOver DEF TypeOK
  <2>5. /\ pc' = [pc EXCEPT ![t] = "renew"] /\ my_queue' = [my_queue EXCEPT ![t] = in_use]
        /\ UNCHANGED queueing_strategy
    BY DEF Enqueue
  <2>6. before' \in SUBSET (Threads \X Threads)
    BY DEF Enqueue, TypeOK, Waiting
  <2>7. hasTimeout \in BOOLEAN
    BY TokenAssumption
  <2>8. TypeOK'
    BY <2>1, <2>3, <2>4, <2>5, <2>6, <2>7 DEF TypeOK
  <2>9. NestingInv'
    BY <2>1, <2>5, SMT DEF NestingInv, Holds, Waiting, TypeOK
  <2> QED  BY <2>3, <2>4, <2>8, <2>9
<1>7. ASSUME NEW t \in Threads, ReturnOwning(t)
      PROVE  IInv'
  <2> USE <1>7 DEF ReturnOwning, nesting_reinstated
  <2>1. \A u \in Threads : ~Holds(u) /\ (runable[u] => u = t)
    BY DEF NestingInv, OwnerInv, Holds
  <2>2. /\ QueueInv' /\ waiters' \in Nat
        /\ writers' \in Seq(Threads) /\ readers' \in Seq(Threads)
    BY LeaveKeepsQueues
  <2>3. /\ pc' = [pc EXCEPT ![t] = "idle"]
        /\ timed' = [timed EXCEPT ![t] = FALSE]
        /\ save_nesting' = [save_nesting EXCEPT ![t] = 0]
        /\ before' \in SUBSET (Threads \X Threads)
        /\ UNCHANGED <<my_queue, queueing_strategy>>
    BY DEF LeaveQueue, TypeOK
  <2>4. nesting_level' \in Nat
    BY DEF TypeOK
  <2>5. TypeOK'
    BY <2>2, <2>3, <2>4 DEF TypeOK
  <2>6. OwnerInv'
    BY <2>1, <2>3 DEF OwnerInv, Waiting, TypeOK
  <2>7. NestingInv'
    <3>1. \A u \in Threads : Holds(u)' => u = t
      BY <2>1, <2>3 DEF Holds, Waiting, TypeOK
    <3>2. depth'[t] <= nesting_level' + 1
      BY SMT DEF NestingInv, TypeOK, Waiting
    <3>3. \A u \in Threads : pc'[u] = "renew" => depth'[u] <= save_nesting'[u] + 1
      BY <2>3, SMT DEF NestingInv, TypeOK
    <3> QED  BY <3>1, <3>2, <3>3 DEF NestingInv
  <2> QED  BY <2>2, <2>5, <2>6, <2>7
<1>8. ASSUME NEW t \in Threads, TimeOut(t)
      PROVE  IInv'
  <2> USE <1>8 DEF TimeOut, still_selected
  <2> DEFINE run == [runable EXCEPT ![t] = FALSE]
             sig == [signaled EXCEPT ![t] = FALSE]
  <2>1. /\ QueueInv' /\ waiters' \in Nat
        /\ writers' \in Seq(Threads) /\ readers' \in Seq(Threads)
    BY LeaveKeepsQueues
  <2>2. /\ pc' = [pc EXCEPT ![t] = "idle"]
        /\ timed' = [timed EXCEPT ![t] = FALSE]
        /\ save_nesting' = [save_nesting EXCEPT ![t] = 0]
        /\ before' \in SUBSET (Threads \X Threads)
        /\ UNCHANGED <<my_queue, queueing_strategy>>
    BY DEF LeaveQueue, TypeOK
  <2>3. /\ run \in [Threads -> BOOLEAN] /\ sig \in [Threads -> BOOLEAN]
        /\ ~run[t] /\ \A u \in Threads : run[u] => u # t /\ runable[u]
    BY DEF TypeOK
  <2>4. /\ in_use' \in OpTypes \cup {"FREE"}
        /\ owner' \in Threads \cup {NULL_thread}
        /\ runable' \in [Threads -> BOOLEAN]
        /\ signaled' \in [Threads -> BOOLEAN]
        /\ OwnerInv'
        /\ owner' = owner \/ runable[t]
    <3>1. CASE runable[t]
      <4>1. wakeup_next_waiter(t, writers', readers', run, sig)
        BY <3>1
      <4>2. \A u \in Threads : ~run[u]
        BY <2>3, <3>1 DEF OwnerInv
      <4> HIDE DEF run, sig
      <4> QED  BY <2>1, <2>3, <3>1, <4>1, <4>2, HandOver
    <3>2. CASE ~runable[t]
      <4>1. runable' = run /\ signaled' = sig /\ UNCHANGED <<owner, in_use>>
        BY <3>2
      <4>2. OwnerInv'
        BY <2>2, <2>3, <4>1 DEF OwnerInv, Waiting, TypeOK
      <4> HIDE DEF run, sig
      <4> QED  BY <2>3, <4>1, <4>2 DEF TypeOK
    <3> QED  BY <3>1, <3>2
  <2>5. TypeOK'
    BY <2>1, <2>2, <2>4 DEF TypeOK
  <2>6. NestingInv'
    <3>1. runable[t] => \A u \in Threads : ~Holds(u)
      BY DEF NestingInv, OwnerInv, Holds
    <3>2. \A u \in Threads : Holds(u)' => Holds(u) /\ u # t
      BY <2>2 DEF Holds, Waiting, TypeOK
    <3>3. \A u \in Threads : Holds(u)' => owner' = u /\ depth'[u] <= nesting_level' + 1
      BY <2>4, <3>1, <3>2 DEF NestingInv, TypeOK
    <3>4. \A u \in Threads : pc'[u] = "renew" => depth'[u] <= save_nesting'[u] + 1
      BY <2>2 DEF NestingInv, TypeOK
    <3> QED  BY <3>3, <3>4 DEF NestingInv
  <2> QED  BY <2>1, <2>4, <2>5, <2>6
<1>9. ASSUME NEW t \in Threads, WaitError(t)
      PROVE  IInv'
  <2> USE <1>9 DEF WaitError
  <2>1. /\ QueueInv' /\ waiters' \in Nat
        /\ writers' \in Seq(Threads) /\ readers' \in Seq(Threads)
    BY LeaveKeepsQueues
  <2>2. /\ pc' = [pc EXCEPT ![t] = "idle"]
        /\ timed' = [timed EXCEPT ![t] = FALSE]
        /\ save_nesting' = [save_nesting EXCEPT ![t] = 0]
        /\ before' \in SUBSET (Threads \X Threads)
        /\ UNCHANGED <<my_queue, queueing_strategy>>
    BY DEF LeaveQueue, TypeOK
  <2>3. TypeOK'
    BY <2>1, <2>2 DEF TypeOK
  <2>4. OwnerInv'
    BY <2>2 DEF OwnerInv, Waiting, TypeOK
  <2>5. NestingInv'
    BY <2>2 DEF NestingInv, Holds, Waiting, TypeOK
  <2> QED  BY <2>1, <2>3, <2>4, <2>5
<1>10. CASE UNCHANGED vars
  <2> USE <1>10 DEF vars
  <2>1. QueueInv'
    BY <1>0
  <2> QED  BY <2>1 DEF TypeOK, OwnerInv, NestingInv, Holds, Waiting
<1>11. CASE Next
  BY <1>1, <1>2, <1>3, <1>4, <1>5, <1>6, <1>7, <1>8, <1>9, <1>11
  DEF Next, Acquire, Renew, Release, Wakeup, SpuriousWakeup
<1> QED  BY <1>10, <1>11

(* What the invariant says of the properties the runs check.               *)
LEMMA InvImplies == IInv => TypeOK /\ MutualExclusion /\ QueuesExact
<1> SUFFICES ASSUME IInv PROVE MutualExclusion /\ QueuesExact
  BY DEF IInv
<1>1. MutualExclusion
  BY DEF IInv, NestingInv, MutualExclusion
<1>2. ASSUME NEW q, NEW S, QueueOf(q, S)
      PROVE  ToSet(q) = S
  BY <1>2, LenProperties, ElementOfSeq DEF QueueOf, ToSet
<1>3. QueuesExact
  BY <1>2 DEF IInv, QueueInv, OwnerInv, QueuesExact, WaitersIn
<1> QED  BY <1>1, <1>3

-----------------------------------------------------------------------------

(* Type correctness of the token.                                          *)
THEOREM TypeCorrect == Spec => []TypeOK
<1> QED  BY InitInv, NextInv, InvImplies, PTL DEF Spec

(* No two clients are ever told that they hold the token: through nested   *)
(* acquires, hand-overs by release and renew, time-outs that race with a   *)
(* hand-over, spurious wakeups and even failing waits.                     *)
THEOREM TokenIsMutex == Spec => []MutualExclusion
<1> QED  BY InitInv, NextInv, InvImplies, PTL DEF Spec

(* The lists of waiters hold exactly the threads in wait, each once.       *)
THEOREM QueuesAreExact == Spec => []QueuesExact
<1> QED  BY InitInv, NextInv, InvImplies, PTL DEF Spec

-----------------------------------------------------------------------------
(* The order of service.  FirstInLine speaks of all that wait, the code    *)
(* only of the head of a list: both lists are in the order of arrival      *)
(* (LIFO: against it), where renew may have gone to the front.             *)

(* The pairs of threads of which the first must not be ahead of the second *)
(* in the list they are in.                                                *)
Barred ==
    {p \in Threads \X Threads : (IF LIFO THEN p ELSE <<p[2], p[1]>>) \in before}

InOrder(q) == \A i, j \in 1..Len(q) : i < j => <<q[i], q[j]>> \notin Barred

LineInv ==
    /\ \A p \in before : Waiting(p[1]) /\ Waiting(p[2])
    /\ InOrder(writers)
    /\ InOrder(readers)

(* Linking an entry at an end: it comes before or after all others, which  *)
(* stay in their order.                                                    *)
LEMMA InsertOrder ==
    ASSUME NEW S, NEW q, QueueOf(q, S), NEW t, NEW front \in BOOLEAN,
           NEW r, r = insert_entry(q, t, front),
           NEW i \in 1..Len(r), NEW j \in 1..Len(r), i < j
    PROVE  \/ \E k, l \in 1..Len(q) : k < l /\ r[i] = q[k] /\ r[j] = q[l]
           \/ front /\ r[i] = t /\ r[j] \in S
           \/ ~front /\ r[j] = t /\ r[i] \in S
<1> DEFINE n == Len(q)
<1>1. /\ q \in Seq(S) /\ q \in Seq(S \cup {t}) /\ n \in Nat
      /\ \A k \in 1..n : q[k] \in S
  BY ElementOfSeq, SMT DEF QueueOf
<1>2. CASE front
  <2>1. /\ Len(r) = n + 1
        /\ \A k \in 1..(n + 1) : r[k] = IF k = 1 THEN t ELSE q[k - 1]
    <3>1. r = Cons(t, q)
      BY <1>2 DEF insert_entry
    <3> QED  BY <1>1, <3>1, SMT DEF Cons
  <2> HIDE DEF n
  <2>2. j - 1 \in 1..n /\ j # 1 /\ (i # 1 => i - 1 \in 1..n /\ i - 1 < j - 1)
    BY <1>1, <2>1, SMT
  <2> QED  BY <1>1, <1>2, <2>1, <2>2 DEF n
<1>3. CASE ~front
  <2>1. /\ Len(r) = n + 1
        /\ \A k \in 1..(n + 1) : r[k] = IF k = n + 1 THEN t ELSE q[k]
    <3>1. r = Append(q, t)
      BY <1>3 DEF insert_entry
    <3> QED  BY <1>1, <3>1, SMT
  <2> HIDE DEF n
  <2>2. i \in 1..n /\ i # n + 1 /\ (j # n + 1 => j \in 1..n)
    BY <1>1, <2>1, SMT
  <2> QED  BY <1>1, <1>3, <2>1, <2>2 DEF n
<1> QED  BY <1>2, <1>3

(* Unlinking an entry leaves the others in their order.                    *)
LEMMA RemoveOrder ==
    ASSUME NEW S, NEW q, QueueOf(q, S), NEW t \in S,
           NEW r, r = remove_entry(q, t),
           NEW i \in 1..Len(r), NEW j \in 1..Len(r), i < j
    PROVE  \E k, l \in 1..Len(q) : k < l /\ r[i] = q[k] /\ r[j] = q[l]
<1> DEFINE m == CHOOSE k \in DOMAIN q : q[k] = t
           n == Len(q)
<1>1. n \in Nat /\ DOMAIN q = 1..n
  BY LenProperties DEF QueueOf
<1>2. m \in 1..n /\ q[m] = t
  BY <1>1 DEF QueueOf
<1>3. r = RemoveAt(q, m)
  BY <1>1, <1>2 DEF remove_entry, ToSet
<1> HIDE DEF m
<1>4. /\ Len(r) = n - 1
      /\ \A k \in 1..(n - 1) : r[k] = IF k < m THEN q[k] ELSE q[k + 1]
  BY <1>2, <1>3, UnlinkAt
<1> HIDE DEF n
<1> DEFINE k == IF i < m THEN i ELSE i + 1
           l == IF j < m THEN j ELSE j + 1
<1>5. k \in 1..n /\ l \in 1..n /\ k < l
  BY <1>1, <1>2, <1>4, SMT
<1>6. r[i] = q[k] /\ r[j] = q[l]
  BY <1>4
<1> QED  BY <1>5, <1>6 DEF n

(* A call that starts to wait takes its place in the line.                 *)
LEMMA EnqueueKeepsLine ==
    ASSUME TypeOK, QueueInv, LineInv, NEW t \in Threads, ~Waiting(t),
           NEW op \in OpTypes, NEW goNext \in BOOLEAN,
           NEW where \in {"acquire", "renew"}, Enqueue(t, op, goNext, where)
    PROVE  LineInv'
<1> DEFINE front == goNext \/ LIFO
           others == {u \in Threads : Waiting(u)}
<1>1. /\ writers' = IF op = "WRITE_TOKEN" THEN insert_entry(writers, t, front) ELSE writers
      /\ readers' = IF op = "READ_TOKEN" THEN insert_entry(readers, t, front) ELSE readers
      /\ before' = before \cup (IF goNext /\ ~LIFO THEN {t} \X others ELSE others \X {t})
      /\ pc' = [pc EXCEPT ![t] = where]
      /\ queueing_strategy' = queueing_strategy
  BY DEF Enqueue
<1>2. front \in BOOLEAN /\ (LIFO <=> LIFO')
  BY <1>1 DEF LIFO
<1>3. Waiting(t)' /\ \A u \in Threads : Waiting(u) => Waiting(u)'
  BY <1>1 DEF Waiting, TypeOK
<1>4. \A p \in before' : Waiting(p[1])' /\ Waiting(p[2])'
  <2>1. TAKE p \in before'
  <2>2. CASE p \in before
    BY <1>3, <2>2 DEF LineInv, TypeOK
  <2>3. CASE p \in {t} \X others \/ p \in others \X {t}
    BY <1>3, <2>3
  <2> QED  BY <1>1, <2>2, <2>3
<1>5. \A u \in others : u # t
  OBVIOUS
<1>6. ASSUME NEW u \in others, NEW v \in others, <<u, v>> \notin Barred
      PROVE  <<u, v>> \notin Barred'
  BY <1>1, <1>2, <1>5, <1>6 DEF Barred
<1>7. ASSUME NEW u \in others
      PROVE  IF front THEN <<t, u>> \notin Barred' ELSE <<u, t>> \notin Barred'
  <2>1. <<t, u>> \notin before /\ <<u, t>> \notin before
    BY DEF LineInv
  <2> QED  BY <1>1, <1>2, <1>5, <2>1 DEF Barred
<1>8. ASSUME NEW q, NEW S, S \subseteq others, QueueOf(q, S), InOrder(q)
      PROVE  /\ \A i, j \in 1..Len(q) : i < j => <<q[i], q[j]>> \notin Barred'
             /\ \A i, j \in 1..Len(insert_entry(q, t, front)) : i < j =>
                    <<insert_entry(q, t, front)[i], insert_entry(q, t, front)[j]>> \notin Barred'
  <2>1. \A i \in 1..Len(q) : q[i] \in others
    BY <1>8, ElementOfSeq DEF QueueOf
  <2>2. ASSUME NEW i \in 1..Len(q), NEW j \in 1..Len(q), i < j
        PROVE  <<q[i], q[j]>> \notin Barred'
    BY <1>6, <1>8, <2>1, <2>2 DEF InOrder
  <2> DEFINE r == insert_entry(q, t, front)
  <2>3. ASSUME NEW i \in 1..Len(r), NEW j \in 1..Len(r), i < j
        PROVE  <<r[i], r[j]>> \notin Barred'
    <3> HIDE DEF front, others, r
    <3>1. \/ \E k, l \in 1..Len(q) : k < l /\ r[i] = q[k] /\ r[j] = q[l]
          \/ front /\ r[i] = t /\ r[j] \in S
          \/ ~front /\ r[j] = t /\ r[i] \in S
      <4>1. r = insert_entry(q, t, front)
        BY DEF r
      <4> QED  BY <1>2, <1>8, <2>3, <4>1, InsertOrder
    <3> QED  BY <1>7, <1>8, <2>2, <3>1
  <2> QED  BY <2>2, <2>3
<1>9. /\ QueueOf(writers, WaitersIn("WRITE_TOKEN")) /\ InOrder(writers)
      /\ QueueOf(readers, WaitersIn("READ_TOKEN")) /\ InOrder(readers)
      /\ WaitersIn("WRITE_TOKEN") \subseteq others
      /\ WaitersIn("READ_TOKEN") \subseteq others
  BY DEF QueueInv, LineInv, WaitersIn
<1> HIDE DEF front, others
<1>10. InOrder(writers)' /\ InOrder(readers)'
  BY <1>1, <1>8, <1>9 DEF InOrder
<1> QED  BY <1>4, <1>10 DEF LineInv

(* A call that is over leaves it.                                          *)
LEMMA LeaveKeepsLine ==
    ASSUME TypeOK, QueueInv, LineInv, NEW t \in Threads, Waiting(t), LeaveQueue(t)
    PROVE  LineInv'
<1>1. /\ writers' = IF my_queue[t] = "WRITE_TOKEN" THEN remove_entry(writers, t) ELSE writers
      /\ readers' = IF my_queue[t] = "READ_TOKEN" THEN remove_entry(readers, t) ELSE readers
      /\ before' = {p \in before : t \notin {p[1], p[2]}}
      /\ pc' = [pc EXCEPT ![t] = "idle"]
      /\ queueing_strategy' = queueing_strategy
  BY DEF LeaveQueue
<1>2. \A p \in before' : Waiting(p[1])' /\ Waiting(p[2])'
  BY <1>1 DEF LineInv, Waiting, TypeOK
<1>3. ASSUME NEW u, NEW v, <<u, v>> \notin Barred
      PROVE  <<u, v>> \notin Barred'
  BY <1>1, <1>3 DEF Barred, LIFO
<1>4. ASSUME NEW q, NEW S, QueueOf(q, S), InOrder(q)
      PROVE  /\ \A i, j \in 1..Len(q) : i < j => <<q[i], q[j]>> \notin Barred'
             /\ t \in S =>
                  \A i, j \in 1..Len(remove_entry(q, t)) : i < j =>
                     <<remove_entry(q, t)[i], remove_entry(q, t)[j]>> \notin Barred'
  <2>1. ASSUME NEW i \in 1..Len(q), NEW j \in 1..Len(q), i < j
        PROVE  <<q[i], q[j]>> \notin Barred'
    BY <1>3, <1>4, <2>1 DEF InOrder
  <2> DEFINE r == remove_entry(q, t)
  <2>2. ASSUME t \in S, NEW i \in 1..Len(r), NEW j \in 1..Len(r), i < j
        PROVE  <<r[i], r[j]>> \notin Barred'
    <3>1. r = remove_entry(q, t)
      OBVIOUS
    <3> HIDE DEF r
    <3>2. \E k, l \in 1..Len(q) : k < l /\ r[i] = q[k] /\ r[j] = q[l]
      BY <1>4, <2>2, <3>1, RemoveOrder
    <3> QED  BY <2>1, <3>2
  <2> QED  BY <2>1, <2>2
<1>5. /\ QueueOf(writers, WaitersIn("WRITE_TOKEN")) /\ InOrder(writers)
      /\ QueueOf(readers, WaitersIn("READ_TOKEN")) /\ InOrder(readers)
      /\ my_queue[t] = "WRITE_TOKEN" => t \in WaitersIn("WRITE_TOKEN")
      /\ my_queue[t] = "READ_TOKEN" => t \in WaitersIn("READ_TOKEN")
  BY DEF QueueInv, LineInv, WaitersIn
<1>6. InOrder(writers)' /\ InOrder(readers)'
  BY <1>1, <1>4, <1>5 DEF InOrder
<1> QED  BY <1>2, <1>6 DEF LineInv

(* The thread that is selected is the first of its kind.                   *)
LEMMA SelectedIsFirst ==
    ASSUME NEW t, NEW run, NEW sig, TypeOK', QueueInv', LineInv',
           wakeup_next_waiter(t, writers', readers', run, sig),
           NEW h \in Threads, Selected(h)'
    PROVE  FirstInLine(h)'
<1> DEFINE W == WaitersIn("WRITE_TOKEN")'
           R == WaitersIn("READ_TOKEN")'
<1>1. QueueOf(writers', W) /\ QueueOf(readers', R)
  BY DEF QueueInv
<1>2. /\ \A u \in W : u \in Threads /\ Waiting(u)' /\ my_queue'[u] = "WRITE_TOKEN"
      /\ \A u \in R : u \in Threads /\ Waiting(u)' /\ my_queue'[u] = "READ_TOKEN"
      /\ \A u \in Threads : Waiting(u)' /\ my_queue'[u] = "WRITE_TOKEN" => u \in W
      /\ \A u \in Threads : Waiting(u)' /\ my_queue'[u] = "READ_TOKEN" => u \in R
  BY DEF WaitersIn, Waiting
<1> HIDE DEF W, R
<1>3. ASSUME NEW q, NEW S, NEW u \in S, QueueOf(q, S), q # <<>>, h = Head(q), u # h,
             \A i, j \in 1..Len(q) : i < j => <<q[i], q[j]>> \notin Barred'
      PROVE  <<h, u>> \notin Barred'
  <2>1. PICK j \in 1..Len(q) : q[j] = u
    BY <1>3 DEF QueueOf
  <2>2. q[1] = h /\ 1 \in 1..Len(q) /\ 1 < j
    <3>1. q \in Seq(S) /\ Len(q) \in Nat /\ h = q[1]
      BY <1>3, HeadTailProperties, LenProperties DEF QueueOf
    <3> QED  BY <1>3, <2>1, <3>1, SMT
  <2> QED  BY <1>3, <2>1, <2>2
<1>4. owner' = h /\ h # NULL_thread
  BY TokenAssumption DEF Selected
<1>5. CASE writers' # <<>>
  <2>1. h = Head(writers')
    BY <1>4, <1>5 DEF wakeup_next_waiter, next_queue
  <2>2. h \in W
    BY <1>1, <1>5, <2>1, HeadTailProperties DEF QueueOf
  <2>3. \A u \in W \ {h} : <<h, u>> \notin Barred'
    <3>1. \A i, j \in 1..Len(writers') : i < j => <<writers'[i], writers'[j]>> \notin Barred'
      BY DEF LineInv, InOrder
    <3> HIDE DEF LineInv
    <3> QED  BY <1>1, <1>3, <1>5, <2>1, <3>1
  <2> QED  BY <1>2, <2>2, <2>3 DEF FirstInLine, Barred
<1>6. CASE writers' = <<>> /\ readers' # <<>>
  <2>1. h = Head(readers')
    BY <1>4, <1>6 DEF wakeup_next_waiter, next_queue
  <2>2. h \in R
    BY <1>1, <1>6, <2>1, HeadTailProperties DEF QueueOf
  <2>3. \A u \in R \ {h} : <<h, u>> \notin Barred'
    <3>1. \A i, j \in 1..Len(readers') : i < j => <<readers'[i], readers'[j]>> \notin Barred'
      BY DEF LineInv, InOrder
    <3> HIDE DEF LineInv
    <3> QED  BY <1>1, <1>3, <1>6, <2>1, <3>1
  <2>4. W = {}
    BY <1>1, <1>6, EmptySeq, SMT DEF QueueOf
  <2>5. \A u \in Threads : Waiting(u)' => my_queue'[u] = "READ_TOKEN"
    BY <1>2, <2>4 DEF TypeOK, OpTypes
  <2> QED  BY <1>2, <2>2, <2>3, <2>5 DEF FirstInLine, Barred
<1>7. CASE writers' = <<>> /\ readers' = <<>>
  BY <1>4, <1>7 DEF wakeup_next_waiter
<1> QED  BY <1>5, <1>6, <1>7

(* Every step keeps both lists in order, and selects the first in line.    *)
LEMMA LineStep ==
    ASSUME IInv, IInv', LineInv, [Next]_vars
    PROVE  /\ LineInv'
           /\ \A h \in Threads : ~Selected(h) /\ Selected(h)' => FirstInLine(h)'
<1> USE DEF IInv
<1>0. ASSUME UNCHANGED <<writers, readers, before, pc, queueing_strategy>>
      PROVE  LineInv'
  BY <1>0 DEF LineInv, InOrder, Barred, LIFO, Waiting
(* The steps that hand the token on.                                       *)
<1>1. ASSUME NEW t, NEW run, NEW sig, LineInv',
             wakeup_next_waiter(t, writers', readers', run, sig)
      PROVE  \A h \in Threads : ~Selected(h) /\ Selected(h)' => FirstInLine(h)'
  BY <1>1, SelectedIsFirst
(* The steps that do not: a thread that becomes the owner does not wait.   *)
<1>2. ASSUME NEW t \in Threads, owner' \in {owner, t}, ~Selected(t)',
             \A u \in Threads \ {t} : pc'[u] = pc[u]
      PROVE  \A h \in Threads : ~(~Selected(h) /\ Selected(h)')
  BY <1>2, TokenAssumption DEF Selected, Waiting
<1>3. ASSUME NEW t \in Threads, NEW op \in OpTypes, AcquireFree(t, op)
      PROVE  LineInv' /\ \A h \in Threads : ~(~Selected(h) /\ Selected(h)')
  BY <1>0, <1>2, <1>3 DEF AcquireFree, Selected, Waiting
<1>4. ASSUME NEW t \in Threads, AcquireNested(t) \/ ReleaseNested(t)
      PROVE  LineInv' /\ \A h \in Threads : ~(~Selected(h) /\ Selected(h)')
  BY <1>0, <1>2, <1>4 DEF AcquireNested, ReleaseNested, Selected, Waiting
<1>5. ASSUME NEW t \in Threads, NEW op \in OpTypes, NEW hasTimeout \in TimedCalls,
             AcquireBlock(t, op, hasTimeout)
      PROVE  LineInv' /\ \A h \in Threads : ~(~Selected(h) /\ Selected(h)')
  <2>1. Enqueue(t, op, FALSE, "acquire") /\ ~Waiting(t) /\ owner' = owner /\ owner # t
    BY <1>5 DEF AcquireBlock, Waiting
  <2>2. LineInv'
    BY <2>1, EnqueueKeepsLine
  <2>3. \A u \in Threads \ {t} : pc'[u] = pc[u]
    BY <2>1 DEF Enqueue, TypeOK
  <2> QED  BY <1>2, <2>1, <2>2, <2>3 DEF Selected
<1>6. ASSUME NEW t \in Threads, NEW pos \in RequeuePositions,
             NEW hasTimeout \in TimedCalls, RenewBlock(t, pos, hasTimeout)
      PROVE  /\ LineInv'
             /\ \A h \in Threads : ~Selected(h) /\ Selected(h)' => FirstInLine(h)'
  <2> DEFINE goNext == pos = "front"
  <2>1. /\ Enqueue(t, in_use, goNext, "renew") /\ goNext \in BOOLEAN /\ ~Waiting(t)
        /\ wakeup_next_waiter(t, writers', readers', runable, signaled)
        /\ depth[t] > 0
    BY <1>6 DEF RenewBlock, Waiting
  <2>2. in_use \in OpTypes
    BY <2>1, TokenAssumption DEF NestingInv, OwnerInv, Holds, TypeOK
  <2> HIDE DEF goNext
  <2>3. LineInv'
    BY <2>1, <2>2, EnqueueKeepsLine
  <2> QED  BY <1>1, <2>1, <2>3
<1>7. ASSUME NEW t \in Threads, ReleaseLast(t)
      PROVE  /\ LineInv'
             /\ \A h \in Threads : ~Selected(h) /\ Selected(h)' => FirstInLine(h)'
  <2>1. /\ wakeup_next_waiter(t, writers', readers', runable, signaled)
        /\ UNCHANGED <<writers, readers, before, pc, queueing_strategy>>
    BY <1>7 DEF ReleaseLast
  <2> QED  BY <1>0, <1>1, <2>1
<1>8. ASSUME NEW t \in Threads, Waiting(t), LeaveQueue(t)
      PROVE  LineInv' /\ ~Selected(t)' /\ \A u \in Threads \ {t} : pc'[u] = pc[u]
  BY <1>8, LeaveKeepsLine DEF LeaveQueue, Selected, Waiting, TypeOK
<1>9. ASSUME NEW t \in Threads, ReturnOwning(t) \/ WaitError(t)
      PROVE  LineInv' /\ \A h \in Threads : ~(~Selected(h) /\ Selected(h)')
  <2>1. Waiting(t) /\ LeaveQueue(t) /\ owner' = owner
    BY <1>9 DEF ReturnOwning, WaitError
  <2> QED  BY <1>2, <1>8, <2>1
<1>10. ASSUME NEW t \in Threads, TimeOut(t)
       PROVE  /\ LineInv'
              /\ \A h \in Threads : ~Selected(h) /\ Selected(h)' => FirstInLine(h)'
  <2> DEFINE run == [runable EXCEPT ![t] = FALSE]
             sig == [signaled EXCEPT ![t] = FALSE]
  <2>1. Waiting(t) /\ LeaveQueue(t)
    BY <1>10 DEF TimeOut
  <2>2. wakeup_next_waiter(t, writers', readers', run, sig) \/ owner' = owner
    BY <1>10 DEF TimeOut
  <2> HIDE DEF run, sig
  <2> QED  BY <1>1, <1>2, <1>8, <2>1, <2>2
<1>11. CASE UNCHANGED vars
  <2>1. \A h \in Threads : Selected(h)' <=> Selected(h)
    BY <1>11 DEF vars, Selected, Waiting
  <2> QED  BY <1>0, <1>11, <2>1 DEF vars
<1>12. CASE Next
  BY <1>3, <1>4, <1>5, <1>6, <1>7, <1>9, <1>10, <1>12
  DEF Next, Acquire, Renew, Release, Wakeup, SpuriousWakeup
<1> QED  BY <1>11, <1>12

(* Service in strict FIFO or LIFO order: whoever is selected, by a release,*)
(* a renewal or a time-out of the thread selected before, was first among  *)
(* the requests of its kind, and a reader is selected only when no writer  *)
(* waits, though waiters time out in the middle of both lists.             *)
THEOREM TokenServesInOrder == Spec => ServiceOrder
<1>1. Init => LineInv
  BY EmptySeq, SMT DEF Init, LineInv, InOrder
<1>2. IInv /\ IInv' /\ LineInv /\ [Next]_vars => LineInv' /\ [SelectsFirst]_vars
  BY LineStep DEF SelectsFirst
<1> QED  BY InitInv, NextInv, <1>1, <1>2, PTL DEF Spec, ServiceOrder

-----------------------------------------------------------------------------
(* When wait fails in no other way than by EINTR and ETIME, the token is   *)
(* never lost.  The strengthening: a free token has no waiters, so that a  *)
(* hand-over finds a thread to make runable, and the levels count exactly  *)
(* what clients have acquired, so that their last release is one that      *)
(* hands the token on.                                                     *)

ExactNesting ==
    /\ \A t \in Threads : Holds(t) => depth[t] = nesting_level + 1
    /\ \A t \in Threads : pc[t] = "renew" => depth[t] = save_nesting[t] + 1
    /\ (\A t \in Threads : ~Holds(t)) => nesting_level = 0

LiveInv ==
    /\ owner = NULL_thread => writers = <<>> /\ readers = <<>>
    /\ \A t \in Threads : owner = t => Holds(t) \/ (Waiting(t) /\ runable[t])
    /\ ExactNesting

(* Every operation preserves the strengthening.                            *)
LEMMA LiveStep ==
    ASSUME ~WaitMayFail, IInv, IInv', LiveInv, [Next]_vars
    PROVE  LiveInv'
<1> USE DEF IInv
<1>1. ASSUME NEW t \in Threads, NEW op \in OpTypes, AcquireFree(t, op)
      PROVE  LiveInv'
  <2> USE <1>1 DEF AcquireFree
  <2>1. /\ owner' = t /\ Holds(t)' /\ depth'[t] = 1
        /\ \A u \in Threads : ~Holds(u) /\ (Holds(u)' => u = t)
    BY TokenAssumption, SMT DEF OwnerInv, NestingInv, Holds, Waiting, TypeOK
  <2> QED  BY <2>1, TokenAssumption, SMT DEF LiveInv, ExactNesting, Waiting, TypeOK
<1>2. ASSUME NEW t \in Threads, AcquireNested(t)
      PROVE  LiveInv'
  <2> USE <1>2 DEF AcquireNested
  <2>1. Holds(t) /\ Holds(t)' /\ \A u \in Threads : Holds(u)' => u = t
    BY SMT DEF LiveInv, NestingInv, Holds, Waiting, TypeOK
  <2> QED  BY <2>1, TokenAssumption, SMT DEF LiveInv, ExactNesting, Waiting, TypeOK
<1>3. ASSUME NEW t \in Threads, NEW op \in OpTypes, NEW hasTimeout \in TimedCalls,
             AcquireBlock(t, op, hasTimeout)
      PROVE  LiveInv'
  <2> USE <1>3 DEF AcquireBlock
  <2>1. /\ pc' = [pc EXCEPT ![t] = "acquire"]
        /\ owner' # NULL_thread
    BY DEF Enqueue, OwnerInv
  <2>2. \A u \in Threads : Holds(u)' <=> Holds(u)
    BY <2>1 DEF Holds, Waiting, TypeOK, NestingInv
  <2>3. \A u \in Threads : Waiting(u) => Waiting(u)'
    BY <2>1 DEF Waiting, TypeOK
  <2>4. \A u \in Threads : pc'[u] = "renew" => pc[u] = "renew"
    BY <2>1 DEF TypeOK
  <2> QED  BY <2>1, <2>2, <2>3, <2>4 DEF LiveInv, ExactNesting
<1>4. ASSUME NEW t \in Threads, ReleaseNested(t)
      PROVE  LiveInv'
  <2> USE <1>4 DEF ReleaseNested
  <2>1. Holds(t) /\ owner = t /\ depth[t] = nesting_level + 1
    BY DEF Holds, Waiting, LiveInv, ExactNesting, NestingInv
  <2>2. Holds(t)' /\ \A u \in Threads : Holds(u)' => u = t
    BY <2>1, SMT DEF NestingInv, Holds, Waiting, TypeOK
  <2> QED  BY <2>1, <2>2, TokenAssumption, SMT DEF LiveInv, ExactNesting, Waiting, TypeOK
<1>5. ASSUME NEW t \in Threads, NEW run \in [Threads -> BOOLEAN],
             NEW sig \in [Threads -> BOOLEAN], \A u \in Threads : ~run[u],
             wakeup_next_waiter(t, writers', readers', run, sig)
      PROVE  /\ owner' = NULL_thread => writers' = <<>> /\ readers' = <<>>
             /\ \A u \in Threads : owner' = u => Waiting(u)' /\ runable'[u]
  BY <1>5, HandOver DEF TypeOK
<1>6. ASSUME NEW t \in Threads, ReleaseLast(t)
      PROVE  LiveInv'
  <2> USE <1>6 DEF ReleaseLast
  <2>1. Holds(t) /\ owner = t /\ depth'[t] = 0
    BY SMT DEF Holds, Waiting, LiveInv, ExactNesting, NestingInv, TypeOK
  <2>2. \A u \in Threads : ~Holds(u)' /\ ~runable[u]
    BY <2>1, SMT DEF NestingInv, OwnerInv, Holds, Waiting, TypeOK
  <2>3. /\ owner' = NULL_thread => writers' = <<>> /\ readers' = <<>>
        /\ \A u \in Threads : owner' = u => Waiting(u)' /\ runable'[u]
    BY <1>5, <2>2 DEF TypeOK
  <2>4. ExactNesting'
    BY <2>1, <2>2, SMT DEF LiveInv, ExactNesting, TypeOK
  <2> QED  BY <2>3, <2>4 DEF LiveInv
<1>7. ASSUME NEW t \in Threads, NEW pos \in RequeuePositions,
             NEW hasTimeout \in TimedCalls, RenewBlock(t, pos, hasTimeout)
      PROVE  LiveInv'
  <2> USE <1>7 DEF RenewBlock
  <2>1. Holds(t) /\ owner = t /\ depth[t] = nesting_level + 1
    BY DEF Holds, Waiting, LiveInv, ExactNesting, NestingInv
  <2>2. pc' = [pc EXCEPT ![t] = "renew"]
    BY DEF Enqueue
  <2>3. \A u \in Threads : ~Holds(u)' /\ ~runable[u]
    BY <2>1, <2>2 DEF NestingInv, OwnerInv, Holds, Waiting, TypeOK
  <2>4. /\ owner' = NULL_thread => writers' = <<>> /\ readers' = <<>>
        /\ \A u \in Threads : owner' = u => Waiting(u)' /\ runable'[u]
    BY <1>5, <2>3 DEF TypeOK
  <2>5. ExactNesting'
    BY <2>1, <2>2, <2>3 DEF LiveInv, ExactNesting, TypeOK
  <2> QED  BY <2>4, <2>5 DEF LiveInv
<1>8. ASSUME NEW t \in Threads, ReturnOwning(t)
      PROVE  LiveInv'
  <2> USE <1>8 DEF ReturnOwning, nesting_reinstated
  <2>1. owner' = t /\ pc' = [pc EXCEPT ![t] = "idle"]
        /\ save_nesting' = [save_nesting EXCEPT ![t] = 0]
    BY DEF LeaveQueue
  <2>2. \A u \in Threads : ~Holds(u) /\ (Holds(u)' => u = t)
    BY <2>1 DEF NestingInv, Holds, Waiting, TypeOK
  <2>3. nesting_level = 0
    BY <2>2 DEF LiveInv, ExactNesting
  <2>4. depth'[t] = nesting_level' + 1 /\ depth'[t] > 0
    <3>1. CASE pc[t] = "renew"
      BY <3>1, SMT DEF LiveInv, ExactNesting, TypeOK
    <3>2. CASE pc[t] # "renew"
      BY <2>3, <3>2, SMT DEF TypeOK
    <3> QED  BY <3>1, <3>2
  <2>5. Holds(t)'
    BY <2>1, <2>4 DEF Holds, Waiting, TypeOK
  <2>6. ExactNesting'
    BY <2>1, <2>2, <2>4, <2>5 DEF LiveInv, ExactNesting, TypeOK
  <2> QED  BY <2>1, <2>5, <2>6, TokenAssumption DEF LiveInv
<1>9. ASSUME NEW t \in Threads, TimeOut(t)
      PROVE  LiveInv'
  <2> USE <1>9 DEF TimeOut, still_selected
  <2> DEFINE run == [runable EXCEPT ![t] = FALSE]
             sig == [signaled EXCEPT ![t] = FALSE]
  <2>1. pc' = [pc EXCEPT ![t] = "idle"] /\ save_nesting' = [save_nesting EXCEPT ![t] = 0]
    BY DEF LeaveQueue
  <2>2. \A u \in Threads : Holds(u)' <=> Holds(u)
    BY <2>1 DEF Holds, Waiting, TypeOK
  <2>3. ExactNesting'
    BY <2>1, <2>2 DEF LiveInv, ExactNesting, Holds, Waiting, TypeOK
  <2>4. CASE runable[t]
    <3>1. /\ wakeup_next_waiter(t, writers', readers', run, sig)
          /\ run \in [Threads -> BOOLEAN] /\ sig \in [Threads -> BOOLEAN]
          /\ \A u \in Threads : ~run[u]
      BY <2>4 DEF TypeOK, OwnerInv
    <3> HIDE DEF run, sig
    <3>2. /\ owner' = NULL_thread => writers' = <<>> /\ readers' = <<>>
          /\ \A u \in Threads : owner' = u => Waiting(u)' /\ runable'[u]
      BY <1>5, <3>1
    <3> QED  BY <2>3, <3>2 DEF LiveInv
  <2>5. CASE ~runable[t]
    <3>1. owner # t /\ runable' = run /\ UNCHANGED owner
      BY <2>5 DEF LiveInv, Holds
    <3>2. owner # NULL_thread
      <4>1. t \in WaitersIn("WRITE_TOKEN") \/ t \in WaitersIn("READ_TOKEN")
        BY DEF WaitersIn, TypeOK, OpTypes
      <4>2. writers # <<>> \/ readers # <<>>
        BY <4>1, EmptySeq DEF QueueInv, QueueOf
      <4> QED  BY <4>2 DEF LiveInv
    <3>3. \A u \in Threads \ {t} : Waiting(u)' = Waiting(u) /\ runable'[u] = runable[u]
      BY <2>1, <3>1 DEF Waiting, TypeOK
    <3> QED  BY <2>2, <2>3, <3>1, <3>2, <3>3 DEF LiveInv
  <2> QED  BY <2>4, <2>5
<1>10. ASSUME NEW t \in Threads, WaitError(t)
       PROVE  LiveInv'
  BY <1>10 DEF WaitError
<1>11. CASE UNCHANGED vars
  BY <1>11 DEF vars, LiveInv, ExactNesting, Holds, Waiting
<1>12. CASE Next
  BY <1>1, <1>2, <1>3, <1>4, <1>6, <1>7, <1>8, <1>9, <1>10, <1>12
  DEF Next, Acquire, Renew, Release, Wakeup, SpuriousWakeup
<1> QED  BY <1>11, <1>12

(* The token is not lost, and the assertions on runable_ hold.             *)
THEOREM TokenIsNotLost == ~WaitMayFail => (Spec => []NoLostToken)
<1>1. Init => LiveInv
  BY TokenAssumption, SMT DEF Init, LiveInv, ExactNesting, Holds, Waiting
<1>2. IInv /\ LiveInv => NoLostToken
  <2> SUFFICES ASSUME IInv, LiveInv PROVE NoLostToken
    OBVIOUS
  <2>1. owner = NULL_thread => \A t \in Threads : ~Waiting(t)
    <3> SUFFICES ASSUME owner = NULL_thread, NEW t \in Threads, Waiting(t)
                 PROVE  FALSE
      OBVIOUS
    <3>1. /\ QueueOf(<<>>, WaitersIn("WRITE_TOKEN"))
          /\ QueueOf(<<>>, WaitersIn("READ_TOKEN"))
      BY DEF LiveInv, IInv, QueueInv
    <3>2. t \in WaitersIn("WRITE_TOKEN") \/ t \in WaitersIn("READ_TOKEN")
      BY DEF IInv, TypeOK, OpTypes, WaitersIn
    <3> QED  BY <3>1, <3>2, EmptySeq, SMT DEF QueueOf
  <2> QED  BY <2>1 DEF IInv, OwnerInv, LiveInv, NoLostToken
<1>3. ASSUME ~WaitMayFail
      PROVE  Spec => []NoLostToken
  <2>1. IInv /\ IInv' /\ LiveInv /\ [Next]_vars => LiveInv'
    BY <1>3, LiveStep
  <2> QED  BY InitInv, NextInv, <1>1, <1>2, <2>1, PTL DEF Spec
<1> QED  BY <1>3

-----------------------------------------------------------------------------
(* The token implements RecursiveMutex.  What a thread in wait is owed is  *)
(* nothing in acquire, and something in renew.                             *)

DebtInv ==
    \A t \in Threads : /\ pc[t] = "acquire" => depth[t] = 0
                       /\ pc[t] = "renew" => depth[t] > 0

(* What the mutex sees of a step that concerns only t: from h acquires     *)
(* held and o owed to h2 and o2.                                           *)
LEMMA ClientSteps ==
    ASSUME NEW t \in Threads,
           \A u \in Threads \ {t} : pc'[u] = pc[u] /\ depth'[u] = depth[u],
           NEW h, NEW o, NEW h2, NEW o2,
           h = IF pc[t] = "idle" THEN depth[t] ELSE 0,
           o = IF pc[t] = "idle" THEN 0 ELSE depth[t],
           h2 = IF pc'[t] = "idle" THEN depth'[t] ELSE 0,
           o2 = IF pc'[t] = "idle" THEN 0 ELSE depth'[t]
    PROVE  /\ Client!Available(t) /\ o = 0 /\ o2 = 0 /\ h2 = h + 1 => Client!Acquire(t)
           /\ h > 0 /\ h2 = h - 1 /\ o2 = o => Client!Release(t)
           /\ h > 0 /\ h2 = 0 /\ o2 = h => Client!Yield(t)
           /\ Client!Available(t) /\ o > 0 /\ h2 = o /\ o2 = 0 => Client!Resume(t)
           /\ o > 0 /\ o2 = 0 /\ h2 = h => Client!Forfeit(t)
           /\ h2 = h /\ o2 = o => UNCHANGED Client!mvars
<1>1. /\ ClientHolds[t] = h /\ ClientOwed[t] = o
      /\ ClientHolds' = [ClientHolds EXCEPT ![t] = h2]
      /\ ClientOwed' = [ClientOwed EXCEPT ![t] = o2]
  BY DEF ClientHolds, ClientOwed, Waiting
<1>2. /\ [ClientHolds EXCEPT ![t] = h] = ClientHolds
      /\ [ClientOwed EXCEPT ![t] = o] = ClientOwed
  BY <1>1 DEF ClientHolds, ClientOwed
<1> HIDE DEF ClientHolds, ClientOwed
<1>3. h2 = h => ClientHolds' = ClientHolds
  BY <1>1, <1>2
<1>4. o2 = o => ClientOwed' = ClientOwed
  BY <1>1, <1>2
<1> QED  BY <1>1, <1>3, <1>4
         DEF Client!Acquire, Client!Release, Client!Yield, Client!Resume,
             Client!Forfeit, Client!mvars

(* Nobody but the owner holds the token.                                   *)
LEMMA OnlyOwnerHolds ==
    ASSUME IInv, NEW t, owner \in {t, NULL_thread}
    PROVE  Client!Available(t)
<1>1. \A u \in Threads \ {t} : Waiting(u) \/ depth[u] = 0
  <2>1. \A u \in Threads \ {t} : ~Holds(u)
    BY TokenAssumption DEF IInv, NestingInv
  <2>2. \A u \in Threads : depth[u] \in Nat
    BY DEF IInv, TypeOK
  <2> QED  BY <2>1, <2>2, SMT DEF Holds
<1>2. \A u \in Threads : Waiting(u) \/ depth[u] = 0 => ClientHolds[u] = 0
  BY DEF ClientHolds
<1> QED  BY <1>1, <1>2 DEF Client!Available

(* Every operation keeps the debts and is a step or a stutter of the mutex.*)
LEMMA DebtStep ==
    ASSUME IInv, DebtInv, [Next]_vars
    PROVE  DebtInv' /\ [Client!Next]_(Client!mvars)
<1>0. TypeOK /\ pc \in [Threads -> {"idle", "acquire", "renew"}] /\ depth \in [Threads -> Nat]
  BY DEF IInv, TypeOK
<1>1. ASSUME NEW t \in Threads, NEW op \in OpTypes, AcquireFree(t, op)
      PROVE  DebtInv' /\ Client!Acquire(t)
  <2>1. /\ pc[t] = "idle" /\ pc' = pc /\ depth[t] = 0 /\ depth' = [depth EXCEPT ![t] = 1]
        /\ owner = NULL_thread
    BY <1>0, <1>1, TokenAssumption, SMT DEF AcquireFree, IInv, OwnerInv, NestingInv, Holds, Waiting
  <2>2. DebtInv'
    BY <1>0, <2>1 DEF DebtInv
  <2>3. Client!Acquire(t)
    BY <1>0, <2>1, ClientSteps, OnlyOwnerHolds
  <2> QED  BY <2>2, <2>3
<1>2. ASSUME NEW t \in Threads, AcquireNested(t)
      PROVE  DebtInv' /\ Client!Acquire(t)
  <2>1. /\ pc[t] = "idle" /\ pc' = pc /\ depth' = [depth EXCEPT ![t] = @ + 1]
        /\ owner = t
    BY <1>2 DEF AcquireNested
  <2>2. DebtInv'
    BY <1>0, <2>1 DEF DebtInv
  <2>3. Client!Acquire(t)
    BY <1>0, <2>1, ClientSteps, OnlyOwnerHolds
  <2> QED  BY <2>2, <2>3
<1>3. ASSUME NEW t \in Threads, NEW op \in OpTypes, NEW hasTimeout \in TimedCalls,
             AcquireBlock(t, op, hasTimeout)
      PROVE  DebtInv' /\ UNCHANGED Client!mvars
  <2>1. /\ pc[t] = "idle" /\ pc' = [pc EXCEPT ![t] = "acquire"] /\ depth' = depth
        /\ owner # t
    BY <1>3 DEF AcquireBlock, Enqueue
  <2>2. depth[t] = 0
    BY <1>0, <2>1, SMT DEF IInv, NestingInv, Holds, Waiting
  <2>3. DebtInv'
    BY <1>0, <2>1, <2>2 DEF DebtInv
  <2>4. UNCHANGED Client!mvars
    BY <1>0, <2>1, <2>2, ClientSteps
  <2> QED  BY <2>3, <2>4
<1>4. ASSUME NEW t \in Threads, Release(t)
      PROVE  DebtInv' /\ Client!Release(t)
  <2>1. /\ pc[t] = "idle" /\ pc' = pc /\ depth[t] > 0
        /\ depth' = [depth EXCEPT ![t] = @ - 1]
    BY <1>4 DEF Release, ReleaseNested, ReleaseLast
  <2>2. DebtInv'
    BY <1>0, <2>1 DEF DebtInv
  <2>3. Client!Release(t)
    BY <1>0, <2>1, ClientSteps
  <2> QED  BY <2>2, <2>3
<1>5. ASSUME NEW t \in Threads, NEW pos \in RequeuePositions,
             NEW hasTimeout \in TimedCalls, RenewBlock(t, pos, hasTimeout)
      PROVE  DebtInv' /\ Client!Yield(t)
  <2>1. /\ pc[t] = "idle" /\ pc' = [pc EXCEPT ![t] = "renew"] /\ depth[t] > 0
        /\ depth' = depth
    BY <1>5 DEF RenewBlock, Enqueue
  <2>2. DebtInv'
    BY <1>0, <2>1 DEF DebtInv
  <2>3. Client!Yield(t)
    BY <1>0, <2>1, ClientSteps
  <2> QED  BY <2>2, <2>3
<1>6. ASSUME NEW t \in Threads, ReturnOwning(t)
      PROVE  DebtInv' /\ (Client!Acquire(t) \/ Client!Resume(t))
  <2>1. /\ pc[t] # "idle" /\ pc' = [pc EXCEPT ![t] = "idle"] /\ owner = t
        /\ depth' = IF pc[t] = "renew" THEN depth ELSE [depth EXCEPT ![t] = 1]
    BY <1>6 DEF ReturnOwning, LeaveQueue, Waiting
  <2>2. DebtInv'
    BY <1>0, <2>1 DEF DebtInv
  <2>3. Client!Available(t)
    BY <2>1, OnlyOwnerHolds
  <2>4. CASE pc[t] = "renew"
    <3>1. depth[t] > 0 /\ depth' = depth
      BY <2>1, <2>4 DEF DebtInv
    <3> QED  BY <1>0, <2>1, <2>2, <2>3, <2>4, <3>1, ClientSteps
  <2>5. CASE pc[t] = "acquire"
    <3>1. depth[t] = 0 /\ depth' = [depth EXCEPT ![t] = 1]
      BY <2>1, <2>5 DEF DebtInv
    <3> QED  BY <1>0, <2>1, <2>2, <2>3, <2>5, <3>1, ClientSteps
  <2> QED  BY <1>0, <2>1, <2>4, <2>5
<1>7. ASSUME NEW t \in Threads, TimeOut(t) \/ WaitError(t)
      PROVE  DebtInv' /\ (Client!Forfeit(t) \/ UNCHANGED Client!mvars)
  <2>1. /\ pc[t] # "idle" /\ pc' = [pc EXCEPT ![t] = "idle"]
        /\ depth' = [depth EXCEPT ![t] = 0]
    BY <1>7 DEF TimeOut, WaitError, LeaveQueue, Waiting
  <2>2. DebtInv'
    BY <1>0, <2>1 DEF DebtInv
  <2>3. CASE pc[t] = "renew"
    <3>1. depth[t] > 0
      BY <2>3 DEF DebtInv
    <3> QED  BY <1>0, <2>1, <2>2, <2>3, <3>1, ClientSteps
  <2>4. CASE pc[t] = "acquire"
    <3>1. depth[t] = 0
      BY <2>4 DEF DebtInv
    <3> QED  BY <1>0, <2>1, <2>2, <2>4, <3>1, ClientSteps
  <2> QED  BY <1>0, <2>1, <2>3, <2>4
<1>8. CASE UNCHANGED vars
  BY <1>8 DEF vars, DebtInv, Client!mvars, ClientHolds, ClientOwed, Waiting
<1>9. CASE Next
  BY <1>1, <1>2, <1>3, <1>4, <1>5, <1>6, <1>7, <1>9
  DEF Next, Acquire, Renew, Wakeup, SpuriousWakeup, Client!Next
<1> QED  BY <1>8, <1>9

(* The token, used in any way by any number of threads, is a recursive     *)
(* mutex whose holder may yield it and get it back as deeply nested.       *)
THEOREM TokenImplementsMutex == Spec => ImplementsRecursiveMutex
<1>1. Init => DebtInv /\ Client!Init
  BY DEF Init, DebtInv, Client!Init, ClientHolds, ClientOwed, Waiting
<1>2. IInv /\ DebtInv /\ [Next]_vars => DebtInv' /\ [Client!Next]_(Client!mvars)
  BY DebtStep
<1> QED  BY InitInv, NextInv, <1>1, <1>2, PTL
         DEF Spec, ImplementsRecursiveMutex, Client!Spec

=============================================================================
