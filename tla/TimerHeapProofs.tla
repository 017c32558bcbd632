--------------------------- MODULE TimerHeapProofs ---------------------------
(***************************************************************************)
(* What holds of the timer heap for any number of timers, whatever is      *)
(* scheduled, cancelled and dispatched.                                    *)
(***************************************************************************)
EXTENDS TimerHeap, ListProofs, FiniteSetTheorems

-----------------------------------------------------------------------------
(* Slots *)

LEMMA ParentFacts ==
    /\ parent(0) = 0
    /\ \A i \in Nat \ {0} : parent(i) \in Nat /\ parent(i) < i
    /\ \A s \in Nat, i \in Nat \ {0} :
           parent(i) = s <=> i = left_child(s) \/ i = left_child(s) + 1
    /\ \A s \in Nat : left_child(s) \in Nat /\ s < left_child(s) /\ left_child(s) \in Nat \ {0}
BY SMT DEF parent, left_child

(* Writing a node to a slot. *)
Copied(q, p, M, s, node) ==
    /\ p \in HeapOf(M)
    /\ p.heap = [q.heap EXCEPT ![s] = node]
    /\ p.timer_ids = [q.timer_ids EXCEPT ![node.id] = s]
    /\ p.max_size = q.max_size /\ p.cur_size = q.cur_size /\ p.cur_limbo = q.cur_limbo
    /\ p.timer_ids_curr = q.timer_ids_curr /\ p.timer_ids_min_free = q.timer_ids_min_free

LEMMA CopyFacts ==
    ASSUME NEW M \in Nat, NEW q \in HeapOf(M), NEW s \in 0..M - 1, NEW node \in NodesOf(M)
    PROVE  Copied(q, copy(q, s, node), M, s, node)
<1> DEFINE h == [q.heap EXCEPT ![s] = node]
           ids == [q.timer_ids EXCEPT ![node.id] = s]
           p == [q EXCEPT !.heap = h, !.timer_ids = ids]
<1>1. node.id \in 0..M - 1 /\ node \in NodesOf(M) \cup {NoNode}
  BY DEF NodesOf
<1>2. q.heap \in [0..M - 1 -> NodesOf(M) \cup {NoNode}] /\ q.timer_ids \in [0..M - 1 -> Int]
  BY DEF HeapOf
<1>3. h \in [0..M - 1 -> NodesOf(M) \cup {NoNode}] /\ ids \in [0..M - 1 -> Int]
  <2>1. s \in Int
    BY SMT
  <2> QED  BY <1>1, <1>2, <2>1
<1>4. copy(q, s, node) = p
  BY Zenon DEF copy
<1> HIDE DEF h, ids
<1>5. p \in HeapOf(M)
  BY <1>3, Zenon DEF HeapOf
<1>6. /\ p.heap = h /\ p.timer_ids = ids
      /\ p.max_size = q.max_size /\ p.cur_size = q.cur_size /\ p.cur_limbo = q.cur_limbo
      /\ p.timer_ids_curr = q.timer_ids_curr /\ p.timer_ids_min_free = q.timer_ids_min_free
  BY SMT DEF HeapOf
<1> QED  BY <1>4, <1>5, <1>6 DEF Copied, h, ids

(* The table and the first N slots agree, but for the ids in X, which the  *)
(* slots do not hold.                                                      *)
ExactBut(q, M, N, X) ==
    /\ \A i \in 0..N - 1 : /\ q.heap[i] \in NodesOf(M)
                           /\ q.heap[i].id \notin X
                           /\ q.timer_ids[q.heap[i].id] = i
    /\ \A id \in (0..M - 1) \ X :
           q.timer_ids[id] >= 0 =>
               q.timer_ids[id] \in 0..N - 1 /\ q.heap[q.timer_ids[id]].id = id

NodesIn(q, N) == {q.heap[i] : i \in 0..N - 1}

(* There is a gap in slot s. *)
GapIn(q, M, N, s, X) ==
    /\ \A i \in (0..N - 1) \ {s} : /\ q.heap[i] \in NodesOf(M)
                                   /\ q.heap[i].id \notin X
                                   /\ q.timer_ids[q.heap[i].id] = i
    /\ \A id \in (0..M - 1) \ X :
           q.timer_ids[id] >= 0 =>
               q.timer_ids[id] \in (0..N - 1) \ {s} /\ q.heap[q.timer_ids[id]].id = id

NodesAround(q, N, s) == {q.heap[i] : i \in (0..N - 1) \ {s}}

(* Only timers have moved from q to p. *)
OnlyMoved(q, p, M, N, X) ==
    /\ p \in HeapOf(M)
    /\ p.max_size = q.max_size /\ p.cur_size = q.cur_size /\ p.cur_limbo = q.cur_limbo
    /\ p.timer_ids_curr = q.timer_ids_curr /\ p.timer_ids_min_free = q.timer_ids_min_free
    /\ \A id \in (0..M - 1) \ X :
           /\ p.timer_ids[id] < 0 <=> q.timer_ids[id] < 0
           /\ q.timer_ids[id] < 0 => p.timer_ids[id] = q.timer_ids[id]

(* The gap moves where a node was. *)
LEMMA GapMoves ==
    ASSUME NEW M \in Nat, NEW q \in HeapOf(M), NEW N \in 0..M, NEW X,
           NEW s \in 0..N - 1, NEW c \in 0..N - 1, c # s, GapIn(q, M, N, s, X),
           NEW p, p = copy(q, s, q.heap[c])
    PROVE  /\ GapIn(p, M, N, c, X)
           /\ NodesAround(p, N, c) = NodesAround(q, N, s)
           /\ OnlyMoved(q, p, M, N, X)
           /\ p.heap = [q.heap EXCEPT ![s] = q.heap[c]]
<1> DEFINE node == q.heap[c]
<1>1. /\ node \in NodesOf(M) /\ node.id \in 0..M - 1 /\ node.id \notin X
      /\ q.timer_ids[node.id] = c
  BY DEF GapIn, NodesOf
<1>2. /\ s \in 0..M - 1 /\ c \in 0..M - 1 /\ \A i \in 0..N - 1 : i \in 0..M - 1
      /\ s \in Int /\ c \in Int /\ s >= 0 /\ c >= 0
  BY SMT
<1>3. q.heap \in [0..M - 1 -> NodesOf(M) \cup {NoNode}] /\ q.timer_ids \in [0..M - 1 -> Int]
  BY DEF HeapOf
<1>4. /\ p \in HeapOf(M)
      /\ p.heap = [q.heap EXCEPT ![s] = node]
      /\ p.timer_ids = [q.timer_ids EXCEPT ![node.id] = s]
      /\ p.max_size = q.max_size /\ p.cur_size = q.cur_size /\ p.cur_limbo = q.cur_limbo
      /\ p.timer_ids_curr = q.timer_ids_curr /\ p.timer_ids_min_free = q.timer_ids_min_free
  <2> HIDE DEF node
  <2>1. Copied(q, copy(q, s, node), M, s, node)
    BY <1>1, <1>2, CopyFacts
  <2> QED  BY <2>1 DEF Copied, node
<1>5. \A i \in 0..N - 1 : p.heap[i] = IF i = s THEN node ELSE q.heap[i]
  BY <1>2, <1>3, <1>4
<1>6. \A id \in 0..M - 1 : p.timer_ids[id] = IF id = node.id THEN s ELSE q.timer_ids[id]
  BY <1>3, <1>4
<1>7. \A i \in (0..N - 1) \ {s} : /\ q.heap[i] \in NodesOf(M)
                                  /\ q.heap[i].id \in 0..M - 1
                                  /\ q.heap[i].id \notin X
                                  /\ q.timer_ids[q.heap[i].id] = i
  BY DEF GapIn, NodesOf
<1>8. \A id \in (0..M - 1) \ X :
          q.timer_ids[id] >= 0 =>
              q.timer_ids[id] \in (0..N - 1) \ {s} /\ q.heap[q.timer_ids[id]].id = id
  BY DEF GapIn
<1> HIDE DEF node
<1>9. GapIn(p, M, N, c, X)
  <2>1. ASSUME NEW i \in (0..N - 1) \ {c}
        PROVE  p.heap[i] \in NodesOf(M) /\ p.heap[i].id \notin X /\ p.timer_ids[p.heap[i].id] = i
    <3>1. CASE i = s
      BY <1>1, <1>5, <1>6, <3>1
    <3>2. CASE i # s
      <4>1. p.heap[i] = q.heap[i] /\ q.heap[i].id # node.id
        BY <1>1, <1>5, <1>7, <3>2
      <4> QED  BY <1>6, <1>7, <3>2, <4>1
    <3> QED  BY <3>1, <3>2
  <2>2. ASSUME NEW id \in (0..M - 1) \ X, p.timer_ids[id] >= 0
        PROVE  p.timer_ids[id] \in (0..N - 1) \ {c} /\ p.heap[p.timer_ids[id]].id = id
    <3>1. CASE id = node.id
      BY <1>5, <1>6, <3>1
    <3>2. CASE id # node.id
      <4>1. p.timer_ids[id] = q.timer_ids[id]
        BY <1>6, <3>2
      <4>2. q.timer_ids[id] \in (0..N - 1) \ {s} /\ q.heap[q.timer_ids[id]].id = id
        BY <1>8, <2>2, <4>1
      <4>3. q.timer_ids[id] # c
        BY <3>2, <4>2 DEF node
      <4> QED  BY <1>5, <4>1, <4>2, <4>3
    <3> QED  BY <3>1, <3>2
  <2> QED  BY <2>1, <2>2 DEF GapIn
<1>10. NodesAround(p, N, c) = NodesAround(q, N, s)
  <2>1. \A i \in (0..N - 1) \ {c} : \E j \in (0..N - 1) \ {s} : p.heap[i] = q.heap[j]
    BY <1>5 DEF node
  <2>2. \A j \in (0..N - 1) \ {s} : \E i \in (0..N - 1) \ {c} : q.heap[j] = p.heap[i]
    <3> TAKE j \in (0..N - 1) \ {s}
    <3>1. CASE j = c
      BY <1>5, <3>1 DEF node
    <3>2. CASE j # c
      BY <1>5, <3>2
    <3> QED  BY <3>1, <3>2
  <2> QED  BY <2>1, <2>2 DEF NodesAround
<1>11. OnlyMoved(q, p, M, N, X)
  <2>1. \A id \in (0..M - 1) \ X :
           /\ p.timer_ids[id] < 0 <=> q.timer_ids[id] < 0
           /\ q.timer_ids[id] < 0 => p.timer_ids[id] = q.timer_ids[id]
    BY <1>1, <1>2, <1>6, SMT
  <2> QED  BY <1>4, <2>1 DEF OnlyMoved
<1> QED  BY <1>4, <1>9, <1>10, <1>11 DEF node

(* The node that was missing fills the gap. *)
LEMMA GapFilled ==
    ASSUME NEW M \in Nat, NEW q \in HeapOf(M), NEW N \in 0..M, NEW X,
           NEW s \in 0..N - 1, NEW node \in NodesOf(M), node.id \in X,
           GapIn(q, M, N, s, X), NEW p, p = copy(q, s, node)
    PROVE  /\ ExactBut(p, M, N, X \ {node.id})
           /\ NodesIn(p, N) = NodesAround(q, N, s) \cup {node}
           /\ OnlyMoved(q, p, M, N, X)
           /\ p.heap = [q.heap EXCEPT ![s] = node]
<1>1. node.id \in 0..M - 1
  BY DEF NodesOf
<1>2. /\ s \in 0..M - 1 /\ \A i \in 0..N - 1 : i \in 0..M - 1
      /\ s \in Int /\ s >= 0
  BY SMT
<1>3. q.heap \in [0..M - 1 -> NodesOf(M) \cup {NoNode}] /\ q.timer_ids \in [0..M - 1 -> Int]
  BY DEF HeapOf
<1>4. /\ p \in HeapOf(M)
      /\ p.heap = [q.heap EXCEPT ![s] = node]
      /\ p.timer_ids = [q.timer_ids EXCEPT ![node.id] = s]
      /\ p.max_size = q.max_size /\ p.cur_size = q.cur_size /\ p.cur_limbo = q.cur_limbo
      /\ p.timer_ids_curr = q.timer_ids_curr /\ p.timer_ids_min_free = q.timer_ids_min_free
  <2>1. Copied(q, copy(q, s, node), M, s, node)
    BY <1>2, CopyFacts
  <2> QED  BY <2>1 DEF Copied
<1>5. \A i \in 0..N - 1 : p.heap[i] = IF i = s THEN node ELSE q.heap[i]
  BY <1>2, <1>3, <1>4
<1>6. \A id \in 0..M - 1 : p.timer_ids[id] = IF id = node.id THEN s ELSE q.timer_ids[id]
  BY <1>3, <1>4
<1>7. \A i \in (0..N - 1) \ {s} : /\ q.heap[i] \in NodesOf(M)
                                  /\ q.heap[i].id \in 0..M - 1
                                  /\ q.heap[i].id \notin X
                                  /\ q.timer_ids[q.heap[i].id] = i
  BY DEF GapIn, NodesOf
<1>8. \A id \in (0..M - 1) \ X :
          q.timer_ids[id] >= 0 =>
              q.timer_ids[id] \in (0..N - 1) \ {s} /\ q.heap[q.timer_ids[id]].id = id
  BY DEF GapIn
<1>9. ExactBut(p, M, N, X \ {node.id})
  <2>1. ASSUME NEW i \in 0..N - 1
        PROVE  /\ p.heap[i] \in NodesOf(M) /\ p.heap[i].id \notin X \ {node.id}
               /\ p.timer_ids[p.heap[i].id] = i
    <3>1. CASE i = s
      BY <1>1, <1>5, <1>6, <3>1
    <3>2. CASE i # s
      BY <1>5, <1>6, <1>7, <3>2
    <3> QED  BY <3>1, <3>2
  <2>2. ASSUME NEW id \in (0..M - 1) \ (X \ {node.id}), p.timer_ids[id] >= 0
        PROVE  p.timer_ids[id] \in 0..N - 1 /\ p.heap[p.timer_ids[id]].id = id
    <3>1. CASE id = node.id
      BY <1>5, <1>6, <3>1
    <3>2. CASE id # node.id
      BY <1>5, <1>6, <1>8, <2>2, <3>2
    <3> QED  BY <3>1, <3>2
  <2> QED  BY <2>1, <2>2 DEF ExactBut
<1>10. NodesIn(p, N) = NodesAround(q, N, s) \cup {node}
  BY <1>5 DEF NodesIn, NodesAround
<1>11. OnlyMoved(q, p, M, N, X)
  <2>1. \A id \in (0..M - 1) \ X :
           /\ p.timer_ids[id] < 0 <=> q.timer_ids[id] < 0
           /\ q.timer_ids[id] < 0 => p.timer_ids[id] = q.timer_ids[id]
    BY <1>6
  <2> QED  BY <1>4, <2>1 DEF OnlyMoved
<1> QED  BY <1>4, <1>9, <1>10, <1>11

-----------------------------------------------------------------------------
(* The order of the times around a gap *)

Ordered(q, N) == \A i \in 1..N - 1 : q.heap[parent(i)].time <= q.heap[i].time

OrderedAround(q, N, s) ==
    /\ \A i \in 1..N - 1 :
           i # s /\ parent(i) # s => q.heap[parent(i)].time <= q.heap[i].time
    /\ \A i \in 1..N - 1 :
           parent(i) = s /\ s > 0 => q.heap[parent(s)].time <= q.heap[i].time

AboveChildren(q, N, s, node) ==
    \A i \in 1..N - 1 : parent(i) = s => node.time <= q.heap[i].time

BelowParent(q, s, node) == s > 0 => q.heap[parent(s)].time <= node.time

Timed(q, N, s) == \A i \in (0..N - 1) \ {s} : q.heap[i].time \in Int

(* What a heap with the node of slot c, or another, in slot s holds. *)
Put(q, p, N, s, node) ==
    \A i \in 0..N - 1 : p.heap[i] = IF i = s THEN node ELSE q.heap[i]

LEMMA OrderFilled ==
    ASSUME NEW N \in Nat, NEW s \in 0..N - 1, NEW q, NEW p, NEW node,
           Put(q, p, N, s, node), OrderedAround(q, N, s),
           AboveChildren(q, N, s, node), BelowParent(q, s, node)
    PROVE  Ordered(p, N)
<1> SUFFICES ASSUME NEW i \in 1..N - 1
             PROVE  p.heap[parent(i)].time <= p.heap[i].time
  BY DEF Ordered
<1>1. /\ i \in 0..N - 1 /\ parent(i) \in 0..N - 1 /\ parent(i) # i
      /\ i = s => s > 0
  BY ParentFacts, SMT
<1>2. /\ p.heap[i] = IF i = s THEN node ELSE q.heap[i]
      /\ p.heap[parent(i)] = IF parent(i) = s THEN node ELSE q.heap[parent(i)]
  BY <1>1 DEF Put
<1>3. CASE i = s
  BY <1>1, <1>2, <1>3 DEF BelowParent
<1>4. CASE parent(i) = s
  BY <1>1, <1>2, <1>4 DEF AboveChildren
<1>5. CASE i # s /\ parent(i) # s
  BY <1>2, <1>5 DEF OrderedAround
<1> QED  BY <1>3, <1>4, <1>5

LEMMA OrderRises ==
    ASSUME NEW N \in Nat, NEW s \in 1..N - 1, NEW q, NEW p, NEW node, node.time \in Int,
           Timed(q, N, s), Put(q, p, N, s, q.heap[parent(s)]),
           OrderedAround(q, N, s), AboveChildren(q, N, s, node),
           node.time < q.heap[parent(s)].time
    PROVE  OrderedAround(p, N, parent(s)) /\ AboveChildren(p, N, parent(s), node)
<1> DEFINE c == parent(s)
<1>1. c \in 0..N - 1 /\ c < s
  BY ParentFacts, SMT
<1>2. ASSUME NEW i \in 1..N - 1
      PROVE  /\ i \in 0..N - 1 /\ parent(i) \in 0..N - 1 /\ parent(i) < i
             /\ p.heap[i] = IF i = s THEN q.heap[c] ELSE q.heap[i]
             /\ p.heap[parent(i)] = IF parent(i) = s THEN q.heap[c] ELSE q.heap[parent(i)]
             /\ i # s => q.heap[i].time \in Int
  <2>1. i \in 0..N - 1 /\ parent(i) \in 0..N - 1 /\ parent(i) < i
    BY ParentFacts, SMT
  <2> QED  BY <2>1 DEF Put, Timed
<1>3. q.heap[c].time \in Int /\ node.time < q.heap[c].time
  BY <1>1 DEF Timed
<1>4. \A i \in 1..N - 1 : i # s /\ parent(i) # s => q.heap[parent(i)].time <= q.heap[i].time
  BY DEF OrderedAround
<1>5. \A i \in 1..N - 1 : parent(i) = s => q.heap[c].time <= q.heap[i].time
  BY SMT DEF OrderedAround
<1>6. parent(s) = c
  OBVIOUS
<1>7. ASSUME c > 0
      PROVE  /\ p.heap[parent(c)] = q.heap[parent(c)]
             /\ q.heap[parent(c)].time <= q.heap[c].time
             /\ q.heap[parent(c)].time \in Int
  <2>1. c \in 1..N - 1 /\ parent(c) < c
    BY <1>1, <1>7, ParentFacts, SMT
  <2>2. parent(c) # s /\ c # s /\ parent(c) \in 0..N - 1
    BY <1>1, <1>2, <2>1, SMT
  <2>3. q.heap[parent(c)].time <= q.heap[c].time
    BY <1>4, <2>1, <2>2
  <2>4. q.heap[parent(c)].time \in Int
    BY <2>2 DEF Timed
  <2>5. p.heap[parent(c)] = q.heap[parent(c)]
    BY <2>2 DEF Put
  <2> QED  BY <2>3, <2>4, <2>5
<1> HIDE DEF c
<1>8. ASSUME NEW i \in 1..N - 1, i # c, parent(i) # c
      PROVE  p.heap[parent(i)].time <= p.heap[i].time
  <2>1. i # s
    BY <1>6, <1>8
  <2> QED  BY <1>2, <1>4, <1>5, <2>1
<1>9. ASSUME NEW i \in 1..N - 1, parent(i) = c
      PROVE  p.heap[i].time \in Int /\ q.heap[c].time <= p.heap[i].time
  <2>1. CASE i = s
    BY <1>2, <1>3, <2>1, SMT
  <2>2. CASE i # s
    <3>1. parent(i) # s
      BY <1>1, <1>9, SMT
    <3> QED  BY <1>2, <1>4, <1>9, <2>2, <3>1
  <2> QED  BY <2>1, <2>2
<1>10. ASSUME NEW i \in 1..N - 1, parent(i) = c, c > 0
       PROVE  p.heap[parent(c)].time <= p.heap[i].time
  BY <1>3, <1>7, <1>9, <1>10, SMT
<1>11. ASSUME NEW i \in 1..N - 1, parent(i) = c
       PROVE  node.time <= p.heap[i].time
  BY <1>3, <1>9, <1>11, SMT
<1>12. OrderedAround(p, N, c)
  BY <1>8, <1>10 DEF OrderedAround
<1>13. AboveChildren(p, N, c, node)
  BY <1>11 DEF AboveChildren
<1> QED  BY <1>12, <1>13 DEF c

LEMMA OrderSinks ==
    ASSUME NEW N \in Nat, NEW s \in 0..N - 1, NEW c \in 1..N - 1, parent(c) = s,
           NEW q, NEW p, NEW node, node.time \in Int,
           Timed(q, N, s), Put(q, p, N, s, q.heap[c]),
           OrderedAround(q, N, s), q.heap[c].time < node.time,
           \A i \in 1..N - 1 : parent(i) = s => q.heap[c].time <= q.heap[i].time
    PROVE  OrderedAround(p, N, c) /\ BelowParent(p, c, node)
<1>1. c \in 0..N - 1 /\ s < c
  BY ParentFacts, SMT
<1>2. ASSUME NEW i \in 1..N - 1
      PROVE  /\ i \in 0..N - 1 /\ parent(i) \in 0..N - 1 /\ parent(i) < i
             /\ p.heap[i] = IF i = s THEN q.heap[c] ELSE q.heap[i]
             /\ p.heap[parent(i)] = IF parent(i) = s THEN q.heap[c] ELSE q.heap[parent(i)]
  <2>1. i \in 0..N - 1 /\ parent(i) \in 0..N - 1 /\ parent(i) < i
    BY ParentFacts, SMT
  <2> QED  BY <2>1 DEF Put
<1>3. q.heap[c].time \in Int /\ q.heap[c].time <= node.time
  <2>1. q.heap[c].time \in Int
    BY <1>1 DEF Timed
  <2> QED  BY <2>1, SMT
<1>4. \A i \in 1..N - 1 : i # s /\ parent(i) # s => q.heap[parent(i)].time <= q.heap[i].time
  BY DEF OrderedAround
<1>5. s > 0 => q.heap[parent(s)].time <= q.heap[c].time
  BY DEF OrderedAround
<1>6. p.heap[s] = q.heap[c]
  BY DEF Put
<1>7. ASSUME NEW i \in 1..N - 1, i # c, parent(i) # c
      PROVE  p.heap[parent(i)].time <= p.heap[i].time
  <2>1. CASE i = s
    <3>1. s > 0 /\ parent(i) # s
      BY <1>2, <2>1, SMT
    <3> QED  BY <1>2, <1>5, <2>1, <3>1
  <2>2. CASE i # s /\ parent(i) = s
    BY <1>2, <2>2
  <2>3. CASE i # s /\ parent(i) # s
    BY <1>2, <1>4, <2>3
  <2> QED  BY <2>1, <2>2, <2>3
<1>8. ASSUME NEW i \in 1..N - 1, parent(i) = c
      PROVE  p.heap[s].time <= p.heap[i].time
  <2>1. i # s /\ parent(i) # s
    BY <1>1, <1>2, <1>8, SMT
  <2> QED  BY <1>2, <1>4, <1>6, <1>8, <2>1
<1>9. OrderedAround(p, N, c)
  BY <1>7, <1>8 DEF OrderedAround
<1>10. BelowParent(p, c, node)
  BY <1>3, <1>6 DEF BelowParent
<1> QED  BY <1>9, <1>10

-----------------------------------------------------------------------------
(* The loops of reheap_up and reheap_down.  The queue p came from q, the   *)
(* gap is in slot s.                                                       *)

Moving(q, p, M, N, s, X, around) ==
    /\ OnlyMoved(q, p, M, N, X)
    /\ GapIn(p, M, N, s, X)
    /\ NodesAround(p, N, s) = around
    /\ OrderedAround(p, N, s)

LEMMA MovedTwice ==
    ASSUME NEW M, NEW N, NEW X, NEW q, NEW p, NEW r,
           OnlyMoved(q, p, M, N, X), OnlyMoved(p, r, M, N, X)
    PROVE  OnlyMoved(q, r, M, N, X)
BY DEF OnlyMoved

LEMMA TimedAround ==
    ASSUME NEW M, NEW N, NEW s, NEW X, NEW q, GapIn(q, M, N, s, X)
    PROVE  Timed(q, N, s)
BY DEF GapIn, Timed, NodesOf

LEMMA PutByExcept ==
    ASSUME NEW M \in Nat, NEW q \in HeapOf(M), NEW N \in 0..M, NEW s, NEW node, NEW p,
           p.heap = [q.heap EXCEPT ![s] = node]
    PROVE  Put(q, p, N, s, node)
<1>1. q.heap \in [0..M - 1 -> NodesOf(M) \cup {NoNode}] /\ \A i \in 0..N - 1 : i \in 0..M - 1
  BY SMT DEF HeapOf
<1> QED  BY <1>1 DEF Put

(* The gap rises while the node is earlier than the one above. *)
LEMMA Rises ==
    ASSUME NEW M \in Nat, NEW N \in 0..M, NEW X, NEW around, NEW q,
           NEW p \in HeapOf(M), NEW s \in 0..N - 1, NEW node \in NodesOf(M),
           Moving(q, p, M, N, s, X, around), AboveChildren(p, N, s, node),
           s > 0, node.time < p.heap[parent(s)].time,
           NEW r, r = copy(p, s, p.heap[parent(s)])
    PROVE  /\ r \in HeapOf(M)
           /\ parent(s) \in 0..N - 1 /\ parent(s) < s
           /\ Moving(q, r, M, N, parent(s), X, around)
           /\ AboveChildren(r, N, parent(s), node)
<1>1. /\ parent(s) \in 0..N - 1 /\ parent(s) < s /\ parent(s) # s /\ s \in 1..N - 1
      /\ N \in Nat /\ node.time \in Int
  BY ParentFacts, SMT DEF NodesOf
<1>2. /\ GapIn(r, M, N, parent(s), X)
      /\ NodesAround(r, N, parent(s)) = NodesAround(p, N, s)
      /\ OnlyMoved(p, r, M, N, X)
      /\ r.heap = [p.heap EXCEPT ![s] = p.heap[parent(s)]]
  BY <1>1, GapMoves DEF Moving
<1>3. Timed(p, N, s) /\ Put(p, r, N, s, p.heap[parent(s)])
  BY <1>2, TimedAround, PutByExcept DEF Moving
<1>4. OrderedAround(r, N, parent(s)) /\ AboveChildren(r, N, parent(s), node)
  BY <1>1, <1>3, OrderRises DEF Moving
<1>5. OnlyMoved(q, r, M, N, X) /\ r \in HeapOf(M)
  BY <1>2, MovedTwice DEF Moving, OnlyMoved
<1> QED  BY <1>1, <1>2, <1>4, <1>5 DEF Moving

(* The queue p is q with the node in the place that it was to have. *)
Placed(q, p, M, N, s, X, node) ==
    /\ ExactBut(p, M, N, X \ {node.id})
    /\ NodesIn(p, N) = NodesAround(q, N, s) \cup {node}
    /\ OnlyMoved(q, p, M, N, X)
    /\ Ordered(p, N)

LEMMA Places ==
    ASSUME NEW M \in Nat, NEW N \in 0..M, NEW X, NEW q, NEW first,
           NEW p \in HeapOf(M), NEW s \in 0..N - 1, NEW node \in NodesOf(M), node.id \in X,
           Moving(q, p, M, N, s, X, NodesAround(q, N, first)),
           AboveChildren(p, N, s, node), BelowParent(p, s, node)
    PROVE  Placed(q, copy(p, s, node), M, N, first, X, node)
<1> DEFINE r == copy(p, s, node)
<1>1. /\ ExactBut(r, M, N, X \ {node.id})
      /\ NodesIn(r, N) = NodesAround(p, N, s) \cup {node}
      /\ OnlyMoved(p, r, M, N, X)
      /\ r.heap = [p.heap EXCEPT ![s] = node]
  <2>1. /\ GapIn(p, M, N, s, X) /\ r = copy(p, s, node)
        /\ M \in Nat /\ N \in 0..M /\ p \in HeapOf(M) /\ s \in 0..N - 1
        /\ node \in NodesOf(M) /\ node.id \in X
    BY DEF Moving
  <2> HIDE DEF r
  <2> QED  BY <2>1, GapFilled
<1> HIDE DEF r
<1>2. Put(p, r, N, s, node) /\ N \in Nat
  <2>1. N \in Nat
    BY SMT
  <2> QED  BY <1>1, <2>1, PutByExcept
<1>3. Ordered(r, N)
  BY <1>2, OrderFilled DEF Moving
<1>4. OnlyMoved(q, r, M, N, X)
  BY <1>1, MovedTwice DEF Moving
<1> QED  BY <1>1, <1>3, <1>4 DEF Placed, Moving, r

LEMMA StartsMoving ==
    ASSUME NEW M, NEW N, NEW X, NEW q \in HeapOf(M), NEW s,
           GapIn(q, M, N, s, X), OrderedAround(q, N, s)
    PROVE  Moving(q, q, M, N, s, X, NodesAround(q, N, s))
BY DEF Moving, OnlyMoved

LEMMA ReheapUp ==
    ASSUME NEW M \in Nat, NEW N \in 0..M, NEW X, NEW q \in HeapOf(M), NEW s \in 0..N - 1,
           NEW node \in NodesOf(M), node.id \in X,
           GapIn(q, M, N, s, X), OrderedAround(q, N, s), AboveChildren(q, N, s, node)
    PROVE  Placed(q, reheap_up(q, node, s), M, N, s, X, node)
<1> DEFINE around == NodesAround(q, N, s)
           S == [queue : HeapOf(M), slot : 0..N - 1]
           Rising(r) == r.slot > 0 /\ node.time < r.queue.heap[parent(r.slot)].time
           Kept(r) == /\ Moving(q, r.queue, M, N, r.slot, X, around)
                      /\ AboveChildren(r.queue, N, r.slot, node)
           I == [k \in Nat |-> {r \in S : Kept(r) /\ (Rising(r) => r.slot + k <= s)}]
           F == [k \in Nat |-> [r \in S |-> IF r \in I[k] THEN rise(r, node) ELSE r]]
           a == [queue |-> q, slot |-> s]
           Body(g) == [k \in Nat |-> IF k = 0 THEN a ELSE rise(g[k - 1], node)]
           round == CHOOSE g : g = Body(g)
<1>1. reheap_up(q, node, s) = copy(round[s].queue, round[s].slot, node)
  BY DEF reheap_up
<1>2. a \in I[0]
  <2>1. a \in S /\ a.queue = q /\ a.slot = s
    OBVIOUS
  <2>2. Kept(a)
    BY <2>1, StartsMoving
  <2>3. a.slot + 0 <= s
    BY <2>1, SMT
  <2> QED  BY <2>1, <2>2, <2>3
<1>3. ASSUME NEW k \in Nat, NEW r \in I[k]
      PROVE  rise(r, node) \in I[k + 1]
  <2>1. r \in S /\ Kept(r) /\ (Rising(r) => r.slot + k <= s)
    OBVIOUS
  <2>2. r.queue \in HeapOf(M) /\ r.slot \in 0..N - 1
    BY <2>1
  <2>3. CASE Rising(r)
    <3> DEFINE up == parent(r.slot)
               p == copy(r.queue, r.slot, r.queue.heap[up])
               u == [queue |-> p, slot |-> up]
    <3>1. /\ p \in HeapOf(M) /\ up \in 0..N - 1 /\ up < r.slot
          /\ Moving(q, p, M, N, up, X, around)
          /\ AboveChildren(p, N, up, node)
      <4> HIDE DEF around
      <4> QED  BY <2>1, <2>2, <2>3, Rises
    <3>2. rise(r, node) = u
      BY <2>3, Zenon DEF rise
    <3> HIDE DEF up, p
    <3>3. u \in S /\ u.queue = p /\ u.slot = up
      BY <3>1
    <3>4. Kept(u)
      BY <3>1, <3>3
    <3>5. up + (k + 1) <= s
      BY <2>1, <2>2, <2>3, <3>1, SMT
    <3> QED  BY <3>2, <3>3, <3>4, <3>5
  <2>4. CASE ~Rising(r)
    <3>1. rise(r, node) = r
      BY <2>4, Zenon DEF rise
    <3> QED  BY <2>1, <2>4, <3>1
  <2> QED  BY <2>3, <2>4
<1>4. I \in [Nat -> SUBSET S]
  OBVIOUS
<1> HIDE DEF Kept, Rising
<1>5. \A k \in Nat : \A r \in I[k] : r \in S /\ rise(r, node) \in S
  <2>1. \A k \in Nat : k + 1 \in Nat /\ I[k] \subseteq S
    BY SMT
  <2> HIDE DEF I
  <2> QED  BY <1>3, <2>1
<1>6. F \in [Nat -> [S -> S]] /\ \A k \in Nat : \A r \in I[k] : F[k][r] = rise(r, node)
  <2> HIDE DEF I, S
  <2> QED  BY <1>5
<1>7. \A k \in Nat : \A r \in I[k] : F[k][r] \in I[k + 1]
  BY <1>3, <1>6
<1> HIDE DEF I, F, S, a
<1>8. PICK f : Runs(f, S, I, a, F)
  <2>1. Loop(S, I, a, F)
    BY <1>2, <1>4, <1>6, <1>7 DEF Loop
  <2> QED  BY <2>1, LoopRuns
<1>9. f = Body(f)
  <2>1. \A k \in Nat : f[k] = Body(f)[k]
    <3> TAKE k \in Nat
    <3>1. CASE k = 0
      BY <1>8, <3>1 DEF Runs
    <3>2. CASE k # 0
      <4>1. k - 1 \in Nat /\ (k - 1) + 1 = k
        BY <3>2, SMT
      <4>2. f[k] = rise(f[k - 1], node)
        BY <1>6, <1>8, <4>1 DEF Runs
      <4> QED  BY <3>2, <4>2
    <3> QED  BY <3>1, <3>2
  <2> QED  BY <1>8, <2>1 DEF Runs
<1>10. round = Body(round)
  BY <1>9
<1> HIDE DEF round
<1> DEFINE K == {k \in Nat : round[k] \in I[k]}
<1>11. \A k \in Nat : k \in K
  <2>1. 0 \in K
    <3>1. round[0] = a
      BY <1>10
    <3> QED  BY <1>2, <3>1
  <2>2. ASSUME NEW k \in Nat, k \in K
        PROVE  k + 1 \in K
    <3>1. k + 1 \in Nat /\ k + 1 # 0 /\ (k + 1) - 1 = k
      BY SMT
    <3>2. round[k + 1] = rise(round[k], node)
      BY <1>10, <3>1
    <3> QED  BY <1>3, <2>2, <3>1, <3>2
  <2> HIDE DEF K
  <2> QED  BY <2>1, <2>2, SetInduction
<1> DEFINE last == round[s]
<1>12. s \in Nat /\ last \in I[s]
  <2>1. s \in Nat
    BY SMT
  <2> QED  BY <1>11, <2>1
<1> HIDE DEF K, last
<1>13. last \in S /\ Kept(last) /\ (Rising(last) => last.slot + s <= s)
  BY <1>12 DEF I
<1>14. last.queue \in HeapOf(M) /\ last.slot \in 0..N - 1
  BY <1>13 DEF S
<1>15. BelowParent(last.queue, last.slot, node)
  <2>1. ~Rising(last)
    BY <1>12, <1>13, <1>14, SMT DEF Rising
  <2>2. ASSUME last.slot > 0
        PROVE  last.queue.heap[parent(last.slot)].time <= node.time
    <3>1. parent(last.slot) \in (0..N - 1) \ {last.slot}
      BY <1>14, <2>2, ParentFacts, SMT
    <3>2. last.queue.heap[parent(last.slot)].time \in Int
      BY <1>13, <3>1, TimedAround DEF Kept, Moving, Timed
    <3>3. node.time \in Int
      BY DEF NodesOf
    <3> QED  BY <2>1, <2>2, <3>2, <3>3, SMT DEF Rising
  <2> QED  BY <2>2 DEF BelowParent
<1>16. Placed(q, copy(last.queue, last.slot, node), M, N, s, X, node)
  BY <1>13, <1>14, <1>15, Places DEF Kept
<1> QED  BY <1>1, <1>16 DEF last

(* The gap sinks while a child is earlier than the node. *)
LEMMA SmallerChild ==
    ASSUME NEW M, NEW N \in Nat, NEW s \in 0..N - 1, NEW p, Timed(p, N, s), p.cur_size = N,
           left_child(s) < N
    PROVE  /\ smaller_child(p, s) \in 1..N - 1
           /\ parent(smaller_child(p, s)) = s
           /\ p.heap[smaller_child(p, s)].time \in Int
           /\ \A i \in 1..N - 1 :
                  parent(i) = s => p.heap[smaller_child(p, s)].time <= p.heap[i].time
<1> DEFINE l == left_child(s)
           c == smaller_child(p, s)
<1>1. l \in 1..N - 1 /\ s < l /\ s \in Nat /\ l \in Nat
  <2>1. s \in Nat
    BY SMT
  <2> QED  BY <2>1, ParentFacts, SMT
<1>2. c = IF l + 1 < N /\ p.heap[l + 1].time < p.heap[l].time THEN l + 1 ELSE l
  BY DEF smaller_child
<1>3. l < N
  OBVIOUS
<1>4. \A i \in 1..N - 1 : parent(i) = s <=> i = l \/ i = l + 1
  BY <1>1, ParentFacts, SMT
<1> HIDE DEF l, c
<1>5. p.heap[l].time \in Int /\ (l + 1 < N => p.heap[l + 1].time \in Int)
  BY <1>1, SMT DEF Timed
<1>6. c \in 1..N - 1 /\ (c = l \/ c = l + 1)
  BY <1>1, <1>2, SMT
<1>7. p.heap[c].time \in Int
  BY <1>2, <1>5, <1>6, SMT
<1>8. ASSUME NEW i \in 1..N - 1, parent(i) = s
      PROVE  p.heap[c].time <= p.heap[i].time
  <2>1. i = l \/ (i = l + 1 /\ l + 1 < N)
    BY <1>1, <1>4, <1>8, SMT
  <2> QED  BY <1>2, <1>5, <2>1, SMT
<1> QED  BY <1>4, <1>6, <1>7, <1>8 DEF c

LEMMA Sinks ==
    ASSUME NEW M \in Nat, NEW N \in 0..M, NEW X, NEW around, NEW q,
           NEW p \in HeapOf(M), NEW s \in 0..N - 1, NEW node \in NodesOf(M),
           Moving(q, p, M, N, s, X, around), BelowParent(p, s, node), p.cur_size = N,
           left_child(s) < N, p.heap[smaller_child(p, s)].time < node.time,
           NEW r, r = copy(p, s, p.heap[smaller_child(p, s)])
    PROVE  /\ r \in HeapOf(M)
           /\ smaller_child(p, s) \in 0..N - 1 /\ s < smaller_child(p, s)
           /\ Moving(q, r, M, N, smaller_child(p, s), X, around)
           /\ BelowParent(r, smaller_child(p, s), node)
<1> DEFINE c == smaller_child(p, s)
<1>1. N \in Nat /\ node.time \in Int
  BY SMT DEF NodesOf
<1>2. Timed(p, N, s) /\ GapIn(p, M, N, s, X) /\ OrderedAround(p, N, s)
  BY TimedAround DEF Moving
<1>3. /\ c \in 1..N - 1 /\ parent(c) = s /\ p.heap[c].time < node.time
      /\ r = copy(p, s, p.heap[c])
      /\ \A i \in 1..N - 1 : parent(i) = s => p.heap[c].time <= p.heap[i].time
  BY <1>1, <1>2, SmallerChild
<1> HIDE DEF c
<1>4. c \in 0..N - 1 /\ s < c /\ c # s
  BY <1>3, ParentFacts, SMT
<1>5. /\ GapIn(r, M, N, c, X)
      /\ NodesAround(r, N, c) = NodesAround(p, N, s)
      /\ OnlyMoved(p, r, M, N, X)
      /\ r.heap = [p.heap EXCEPT ![s] = p.heap[c]]
  BY <1>2, <1>3, <1>4, GapMoves
<1>6. Put(p, r, N, s, p.heap[c])
  BY <1>5, PutByExcept
<1>7. OrderedAround(r, N, c) /\ BelowParent(r, c, node)
  BY <1>1, <1>2, <1>3, <1>6, OrderSinks
<1>8. OnlyMoved(q, r, M, N, X) /\ r \in HeapOf(M)
  BY <1>5, MovedTwice DEF Moving, OnlyMoved
<1> QED  BY <1>4, <1>5, <1>7, <1>8 DEF Moving, c

LEMMA ReheapDown ==
    ASSUME NEW M \in Nat, NEW N \in 0..M, NEW X, NEW q \in HeapOf(M), NEW s \in 0..N - 1,
           NEW node \in NodesOf(M), node.id \in X,
           GapIn(q, M, N, s, X), OrderedAround(q, N, s), BelowParent(q, s, node), q.cur_size = N
    PROVE  Placed(q, reheap_down(q, node, s), M, N, s, X, node)
<1> DEFINE around == NodesAround(q, N, s)
           S == [queue : HeapOf(M), slot : 0..N - 1]
           Sinking(r) == /\ left_child(r.slot) < r.queue.cur_size
                         /\ r.queue.heap[smaller_child(r.queue, r.slot)].time < node.time
           Kept(r) == /\ Moving(q, r.queue, M, N, r.slot, X, around)
                      /\ BelowParent(r.queue, r.slot, node)
           I == [k \in Nat |-> {r \in S : Kept(r) /\ (Sinking(r) => k <= r.slot)}]
           F == [k \in Nat |-> [r \in S |-> IF r \in I[k] THEN sink(r, node) ELSE r]]
           a == [queue |-> q, slot |-> s]
           Body(g) == [k \in Nat |-> IF k = 0 THEN a ELSE sink(g[k - 1], node)]
           round == CHOOSE g : g = Body(g)
<1>1. reheap_down(q, node, s) = copy(round[q.cur_size].queue, round[q.cur_size].slot, node)
  BY DEF reheap_down
<1>2. a \in I[0]
  <2>1. a \in S /\ a.queue = q /\ a.slot = s
    OBVIOUS
  <2>2. Kept(a)
    BY <2>1, StartsMoving
  <2>3. 0 <= a.slot
    BY <2>1, SMT
  <2> QED  BY <2>1, <2>2, <2>3
<1>3. ASSUME NEW k \in Nat, NEW r \in I[k]
      PROVE  sink(r, node) \in I[k + 1]
  <2>1. r \in S /\ Kept(r) /\ (Sinking(r) => k <= r.slot)
    OBVIOUS
  <2>2. r.queue \in HeapOf(M) /\ r.slot \in 0..N - 1
    BY <2>1
  <2>3. CASE Sinking(r)
    <3> DEFINE down == smaller_child(r.queue, r.slot)
               p == copy(r.queue, r.slot, r.queue.heap[down])
               u == [queue |-> p, slot |-> down]
    <3>1. /\ p \in HeapOf(M) /\ down \in 0..N - 1 /\ r.slot < down
          /\ Moving(q, p, M, N, down, X, around)
          /\ BelowParent(p, down, node)
      <4>1. /\ Moving(q, r.queue, M, N, r.slot, X, around)
            /\ BelowParent(r.queue, r.slot, node)
        BY <2>1
      <4>2. r.queue.cur_size = N
        BY <4>1 DEF Moving, OnlyMoved
      <4>3. /\ left_child(r.slot) < N
            /\ r.queue.heap[smaller_child(r.queue, r.slot)].time < node.time
        BY <2>3, <4>2
      <4>4. p = copy(r.queue, r.slot, r.queue.heap[smaller_child(r.queue, r.slot)])
        OBVIOUS
      <4> HIDE DEF around, p
      <4> QED  BY <2>2, <4>1, <4>2, <4>3, <4>4, Sinks
    <3>2. sink(r, node) = u
      BY <2>3, Zenon DEF sink
    <3> HIDE DEF down, p
    <3>3. u \in S /\ u.queue = p /\ u.slot = down
      BY <3>1
    <3>4. Kept(u)
      BY <3>1, <3>3
    <3>5. k + 1 <= down
      BY <2>1, <2>2, <2>3, <3>1, SMT
    <3> QED  BY <3>2, <3>3, <3>4, <3>5
  <2>4. CASE ~Sinking(r)
    <3>1. sink(r, node) = r
      BY <2>4, Zenon DEF sink
    <3> QED  BY <2>1, <2>4, <3>1
  <2> QED  BY <2>3, <2>4
<1>4. I \in [Nat -> SUBSET S]
  OBVIOUS
<1> HIDE DEF Kept, Sinking
<1>5. \A k \in Nat : \A r \in I[k] : r \in S /\ sink(r, node) \in S
  <2>1. \A k \in Nat : k + 1 \in Nat /\ I[k] \subseteq S
    BY SMT
  <2> HIDE DEF I
  <2> QED  BY <1>3, <2>1
<1>6. F \in [Nat -> [S -> S]] /\ \A k \in Nat : \A r \in I[k] : F[k][r] = sink(r, node)
  <2> HIDE DEF I, S
  <2> QED  BY <1>5
<1>7. \A k \in Nat : \A r \in I[k] : F[k][r] \in I[k + 1]
  BY <1>3, <1>6
<1> HIDE DEF I, F, S, a
<1>8. PICK f : Runs(f, S, I, a, F)
  <2>1. Loop(S, I, a, F)
    BY <1>2, <1>4, <1>6, <1>7 DEF Loop
  <2> QED  BY <2>1, LoopRuns
<1>9. f = Body(f)
  <2>1. \A k \in Nat : f[k] = Body(f)[k]
    <3> TAKE k \in Nat
    <3>1. CASE k = 0
      BY <1>8, <3>1 DEF Runs
    <3>2. CASE k # 0
      <4>1. k - 1 \in Nat /\ (k - 1) + 1 = k
        BY <3>2, SMT
      <4>2. f[k] = sink(f[k - 1], node)
        BY <1>6, <1>8, <4>1 DEF Runs
      <4> QED  BY <3>2, <4>2
    <3> QED  BY <3>1, <3>2
  <2> QED  BY <1>8, <2>1 DEF Runs
<1>10. round = Body(round)
  BY <1>9
<1> HIDE DEF round
<1> DEFINE K == {k \in Nat : round[k] \in I[k]}
<1>11. \A k \in Nat : k \in K
  <2>1. 0 \in K
    <3>1. round[0] = a
      BY <1>10
    <3> QED  BY <1>2, <3>1
  <2>2. ASSUME NEW k \in Nat, k \in K
        PROVE  k + 1 \in K
    <3>1. k + 1 \in Nat /\ k + 1 # 0 /\ (k + 1) - 1 = k
      BY SMT
    <3>2. round[k + 1] = sink(round[k], node)
      BY <1>10, <3>1
    <3> QED  BY <1>3, <2>2, <3>1, <3>2
  <2> HIDE DEF K
  <2> QED  BY <2>1, <2>2, SetInduction
<1> DEFINE last == round[N]
<1>12. N \in Nat /\ last \in I[N]
  <2>1. N \in Nat
    BY SMT
  <2> QED  BY <1>11, <2>1
<1> HIDE DEF K, last
<1>13. last \in S /\ Kept(last) /\ (Sinking(last) => N <= last.slot)
  BY <1>12 DEF I
<1>14. last.queue \in HeapOf(M) /\ last.slot \in 0..N - 1
  BY <1>13 DEF S
<1>15. AboveChildren(last.queue, N, last.slot, node)
  <2>1. ~Sinking(last) /\ last.queue.cur_size = N /\ Timed(last.queue, N, last.slot)
    <3>1. ~Sinking(last)
      BY <1>12, <1>13, <1>14, SMT
    <3> QED  BY <1>13, <3>1, TimedAround DEF Kept, Moving, OnlyMoved
  <2>2. ASSUME NEW i \in 1..N - 1, parent(i) = last.slot
        PROVE  node.time <= last.queue.heap[i].time
    <3>1. left_child(last.slot) < N /\ i \in (0..N - 1) \ {last.slot}
      <4>1. last.slot \in Nat /\ i \in Nat \ {0} /\ N \in Nat
        BY <1>14, SMT
      <4>2. /\ i = left_child(last.slot) \/ i = left_child(last.slot) + 1
            /\ left_child(last.slot) \in Nat /\ last.slot < left_child(last.slot)
        BY <2>2, <4>1, ParentFacts
      <4> QED  BY <4>1, <4>2, SMT
    <3>2. last.queue.heap[i].time \in Int /\ node.time \in Int
      BY <2>1, <3>1 DEF Timed, NodesOf
    <3> DEFINE c == smaller_child(last.queue, last.slot)
    <3>3. last.queue.heap[c].time \in Int /\ last.queue.heap[c].time <= last.queue.heap[i].time
      BY <1>12, <1>14, <2>1, <2>2, <3>1, SmallerChild
    <3>4. ~(last.queue.heap[c].time < node.time)
      BY <2>1, <3>1 DEF Sinking
    <3> HIDE DEF c
    <3> QED  BY <3>2, <3>3, <3>4, SMT
  <2> QED  BY <2>2 DEF AboveChildren
<1>16. Placed(q, copy(last.queue, last.slot, node), M, N, s, X, node)
  BY <1>13, <1>14, <1>15, Places DEF Kept
<1> QED  BY <1>1, <1>16 DEF last

-----------------------------------------------------------------------------
(* Taking a timer out *)

Exact(q, M) == ExactBut(q, M, q.cur_size, {})

(* What is left of q, but for timers that may have moved, when the timer x *)
(* is out and the table still has its id.                                  *)
Closed(q, f, M, x) ==
    /\ f \in HeapOf(M)
    /\ f.max_size = q.max_size /\ f.cur_size = q.cur_size - 1 /\ f.cur_limbo = q.cur_limbo
    /\ f.timer_ids_curr = q.timer_ids_curr /\ f.timer_ids_min_free = q.timer_ids_min_free
    /\ ExactBut(f, M, q.cur_size - 1, {x.id})
    /\ Ordered(f, q.cur_size - 1)
    /\ NodesIn(f, q.cur_size - 1) = NodesIn(q, q.cur_size) \ {x}
    /\ \A id \in (0..M - 1) \ {x.id} :
           /\ f.timer_ids[id] < 0 <=> q.timer_ids[id] < 0
           /\ q.timer_ids[id] < 0 => f.timer_ids[id] = q.timer_ids[id]

LEMMA ShorterFacts ==
    ASSUME NEW M \in Nat, NEW q \in HeapOf(M), q.cur_size > 0,
           NEW f, f = [q EXCEPT !.cur_size = @ - 1]
    PROVE  /\ f \in HeapOf(M) /\ f.cur_size = q.cur_size - 1
           /\ f.heap = q.heap /\ f.timer_ids = q.timer_ids
           /\ f.max_size = q.max_size /\ f.cur_limbo = q.cur_limbo
           /\ f.timer_ids_curr = q.timer_ids_curr /\ f.timer_ids_min_free = q.timer_ids_min_free
<1>1. q.cur_size \in 0..M
  BY DEF HeapOf
<1>2. q.cur_size - 1 \in 0..M
  BY <1>1, SMT
<1>3. f \in HeapOf(M)
  BY <1>2, Zenon DEF HeapOf
<1>4. /\ f.cur_size = q.cur_size - 1 /\ f.heap = q.heap /\ f.timer_ids = q.timer_ids
      /\ f.max_size = q.max_size /\ f.cur_limbo = q.cur_limbo
      /\ f.timer_ids_curr = q.timer_ids_curr /\ f.timer_ids_min_free = q.timer_ids_min_free
  BY SMT DEF HeapOf
<1> QED  BY <1>3, <1>4

(* In an exact heap a timer is in one slot only. *)
LEMMA SlotsApart ==
    ASSUME NEW M \in Nat, NEW q, NEW N \in Nat, NEW X, ExactBut(q, M, N, X)
    PROVE  /\ \A i \in 0..N - 1 : q.heap[i] \in NodesOf(M) /\ q.heap[i].id \in 0..M - 1
           /\ \A i, j \in 0..N - 1 : q.heap[i].id = q.heap[j].id => i = j
BY DEF ExactBut, NodesOf

(* The last timer leaves no gap. *)
LEMMA LastTaken ==
    ASSUME NEW M \in Nat, NEW q \in HeapOf(M), q.cur_size > 0, Exact(q, M),
           Ordered(q, q.cur_size), NEW f, f = [q EXCEPT !.cur_size = @ - 1]
    PROVE  Closed(q, f, M, q.heap[q.cur_size - 1])
<1> DEFINE N == q.cur_size - 1
           x == q.heap[N]
<1>1. /\ q.cur_size \in 0..M /\ N \in Nat /\ q.cur_size \in Nat /\ N + 1 = q.cur_size
      /\ N \in 0..q.cur_size - 1
      /\ \A i \in 0..N - 1 : i \in 0..q.cur_size - 1 /\ i # N
      /\ \A i \in 0..q.cur_size - 1 : i # N => i \in 0..N - 1
      /\ \A i \in 1..N - 1 : i \in 1..q.cur_size - 1
  <2>1. q.cur_size \in 0..M
    BY DEF HeapOf
  <2> QED  BY <2>1, SMT
<1>2. /\ f \in HeapOf(M) /\ f.cur_size = N
      /\ f.heap = q.heap /\ f.timer_ids = q.timer_ids
      /\ f.max_size = q.max_size /\ f.cur_limbo = q.cur_limbo
      /\ f.timer_ids_curr = q.timer_ids_curr /\ f.timer_ids_min_free = q.timer_ids_min_free
  BY ShorterFacts
<1>3. /\ \A i \in 0..q.cur_size - 1 : /\ q.heap[i] \in NodesOf(M)
                                      /\ q.timer_ids[q.heap[i].id] = i
      /\ \A id \in 0..M - 1 :
             q.timer_ids[id] >= 0 =>
                 q.timer_ids[id] \in 0..q.cur_size - 1 /\ q.heap[q.timer_ids[id]].id = id
  BY DEF Exact, ExactBut
<1> HIDE DEF N
<1>4. ExactBut(f, M, N, {x.id})
  <2>1. ASSUME NEW i \in 0..N - 1
        PROVE  f.heap[i] \in NodesOf(M) /\ f.heap[i].id \notin {x.id} /\ f.timer_ids[f.heap[i].id] = i
    BY <1>1, <1>2, <1>3
  <2>2. ASSUME NEW id \in (0..M - 1) \ {x.id}, f.timer_ids[id] >= 0
        PROVE  f.timer_ids[id] \in 0..N - 1 /\ f.heap[f.timer_ids[id]].id = id
    <3>1. q.timer_ids[id] \in 0..q.cur_size - 1 /\ q.heap[q.timer_ids[id]].id = id
      BY <1>2, <1>3, <2>2
    <3>2. q.timer_ids[id] # N
      BY <3>1
    <3> QED  BY <1>1, <1>2, <3>1, <3>2
  <2> QED  BY <2>1, <2>2 DEF ExactBut
<1>5. Ordered(f, N)
  BY <1>1, <1>2 DEF Ordered
<1>6. NodesIn(f, N) = NodesIn(q, q.cur_size) \ {x}
  <2>1. \A i \in 0..N - 1 : q.heap[i] # x
    BY <1>1, <1>3
  <2> QED  BY <1>1, <1>2, <2>1 DEF NodesIn
<1> HIDE DEF x
<1>7. Closed(q, f, M, x)
  BY <1>2, <1>4, <1>5, <1>6 DEF Closed, N
<1> QED  BY <1>7 DEF x, N

(* Before the last timer is moved to a place that it fits. *)
RefillReady(q, f, moved, M, N, slot, X) ==
    /\ moved \in HeapOf(M) /\ N \in 0..M /\ N \in Nat
    /\ f.cur_size = N /\ moved.cur_size = N /\ f.heap[N] = q.heap[N]
    /\ q.heap[N] \in NodesOf(M) /\ q.heap[slot].id # q.heap[N].id
    /\ GapIn(moved, M, N, slot, X)
    /\ OrderedAround(moved, N, slot)
    /\ Put(q, moved, N, slot, q.heap[N])
    /\ OnlyMoved(f, moved, M, N, X)
    /\ NodesAround(moved, N, slot) \cup {q.heap[N]}
          = NodesIn(q, q.cur_size) \ {q.heap[slot]}

LEMMA RefillStarts ==
    ASSUME NEW M \in Nat, NEW q \in HeapOf(M), q.cur_size > 0, Exact(q, M),
           Ordered(q, q.cur_size), NEW N, N = q.cur_size - 1, NEW slot \in 0..N - 1,
           NEW f, f = [q EXCEPT !.cur_size = @ - 1],
           NEW moved, moved = copy(f, slot, f.heap[f.cur_size]),
           NEW X, X = {q.heap[slot].id, q.heap[N].id}
    PROVE  RefillReady(q, f, moved, M, N, slot, X)
<1>1. q.cur_size \in 0..M /\ N \in 0..M - 1 /\ N \in Nat /\ q.cur_size \in Nat
      /\ N \in 0..q.cur_size - 1 /\ N \in 0..M
      /\ (\A i \in 0..N - 1 : i \in 0..q.cur_size - 1 /\ i # N)
      /\ (\A i \in 0..q.cur_size - 1 : i # N => i \in 0..N - 1)
      /\ (\A i \in 1..N - 1 : i \in 1..q.cur_size - 1)
      /\ (\A i \in 0..N - 1 : i \in 0..M - 1)
  <2>1. q.cur_size \in 0..M
    BY DEF HeapOf
  <2> QED  BY <2>1, SMT
<1>2. /\ f \in HeapOf(M) /\ f.cur_size = N
      /\ f.heap = q.heap /\ f.timer_ids = q.timer_ids
  BY ShorterFacts
<1> DEFINE x == q.heap[slot]
           last == q.heap[N]
<1>3. /\ \A i \in 0..q.cur_size - 1 : /\ q.heap[i] \in NodesOf(M)
                                      /\ q.heap[i].id \in 0..M - 1
                                      /\ q.timer_ids[q.heap[i].id] = i
      /\ \A id \in 0..M - 1 :
             q.timer_ids[id] >= 0 =>
                 q.timer_ids[id] \in 0..q.cur_size - 1 /\ q.heap[q.timer_ids[id]].id = id
  BY DEF Exact, ExactBut, NodesOf
<1>4. /\ x \in NodesOf(M) /\ last \in NodesOf(M) /\ x.id # last.id
      /\ x.id \in 0..M - 1 /\ last.id \in 0..M - 1 /\ slot \in 0..M - 1
  BY <1>1, <1>3
<1>5. /\ moved \in HeapOf(M) /\ moved.heap = [q.heap EXCEPT ![slot] = last]
      /\ moved.timer_ids = [q.timer_ids EXCEPT ![last.id] = slot]
      /\ moved.max_size = f.max_size /\ moved.cur_size = f.cur_size
      /\ moved.cur_limbo = f.cur_limbo /\ moved.timer_ids_curr = f.timer_ids_curr
      /\ moved.timer_ids_min_free = f.timer_ids_min_free
  <2>1. moved = copy(f, slot, last) /\ f.heap = q.heap /\ f.timer_ids = q.timer_ids
    BY <1>2
  <2> HIDE DEF last
  <2>2. Copied(f, copy(f, slot, last), M, slot, last)
    BY <1>2, <1>4, CopyFacts
  <2> QED  BY <2>1, <2>2 DEF Copied
<1> HIDE DEF x, last
<1>6. /\ \A i \in 0..N - 1 : moved.heap[i] = IF i = slot THEN last ELSE q.heap[i]
      /\ \A id \in 0..M - 1 : moved.timer_ids[id] = IF id = last.id THEN slot ELSE q.timer_ids[id]
  <2>1. q.heap \in [0..M - 1 -> NodesOf(M) \cup {NoNode}] /\ q.timer_ids \in [0..M - 1 -> Int]
    BY DEF HeapOf
  <2>2. \A i \in 0..N - 1 : moved.heap[i] = IF i = slot THEN last ELSE q.heap[i]
    BY <1>1, <1>5, <2>1
  <2>3. \A id \in 0..M - 1 : moved.timer_ids[id] = IF id = last.id THEN slot ELSE q.timer_ids[id]
    BY <1>5, <2>1
  <2> QED  BY <2>2, <2>3
<1>7. Put(q, moved, N, slot, last)
  BY <1>6 DEF Put
<1>8. X = {x.id, last.id}
  BY DEF x, last
<1>9. q.timer_ids[x.id] = slot /\ q.timer_ids[last.id] = N
  BY <1>1, <1>3, SMTT(30) DEF x, last
<1>10. GapIn(moved, M, N, slot, X)
  <2>1. ASSUME NEW i \in (0..N - 1) \ {slot}
        PROVE  moved.heap[i] \in NodesOf(M) /\ moved.heap[i].id \notin X
               /\ moved.timer_ids[moved.heap[i].id] = i
    <3>1. moved.heap[i] = q.heap[i] /\ i \in 0..q.cur_size - 1 /\ i # N
      BY <1>1, <1>6
    <3>2. q.heap[i] \in NodesOf(M) /\ q.heap[i].id \in 0..M - 1 /\ q.timer_ids[q.heap[i].id] = i
      BY <1>3, <3>1
    <3>3. q.heap[i].id \notin X
      BY <1>8, <1>9, <3>1, <3>2
    <3> QED  BY <1>6, <1>8, <3>1, <3>2, <3>3
  <2>2. ASSUME NEW id \in (0..M - 1) \ X, moved.timer_ids[id] >= 0
        PROVE  moved.timer_ids[id] \in (0..N - 1) \ {slot} /\ moved.heap[moved.timer_ids[id]].id = id
    <3>1. moved.timer_ids[id] = q.timer_ids[id]
      BY <1>6, <1>8
    <3>2. q.timer_ids[id] \in 0..q.cur_size - 1 /\ q.heap[q.timer_ids[id]].id = id
      BY <1>3, <2>2, <3>1
    <3>3. q.timer_ids[id] # N /\ q.timer_ids[id] # slot
      BY <1>8, <3>2 DEF x, last
    <3> QED  BY <1>1, <1>6, <3>1, <3>2, <3>3
  <2> QED  BY <2>1, <2>2, ZenonT(30) DEF GapIn
<1>11. OrderedAround(moved, N, slot)
  <2>1. \A i \in 1..N - 1 : /\ q.heap[parent(i)].time <= q.heap[i].time
                            /\ i \in 0..N - 1 /\ parent(i) \in 0..N - 1
    <3> TAKE i \in 1..N - 1
    <3>1. i \in Nat \ {0} /\ N \in Nat
      BY <1>1, SMT
    <3>2. i \in 0..N - 1 /\ parent(i) \in 0..N - 1
      BY <3>1, ParentFacts, SMT
    <3> QED  BY <1>1, <3>2 DEF Ordered
  <2>2. ASSUME NEW i \in 1..N - 1, i # slot, parent(i) # slot
        PROVE  moved.heap[parent(i)].time <= moved.heap[i].time
    BY <1>6, <2>1, <2>2
  <2>3. ASSUME NEW i \in 1..N - 1, parent(i) = slot, slot > 0
        PROVE  moved.heap[parent(slot)].time <= moved.heap[i].time
    <3>1. slot \in 1..N - 1 /\ parent(slot) # slot /\ i # slot
      BY <2>3, ParentFacts, SMT
    <3>2. /\ q.heap[parent(slot)].time <= q.heap[slot].time
          /\ q.heap[slot].time <= q.heap[i].time
          /\ moved.heap[parent(slot)] = q.heap[parent(slot)] /\ moved.heap[i] = q.heap[i]
      BY <1>6, <2>1, <2>3, <3>1
    <3>3. /\ q.heap[parent(slot)].time \in Int /\ q.heap[slot].time \in Int
          /\ q.heap[i].time \in Int
      BY <1>1, <1>3, <2>1, <3>1, SMTT(30) DEF NodesOf
    <3> QED  BY <3>2, <3>3, SMT
  <2> QED  BY <2>2, <2>3 DEF OrderedAround
<1>12. OnlyMoved(f, moved, M, N, X)
  BY <1>2, <1>5, <1>6, <1>8 DEF OnlyMoved
<1>13. NodesAround(moved, N, slot) \cup {last} = NodesIn(q, q.cur_size) \ {x}
  <2>1. \A i \in 0..q.cur_size - 1 : q.heap[i] = x => i = slot
    BY <1>3, <1>9
  <2>2. \A i \in (0..N - 1) \ {slot} : moved.heap[i] = q.heap[i] /\ i \in 0..q.cur_size - 1
    BY <1>1, <1>6
  <2>3. last # x
    BY <1>4
  <2>4. NodesIn(q, q.cur_size) \ {x} \subseteq NodesAround(moved, N, slot) \cup {last}
    <3> SUFFICES ASSUME NEW i \in 0..q.cur_size - 1, q.heap[i] # x
                 PROVE  q.heap[i] \in NodesAround(moved, N, slot) \cup {last}
      BY DEF NodesIn
    <3>1. CASE i = N
      BY <3>1 DEF last
    <3>2. CASE i # N
      <4>1. i \in (0..N - 1) \ {slot}
        BY <1>1, <3>2 DEF x
      <4> QED  BY <2>2, <4>1 DEF NodesAround
    <3> QED  BY <3>1, <3>2
  <2>5. NodesAround(moved, N, slot) \cup {last} \subseteq NodesIn(q, q.cur_size) \ {x}
    <3>1. last \in NodesIn(q, q.cur_size)
      BY <1>1 DEF NodesIn, last
    <3>2. NodesAround(moved, N, slot) \subseteq NodesIn(q, q.cur_size) \ {x}
      BY <2>1, <2>2 DEF NodesIn, NodesAround
    <3> QED  BY <2>3, <3>1, <3>2
  <2> QED  BY <2>4, <2>5
<1> QED  BY <1>1, <1>2, <1>4, <1>5, <1>7, <1>10, <1>11, <1>12, <1>13 DEF RefillReady, x, last

(* The last timer takes the place of the one that is taken out. *)
LEMMA RefillCloses ==
    ASSUME NEW M \in Nat, NEW q \in HeapOf(M), q.cur_size > 0, Exact(q, M),
           Ordered(q, q.cur_size), NEW slot \in 0..q.cur_size - 2
    PROVE  Closed(q, refill([q EXCEPT !.cur_size = @ - 1], slot), M, q.heap[slot])
<1> DEFINE N == q.cur_size - 1
           f == [q EXCEPT !.cur_size = @ - 1]
           last == q.heap[N]
           x == q.heap[slot]
           moved == copy(f, slot, f.heap[f.cur_size])
           r == refill(f, slot)
           X == {x.id, last.id}
<1>1. q.cur_size \in Nat /\ slot \in 0..N - 1
  <2>1. q.cur_size \in 0..M
    BY DEF HeapOf
  <2> QED  BY <2>1, SMT
<1>2. /\ f \in HeapOf(M) /\ f.cur_size = N
      /\ f.heap = q.heap /\ f.timer_ids = q.timer_ids
      /\ f.max_size = q.max_size /\ f.cur_limbo = q.cur_limbo
      /\ f.timer_ids_curr = q.timer_ids_curr /\ f.timer_ids_min_free = q.timer_ids_min_free
  BY ShorterFacts
<1>3. /\ moved \in HeapOf(M) /\ N \in 0..M /\ N \in Nat
      /\ moved.cur_size = N /\ f.heap[N] = last
      /\ last \in NodesOf(M) /\ x.id # last.id
      /\ GapIn(moved, M, N, slot, X)
      /\ OrderedAround(moved, N, slot)
      /\ Put(q, moved, N, slot, last)
      /\ OnlyMoved(f, moved, M, N, X)
      /\ NodesAround(moved, N, slot) \cup {last} = NodesIn(q, q.cur_size) \ {x}
  <2>1. RefillReady(q, f, moved, M, N, slot, X)
    <3> HIDE DEF f, moved, X
    <3>1. N = q.cur_size - 1 /\ f = [q EXCEPT !.cur_size = @ - 1]
          /\ moved = copy(f, slot, f.heap[f.cur_size])
          /\ X = {q.heap[slot].id, q.heap[N].id}
      BY DEF f, moved, X
    <3> HIDE DEF N
    <3> QED  BY <1>1, <3>1, RefillStarts, ZenonT(30)
  <2> QED  BY <2>1 DEF RefillReady
<1>4. r = IF last.time >= moved.heap[parent(slot)].time
          THEN reheap_down(moved, last, slot) ELSE reheap_up(moved, last, slot)
  <2>1. f.heap[f.cur_size] = last
    BY <1>2
  <2>2. r = IF f.heap[f.cur_size].time >= moved.heap[parent(slot)].time
            THEN reheap_down(moved, f.heap[f.cur_size], slot)
            ELSE reheap_up(moved, f.heap[f.cur_size], slot)
    <3> HIDE DEF f, last
    <3> QED  BY DEF refill
  <2> HIDE DEF f, last, moved, r
  <2> QED  BY <2>1, <2>2
<1>5. x \in NodesOf(M) /\ last.time \in Int /\ x.time \in Int /\ x.id \in 0..M - 1
      /\ last.id \in 0..M - 1
  <2>1. slot \in 0..q.cur_size - 1
    BY <1>1, SMT
  <2>2. x \in NodesOf(M)
    BY <2>1 DEF Exact, ExactBut
  <2> QED  BY <1>3, <2>2 DEF NodesOf
<1> HIDE DEF N, f, moved, last, x, r
<1>6. \A i \in 0..N - 1 : moved.heap[i] = IF i = slot THEN last ELSE q.heap[i]
  BY <1>3 DEF Put
<1>7. Placed(moved, r, M, N, slot, X, last)
  <2>1. CASE last.time >= moved.heap[parent(slot)].time
    <3>1. BelowParent(moved, slot, last)
      <4> SUFFICES ASSUME slot > 0
                   PROVE  moved.heap[parent(slot)].time <= last.time
        BY DEF BelowParent
      <4>1. parent(slot) \in (0..N - 1) \ {slot}
        BY <1>1, <1>3, ParentFacts, SMT
      <4>2. moved.heap[parent(slot)].time \in Int
        BY <1>3, <4>1, TimedAround DEF Timed
      <4> QED  BY <1>5, <2>1, <4>2, SMT
    <3>2. r = reheap_down(moved, last, slot)
      BY <1>4, <2>1
    <3>3. Placed(moved, reheap_down(moved, last, slot), M, N, slot, X, last)
      BY <1>1, <1>3, <3>1, ReheapDown
    <3> QED  BY <3>2, <3>3
  <2>2. CASE ~(last.time >= moved.heap[parent(slot)].time)
    <3>1. slot > 0
      <4>1. moved.heap[slot] = last
        BY <1>1, <1>6
      <4> QED  BY <1>1, <1>5, <2>2, <4>1, ParentFacts, SMT
    <3>2. slot \in 1..N - 1 /\ parent(slot) \in 0..N - 1 /\ parent(slot) # slot
          /\ slot \in 1..q.cur_size - 1
      BY <1>1, <1>3, <3>1, ParentFacts, SMT DEF N
    <3>3. /\ moved.heap[parent(slot)] = q.heap[parent(slot)]
          /\ q.heap[parent(slot)].time <= x.time
          /\ q.heap[parent(slot)].time \in Int
      <4>1. moved.heap[parent(slot)] = q.heap[parent(slot)]
        BY <1>6, <3>2
      <4>2. q.heap[parent(slot)].time <= x.time
        BY <3>2 DEF Ordered, x
      <4>3. moved.heap[parent(slot)].time \in Int
        BY <1>3, <3>2, TimedAround DEF Timed
      <4> QED  BY <4>1, <4>2, <4>3
    <3>4. AboveChildren(moved, N, slot, last)
      <4> SUFFICES ASSUME NEW i \in 1..N - 1, parent(i) = slot
                   PROVE  last.time <= moved.heap[i].time
        BY DEF AboveChildren
      <4>1. i \in (0..N - 1) \ {slot} /\ i \in 1..q.cur_size - 1
        BY <1>1, <1>3, ParentFacts, SMT DEF N
      <4>2. moved.heap[i] = q.heap[i] /\ x.time <= q.heap[i].time
        BY <1>6, <4>1 DEF Ordered, x
      <4>3. moved.heap[i].time \in Int
        BY <1>3, <4>1, TimedAround DEF Timed
      <4> QED  BY <1>5, <2>2, <3>3, <4>2, <4>3, SMT
    <3>5. r = reheap_up(moved, last, slot)
      BY <1>4, <2>2
    <3>6. Placed(moved, reheap_up(moved, last, slot), M, N, slot, X, last)
      BY <1>1, <1>3, <3>4, ReheapUp
    <3> QED  BY <3>5, <3>6
  <2> QED  BY <2>1, <2>2
<1>8. ExactBut(r, M, N, {x.id})
  <2>1. X \ {last.id} = {x.id}
    BY <1>3
  <2> QED  BY <1>7, <2>1 DEF Placed
<1>9. NodesIn(r, N) = NodesIn(q, q.cur_size) \ {x}
  BY <1>3, <1>7 DEF Placed
<1>10. /\ r \in HeapOf(M) /\ r.max_size = q.max_size /\ r.cur_size = N /\ r.cur_limbo = q.cur_limbo
       /\ r.timer_ids_curr = q.timer_ids_curr /\ r.timer_ids_min_free = q.timer_ids_min_free
  BY <1>2, <1>3, <1>7 DEF Placed, OnlyMoved
<1>11. ASSUME NEW id \in (0..M - 1) \ {x.id}
       PROVE  /\ r.timer_ids[id] < 0 <=> q.timer_ids[id] < 0
              /\ q.timer_ids[id] < 0 => r.timer_ids[id] = q.timer_ids[id]
  <2>1. CASE id = last.id
    <3>1. q.timer_ids[id] = N
      <4>1. N \in 0..q.cur_size - 1
        BY <1>1, <1>3, SMT DEF N
      <4> QED  BY <2>1, <4>1 DEF Exact, ExactBut, last
    <3>2. PICK i \in 0..N - 1 : r.heap[i] = last
      BY <1>7 DEF Placed, NodesIn
    <3>3. r.timer_ids[id] = i
      BY <1>8, <2>1, <3>2 DEF ExactBut
    <3> QED  BY <1>3, <3>1, <3>3, SMT
  <2>2. CASE id # last.id
    <3>1. id \in (0..M - 1) \ X
      BY <2>2
    <3> QED  BY <1>2, <1>3, <1>7, <3>1 DEF Placed, OnlyMoved
  <2> QED  BY <2>1, <2>2
<1>12. Ordered(r, N)
  BY <1>7 DEF Placed
<1>13. Closed(q, r, M, x)
  BY <1>8, <1>9, <1>10, <1>11, <1>12 DEF Closed, N
<1> QED  BY <1>13 DEF r, x, f

(* The queue p is q without the timer x, whose id is in limbo. *)
Removed(q, p, M, x) ==
    /\ p \in HeapOf(M) /\ p.max_size = q.max_size
    /\ p.cur_size = q.cur_size - 1 /\ p.cur_limbo = q.cur_limbo + 1
    /\ p.timer_ids_curr = q.timer_ids_curr /\ p.timer_ids_min_free = q.timer_ids_min_free
    /\ Exact(p, M)
    /\ Ordered(p, p.cur_size)
    /\ NodesIn(p, p.cur_size) = NodesIn(q, q.cur_size) \ {x}
    /\ x.id \in 0..M - 1 /\ p.timer_ids[x.id] = Limbo
    /\ \A id \in (0..M - 1) \ {x.id} :
           /\ p.timer_ids[id] < 0 <=> q.timer_ids[id] < 0
           /\ q.timer_ids[id] < 0 => p.timer_ids[id] = q.timer_ids[id]

LEMMA RemoveFacts ==
    ASSUME NEW M \in Nat, NEW q \in HeapOf(M), Exact(q, M), Ordered(q, q.cur_size),
           q.cur_limbo < M, NEW slot \in 0..q.cur_size - 1
    PROVE  Removed(q, remove(q, slot), M, q.heap[slot])
<1> DEFINE N == q.cur_size - 1
           x == q.heap[slot]
           shorter == [q EXCEPT !.cur_size = @ - 1]
           f == IF slot < shorter.cur_size THEN refill(shorter, slot) ELSE shorter
           h == [f.heap EXCEPT ![N] = NoNode]
           ids == [f.timer_ids EXCEPT ![x.id] = Limbo]
           p == [f EXCEPT !.heap = h, !.timer_ids = ids, !.cur_limbo = @ + 1]
<1>1. /\ q.cur_size \in 0..M /\ q.cur_size > 0 /\ N \in 0..M - 1 /\ N \in Nat
      /\ q.cur_limbo \in 0..M /\ q.cur_limbo + 1 \in 0..M
      /\ \A i \in 0..N - 1 : i \in 0..M - 1 /\ i # N
  <2>1. q.cur_size \in 0..M /\ q.cur_limbo \in 0..M
    BY DEF HeapOf
  <2> QED  BY <2>1, SMT
<1>2. x \in NodesOf(M) /\ x.id \in 0..M - 1
  BY DEF Exact, ExactBut, NodesOf
<1>3. shorter.cur_size = N
  BY <1>1, ShorterFacts
<1>4. Closed(q, f, M, x)
  <2>1. CASE slot < N
    <3>1. f = refill(shorter, slot)
      BY <1>3, <2>1
    <3>2. slot \in 0..q.cur_size - 2
      BY <1>1, <2>1, SMT
    <3>3. Closed(q, refill(shorter, slot), M, x)
      BY <1>1, <3>2, RefillCloses
    <3> HIDE DEF f
    <3> QED  BY <3>1, <3>3
  <2>2. CASE ~(slot < N)
    <3>1. f = shorter
      BY <1>3, <2>2
    <3>2. slot = N
      BY <1>1, <2>2, SMT
    <3>3. Closed(q, shorter, M, q.heap[q.cur_size - 1])
      BY <1>1, LastTaken
    <3> HIDE DEF f
    <3> QED  BY <3>1, <3>2, <3>3
  <2> QED  BY <2>1, <2>2
<1>5. remove(q, slot) = p
  <2>1. remove(q, slot)
          = [f EXCEPT !.heap[shorter.cur_size] = NoNode, !.timer_ids[x.id] = Limbo,
                      !.cur_limbo = @ + 1]
    <3> HIDE DEF N
    <3> QED  BY Zenon DEF remove
  <2> HIDE DEF f, shorter, N
  <2> QED  BY <1>3, <2>1, Zenon
<1> HIDE DEF f, N, x, shorter
<1>6. f \in HeapOf(M) /\ f.cur_limbo = q.cur_limbo /\ f.cur_size = N
  BY <1>4 DEF Closed, N
<1>7. f.heap \in [0..M - 1 -> NodesOf(M) \cup {NoNode}] /\ f.timer_ids \in [0..M - 1 -> Int]
  BY <1>6 DEF HeapOf
<1>8. h \in [0..M - 1 -> NodesOf(M) \cup {NoNode}] /\ ids \in [0..M - 1 -> Int]
  <2>1. Limbo \in Int
    BY SMT DEF Limbo
  <2> QED  BY <1>1, <1>7, <2>1
<1>9. /\ \A i \in 0..N - 1 : h[i] = f.heap[i]
      /\ \A id \in 0..M - 1 : ids[id] = IF id = x.id THEN Limbo ELSE f.timer_ids[id]
  BY <1>1, <1>7
<1> HIDE DEF h, ids
<1>10. p \in HeapOf(M)
  BY <1>1, <1>6, <1>8, Zenon DEF HeapOf
<1>11. /\ p.heap = h /\ p.timer_ids = ids /\ p.cur_limbo = q.cur_limbo + 1
       /\ p.max_size = f.max_size /\ p.cur_size = N
       /\ p.timer_ids_curr = f.timer_ids_curr /\ p.timer_ids_min_free = f.timer_ids_min_free
  BY <1>6, SMT DEF HeapOf
<1> HIDE DEF p
<1>12. ExactBut(f, M, N, {x.id}) /\ Ordered(f, N)
       /\ NodesIn(f, N) = NodesIn(q, q.cur_size) \ {x}
  BY <1>4 DEF Closed, N
<1>13. ExactBut(p, M, N, {})
  <2>1. ASSUME NEW i \in 0..N - 1
        PROVE  p.heap[i] \in NodesOf(M) /\ p.timer_ids[p.heap[i].id] = i
    <3>1. p.heap[i] = f.heap[i] /\ f.heap[i].id # x.id /\ f.heap[i] \in NodesOf(M)
          /\ f.timer_ids[f.heap[i].id] = i
      BY <1>9, <1>11, <1>12 DEF ExactBut
    <3>2. f.heap[i].id \in 0..M - 1
      BY <3>1 DEF NodesOf
    <3> QED  BY <1>9, <1>11, <3>1, <3>2
  <2>2. ASSUME NEW id \in 0..M - 1, p.timer_ids[id] >= 0
        PROVE  p.timer_ids[id] \in 0..N - 1 /\ p.heap[p.timer_ids[id]].id = id
    <3>1. id # x.id
      BY <1>9, <1>11, <2>2, SMT DEF Limbo
    <3>2. p.timer_ids[id] = f.timer_ids[id]
      BY <1>9, <1>11, <3>1
    <3>3. f.timer_ids[id] \in 0..N - 1 /\ f.heap[f.timer_ids[id]].id = id
      BY <1>12, <2>2, <3>1, <3>2 DEF ExactBut
    <3> QED  BY <1>9, <1>11, <3>2, <3>3
  <2> QED  BY <2>1, <2>2 DEF ExactBut
<1>14. Ordered(p, N)
  <2> SUFFICES ASSUME NEW i \in 1..N - 1
               PROVE  p.heap[parent(i)].time <= p.heap[i].time
    BY DEF Ordered
  <2>1. i \in 0..N - 1 /\ parent(i) \in 0..N - 1
    <3>1. i \in Nat \ {0}
      BY <1>1, SMT
    <3> QED  BY <1>1, <3>1, ParentFacts, SMT
  <2> QED  BY <1>9, <1>11, <1>12, <2>1 DEF Ordered
<1>15. NodesIn(p, N) = NodesIn(f, N)
  BY <1>9, <1>11 DEF NodesIn
<1>16. p.timer_ids[x.id] = Limbo
  BY <1>2, <1>9, <1>11
<1>17. ASSUME NEW id \in (0..M - 1) \ {x.id}
       PROVE  /\ p.timer_ids[id] < 0 <=> q.timer_ids[id] < 0
              /\ q.timer_ids[id] < 0 => p.timer_ids[id] = q.timer_ids[id]
  BY <1>4, <1>9, <1>11 DEF Closed
<1>18. p.max_size = q.max_size /\ p.timer_ids_curr = q.timer_ids_curr
       /\ p.timer_ids_min_free = q.timer_ids_min_free
  BY <1>4, <1>11 DEF Closed
<1>19. Removed(q, p, M, x)
  BY <1>2, <1>10, <1>11, <1>12, <1>13, <1>14, <1>15, <1>16, <1>17, <1>18 DEF Removed, Exact, N
<1> QED  BY <1>5, <1>19 DEF x

-----------------------------------------------------------------------------
(* Putting a timer in *)

LEMMA NodesOfMore ==
    ASSUME NEW M \in Nat, NEW M2 \in Nat, M <= M2
    PROVE  NodesOf(M) \subseteq NodesOf(M2)
<1>1. 0..M - 1 \subseteq 0..M2 - 1
  BY SMT
<1> QED  BY <1>1 DEF NodesOf

(* The queue r is q, perhaps in a larger heap. *)
Roomy(q, r, M, M2) ==
    /\ M2 \in Nat /\ M <= M2 /\ r \in HeapOf(M2)
    /\ r.cur_size = q.cur_size /\ r.cur_limbo = q.cur_limbo
    /\ r.timer_ids_curr = q.timer_ids_curr
    /\ r.timer_ids_min_free = IF M2 = M THEN q.timer_ids_min_free ELSE M2
    /\ \A i \in 0..M - 1 : r.heap[i] = q.heap[i] /\ r.timer_ids[i] = q.timer_ids[i]
    /\ \A id \in M..M2 - 1 : r.timer_ids[id] < 0 /\ r.timer_ids[id] # Limbo

LEMMA GrowFacts ==
    ASSUME NEW M \in Nat, M >= 2, NEW q \in HeapOf(M)
    PROVE  Roomy(q, grow_heap(q), M, M * 2)
<1> DEFINE M2 == M * 2
           h == [i \in 0..M2 - 1 |-> IF i < M THEN q.heap[i] ELSE NoNode]
           ids == [i \in 0..M2 - 1 |-> IF i < M THEN q.timer_ids[i] ELSE -(i + 1)]
           g == [q EXCEPT !.max_size = M2, !.heap = h, !.timer_ids = ids,
                          !.timer_ids_min_free = M2]
<1>1. /\ q.max_size = M /\ q.cur_size \in 0..M /\ q.cur_limbo \in 0..M
      /\ q.timer_ids_curr \in 0..M - 1
      /\ q.heap \in [0..M - 1 -> NodesOf(M) \cup {NoNode}]
      /\ q.timer_ids \in [0..M - 1 -> Int]
  BY DEF HeapOf
<1>2. grow_heap(q) = g
  BY <1>1, Zenon DEF grow_heap
<1>3. /\ M2 \in Nat /\ M <= M2 /\ M2 # M /\ M2 \in 0..M2
      /\ q.cur_size \in 0..M2 /\ q.cur_limbo \in 0..M2 /\ q.timer_ids_curr \in 0..M2 - 1
      /\ \A i \in 0..M2 - 1 : -(i + 1) \in Int /\ (i < M => i \in 0..M - 1)
      /\ \A i \in 0..M - 1 : i \in 0..M2 - 1 /\ i < M
      /\ \A i \in M..M2 - 1 : i \in 0..M2 - 1 /\ ~(i < M) /\ -(i + 1) < 0 /\ -(i + 1) # -2
  BY <1>1, SMTT(30)
<1>4. NodesOf(M) \subseteq NodesOf(M2)
  BY <1>3, NodesOfMore
<1> HIDE DEF M2
<1>5. h \in [0..M2 - 1 -> NodesOf(M2) \cup {NoNode}] /\ ids \in [0..M2 - 1 -> Int]
  <2>1. h \in [0..M2 - 1 -> NodesOf(M2) \cup {NoNode}]
    BY <1>1, <1>3, <1>4
  <2>2. ids \in [0..M2 - 1 -> Int]
    BY <1>1, <1>3
  <2> QED  BY <2>1, <2>2
<1>6. /\ \A i \in 0..M - 1 : h[i] = q.heap[i] /\ ids[i] = q.timer_ids[i]
      /\ \A i \in M..M2 - 1 : ids[i] < 0 /\ ids[i] # Limbo
  <2>1. \A i \in 0..M - 1 : h[i] = q.heap[i] /\ ids[i] = q.timer_ids[i]
    BY <1>3
  <2>2. \A i \in M..M2 - 1 : ids[i] < 0 /\ ids[i] # Limbo
    BY <1>3 DEF Limbo
  <2> QED  BY <2>1, <2>2
<1> HIDE DEF h, ids
<1>7. g \in HeapOf(M2)
  BY <1>3, <1>5, Zenon DEF HeapOf
<1>8. /\ g.heap = h /\ g.timer_ids = ids /\ g.max_size = M2
      /\ g.cur_size = q.cur_size /\ g.cur_limbo = q.cur_limbo
      /\ g.timer_ids_curr = q.timer_ids_curr /\ g.timer_ids_min_free = M2
  BY SMT DEF HeapOf
<1> HIDE DEF g
<1>9. Roomy(q, g, M, M2)
  BY <1>3, <1>6, <1>7, <1>8 DEF Roomy
<1> QED  BY <1>2, <1>9 DEF M2

(* The queue p is q with a timer whose id was not in use. *)
Inserted(q, p, M, M2, node) ==
    /\ M2 \in Nat /\ M <= M2
    /\ M2 = IF q.cur_size + q.cur_limbo + 2 >= M THEN M * 2 ELSE M
    /\ p \in HeapOf(M2)
    /\ p.cur_size = q.cur_size + 1 /\ p.cur_limbo = q.cur_limbo
    /\ p.timer_ids_curr = q.timer_ids_curr
    /\ p.timer_ids_min_free = IF M2 = M THEN q.timer_ids_min_free ELSE M2
    /\ Exact(p, M2)
    /\ Ordered(p, p.cur_size)
    /\ NodesIn(p, p.cur_size) = NodesIn(q, q.cur_size) \cup {node}
    /\ node.id \in 0..M - 1 /\ p.timer_ids[node.id] >= 0
    /\ \A id \in (0..M - 1) \ {node.id} :
           /\ p.timer_ids[id] < 0 <=> q.timer_ids[id] < 0
           /\ q.timer_ids[id] < 0 => p.timer_ids[id] = q.timer_ids[id]
    /\ \A id \in M..M2 - 1 : p.timer_ids[id] < 0 /\ p.timer_ids[id] # Limbo

LEMMA InsertFacts ==
    ASSUME NEW M \in Nat, M >= 2, NEW q \in HeapOf(M), Exact(q, M), Ordered(q, q.cur_size),
           NEW node \in NodesOf(M), q.timer_ids[node.id] < 0, NEW M2,
           M2 = IF q.cur_size + q.cur_limbo + 2 >= M THEN M * 2 ELSE M
    PROVE  Inserted(q, insert(q, node), M, M2, node)
<1> DEFINE n == q.cur_size
           N == n + 1
           r == IF q.cur_size + q.cur_limbo + 2 >= q.max_size THEN grow_heap(q) ELSE q
           f == reheap_up(r, node, n)
           p == [f EXCEPT !.cur_size = @ + 1]
           X == {node.id}
<1>1. /\ q.max_size = M /\ n \in 0..M /\ n \in Nat /\ q.cur_limbo \in 0..M
      /\ q.heap \in [0..M - 1 -> NodesOf(M) \cup {NoNode}]
      /\ q.timer_ids \in [0..M - 1 -> Int]
  <2>1. /\ q.max_size = M /\ n \in 0..M /\ q.cur_limbo \in 0..M
        /\ q.heap \in [0..M - 1 -> NodesOf(M) \cup {NoNode}]
        /\ q.timer_ids \in [0..M - 1 -> Int]
    BY DEF HeapOf
  <2> QED  BY <2>1, SMT
<1>2. Roomy(q, r, M, M2)
  <2>1. CASE n + q.cur_limbo + 2 >= M
    <3>1. Roomy(q, grow_heap(q), M, M * 2)
      BY GrowFacts
    <3> QED  BY <1>1, <2>1, <3>1
  <2>2. CASE ~(n + q.cur_limbo + 2 >= M)
    <3>1. r = q /\ M2 = M /\ M <= M /\ M..M - 1 = {}
      BY <1>1, <2>2, SMT
    <3> HIDE DEF r
    <3> QED  BY <3>1 DEF Roomy
  <2> QED  BY <2>1, <2>2
<1>3. /\ M2 \in Nat /\ M <= M2 /\ N \in 0..M2 /\ N \in Nat /\ n \in 0..N - 1
      /\ \A i \in 0..n - 1 : i \in 0..M - 1 /\ i \in 0..N - 1 /\ i # n
      /\ \A i \in 0..N - 1 : i # n => i \in 0..n - 1
      /\ \A i \in 0..M - 1 : i \in 0..M2 - 1
      /\ \A i \in 0..M2 - 1 : i \notin M..M2 - 1 => i \in 0..M - 1
      /\ N - 1 = n /\ n + 1 \in 0..M2
  <2>1. M2 \in Nat /\ M <= M2
    BY <1>2 DEF Roomy
  <2>2. N <= M2
    <3>1. CASE n + q.cur_limbo + 2 >= M
      BY <1>1, <3>1, SMT
    <3>2. CASE ~(n + q.cur_limbo + 2 >= M)
      BY <1>1, <3>2, SMT
    <3> QED  BY <3>1, <3>2
  <2> HIDE DEF n
  <2>3. /\ N \in 0..M2 /\ N \in Nat /\ n \in 0..N - 1 /\ N - 1 = n /\ n + 1 \in 0..M2
    BY <1>1, <2>1, <2>2, SMT
  <2>4. /\ \A i \in 0..n - 1 : i \in 0..M - 1 /\ i \in 0..N - 1 /\ i # n
        /\ \A i \in 0..N - 1 : i # n => i \in 0..n - 1
    BY <1>1, SMT
  <2>5. /\ \A i \in 0..M - 1 : i \in 0..M2 - 1
        /\ \A i \in 0..M2 - 1 : i \notin M..M2 - 1 => i \in 0..M - 1
    BY <2>1, SMT
  <2> QED  BY <2>1, <2>3, <2>4, <2>5
<1>4. insert(q, node) = p
  <2>1. r.cur_size = n
    BY <1>2 DEF Roomy
  <2>2. insert(q, node) = [reheap_up(r, node, r.cur_size) EXCEPT !.cur_size = @ + 1]
    <3> HIDE DEF n
    <3> QED  BY Zenon DEF insert
  <2> HIDE DEF r, n
  <2> QED  BY <2>1, <2>2
<1> HIDE DEF r, n, p, f
<1>5. NodesOf(M) \subseteq NodesOf(M2) /\ node \in NodesOf(M2) /\ node.id \in 0..M - 1
  <2>1. NodesOf(M) \subseteq NodesOf(M2)
    BY <1>3, NodesOfMore
  <2> QED  BY <2>1 DEF NodesOf
<1>6. /\ \A i \in 0..n - 1 : /\ q.heap[i] \in NodesOf(M) /\ q.heap[i].id \in 0..M - 1
                             /\ q.timer_ids[q.heap[i].id] = i
      /\ \A id \in 0..M - 1 :
             q.timer_ids[id] >= 0 => q.timer_ids[id] \in 0..n - 1 /\ q.heap[q.timer_ids[id]].id = id
  BY DEF Exact, ExactBut, NodesOf, n
<1>7. /\ r \in HeapOf(M2) /\ r.cur_size = n
      /\ \A i \in 0..M - 1 : r.heap[i] = q.heap[i] /\ r.timer_ids[i] = q.timer_ids[i]
      /\ \A id \in M..M2 - 1 : r.timer_ids[id] < 0 /\ r.timer_ids[id] # Limbo
  BY <1>2 DEF Roomy, n
<1> HIDE DEF N
<1>8. GapIn(r, M2, N, n, X)
  <2>1. ASSUME NEW i \in (0..N - 1) \ {n}
        PROVE  r.heap[i] \in NodesOf(M2) /\ r.heap[i].id \notin X /\ r.timer_ids[r.heap[i].id] = i
    <3>1. i \in 0..n - 1 /\ i \in 0..M - 1
      BY <1>3
    <3>2. q.heap[i].id # node.id
      <4>1. q.timer_ids[q.heap[i].id] >= 0 /\ q.timer_ids[node.id] \in Int
        <5>1. q.timer_ids[q.heap[i].id] = i
          BY <1>6, <3>1
        <5>2. i >= 0
          BY <3>1, SMT
        <5> QED  BY <1>1, <1>5, <5>1, <5>2
      <4> QED  BY <4>1, SMT
    <3> QED  BY <1>5, <1>6, <1>7, <3>1, <3>2
  <2>2. ASSUME NEW id \in (0..M2 - 1) \ X, r.timer_ids[id] >= 0
        PROVE  r.timer_ids[id] \in (0..N - 1) \ {n} /\ r.heap[r.timer_ids[id]].id = id
    <3>1. r.timer_ids[id] \in Int
      BY <1>7 DEF HeapOf
    <3>2. id \notin M..M2 - 1
      BY <1>7, <2>2, <3>1, SMT
    <3>3. id \in 0..M - 1 /\ r.timer_ids[id] = q.timer_ids[id]
      BY <1>3, <1>7, <3>2
    <3>4. q.timer_ids[id] \in 0..n - 1 /\ q.heap[q.timer_ids[id]].id = id
      BY <1>6, <2>2, <3>3
    <3>5. q.timer_ids[id] \in (0..N - 1) \ {n} /\ q.timer_ids[id] \in 0..M - 1
      BY <1>3, <3>4
    <3> QED  BY <1>7, <3>3, <3>4, <3>5
  <2> QED  BY <2>1, <2>2 DEF GapIn
<1>9. OrderedAround(r, N, n) /\ AboveChildren(r, N, n, node)
  <2>1. ASSUME NEW i \in 1..N - 1
        PROVE  /\ parent(i) # n /\ (i # n => i \in 1..n - 1)
               /\ i # n => i \in 0..M - 1 /\ parent(i) \in 0..M - 1
    <3>1. i \in Nat \ {0} /\ i <= n
      BY <1>1, <1>3, SMT
    <3>2. parent(i) \in Nat /\ parent(i) < i
      BY <3>1, ParentFacts
    <3> QED  BY <1>1, <3>1, <3>2, SMT
  <2>2. ASSUME NEW i \in 1..N - 1, i # n
        PROVE  r.heap[parent(i)].time <= r.heap[i].time
    <3>1. q.heap[parent(i)].time <= q.heap[i].time
      BY <2>1, <2>2 DEF Ordered, n
    <3> QED  BY <1>7, <2>1, <2>2, <3>1
  <2>3. OrderedAround(r, N, n)
    BY <2>1, <2>2 DEF OrderedAround
  <2>4. AboveChildren(r, N, n, node)
    BY <2>1 DEF AboveChildren
  <2> QED  BY <2>3, <2>4
<1>10. NodesAround(r, N, n) = NodesIn(q, n)
  BY <1>3, <1>7 DEF NodesAround, NodesIn
<1>11. Placed(r, f, M2, N, n, X, node)
  <2>1. node.id \in X
    OBVIOUS
  <2>2. Placed(r, reheap_up(r, node, n), M2, N, n, X, node)
    <3> HIDE DEF X
    <3> QED  BY <1>3, <1>5, <1>7, <1>8, <1>9, <2>1, ReheapUp
  <2> QED  BY <2>2 DEF f
<1>12. /\ f \in HeapOf(M2) /\ f.max_size = r.max_size /\ f.cur_size = n
       /\ f.cur_limbo = r.cur_limbo /\ f.timer_ids_curr = r.timer_ids_curr
       /\ f.timer_ids_min_free = r.timer_ids_min_free
       /\ ExactBut(f, M2, N, {}) /\ Ordered(f, N)
       /\ NodesIn(f, N) = NodesIn(q, n) \cup {node}
       /\ \A id \in (0..M2 - 1) \ X :
              /\ f.timer_ids[id] < 0 <=> r.timer_ids[id] < 0
              /\ r.timer_ids[id] < 0 => f.timer_ids[id] = r.timer_ids[id]
  <2>1. X \ {node.id} = {}
    OBVIOUS
  <2> QED  BY <1>7, <1>10, <1>11, <2>1 DEF Placed, OnlyMoved
<1>13. f.cur_size + 1 \in 0..M2
  BY <1>3, <1>12
<1>14. p \in HeapOf(M2)
  BY <1>12, <1>13, Zenon DEF HeapOf, p
<1>15. /\ p.heap = f.heap /\ p.timer_ids = f.timer_ids /\ p.cur_size = N
       /\ p.cur_limbo = f.cur_limbo /\ p.timer_ids_curr = f.timer_ids_curr
       /\ p.timer_ids_min_free = f.timer_ids_min_free
  BY <1>12, SMT DEF HeapOf, p, N
<1>16. Exact(p, M2) /\ Ordered(p, N) /\ NodesIn(p, N) = NodesIn(q, n) \cup {node}
  BY <1>12, <1>15 DEF Exact, ExactBut, Ordered, NodesIn
<1>17. p.timer_ids[node.id] >= 0
  <2>1. PICK i \in 0..N - 1 : p.heap[i] = node
    BY <1>16 DEF NodesIn
  <2>2. p.timer_ids[node.id] = i
    BY <1>15, <1>16, <2>1 DEF Exact, ExactBut
  <2> QED  BY <1>3, <2>2, SMT
<1>18. ASSUME NEW id \in (0..M - 1) \ {node.id}
       PROVE  /\ p.timer_ids[id] < 0 <=> q.timer_ids[id] < 0
              /\ q.timer_ids[id] < 0 => p.timer_ids[id] = q.timer_ids[id]
  <2>1. id \in (0..M2 - 1) \ X
    BY <1>3
  <2> QED  BY <1>7, <1>12, <1>15, <2>1
<1>19. ASSUME NEW id \in M..M2 - 1
       PROVE  p.timer_ids[id] < 0 /\ p.timer_ids[id] # Limbo
  <2>1. id \in (0..M2 - 1) \ X
    BY <1>5, SMT
  <2> QED  BY <1>7, <1>12, <1>15, <2>1
<1>20. /\ p.cur_limbo = q.cur_limbo /\ p.timer_ids_curr = q.timer_ids_curr
       /\ p.timer_ids_min_free = IF M2 = M THEN q.timer_ids_min_free ELSE M2
  BY <1>2, <1>12, <1>15 DEF Roomy
<1>21. Inserted(q, p, M, M2, node)
  BY <1>3, <1>5, <1>14, <1>15, <1>16, <1>17, <1>18, <1>19, <1>20 DEF Inserted, n, N
<1> QED  BY <1>4, <1>21

-----------------------------------------------------------------------------
(* The ids.  Every id is of a timer in the heap, in limbo, or free.        *)

FreeIds(q, M) == {id \in 0..M - 1 : is_free(q, id)}

LimboIds(q, M) == {id \in 0..M - 1 : q.timer_ids[id] = Limbo}

UsedIds(q, M) == {id \in 0..M - 1 : q.timer_ids[id] >= 0}

LEMMA IdsAreFinite ==
    ASSUME NEW M \in Nat, NEW S, S \subseteq 0..M - 1
    PROVE  IsFiniteSet(S) /\ Cardinality(S) \in Nat
<1>1. 0 \in Int /\ M - 1 \in Int
  BY SMT
<1>2. IsFiniteSet(0..M - 1)
  BY <1>1, FS_Interval
<1>3. IsFiniteSet(S)
  BY <1>2, FS_Subset
<1> QED  BY <1>3, FS_CardinalityType

(* The heap has one slot for every id in use. *)
LEMMA UsedCount ==
    ASSUME NEW M \in Nat, NEW q \in HeapOf(M), Exact(q, M)
    PROVE  Cardinality(UsedIds(q, M)) = q.cur_size
<1> DEFINE n == q.cur_size
           A == 0..n - 1
           U == UsedIds(q, M)
           f == [i \in A |-> q.heap[i].id]
<1>1. n \in 0..M
  BY DEF HeapOf
<1>2. IsFiniteSet(A) /\ Cardinality(A) = n
  <2>1. 0 \in Int /\ n - 1 \in Int /\ n \in Nat
    BY <1>1, SMT
  <2> HIDE DEF n
  <2>2. IsFiniteSet(A) /\ Cardinality(A) = IF 0 > n - 1 THEN 0 ELSE (n - 1) - 0 + 1
    BY <2>1, FS_Interval
  <2>3. (IF 0 > n - 1 THEN 0 ELSE (n - 1) - 0 + 1) = n
    BY <2>1, SMT
  <2> QED  BY <2>2, <2>3
<1>3. \A i \in A : /\ q.heap[i].id \in 0..M - 1 /\ q.timer_ids[q.heap[i].id] = i
                   /\ i >= 0
  <2>1. \A i \in A : i >= 0
    BY <1>1, SMT
  <2> QED  BY <2>1 DEF Exact, ExactBut, NodesOf
<1>4. \A id \in U : q.timer_ids[id] \in A /\ q.heap[q.timer_ids[id]].id = id
  BY DEF Exact, ExactBut, UsedIds
<1> HIDE DEF n, A
<1>5. \A i \in A : f[i] \in U /\ q.timer_ids[f[i]] = i
  BY <1>3 DEF UsedIds
<1>6. \A id \in U : \E i \in A : f[i] = id
  BY <1>4
<1> HIDE DEF U
<1>7. f \in [A -> U]
  BY <1>5
<1> HIDE DEF f
<1>8. f \in Bijection(A, U)
  BY <1>5, <1>6, <1>7 DEF Bijection, Injection, Surjection, IsInjective
<1>9. ExistsBijection(A, U)
  BY <1>8 DEF ExistsBijection
<1> QED  BY <1>2, <1>9, FS_Bijection DEF U, n

LEMMA FreeCount ==
    ASSUME NEW M \in Nat, NEW q \in HeapOf(M), Exact(q, M),
           Cardinality(LimboIds(q, M)) = q.cur_limbo
    PROVE  Cardinality(FreeIds(q, M)) = M - q.cur_size - q.cur_limbo
<1> DEFINE U == UsedIds(q, M)
           L == LimboIds(q, M)
           F == FreeIds(q, M)
           A == 0..M - 1
<1>1. q.timer_ids \in [A -> Int]
  BY DEF HeapOf
<1>2. U \subseteq A /\ L \subseteq A /\ F \subseteq A
  BY DEF UsedIds, LimboIds, FreeIds
<1>3. U \cap L = {} /\ F = A \ (U \cup L)
  <2>1. \A id \in A : /\ id \in U <=> q.timer_ids[id] >= 0
                      /\ id \in L <=> q.timer_ids[id] = Limbo
                      /\ id \in F <=> q.timer_ids[id] < 0 /\ q.timer_ids[id] # Limbo
    BY DEF UsedIds, LimboIds, FreeIds, is_free
  <2>2. \A id \in A : q.timer_ids[id] \in Int
    BY <1>1
  <2> HIDE DEF U, L, F, A
  <2>3. \A id \in A : id \in F <=> id \notin U /\ id \notin L
    BY <2>1, <2>2, SMT DEF Limbo
  <2>4. \A id \in A : ~(id \in U /\ id \in L)
    BY <2>1, <2>2, SMT DEF Limbo
  <2> QED  BY <1>2, <2>3, <2>4
<1>4. IsFiniteSet(U) /\ IsFiniteSet(L) /\ IsFiniteSet(F) /\ IsFiniteSet(A)
      /\ Cardinality(U) \in Nat /\ Cardinality(L) \in Nat /\ Cardinality(F) \in Nat
  <2> HIDE DEF U, L, F
  <2> QED  BY <1>2, IdsAreFinite
<1>5. Cardinality(A) = M
  <2>1. 0 \in Int /\ M - 1 \in Int
    BY SMT
  <2>2. Cardinality(A) = IF 0 > M - 1 THEN 0 ELSE (M - 1) - 0 + 1
    BY <2>1, FS_Interval
  <2> QED  BY <2>2, SMT
<1>6. Cardinality(U) = q.cur_size
  BY UsedCount
<1> HIDE DEF U, L, F, A
<1>7. Cardinality(U \cup L) = Cardinality(U) + Cardinality(L) /\ IsFiniteSet(U \cup L)
  <2>1. /\ IsFiniteSet(U \cup L)
        /\ Cardinality(U \cup L) = Cardinality(U) + Cardinality(L) - Cardinality(U \cap L)
    BY <1>4, FS_Union
  <2>2. Cardinality(U \cap L) = 0
    BY <1>3, FS_EmptySet
  <2> QED  BY <1>4, <2>1, <2>2, SMT
<1>8. Cardinality(A) = Cardinality(U \cup L) + Cardinality(F)
  <2>1. F \cap (U \cup L) = {} /\ F \cup (U \cup L) = A
    BY <1>2, <1>3
  <2>2. Cardinality(F \cup (U \cup L))
          = Cardinality(F) + Cardinality(U \cup L) - Cardinality(F \cap (U \cup L))
    BY <1>4, <1>7, FS_Union
  <2>3. Cardinality(F \cap (U \cup L)) = 0
    BY <2>1, FS_EmptySet
  <2>4. Cardinality(A) = Cardinality(F) + Cardinality(U \cup L) - 0
    BY <2>1, <2>2, <2>3
  <2>5. Cardinality(F) \in Nat /\ Cardinality(U \cup L) \in Nat
    BY <1>4, <1>7, FS_CardinalityType
  <2> QED  BY <2>4, <2>5, SMT
<1>9. Cardinality(L) = q.cur_limbo
  BY DEF L
<1>10. Cardinality(F) = M - q.cur_size - q.cur_limbo
  BY <1>4, <1>5, <1>6, <1>7, <1>8, <1>9, SMT
<1> QED  BY <1>10 DEF F

-----------------------------------------------------------------------------
(* Where free ids are found *)

(* The free ids that neither the search ahead of timer_ids_curr nor        *)
(* timer_ids_min_free leads to.                                            *)
Forgotten(q, M) ==
    {id \in FreeIds(q, M) : id <= q.timer_ids_curr /\ id < q.timer_ids_min_free}

AtMostOne(S) == \A i, j \in S : i = j

Known(q, M) ==
    /\ q.timer_ids_min_free < M =>
           q.timer_ids_min_free <= q.timer_ids_curr /\ is_free(q, q.timer_ids_min_free)
    /\ AtMostOne(Forgotten(q, M))

(* What every operation leaves: two ids more than there are timers, in the *)
(* heap or in limbo, of which at most one is forgotten.                    *)
Good(q, M) ==
    /\ M \in Nat /\ M >= 2 /\ q \in HeapOf(M)
    /\ Exact(q, M) /\ Ordered(q, q.cur_size)
    /\ Cardinality(LimboIds(q, M)) = q.cur_limbo
    /\ q.cur_size + q.cur_limbo + 2 <= M
    /\ Known(q, M)

LEMMA GoodTypes ==
    ASSUME NEW M, NEW q, Good(q, M)
    PROVE  /\ q.max_size = M /\ q.cur_size \in Nat /\ q.cur_limbo \in Nat
           /\ q.timer_ids_curr \in 0..M - 1 /\ q.timer_ids_min_free \in 0..M
           /\ q.timer_ids \in [0..M - 1 -> Int]
           /\ q.heap \in [0..M - 1 -> NodesOf(M) \cup {NoNode}]
           /\ q.cur_limbo < M /\ q.cur_size < M
<1>1. /\ q.max_size = M /\ q.cur_size \in 0..M /\ q.cur_limbo \in 0..M
      /\ q.timer_ids_curr \in 0..M - 1 /\ q.timer_ids_min_free \in 0..M
      /\ q.timer_ids \in [0..M - 1 -> Int]
      /\ q.heap \in [0..M - 1 -> NodesOf(M) \cup {NoNode}]
  BY DEF Good, HeapOf
<1>2. q.cur_size + q.cur_limbo + 2 <= M /\ M \in Nat
  BY DEF Good
<1> QED  BY <1>1, <1>2, SMT

LEMMA SmallSets ==
    ASSUME NEW S, IsFiniteSet(S)
    PROVE  /\ AtMostOne(S) => Cardinality(S) <= 1
           /\ Cardinality(S) = 1 => AtMostOne(S)
<1>1. ASSUME AtMostOne(S) PROVE Cardinality(S) <= 1
  <2>1. CASE S = {}
    BY <2>1, FS_EmptySet, SMT
  <2>2. CASE S # {}
    <3>1. PICK x \in S : TRUE
      BY <2>2
    <3>2. S = {x}
      BY <1>1, <3>1 DEF AtMostOne
    <3>3. Cardinality(S) = 1
      BY <3>2, FS_Singleton
    <3> QED  BY <3>3, SMT
  <2> QED  BY <2>1, <2>2
<1>2. ASSUME Cardinality(S) = 1 PROVE AtMostOne(S)
  <2>1. PICK x : S = {x}
    BY <1>2, FS_Singleton
  <2> QED  BY <2>1 DEF AtMostOne
<1> QED  BY <1>1, <1>2

(* There are two free ids: one of them is not forgotten. *)
LEMMA FreeIsFound ==
    ASSUME NEW M, NEW q, Good(q, M)
    PROVE  \/ ahead(q) # {}
           \/ q.timer_ids_min_free < M /\ is_free(q, q.timer_ids_min_free)
<1>1. /\ M \in Nat /\ q.max_size = M /\ q.cur_size \in Nat /\ q.cur_limbo \in Nat
      /\ q.timer_ids_curr \in 0..M - 1 /\ q.timer_ids_min_free \in 0..M
  BY GoodTypes DEF Good
<1>2. Cardinality(FreeIds(q, M)) = M - q.cur_size - q.cur_limbo
  BY FreeCount DEF Good
<1>3. q.cur_size + q.cur_limbo + 2 <= M
  BY DEF Good
<1>4. ~(Cardinality(FreeIds(q, M)) <= 1)
  BY <1>1, <1>2, <1>3, SMT
<1>5. IsFiniteSet(FreeIds(q, M))
  <2>1. FreeIds(q, M) \subseteq 0..M - 1
    BY DEF FreeIds
  <2> QED  BY <1>1, <2>1, IdsAreFinite
<1>6. ~AtMostOne(FreeIds(q, M))
  BY <1>4, <1>5, SmallSets
<1>7. PICK id \in FreeIds(q, M) : id \notin Forgotten(q, M)
  <2>1. AtMostOne(Forgotten(q, M))
    BY DEF Good, Known
  <2>2. FreeIds(q, M) # Forgotten(q, M)
    BY <1>6, <2>1
  <2> QED  BY <2>2 DEF Forgotten
<1>8. id \in 0..M - 1 /\ is_free(q, id)
  BY DEF FreeIds
<1>9. id > q.timer_ids_curr \/ q.timer_ids_min_free <= id
  BY <1>1, <1>7, <1>8, SMT DEF Forgotten
<1>10. CASE id > q.timer_ids_curr
  <2>1. id \in q.timer_ids_curr + 1 .. q.max_size - 1
    BY <1>1, <1>8, <1>10, SMT
  <2> QED  BY <1>8, <2>1 DEF ahead
<1>11. CASE q.timer_ids_min_free <= id
  <2>1. q.timer_ids_min_free < M
    BY <1>1, <1>8, <1>11, SMT
  <2> QED  BY <2>1 DEF Good, Known
<1> QED  BY <1>9, <1>10, <1>11

LEMMA LeastOf ==
    ASSUME NEW S \in SUBSET Nat, S # {}
    PROVE  Min(S) \in S /\ \A y \in S : Min(S) <= y
<1>1. \E x \in S : \A y \in S : x <= y
  BY LeastExists
<1> QED  BY <1>1, Zenon DEF Min

(* The queue r is q with a free id in timer_ids_curr, to be given out. *)
Popped(q, r, M) ==
    /\ r \in HeapOf(M)
    /\ r.heap = q.heap /\ r.timer_ids = q.timer_ids /\ r.max_size = q.max_size
    /\ r.cur_size = q.cur_size /\ r.cur_limbo = q.cur_limbo
    /\ r.timer_ids_curr \in FreeIds(q, M)
    /\ r.timer_ids_min_free < M =>
           /\ r.timer_ids_min_free < r.timer_ids_curr
           /\ is_free(q, r.timer_ids_min_free)
    /\ AtMostOne(Forgotten(r, M) \ {r.timer_ids_curr})

LEMMA PopFacts ==
    ASSUME NEW M, NEW q, Good(q, M)
    PROVE  Popped(q, pop_freelist(q), M)
<1> DEFINE r == pop_freelist(q)
           c == q.timer_ids_curr
           m == q.timer_ids_min_free
<1>1. /\ M \in Nat /\ q \in HeapOf(M) /\ q.max_size = M
      /\ c \in 0..M - 1 /\ m \in 0..M
  BY GoodTypes DEF Good
<1>2. AtMostOne(Forgotten(q, M))
  BY DEF Good, Known
<1>3. \A id \in FreeIds(q, M) : id \in 0..M - 1 /\ is_free(q, id)
  BY DEF FreeIds
<1>4. CASE ahead(q) # {}
  <2> DEFINE a == Min(ahead(q))
             g == [q EXCEPT !.timer_ids_curr = a]
  <2>1. ahead(q) \in SUBSET Nat /\ \A id \in ahead(q) : id \in 0..M - 1 /\ is_free(q, id) /\ c < id
    BY <1>1, SMT DEF ahead
  <2>2. a \in ahead(q) /\ \A id \in ahead(q) : a <= id
    BY <1>4, <2>1, LeastOf
  <2>3. r = g
    BY <1>4, Zenon DEF pop_freelist
  <2> HIDE DEF a
  <2>4. a \in 0..M - 1 /\ a \in FreeIds(q, M) /\ c < a
    BY <2>1, <2>2 DEF FreeIds
  <2>5. g \in HeapOf(M)
    BY <1>1, <2>4, Zenon DEF HeapOf
  <2>6. /\ g.heap = q.heap /\ g.timer_ids = q.timer_ids /\ g.max_size = q.max_size
        /\ g.cur_size = q.cur_size /\ g.cur_limbo = q.cur_limbo
        /\ g.timer_ids_curr = a /\ g.timer_ids_min_free = m
    BY <1>1, SMT DEF HeapOf
  <2> HIDE DEF r, g, c, m
  <2>7. m < M => m < a /\ is_free(q, m)
    <3>1. m < M => m <= c /\ is_free(q, m)
      BY DEF Good, Known, m, c
    <3> QED  BY <1>1, <2>4, <3>1, SMT
  <2>8. Forgotten(g, M) \ {a} \subseteq Forgotten(q, M)
    <3> SUFFICES ASSUME NEW id \in Forgotten(g, M), id # a
                 PROVE  id \in Forgotten(q, M)
      OBVIOUS
    <3>1. id \in FreeIds(q, M) /\ id <= a /\ id < m
      BY <2>6 DEF Forgotten, FreeIds, is_free
    <3>2. id \in 0..M - 1 /\ is_free(q, id)
      BY <1>3, <3>1
    <3>3. id <= c
      <4> SUFFICES ASSUME ~(id <= c) PROVE FALSE
        OBVIOUS
      <4>1. id \in ahead(q)
        <5>1. id \in c + 1 .. M - 1
          BY <1>1, <3>2, SMT
        <5> QED  BY <1>1, <3>2, <5>1 DEF ahead, c
      <4>2. a <= id
        BY <2>2, <4>1
      <4> QED  BY <2>4, <3>1, <3>2, <4>2, SMT
    <3> QED  BY <3>1, <3>3 DEF Forgotten, c, m
  <2>9. Popped(q, g, M)
    BY <1>2, <2>4, <2>5, <2>6, <2>7, <2>8 DEF Popped, AtMostOne
  <2> QED  BY <2>3, <2>9 DEF r
<1>5. CASE ahead(q) = {}
  <2> DEFINE g == [q EXCEPT !.timer_ids_curr = m, !.timer_ids_min_free = M]
  <2>1. m < M /\ m <= c /\ is_free(q, m)
    <3>1. m < M
      BY <1>5, FreeIsFound
    <3> QED  BY <3>1 DEF Good, Known
  <2>2. r = g
    <3>1. r = [q EXCEPT !.timer_ids_curr = q.timer_ids_min_free, !.timer_ids_min_free = q.max_size]
      BY <1>5, Zenon DEF pop_freelist
    <3> QED  BY <1>1, <3>1
  <2>3. m \in 0..M - 1 /\ M \in 0..M
    BY <1>1, <2>1, SMT
  <2>4. m \in FreeIds(q, M)
    BY <2>1, <2>3 DEF FreeIds
  <2> HIDE DEF m
  <2>5. g \in HeapOf(M)
    BY <1>1, <2>3, Zenon DEF HeapOf
  <2>6. /\ g.heap = q.heap /\ g.timer_ids = q.timer_ids /\ g.max_size = q.max_size
        /\ g.cur_size = q.cur_size /\ g.cur_limbo = q.cur_limbo
        /\ g.timer_ids_curr = m /\ g.timer_ids_min_free = M
    BY <1>1, SMT DEF HeapOf
  <2> HIDE DEF r, g, c
  <2>7. Forgotten(g, M) \ {m} \subseteq Forgotten(q, M)
    <3> SUFFICES ASSUME NEW id \in Forgotten(g, M), id # m
                 PROVE  id \in Forgotten(q, M)
      OBVIOUS
    <3>1. id \in FreeIds(q, M) /\ id <= m
      BY <2>6 DEF Forgotten, FreeIds, is_free
    <3>2. id \in 0..M - 1
      BY <1>3, <3>1
    <3>3. id < m /\ id <= c
      BY <1>1, <2>1, <2>3, <3>1, <3>2, SMT
    <3> QED  BY <3>1, <3>3 DEF Forgotten, c, m
  <2>8. ~(M < M)
    BY <1>1, SMT
  <2>9. Popped(q, g, M)
    BY <1>2, <2>4, <2>5, <2>6, <2>7, <2>8 DEF Popped, AtMostOne
  <2> QED  BY <2>2, <2>9 DEF r
<1> QED  BY <1>4, <1>5

(* The queue p is q with the id free. *)
Pushed(q, p, M, id) ==
    /\ p \in HeapOf(M)
    /\ p.heap = q.heap /\ p.max_size = q.max_size
    /\ p.timer_ids = [q.timer_ids EXCEPT ![id] = -1]
    /\ p.timer_ids_curr = q.timer_ids_curr
    /\ p.timer_ids_min_free = IF passed(q, id) THEN id ELSE q.timer_ids_min_free
    /\ p.cur_size = IF q.timer_ids[id] = Limbo THEN q.cur_size ELSE q.cur_size - 1
    /\ p.cur_limbo = IF q.timer_ids[id] = Limbo THEN q.cur_limbo - 1 ELSE q.cur_limbo

LEMMA PushFacts ==
    ASSUME NEW M \in Nat, NEW q \in HeapOf(M), NEW id \in 0..M - 1,
           q.timer_ids[id] = Limbo => q.cur_limbo > 0,
           q.timer_ids[id] # Limbo => q.cur_size > 0
    PROVE  Pushed(q, push_freelist(q, id), M, id)
<1> DEFINE u == IF q.timer_ids[id] = Limbo THEN [q EXCEPT !.cur_limbo = @ - 1]
                ELSE [q EXCEPT !.cur_size = @ - 1]
           ids == [q.timer_ids EXCEPT ![id] = -1]
           m == IF passed(q, id) THEN id ELSE q.timer_ids_min_free
           p == [u EXCEPT !.timer_ids = ids, !.timer_ids_min_free = m]
<1>1. /\ q.cur_size \in 0..M /\ q.cur_limbo \in 0..M
      /\ q.timer_ids_min_free \in 0..M /\ q.timer_ids \in [0..M - 1 -> Int]
  BY DEF HeapOf
<1>2. /\ u \in HeapOf(M) /\ u.heap = q.heap /\ u.max_size = q.max_size
      /\ u.timer_ids = q.timer_ids
      /\ u.timer_ids_curr = q.timer_ids_curr /\ u.timer_ids_min_free = q.timer_ids_min_free
      /\ u.cur_size = IF q.timer_ids[id] = Limbo THEN q.cur_size ELSE q.cur_size - 1
      /\ u.cur_limbo = IF q.timer_ids[id] = Limbo THEN q.cur_limbo - 1 ELSE q.cur_limbo
  <2>1. CASE q.timer_ids[id] = Limbo
    <3> DEFINE v == [q EXCEPT !.cur_limbo = @ - 1]
    <3>1. q.cur_limbo - 1 \in 0..M
      BY <1>1, <2>1, SMT
    <3>2. v \in HeapOf(M)
      BY <3>1, Zenon DEF HeapOf
    <3>3. /\ v.heap = q.heap /\ v.max_size = q.max_size /\ v.timer_ids = q.timer_ids
          /\ v.timer_ids_curr = q.timer_ids_curr /\ v.timer_ids_min_free = q.timer_ids_min_free
          /\ v.cur_size = q.cur_size /\ v.cur_limbo = q.cur_limbo - 1
      BY SMT DEF HeapOf
    <3>4. u = v
      BY <2>1
    <3> HIDE DEF u, v
    <3> QED  BY <2>1, <3>2, <3>3, <3>4
  <2>2. CASE q.timer_ids[id] # Limbo
    <3> DEFINE v == [q EXCEPT !.cur_size = @ - 1]
    <3>1. q.cur_size - 1 \in 0..M
      BY <1>1, <2>2, SMT
    <3>2. v \in HeapOf(M)
      BY <3>1, Zenon DEF HeapOf
    <3>3. /\ v.heap = q.heap /\ v.max_size = q.max_size /\ v.timer_ids = q.timer_ids
          /\ v.timer_ids_curr = q.timer_ids_curr /\ v.timer_ids_min_free = q.timer_ids_min_free
          /\ v.cur_size = q.cur_size - 1 /\ v.cur_limbo = q.cur_limbo
      BY SMT DEF HeapOf
    <3>4. u = v
      BY <2>2
    <3> HIDE DEF u, v
    <3> QED  BY <2>2, <3>2, <3>3, <3>4
  <2> QED  BY <2>1, <2>2
<1>3. push_freelist(q, id) = p
  <2>1. push_freelist(q, id)
          = [u EXCEPT !.timer_ids[id] = -1, !.timer_ids_min_free = IF passed(q, id) THEN id ELSE @]
    BY Zenon DEF push_freelist
  <2> HIDE DEF u
  <2> QED  BY <1>2, <2>1, Zenon
<1>4. ids \in [0..M - 1 -> Int] /\ m \in 0..M
  <2>1. -1 \in Int /\ id \in 0..M
    BY SMT
  <2> QED  BY <1>1, <2>1
<1> HIDE DEF u, ids, m
<1>5. p \in HeapOf(M)
  BY <1>2, <1>4, Zenon DEF HeapOf
<1>6. /\ p.heap = u.heap /\ p.max_size = u.max_size /\ p.timer_ids = ids
      /\ p.timer_ids_curr = u.timer_ids_curr /\ p.timer_ids_min_free = m
      /\ p.cur_size = u.cur_size /\ p.cur_limbo = u.cur_limbo
  BY <1>2, SMT DEF HeapOf
<1> HIDE DEF p
<1>7. Pushed(q, p, M, id)
  BY <1>2, <1>5, <1>6 DEF Pushed, ids, m
<1> QED  BY <1>3, <1>7

(* A free id is behind timer_ids_min_free or ahead of timer_ids_curr once  *)
(* it is pushed, unless it was forgotten before.                           *)
LEMMA KnownPush ==
    ASSUME NEW M \in Nat, NEW q \in HeapOf(M), NEW id \in 0..M - 1, NEW p,
           Pushed(q, p, M, id), Known(q, M)
    PROVE  Known(p, M)
<1> DEFINE c == q.timer_ids_curr
           m == q.timer_ids_min_free
<1>1. /\ c \in 0..M - 1 /\ m \in 0..M /\ q.timer_ids \in [0..M - 1 -> Int]
  BY DEF HeapOf
<1>2. p.timer_ids_curr = c
  BY DEF Pushed
<1>3. /\ is_free(p, id)
      /\ \A i \in 0..M - 1 : i # id => (is_free(p, i) <=> is_free(q, i))
  <2>1. p.timer_ids = [q.timer_ids EXCEPT ![id] = -1]
    BY DEF Pushed
  <2>2. p.timer_ids[id] = -1 /\ \A i \in 0..M - 1 : i # id => p.timer_ids[i] = q.timer_ids[i]
    BY <1>1, <2>1
  <2>3. -1 < 0 /\ -1 # Limbo
    BY SMT DEF Limbo
  <2> QED  BY <2>2, <2>3 DEF is_free
<1>4. ASSUME NEW i \in Forgotten(p, M), i # id, i < m
      PROVE  i \in Forgotten(q, M)
  BY <1>2, <1>3, <1>4 DEF Forgotten, FreeIds
<1>5. AtMostOne(Forgotten(q, M)) /\ (m < M => m <= c /\ is_free(q, m))
  BY DEF Known
<1>6. \A i \in Forgotten(p, M) : i \in 0..M - 1 /\ i <= c /\ i < p.timer_ids_min_free
  BY <1>2 DEF Forgotten, FreeIds
<1> HIDE DEF c, m
<1>7. CASE passed(q, id)
  <2>1. id < m /\ id <= c /\ p.timer_ids_min_free = id
    BY <1>7 DEF Pushed, passed, m, c
  <2>2. Forgotten(p, M) \subseteq Forgotten(q, M)
    BY <1>1, <1>4, <1>6, <2>1, SMT
  <2> QED  BY <1>2, <1>3, <1>5, <2>1, <2>2 DEF Known, AtMostOne
<1>8. CASE ~passed(q, id)
  <2>1. p.timer_ids_min_free = m /\ ~(id < m /\ id <= c)
    BY <1>8 DEF Pushed, passed, m, c
  <2>2. Forgotten(p, M) \subseteq Forgotten(q, M)
    BY <1>4, <1>6, <2>1
  <2>3. m < M => m <= c /\ is_free(p, m)
    <3>1. m < M => m \in 0..M - 1
      BY <1>1, SMT
    <3> QED  BY <1>3, <1>5, <3>1
  <2> QED  BY <1>2, <1>5, <2>1, <2>2, <2>3 DEF Known, AtMostOne
<1> QED  BY <1>7, <1>8

LEMMA KnownSame ==
    ASSUME NEW M \in Nat, NEW q \in HeapOf(M), NEW p, FreeIds(p, M) = FreeIds(q, M),
           p.timer_ids_curr = q.timer_ids_curr,
           p.timer_ids_min_free = q.timer_ids_min_free, Known(q, M)
    PROVE  Known(p, M)
<1>1. q.timer_ids_min_free \in 0..M
  BY DEF HeapOf
<1>2. q.timer_ids_min_free < M => q.timer_ids_min_free \in 0..M - 1
  BY <1>1, SMT
<1>3. \A i \in 0..M - 1 : is_free(p, i) <=> is_free(q, i)
  BY DEF FreeIds
<1>4. Forgotten(p, M) = Forgotten(q, M)
  BY DEF Forgotten
<1> QED  BY <1>2, <1>3, <1>4 DEF Known

(* Of what the operations do to a good queue.                              *)
LEMMA RemoveGood ==
    ASSUME NEW M, NEW q, Good(q, M), NEW slot \in 0..q.cur_size - 1
    PROVE  /\ Good(remove(q, slot), M)
           /\ Removed(q, remove(q, slot), M, q.heap[slot])
           /\ q.heap[slot].id \in 0..M - 1 /\ q.timer_ids[q.heap[slot].id] = slot
           /\ LimboIds(remove(q, slot), M) = LimboIds(q, M) \cup {q.heap[slot].id}
           /\ FreeIds(remove(q, slot), M) = FreeIds(q, M)
<1> DEFINE x == q.heap[slot]
           p == remove(q, slot)
<1>1. /\ M \in Nat /\ M >= 2 /\ q \in HeapOf(M) /\ Exact(q, M) /\ Ordered(q, q.cur_size)
      /\ Known(q, M)
      /\ Cardinality(LimboIds(q, M)) = q.cur_limbo /\ q.cur_size + q.cur_limbo + 2 <= M
  BY DEF Good
<1>2. /\ q.cur_limbo < M /\ q.cur_limbo \in Nat /\ q.cur_size \in Nat
      /\ q.timer_ids \in [0..M - 1 -> Int]
  BY GoodTypes
<1>3. Removed(q, p, M, x)
  BY <1>1, <1>2, RemoveFacts
<1>4. x.id \in 0..M - 1 /\ q.timer_ids[x.id] = slot
  BY <1>1 DEF Exact, ExactBut, NodesOf
<1> HIDE DEF p, x
<1>5. /\ p.timer_ids[x.id] = Limbo
      /\ \A id \in (0..M - 1) \ {x.id} :
             /\ p.timer_ids[id] < 0 <=> q.timer_ids[id] < 0
             /\ q.timer_ids[id] < 0 => p.timer_ids[id] = q.timer_ids[id]
      /\ p.cur_size = q.cur_size - 1 /\ p.cur_limbo = q.cur_limbo + 1
      /\ p.timer_ids_curr = q.timer_ids_curr
      /\ p.timer_ids_min_free = q.timer_ids_min_free
      /\ p \in HeapOf(M) /\ Exact(p, M) /\ Ordered(p, p.cur_size)
  BY <1>3 DEF Removed
<1>6. ~(q.timer_ids[x.id] < 0) /\ q.timer_ids[x.id] # Limbo /\ Limbo < 0
  BY <1>4, SMT DEF Limbo
<1>7. p.timer_ids \in [0..M - 1 -> Int]
  BY <1>5 DEF HeapOf
<1>8. FreeIds(p, M) = FreeIds(q, M)
  BY <1>4, <1>5, <1>6 DEF FreeIds, is_free
<1>9. LimboIds(p, M) = LimboIds(q, M) \cup {x.id}
  <2>1. ASSUME NEW id \in (0..M - 1) \ {x.id}
        PROVE  p.timer_ids[id] = Limbo <=> q.timer_ids[id] = Limbo
    BY <1>5, <1>6
  <2> QED  BY <1>4, <1>5, <2>1 DEF LimboIds
<1>10. Known(p, M)
  BY <1>1, <1>5, <1>8, KnownSame
<1>11. Cardinality(LimboIds(p, M)) = p.cur_limbo
  <2>1. IsFiniteSet(LimboIds(q, M))
    <3>1. LimboIds(q, M) \subseteq 0..M - 1
      BY DEF LimboIds
    <3> QED  BY <1>1, <3>1, IdsAreFinite
  <2>2. x.id \notin LimboIds(q, M)
    BY <1>6 DEF LimboIds
  <2>3. Cardinality(LimboIds(q, M) \cup {x.id}) = Cardinality(LimboIds(q, M)) + 1
    BY <2>1, <2>2, FS_AddElement
  <2> QED  BY <1>1, <1>5, <1>9, <2>3
<1>12. p.cur_size + p.cur_limbo + 2 <= M
  BY <1>1, <1>2, <1>5, SMT
<1>13. Good(p, M)
  BY <1>1, <1>5, <1>10, <1>11, <1>12 DEF Good
<1> QED  BY <1>3, <1>4, <1>8, <1>9, <1>13 DEF p, x

(* What freeing an id in limbo leaves of the timers. *)
SameTimers(q, p) == p.heap = q.heap /\ p.cur_size = q.cur_size

LEMMA PushGood ==
    ASSUME NEW M, NEW q, Good(q, M), NEW id \in LimboIds(q, M)
    PROVE  /\ Good(push_freelist(q, id), M)
           /\ SameTimers(q, push_freelist(q, id))
           /\ push_freelist(q, id).cur_limbo = q.cur_limbo - 1
           /\ LimboIds(push_freelist(q, id), M) = LimboIds(q, M) \ {id}
<1> DEFINE p == push_freelist(q, id)
           L == LimboIds(q, M)
<1>1. /\ M \in Nat /\ M >= 2 /\ q \in HeapOf(M) /\ Exact(q, M) /\ Ordered(q, q.cur_size)
      /\ Known(q, M)
      /\ Cardinality(L) = q.cur_limbo /\ q.cur_size + q.cur_limbo + 2 <= M
  BY DEF Good
<1>2. /\ q.cur_limbo < M /\ q.cur_limbo \in Nat /\ q.cur_size \in Nat
      /\ q.timer_ids \in [0..M - 1 -> Int]
  BY GoodTypes
<1>3. id \in 0..M - 1 /\ q.timer_ids[id] = Limbo
  BY DEF LimboIds
<1>4. IsFiniteSet(L)
  <2>1. LimboIds(q, M) \subseteq 0..M - 1
    BY DEF LimboIds
  <2> QED  BY <1>1, <2>1, IdsAreFinite
<1>5. IsFiniteSet(L \ {id}) /\ Cardinality(L \ {id}) = q.cur_limbo - 1 /\ q.cur_limbo > 0
  <2> HIDE DEF L
  <2>1. id \in L
    BY DEF L
  <2>2. IsFiniteSet(L \ {id}) /\ Cardinality(L \ {id}) = Cardinality(L) - 1
    BY <1>4, <2>1, FS_RemoveElement
  <2>3. Cardinality(L \ {id}) \in Nat
    BY <2>2, FS_CardinalityType
  <2> QED  BY <1>1, <1>2, <2>2, <2>3, SMT
<1>6. Pushed(q, p, M, id)
  BY <1>1, <1>3, <1>5, PushFacts
<1> HIDE DEF p
<1>7. /\ p \in HeapOf(M) /\ p.heap = q.heap /\ p.cur_size = q.cur_size
      /\ p.timer_ids = [q.timer_ids EXCEPT ![id] = -1]
      /\ p.cur_limbo = q.cur_limbo - 1
  BY <1>3, <1>6 DEF Pushed
<1>8. Known(p, M)
  BY <1>1, <1>3, <1>6, KnownPush
<1>9. /\ p.timer_ids[id] = -1 /\ \A i \in 0..M - 1 : i # id => p.timer_ids[i] = q.timer_ids[i]
      /\ ~(-1 >= 0) /\ -1 # Limbo /\ ~(Limbo >= 0)
  <2>1. ~(-1 >= 0) /\ -1 # Limbo /\ ~(Limbo >= 0)
    BY SMT DEF Limbo
  <2> QED  BY <1>2, <1>3, <1>7, <2>1
<1>10. LimboIds(p, M) = L \ {id}
  BY <1>9 DEF LimboIds
<1>11. Exact(p, M)
  <2>1. /\ \A i \in 0..q.cur_size - 1 : /\ q.heap[i] \in NodesOf(M)
                                        /\ q.heap[i].id \in 0..M - 1
                                        /\ q.timer_ids[q.heap[i].id] = i
        /\ \A j \in 0..M - 1 :
               q.timer_ids[j] >= 0 =>
                   q.timer_ids[j] \in 0..q.cur_size - 1 /\ q.heap[q.timer_ids[j]].id = j
    BY <1>1 DEF Exact, ExactBut, NodesOf
  <2>2. ASSUME NEW i \in 0..q.cur_size - 1
        PROVE  q.heap[i] \in NodesOf(M) /\ p.timer_ids[q.heap[i].id] = i
    <3>1. i >= 0
      BY <1>2, SMT
    <3>2. q.heap[i].id # id
      BY <1>3, <1>9, <2>1, <3>1
    <3> QED  BY <1>9, <2>1, <3>2
  <2>3. ASSUME NEW j \in 0..M - 1, p.timer_ids[j] >= 0
        PROVE  p.timer_ids[j] \in 0..q.cur_size - 1 /\ q.heap[p.timer_ids[j]].id = j
    BY <1>9, <2>1, <2>3
  <2> QED  BY <1>7, <2>2, <2>3 DEF Exact, ExactBut
<1>12. Ordered(p, p.cur_size)
  BY <1>1, <1>7 DEF Ordered
<1>13. p.cur_size + p.cur_limbo + 2 <= M
  BY <1>1, <1>2, <1>7, SMT
<1>14. Good(p, M)
  BY <1>1, <1>5, <1>7, <1>8, <1>10, <1>11, <1>12, <1>13 DEF Good
<1> QED  BY <1>7, <1>10, <1>14 DEF p, SameTimers

(* A timer is put in under an id that was free ...                         *)
LEMMA ScheduleGood ==
    ASSUME NEW M, NEW q, Good(q, M), NEW node \in NodesOf(M), NEW r,
           r = pop_freelist(q), node.id = r.timer_ids_curr
    PROVE  \E M2 : /\ Good(insert(r, node), M2)
                   /\ NodesIn(insert(r, node), q.cur_size + 1)
                        = NodesIn(q, q.cur_size) \cup {node}
                   /\ insert(r, node).cur_size = q.cur_size + 1
                   /\ insert(r, node).cur_limbo = q.cur_limbo
                   /\ LimboIds(insert(r, node), M2) = LimboIds(q, M)
                   /\ M <= M2
                   /\ node.id \in FreeIds(q, M)
<1> DEFINE c == node.id
           p == insert(r, node)
           n == q.cur_size
           L == q.cur_limbo
           M2 == IF n + L + 2 >= M THEN M * 2 ELSE M
<1>1. /\ M \in Nat /\ M >= 2 /\ q \in HeapOf(M) /\ Exact(q, M) /\ Ordered(q, n)
      /\ Cardinality(LimboIds(q, M)) = L /\ n + L + 2 <= M
  BY DEF Good
<1>2. n \in Nat /\ L \in Nat /\ q.timer_ids \in [0..M - 1 -> Int]
  BY GoodTypes
<1>3. Popped(q, r, M)
  BY PopFacts
<1>4. /\ r \in HeapOf(M) /\ r.heap = q.heap /\ r.timer_ids = q.timer_ids
      /\ r.cur_size = n /\ r.cur_limbo = L
      /\ c \in FreeIds(q, M)
      /\ r.timer_ids_min_free < M => r.timer_ids_min_free < c /\ is_free(q, r.timer_ids_min_free)
      /\ AtMostOne(Forgotten(r, M) \ {c})
  BY <1>3 DEF Popped
<1>5. c \in 0..M - 1 /\ q.timer_ids[c] < 0 /\ q.timer_ids[c] # Limbo
  BY <1>4 DEF FreeIds, is_free
<1>6. Exact(r, M) /\ Ordered(r, r.cur_size) /\ NodesIn(r, r.cur_size) = NodesIn(q, n)
  BY <1>1, <1>4 DEF Exact, ExactBut, Ordered, NodesIn
<1>7. Inserted(r, p, M, M2, node)
  <2>1. M2 = IF r.cur_size + r.cur_limbo + 2 >= M THEN M * 2 ELSE M
    BY <1>4
  <2>2. r.timer_ids[node.id] < 0
    BY <1>4, <1>5
  <2> HIDE DEF M2, n, L, c
  <2> QED  BY <1>1, <1>4, <1>6, <2>1, <2>2, InsertFacts
<1> HIDE DEF p
<1>8. /\ M2 \in Nat /\ M <= M2
      /\ p \in HeapOf(M2) /\ p.cur_size = n + 1 /\ p.cur_limbo = L
      /\ p.timer_ids_curr = c
      /\ p.timer_ids_min_free = IF M2 = M THEN r.timer_ids_min_free ELSE M2
      /\ Exact(p, M2) /\ Ordered(p, p.cur_size)
      /\ NodesIn(p, p.cur_size) = NodesIn(q, n) \cup {node}
      /\ p.timer_ids[c] >= 0
      /\ \A id \in (0..M - 1) \ {c} :
             /\ p.timer_ids[id] < 0 <=> q.timer_ids[id] < 0
             /\ q.timer_ids[id] < 0 => p.timer_ids[id] = q.timer_ids[id]
      /\ \A id \in M..M2 - 1 : p.timer_ids[id] < 0 /\ p.timer_ids[id] # Limbo
  <2> HIDE DEF M2, c
  <2>1. p.timer_ids_curr = c
    BY <1>7 DEF Inserted, c
  <2> QED  BY <1>4, <1>6, <1>7, <2>1 DEF Inserted, c
<1>9. p.cur_size + p.cur_limbo + 2 <= M2 /\ M2 >= 2
  <2> HIDE DEF n, L
  <2>1. n + 1 + L + 2 <= M2 /\ M2 >= 2
    BY <1>1, <1>2, SMT
  <2> QED  BY <1>8, <2>1
<1>10. /\ \A id \in 0..M - 1 : id \in 0..M2 - 1
       /\ \A id \in 0..M2 - 1 : id \notin M..M2 - 1 => id \in 0..M - 1
       /\ \A id \in M..M2 - 1 : ~(id <= c)
  <2> HIDE DEF M2, c
  <2> QED  BY <1>1, <1>5, <1>8, SMT
<1>11. p.timer_ids \in [0..M2 - 1 -> Int] /\ r.timer_ids_min_free \in 0..M
  BY <1>4, <1>8 DEF HeapOf
<1>12. ~(p.timer_ids[c] < 0) /\ p.timer_ids[c] # Limbo /\ Limbo < 0
  <2>1. p.timer_ids[c] \in Int
    BY <1>5, <1>10, <1>11
  <2> QED  BY <1>8, <2>1, SMT DEF Limbo
<1>13. ASSUME NEW id \in (0..M - 1) \ {c}
       PROVE  /\ p.timer_ids[id] = Limbo <=> q.timer_ids[id] = Limbo
              /\ is_free(p, id) <=> is_free(q, id)
  BY <1>8, <1>12, <1>13 DEF is_free
<1> HIDE DEF M2
<1>14. LimboIds(p, M2) = LimboIds(q, M)
  <2>1. ASSUME NEW id \in LimboIds(p, M2) PROVE id \in LimboIds(q, M)
    BY <1>8, <1>10, <1>12, <1>13, <2>1 DEF LimboIds
  <2>2. ASSUME NEW id \in LimboIds(q, M) PROVE id \in LimboIds(p, M2)
    BY <1>5, <1>10, <1>13, <2>2 DEF LimboIds
  <2> QED  BY <2>1, <2>2
<1>15. \A id \in Forgotten(p, M2) :
           /\ id \in FreeIds(q, M) /\ id # c /\ id <= c
           /\ id < p.timer_ids_min_free
  BY <1>8, <1>10, <1>12, <1>13 DEF Forgotten, FreeIds, is_free
<1>16. Known(p, M2)
  <2>1. CASE M2 = M
    <3>1. Forgotten(p, M2) \subseteq Forgotten(r, M) \ {c}
      <4>1. \A id \in FreeIds(q, M) : id \in FreeIds(r, M)
        BY <1>4 DEF FreeIds, is_free
      <4>2. p.timer_ids_min_free = r.timer_ids_min_free
        BY <1>8, <2>1
      <4> QED  BY <1>15, <4>1, <4>2 DEF Forgotten
    <3>2. ASSUME r.timer_ids_min_free < M
          PROVE  r.timer_ids_min_free <= c /\ is_free(p, r.timer_ids_min_free)
      <4> DEFINE m == r.timer_ids_min_free
      <4>1. m < c /\ is_free(q, m)
        BY <1>4, <3>2
      <4> HIDE DEF m, c
      <4>2. m \in (0..M - 1) \ {c} /\ m <= c
        <5>1. m \in 0..M /\ m < M
          BY <1>11, <3>2 DEF m
        <5>2. c \in 0..M - 1 /\ M \in Nat
          BY <1>1, <1>5
        <5> QED  BY <4>1, <5>1, <5>2, SMT
      <4>3. is_free(p, m)
        BY <1>13, <4>1, <4>2
      <4> QED  BY <4>2, <4>3 DEF m
    <3> QED  BY <1>4, <1>8, <2>1, <3>1, <3>2 DEF Known, AtMostOne
  <2>2. CASE M2 # M
    <3> DEFINE F == FreeIds(q, M)
    <3>1. n + L + 2 = M
      <4>1. n + L + 2 >= M
        BY <2>2 DEF M2
      <4> HIDE DEF n, L
      <4> QED  BY <1>1, <1>2, <4>1, SMT
    <3>2. Cardinality(F) = M - n - L
      BY <1>1, FreeCount
    <3>3. Cardinality(F) = 2
      <4> HIDE DEF n, L, F
      <4> QED  BY <1>1, <1>2, <3>1, <3>2, SMT
    <3>4. IsFiniteSet(F)
      <4>1. FreeIds(q, M) \subseteq 0..M - 1
        BY DEF FreeIds
      <4> QED  BY <1>1, <4>1, IdsAreFinite
    <3> HIDE DEF F
    <3>5. IsFiniteSet(F \ {c}) /\ Cardinality(F \ {c}) = 1
      <4>1. c \in F
        BY <1>4 DEF F
      <4>2. IsFiniteSet(F \ {c}) /\ Cardinality(F \ {c}) = Cardinality(F) - 1
        BY <3>4, <4>1, FS_RemoveElement
      <4> QED  BY <3>3, <4>2, SMT
    <3>6. AtMostOne(F \ {c})
      BY <3>5, SmallSets
    <3>7. Forgotten(p, M2) \subseteq F \ {c}
      BY <1>15 DEF F
    <3>8. p.timer_ids_min_free = M2 /\ ~(M2 < M2)
      BY <1>8, <2>2, SMT
    <3> QED  BY <3>6, <3>7, <3>8 DEF Known, AtMostOne
  <2> QED  BY <2>1, <2>2
<1>17. Good(p, M2)
  BY <1>1, <1>8, <1>9, <1>14, <1>16 DEF Good
<1> QED  BY <1>4, <1>8, <1>14, <1>17 DEF p

(* ... or, periodic, under its own, without a new heap.                    *)
Rescheduled(q, p, M, node) ==
    /\ Good(p, M)
    /\ NodesIn(p, q.cur_size + 1) = NodesIn(q, q.cur_size) \cup {node}
    /\ p.cur_size = q.cur_size + 1
    /\ LimboIds(p, M) = LimboIds(q, M) \ {node.id}

LEMMA RescheduleGood ==
    ASSUME NEW M, NEW q, Good(q, M), NEW node \in NodesOf(M), node.id \in LimboIds(q, M)
    PROVE  Rescheduled(q, reschedule(q, node), M, node)
<1> DEFINE c == node.id
           n == q.cur_size
           L == q.cur_limbo
           u == [q EXCEPT !.cur_limbo = @ - 1]
           p == insert(u, node)
           H == LimboIds(q, M)
<1>1. /\ M \in Nat /\ M >= 2 /\ q \in HeapOf(M) /\ Exact(q, M) /\ Ordered(q, n)
      /\ Cardinality(H) = L /\ n + L + 2 <= M /\ Known(q, M)
  BY DEF Good
<1>2. n \in Nat /\ L \in Nat /\ q.timer_ids \in [0..M - 1 -> Int] /\ q.cur_limbo \in 0..M
  BY GoodTypes DEF Good, HeapOf
<1>3. c \in 0..M - 1 /\ q.timer_ids[c] = Limbo
  BY DEF LimboIds
<1>4. reschedule(q, node) = p
  BY <1>3, Zenon DEF reschedule
<1>5. Cardinality(H \ {c}) = L - 1 /\ L > 0
  <2>1. IsFiniteSet(H)
    <3>1. LimboIds(q, M) \subseteq 0..M - 1
      BY DEF LimboIds
    <3> QED  BY <1>1, <3>1, IdsAreFinite
  <2> HIDE DEF H
  <2>2. c \in H
    BY DEF H
  <2>3. IsFiniteSet(H \ {c}) /\ Cardinality(H \ {c}) = Cardinality(H) - 1
    BY <2>1, <2>2, FS_RemoveElement
  <2>4. Cardinality(H \ {c}) \in Nat
    BY <2>3, FS_CardinalityType
  <2> HIDE DEF L
  <2> QED  BY <1>1, <1>2, <2>3, <2>4, SMT
<1>6. u \in HeapOf(M)
  <2>1. q.cur_limbo - 1 \in 0..M
    <3>1. M \in Nat /\ q.cur_limbo \in 0..M /\ q.cur_limbo > 0
      BY <1>1, <1>2, <1>5
    <3> QED  BY <3>1, SMT
  <2> QED  BY <1>1, <2>1, Zenon DEF HeapOf
<1>7. /\ u.heap = q.heap /\ u.max_size = q.max_size /\ u.timer_ids = q.timer_ids
      /\ u.timer_ids_curr = q.timer_ids_curr /\ u.timer_ids_min_free = q.timer_ids_min_free
      /\ u.cur_size = q.cur_size /\ u.cur_limbo = q.cur_limbo - 1
  BY <1>1, SMT DEF HeapOf
<1> HIDE DEF u, H
<1>8. Exact(u, M) /\ Ordered(u, u.cur_size) /\ NodesIn(u, u.cur_size) = NodesIn(q, n)
  BY <1>1, <1>7 DEF Exact, ExactBut, Ordered, NodesIn
<1>9. Inserted(u, p, M, M, node)
  <2>1. ~(n + (L - 1) + 2 >= M)
    <3> HIDE DEF n, L
    <3> QED  BY <1>1, <1>2, SMT
  <2>2. M = IF u.cur_size + u.cur_limbo + 2 >= M THEN M * 2 ELSE M
    BY <1>7, <2>1
  <2>3. u.timer_ids[node.id] < 0
    BY <1>3, <1>7, SMT DEF Limbo
  <2> HIDE DEF n, L, c
  <2> QED  BY <1>1, <1>6, <1>8, <2>2, <2>3, InsertFacts
<1> HIDE DEF p
<1>10. /\ p \in HeapOf(M) /\ p.cur_size = n + 1 /\ p.cur_limbo = L - 1
       /\ p.timer_ids_curr = q.timer_ids_curr
       /\ p.timer_ids_min_free = q.timer_ids_min_free
       /\ Exact(p, M) /\ Ordered(p, p.cur_size)
       /\ NodesIn(p, p.cur_size) = NodesIn(q, n) \cup {node}
       /\ p.timer_ids[c] >= 0
       /\ \A id \in (0..M - 1) \ {c} :
              /\ p.timer_ids[id] < 0 <=> q.timer_ids[id] < 0
              /\ q.timer_ids[id] < 0 => p.timer_ids[id] = q.timer_ids[id]
  BY <1>7, <1>8, <1>9 DEF Inserted
<1>11. ~(p.timer_ids[c] < 0) /\ p.timer_ids[c] # Limbo /\ Limbo < 0 /\ ~(Limbo >= 0)
  <2>1. p.timer_ids \in [0..M - 1 -> Int]
    BY <1>10 DEF HeapOf
  <2>2. p.timer_ids[c] \in Int
    BY <1>3, <2>1
  <2> QED  BY <1>10, <2>2, SMT DEF Limbo
<1>12. LimboIds(p, M) = H \ {c}
  BY <1>10, <1>11 DEF LimboIds, H
<1>13. FreeIds(p, M) = FreeIds(q, M)
  BY <1>3, <1>10, <1>11 DEF FreeIds, is_free
<1>14. Known(p, M)
  BY <1>1, <1>10, <1>13, KnownSame
<1>15. p.cur_size + p.cur_limbo + 2 <= M
  <2>1. (n + 1) + (L - 1) + 2 <= M
    <3> HIDE DEF n, L
    <3> QED  BY <1>1, <1>2, SMT
  <2> QED  BY <1>10, <2>1
<1>16. Good(p, M)
  BY <1>1, <1>5, <1>10, <1>12, <1>14, <1>15 DEF Good
<1> QED  BY <1>4, <1>10, <1>12, <1>16 DEF H, Rescheduled

LEMMA FreeSlotGood ==
    ASSUME NEW M, NEW q, Good(q, M), NEW slot \in 0..q.cur_size - 1
    PROVE  /\ Good(free_slot(q, slot), M)
           /\ LimboIds(free_slot(q, slot), M) = LimboIds(q, M)
           /\ free_slot(q, slot).cur_size = q.cur_size - 1
           /\ NodesIn(free_slot(q, slot), q.cur_size - 1)
                = NodesIn(q, q.cur_size) \ {q.heap[slot]}
<1> DEFINE x == q.heap[slot]
           r == remove(q, slot)
           p == push_freelist(r, x.id)
<1>1. /\ Good(r, M) /\ Removed(q, r, M, x) /\ x.id \in 0..M - 1 /\ q.timer_ids[x.id] = slot
      /\ LimboIds(r, M) = LimboIds(q, M) \cup {x.id}
  BY RemoveGood
<1>2. x.id \in LimboIds(r, M) /\ x.id \notin LimboIds(q, M)
  <2>1. q.cur_size \in Nat
    BY GoodTypes
  <2>2. slot # Limbo
    BY <2>1, SMT DEF Limbo
  <2> QED  BY <1>1, <2>2 DEF LimboIds
<1>3. free_slot(q, slot) = p
  BY DEF free_slot
<1> HIDE DEF r, x
<1>4. Good(p, M) /\ SameTimers(r, p) /\ LimboIds(p, M) = LimboIds(r, M) \ {x.id}
  BY <1>1, <1>2, PushGood
<1> HIDE DEF p
<1>5. LimboIds(p, M) = LimboIds(q, M)
  BY <1>1, <1>2, <1>4
<1>6. p.cur_size = q.cur_size - 1 /\ NodesIn(p, q.cur_size - 1) = NodesIn(q, q.cur_size) \ {x}
  BY <1>1, <1>4 DEF Removed, SameTimers, NodesIn
<1> QED  BY <1>3, <1>4, <1>5, <1>6 DEF x

(* The queue p is q without the timers of a type.                          *)
OthersIn(q, type) == {x \in NodesIn(q, q.cur_size) : x.type # type}

Left(q, p, M, type) ==
    /\ Good(p, M)
    /\ LimboIds(p, M) = LimboIds(q, M)
    /\ OthersIn(p, type) = OthersIn(q, type)

LEMMA LeftBefore ==
    ASSUME NEW M, NEW q, NEW type, NEW r, Left(q, r, M, type), NEW slot \in of_type(r, type)
    PROVE  /\ Left(q, free_slot(r, slot), M, type)
           /\ free_slot(r, slot).cur_size = r.cur_size - 1
<1>1. Good(r, M) /\ LimboIds(r, M) = LimboIds(q, M) /\ OthersIn(r, type) = OthersIn(q, type)
  BY DEF Left
<1>2. slot \in 0..r.cur_size - 1 /\ r.heap[slot].type = type
  BY DEF of_type, Slots
<1> DEFINE p == free_slot(r, slot)
<1>3. /\ Good(p, M) /\ LimboIds(p, M) = LimboIds(r, M) /\ p.cur_size = r.cur_size - 1
      /\ NodesIn(p, r.cur_size - 1) = NodesIn(r, r.cur_size) \ {r.heap[slot]}
  BY <1>1, <1>2, FreeSlotGood
<1> HIDE DEF p
<1>4. OthersIn(p, type) = OthersIn(r, type)
  BY <1>2, <1>3 DEF OthersIn
<1> QED  BY <1>1, <1>3, <1>4 DEF Left, p

LEMMA WithoutGood ==
    ASSUME NEW M, NEW q, Good(q, M), NEW type
    PROVE  /\ Good(without(q, type), M)
           /\ LimboIds(without(q, type), M) = LimboIds(q, M)
           /\ NodesIn(without(q, type), without(q, type).cur_size)
                = {x \in NodesIn(q, q.cur_size) : x.type # type}
<1> DEFINE S == HeapOf(M)
           n == q.cur_size
           next(r) == IF of_type(r, type) = {} THEN r ELSE free_slot(r, Min(of_type(r, type)))
           Kept(r) == Left(q, r, M, type)
           I == [k \in Nat |->
                    {r \in S : Kept(r) /\ (of_type(r, type) = {} \/ r.cur_size + k <= n)}]
           F == [k \in Nat |-> [r \in S |-> IF r \in I[k] THEN next(r) ELSE r]]
           Body(g) == [k \in Nat |->
                          IF k = 0 THEN q
                          ELSE IF of_type(g[k - 1], type) = {} THEN g[k - 1]
                               ELSE free_slot(g[k - 1], Min(of_type(g[k - 1], type)))]
           round == CHOOSE g : g = Body(g)
<1>1. without(q, type) = round[n]
  BY DEF without
<1>2. q \in I[0]
  <2>1. q \in S /\ Kept(q) /\ n \in Nat
    BY GoodTypes DEF Good, Left
  <2>2. n + 0 <= n
    <3> HIDE DEF n
    <3> QED  BY <2>1, SMT
  <2> QED  BY <2>1, <2>2
<1>3. ASSUME NEW k \in Nat, NEW r \in I[k]
      PROVE  next(r) \in I[k + 1]
  <2>1. r \in S /\ Kept(r) /\ (of_type(r, type) = {} \/ r.cur_size + k <= n)
    OBVIOUS
  <2>2. CASE of_type(r, type) = {}
    BY <2>1, <2>2
  <2>3. CASE of_type(r, type) # {}
    <3> DEFINE s == Min(of_type(r, type))
               p == free_slot(r, s)
    <3>1. Good(r, M)
      BY <2>1 DEF Left
    <3>2. r.cur_size \in Nat /\ n \in Nat
      BY <3>1, GoodTypes
    <3>3. of_type(r, type) \in SUBSET Nat
      BY <3>2, SMT DEF of_type, Slots
    <3>4. s \in of_type(r, type)
      BY <2>3, <3>3, LeastOf
    <3>5. Left(q, p, M, type) /\ p.cur_size = r.cur_size - 1
      <4> HIDE DEF s
      <4> QED  BY <2>1, <3>4, LeftBefore
    <3>6. next(r) = p
      BY <2>3
    <3> HIDE DEF p, next
    <3>7. p \in S
      BY <3>5 DEF Left, Good
    <3>8. p.cur_size + (k + 1) <= n
      <4>1. r.cur_size + k <= n
        BY <2>1, <2>3
      <4> HIDE DEF n
      <4>2. (r.cur_size - 1) + (k + 1) <= n
        BY <3>2, <4>1, SMT
      <4> QED  BY <3>5, <4>2
    <3> QED  BY <3>5, <3>6, <3>7, <3>8
  <2> QED  BY <2>2, <2>3
<1>4. I \in [Nat -> SUBSET S]
  OBVIOUS
<1> HIDE DEF Kept
<1>5. \A k \in Nat : \A r \in I[k] : r \in S /\ next(r) \in S
  <2>1. \A k \in Nat : k + 1 \in Nat /\ I[k] \subseteq S
    BY SMT
  <2> HIDE DEF I, next
  <2> QED  BY <1>3, <2>1
<1>6. F \in [Nat -> [S -> S]] /\ \A k \in Nat : \A r \in I[k] : F[k][r] = next(r)
  <2> HIDE DEF I, S, next
  <2> QED  BY <1>5
<1>7. \A k \in Nat : \A r \in I[k] : F[k][r] \in I[k + 1]
  <2> HIDE DEF F, I, next
  <2> QED  BY <1>3, <1>6
<1> HIDE DEF I, F, S
<1>8. PICK f : Runs(f, S, I, q, F)
  <2>1. Loop(S, I, q, F)
    BY <1>2, <1>4, <1>6, <1>7 DEF Loop
  <2> QED  BY <2>1, LoopRuns
<1>9. f = Body(f)
  <2>1. \A k \in Nat : f[k] = Body(f)[k]
    <3> TAKE k \in Nat
    <3>1. CASE k = 0
      BY <1>8, <3>1 DEF Runs
    <3>2. CASE k # 0
      <4>1. k - 1 \in Nat /\ (k - 1) + 1 = k
        BY <3>2, SMT
      <4>2. f[k] = next(f[k - 1])
        BY <1>6, <1>8, <4>1 DEF Runs
      <4> QED  BY <3>2, <4>2
    <3> QED  BY <3>1, <3>2
  <2> QED  BY <1>8, <2>1 DEF Runs
<1>10. round = Body(round)
  BY <1>9
<1> HIDE DEF round
<1> DEFINE K == {k \in Nat : round[k] \in I[k]}
<1>11. \A k \in Nat : k \in K
  <2>1. 0 \in K
    <3>1. round[0] = q
      BY <1>10
    <3> QED  BY <1>2, <3>1
  <2>2. ASSUME NEW k \in Nat, k \in K
        PROVE  k + 1 \in K
    <3>1. k + 1 \in Nat /\ k + 1 # 0 /\ (k + 1) - 1 = k
      BY SMT
    <3>2. round[k + 1] = next(round[k])
      BY <1>10, <3>1
    <3> HIDE DEF next
    <3> QED  BY <1>3, <2>2, <3>1, <3>2
  <2> HIDE DEF K
  <2> QED  BY <2>1, <2>2, SetInduction
<1> DEFINE last == round[n]
<1>12. n \in Nat /\ last \in I[n]
  <2>1. n \in Nat
    BY GoodTypes
  <2> QED  BY <1>11, <2>1
<1> HIDE DEF K, last
<1>13. Left(q, last, M, type) /\ (of_type(last, type) = {} \/ last.cur_size + n <= n)
  BY <1>12 DEF I, Kept
<1>14. of_type(last, type) = {}
  <2>1. CASE last.cur_size + n <= n
    <3>1. last.cur_size \in Nat
      BY <1>13, GoodTypes DEF Left
    <3>2. 0..last.cur_size - 1 = {}
      <4> HIDE DEF n
      <4> QED  BY <1>12, <2>1, <3>1, SMT
    <3> QED  BY <3>2 DEF of_type, Slots
  <2> QED  BY <1>13, <2>1
<1>15. NodesIn(last, last.cur_size) = OthersIn(last, type)
  BY <1>14 DEF OthersIn, NodesIn, of_type, Slots
<1>16. /\ Good(last, M) /\ LimboIds(last, M) = LimboIds(q, M)
       /\ NodesIn(last, last.cur_size) = OthersIn(q, type)
  BY <1>13, <1>15 DEF Left
<1> QED  BY <1>1, <1>16 DEF last, OthersIn

(* The timers of q in the slots before k are freed.                        *)
Emptying(q, r, M, k) ==
    /\ r \in HeapOf(M) /\ r.cur_size = q.cur_size - k /\ r.cur_limbo = q.cur_limbo
    /\ \A i \in k..q.cur_size - 1 : r.timer_ids[q.heap[i].id] = i
    /\ \A id \in 0..M - 1 :
           r.timer_ids[id] >= 0 =>
               r.timer_ids[id] \in k..q.cur_size - 1 /\ q.heap[r.timer_ids[id]].id = id
    /\ LimboIds(r, M) = LimboIds(q, M)
    /\ Known(r, M)

LEMMA EmptyingMore ==
    ASSUME NEW M, NEW q, Good(q, M), NEW k \in 0..q.cur_size - 1, NEW r,
           Emptying(q, r, M, k)
    PROVE  Emptying(q, [push_freelist(r, q.heap[k].id) EXCEPT !.heap[k] = NoNode], M, k + 1)
<1> DEFINE n == q.cur_size
           x == q.heap[k].id
           u == push_freelist(r, x)
           h == [u.heap EXCEPT ![k] = NoNode]
           p == [u EXCEPT !.heap = h]
<1>1. /\ M \in Nat /\ q \in HeapOf(M) /\ n \in Nat /\ n < M /\ k \in Nat /\ k < n /\ Exact(q, M)
      /\ n - k > 0 /\ k >= 0
  <2>1. M \in Nat /\ q \in HeapOf(M) /\ n \in Nat /\ n < M /\ Exact(q, M)
    BY GoodTypes DEF Good
  <2> QED  BY <2>1, SMT
<1>2. /\ r \in HeapOf(M) /\ r.cur_size = n - k /\ r.cur_limbo = q.cur_limbo
      /\ \A i \in k..n - 1 : r.timer_ids[q.heap[i].id] = i
      /\ \A id \in 0..M - 1 :
             r.timer_ids[id] >= 0 =>
                 r.timer_ids[id] \in k..n - 1 /\ q.heap[r.timer_ids[id]].id = id
      /\ LimboIds(r, M) = LimboIds(q, M)
      /\ Known(r, M)
  BY DEF Emptying
<1>3. \A i \in 0..n - 1 : q.heap[i].id \in 0..M - 1
  BY <1>1 DEF Exact, ExactBut, NodesOf
<1> HIDE DEF n
<1>4. /\ k \in k..n - 1 /\ k + 1 \in Nat
      /\ \A i \in k + 1..n - 1 : i \in k..n - 1 /\ i \in 0..n - 1 /\ i # k
      /\ \A i \in k..n - 1 : i # k => i \in k + 1..n - 1
      /\ k # Limbo
  BY <1>1, SMT DEF Limbo
<1>5. x \in 0..M - 1 /\ r.timer_ids[x] = k
  BY <1>2, <1>3, <1>4 DEF n
<1>6. k # Limbo
  BY <1>4
<1>7. r.timer_ids[x] # Limbo
  <2>1. r.timer_ids[x] = k
    BY <1>5
  <2> HIDE DEF x
  <2> QED  BY <1>6, <2>1, Zenon
<1>8. Pushed(r, u, M, x)
  <2> HIDE DEF x
  <2>2. r.cur_size > 0
    BY <1>1, <1>2
  <2> QED  BY <1>1, <1>2, <1>5, <1>7, <2>2, PushFacts
<1> HIDE DEF u, x
<1>9. /\ u \in HeapOf(M) /\ u.timer_ids = [r.timer_ids EXCEPT ![x] = -1]
      /\ u.cur_size = r.cur_size - 1 /\ u.cur_limbo = q.cur_limbo
  BY <1>2, <1>8, <1>7 DEF Pushed
<1>10. Known(u, M)
  BY <1>1, <1>2, <1>5, <1>8, KnownPush
<1>11. r.timer_ids \in [0..M - 1 -> Int] /\ u.heap \in [0..M - 1 -> NodesOf(M) \cup {NoNode}]
  BY <1>2, <1>9 DEF HeapOf
<1>12. /\ u.timer_ids[x] = -1 /\ \A i \in 0..M - 1 : i # x => u.timer_ids[i] = r.timer_ids[i]
       /\ ~(-1 >= 0) /\ -1 # Limbo
  <2>1. ~(-1 >= 0) /\ -1 # Limbo
    BY SMT DEF Limbo
  <2> QED  BY <1>5, <1>9, <1>11, <2>1
<1>13. h \in [0..M - 1 -> NodesOf(M) \cup {NoNode}]
  BY <1>11
<1> HIDE DEF h
<1>14. p \in HeapOf(M)
  BY <1>9, <1>13, Zenon DEF HeapOf
<1>15. /\ p.timer_ids = u.timer_ids /\ p.cur_size = u.cur_size /\ p.cur_limbo = u.cur_limbo
       /\ p.timer_ids_curr = u.timer_ids_curr
       /\ p.timer_ids_min_free = u.timer_ids_min_free
  BY <1>9, SMT DEF HeapOf
<1>16. p = [u EXCEPT !.heap[k] = NoNode]
  BY Zenon DEF h
<1> HIDE DEF p
<1>17. p.cur_size = n - (k + 1)
  <2>1. (n - k) - 1 = n - (k + 1)
    BY <1>1, SMT
  <2> QED  BY <1>2, <1>9, <1>15, <2>1
<1>18. Known(p, M)
  <2>1. FreeIds(p, M) = FreeIds(u, M)
    BY <1>15 DEF FreeIds, is_free
  <2> QED  BY <1>1, <1>9, <1>10, <1>15, <2>1, KnownSame
<1>19. LimboIds(p, M) = LimboIds(q, M)
  <2>1. LimboIds(p, M) = LimboIds(r, M)
    <3>1. r.timer_ids[x] # Limbo /\ p.timer_ids[x] # Limbo
      BY <1>12, <1>15, <1>7
    <3>2. \A id \in 0..M - 1 : id # x => p.timer_ids[id] = r.timer_ids[id]
      BY <1>12, <1>15
    <3> QED  BY <3>1, <3>2 DEF LimboIds
  <2> QED  BY <1>2, <2>1
<1>20. ASSUME NEW i \in k + 1..n - 1
       PROVE  p.timer_ids[q.heap[i].id] = i
  <2>1. r.timer_ids[q.heap[i].id] = i /\ q.heap[i].id \in 0..M - 1 /\ i # k
    BY <1>2, <1>3, <1>4
  <2>2. q.heap[i].id # x
    BY <1>5, <2>1
  <2> QED  BY <1>12, <1>15, <2>1, <2>2
<1>21. ASSUME NEW id \in 0..M - 1, p.timer_ids[id] >= 0
       PROVE  p.timer_ids[id] \in k + 1..n - 1 /\ q.heap[p.timer_ids[id]].id = id
  <2>1. id # x /\ p.timer_ids[id] = r.timer_ids[id]
    BY <1>12, <1>15, <1>21
  <2>2. r.timer_ids[id] \in k..n - 1 /\ q.heap[r.timer_ids[id]].id = id
    BY <1>2, <1>21, <2>1
  <2>3. r.timer_ids[id] # k
    BY <2>1, <2>2 DEF x
  <2> QED  BY <1>4, <2>1, <2>2, <2>3
<1>22. Emptying(q, p, M, k + 1)
  BY <1>9, <1>14, <1>15, <1>17, <1>18, <1>19, <1>20, <1>21 DEF Emptying, n
<1> QED  BY <1>16, <1>22 DEF u, x

LEMMA EmptiedGood ==
    ASSUME NEW M, NEW q, Good(q, M)
    PROVE  /\ Good(emptied(q), M)
           /\ emptied(q).cur_size = 0
           /\ LimboIds(emptied(q), M) = LimboIds(q, M)
<1> DEFINE S == HeapOf(M)
           n == q.cur_size
           next(r, k) == [push_freelist(r, q.heap[k].id) EXCEPT !.heap[k] = NoNode]
           I == [k \in Nat |-> {r \in S : k <= n => Emptying(q, r, M, k)}]
           F == [k \in Nat |-> [r \in S |-> IF r \in I[k] /\ k < n THEN next(r, k) ELSE r]]
           Body(g) == [k \in 0..n |->
                          IF k = 0 THEN q
                          ELSE [push_freelist(g[k - 1], q.heap[k - 1].id) EXCEPT
                                    !.heap[k - 1] = NoNode]]
           freed == CHOOSE g : g = Body(g)
<1>1. emptied(q) = freed[n]
  BY DEF emptied
<1>2. /\ M \in Nat /\ M >= 2 /\ q \in HeapOf(M) /\ Exact(q, M) /\ n \in Nat
      /\ Known(q, M) /\ Cardinality(LimboIds(q, M)) = q.cur_limbo
      /\ n + q.cur_limbo + 2 <= M /\ q.cur_limbo \in Nat
  BY GoodTypes DEF Good
<1>3. q \in I[0]
  <2>1. q.cur_size = q.cur_size - 0
    BY <1>2, SMT
  <2>2. Emptying(q, q, M, 0)
    BY <1>2, <2>1 DEF Emptying, Exact, ExactBut
  <2> QED  BY <1>2, <2>2
<1>4. ASSUME NEW k \in Nat, NEW r \in I[k], k < n
      PROVE  next(r, k) \in I[k + 1]
  <2>1. k \in 0..n - 1 /\ k <= n
    BY <1>2, <1>4, SMT
  <2>2. Emptying(q, r, M, k)
    BY <2>1
  <2>3. Emptying(q, next(r, k), M, k + 1)
    BY <2>1, <2>2, EmptyingMore
  <2> HIDE DEF next
  <2>4. next(r, k) \in S
    BY <2>3 DEF Emptying
  <2> QED  BY <2>3, <2>4
<1>5. ASSUME NEW k \in Nat, NEW r \in I[k], ~(k < n)
      PROVE  r \in I[k + 1]
  <2>1. ~(k + 1 <= n)
    BY <1>2, <1>5, SMT
  <2> QED  BY <2>1
<1>6. I \in [Nat -> SUBSET S]
  OBVIOUS
<1>7. \A k \in Nat : \A r \in I[k] : r \in S /\ (k < n => next(r, k) \in S)
  <2>1. \A k \in Nat : k + 1 \in Nat /\ I[k] \subseteq S
    BY SMT
  <2> HIDE DEF I, next
  <2> QED  BY <1>4, <2>1
<1>8. /\ F \in [Nat -> [S -> S]]
      /\ \A k \in Nat : \A r \in I[k] : F[k][r] = IF k < n THEN next(r, k) ELSE r
  <2> HIDE DEF I, S, next
  <2> QED  BY <1>7
<1>9. \A k \in Nat : \A r \in I[k] : F[k][r] \in I[k + 1]
  <2> HIDE DEF F, I, next
  <2> QED  BY <1>4, <1>5, <1>8
<1> HIDE DEF I, F, S
<1>10. PICK f : Runs(f, S, I, q, F)
  <2>1. Loop(S, I, q, F)
    BY <1>3, <1>6, <1>8, <1>9 DEF Loop
  <2> QED  BY <2>1, LoopRuns
<1> DEFINE g == [k \in 0..n |-> f[k]]
<1>11. g = Body(g)
  <2> SUFFICES ASSUME NEW k \in 0..n PROVE f[k] = Body(g)[k]
    OBVIOUS
  <2>1. CASE k = 0
    BY <1>10, <2>1 DEF Runs
  <2>2. CASE k # 0
    <3>1. k - 1 \in Nat /\ (k - 1) + 1 = k /\ k - 1 < n /\ k - 1 \in 0..n
      BY <1>2, <2>2, SMT
    <3>2. f[k] = next(f[k - 1], k - 1)
      <4> HIDE DEF next
      <4> QED  BY <1>8, <1>10, <3>1 DEF Runs
    <3>3. g[k - 1] = f[k - 1]
      BY <3>1
    <3> HIDE DEF g
    <3> QED  BY <2>2, <3>2, <3>3
  <2> QED  BY <2>1, <2>2
<1> HIDE DEF g
<1>12. freed = Body(freed)
  <2>1. \E w : w = Body(w)
    BY <1>11
  <2> HIDE DEF Body
  <2> QED  BY <2>1
<1> HIDE DEF freed
<1> DEFINE K == {k \in Nat : k <= n => freed[k] \in I[k]}
<1>13. \A k \in Nat : k \in K
  <2>1. 0 \in K
    <3>1. 0 \in 0..n
      BY <1>2, SMT
    <3>2. freed[0] = q
      BY <1>12, <3>1
    <3> QED  BY <1>3, <3>2
  <2>2. ASSUME NEW k \in Nat, k \in K
        PROVE  k + 1 \in K
    <3> SUFFICES ASSUME k + 1 <= n PROVE freed[k + 1] \in I[k + 1]
      OBVIOUS
    <3>1. k + 1 \in 0..n /\ k + 1 # 0 /\ (k + 1) - 1 = k /\ k <= n /\ k < n
      BY <1>2, SMTT(30)
    <3>2. freed[k + 1] = next(freed[k], k)
      BY <1>12, <3>1, ZenonT(30)
    <3> HIDE DEF next
    <3> QED  BY <1>4, <2>2, <3>1, <3>2
  <2> HIDE DEF K
  <2> QED  BY <2>1, <2>2, SetInduction
<1> DEFINE p == freed[n]
<1>14. Emptying(q, p, M, n)
  <2>1. n <= n
    BY <1>2, SMT
  <2>2. p \in I[n]
    BY <1>2, <1>13, <2>1
  <2> HIDE DEF p
  <2> QED  BY <1>2, <2>1, <2>2 DEF I
<1> HIDE DEF p, K
<1>15. /\ p \in HeapOf(M) /\ p.cur_size = 0 /\ p.cur_limbo = q.cur_limbo /\ Known(p, M)
       /\ LimboIds(p, M) = LimboIds(q, M)
       /\ \A id \in 0..M - 1 : ~(p.timer_ids[id] >= 0)
  <2>1. n - n = 0 /\ n..n - 1 = {}
    <3> HIDE DEF n
    <3> QED  BY <1>2, SMT
  <2> QED  BY <1>14, <2>1 DEF Emptying
<1>16. 0..0 - 1 = {} /\ 1..0 - 1 = {}
  BY SMT
<1>17. Exact(p, M) /\ Ordered(p, p.cur_size)
  BY <1>15, <1>16 DEF Exact, ExactBut, Ordered
<1>18. p.cur_size + p.cur_limbo + 2 <= M
  <2>1. 0 + q.cur_limbo + 2 <= M
    <3> HIDE DEF n
    <3> QED  BY <1>2, SMT
  <2> QED  BY <1>15, <2>1
<1>19. Good(p, M)
  BY <1>2, <1>15, <1>17, <1>18 DEF Good
<1> QED  BY <1>1, <1>15, <1>19 DEF p

-----------------------------------------------------------------------------
(* The state *)

LEMMA LastReturns ==
    ASSUME NEW S, NEW q, QueueOf(q, S), q # <<>>, NEW r, r = SubSeq(q, 1, Len(q) - 1)
    PROVE  /\ q[Len(q)] \in S
           /\ QueueOf(r, S \ {q[Len(q)]})
           /\ Len(r) = Len(q) - 1
<1> DEFINE n == Len(q)
           x == q[n]
<1>1. /\ q \in Seq(S)
      /\ \A u \in S : \E i \in 1..n : q[i] = u
      /\ \A i, j \in 1..n : q[i] = q[j] => i = j
  BY DEF QueueOf
<1>2. n \in Nat /\ n > 0 /\ \A i \in 1..n : q[i] \in S
  <2>1. n \in Nat /\ n # 0
    BY <1>1, EmptySeq, LenProperties
  <2>2. \A i \in 1..n : q[i] \in S
    BY <1>1, ElementOfSeq
  <2> QED  BY <2>1, <2>2, SMT
<1>3. /\ 1 \in Int /\ n - 1 \in Int /\ n \in 1..n
      /\ \A i \in 1..n - 1 : i \in 1..n /\ i # n /\ 1 + i - 1 = i
      /\ \A i \in 1..n : i # n => i \in 1..n - 1
      /\ (IF 1 <= n - 1 THEN n - 1 - 1 + 1 ELSE 0) = n - 1
      /\ n - 1 - 1 + 1 = n - 1
  <2> HIDE DEF n
  <2> QED  BY <1>2, SMT
<1>4. /\ r \in Seq(S)
      /\ Len(r) = IF 1 <= n - 1 THEN n - 1 - 1 + 1 ELSE 0
      /\ \A i \in 1..(n - 1 - 1 + 1) : r[i] = q[1 + i - 1]
  <2>1. \A i \in 1..n - 1 : q[i] \in S
    <3> HIDE DEF n
    <3> QED  BY <1>2, SMT
  <2> HIDE DEF n
  <2> DEFINE w == SubSeq(q, 1, n - 1)
  <2>2. /\ w \in Seq(S)
        /\ Len(w) = IF 1 <= n - 1 THEN n - 1 - 1 + 1 ELSE 0
        /\ \A i \in 1..(n - 1 - 1 + 1) : w[i] = q[1 + i - 1]
    BY <1>3, <2>1, SubSeqProperties
  <2>3. r = w
    BY DEF n
  <2> HIDE DEF w
  <2> QED  BY <2>2, <2>3
<1> HIDE DEF n
<1>5. Len(r) = n - 1 /\ \A i \in 1..n - 1 : r[i] = q[i]
  BY <1>3, <1>4
<1>6. x \in S /\ \A i \in 1..n - 1 : r[i] \in S \ {x}
  BY <1>1, <1>2, <1>3, <1>5
<1> HIDE DEF x
<1>7. r \in Seq(S \ {x})
  <2>1. \A i \in 1..Len(r) : r[i] \in S \ {x}
    BY <1>5, <1>6
  <2> QED  BY <1>4, <2>1, SeqDef, LenProperties
<1>8. \A u \in S \ {x} : \E i \in 1..Len(r) : r[i] = u
  BY <1>1, <1>3, <1>5, ZenonT(30) DEF x
<1>9. \A i, j \in 1..Len(r) : r[i] = r[j] => i = j
  <2> SUFFICES ASSUME NEW i \in 1..n - 1, NEW j \in 1..n - 1, q[i] = q[j] PROVE i = j
    BY <1>5
  <2>1. i \in 1..n /\ j \in 1..n
    BY <1>3
  <2> QED  BY <1>1, <2>1
<1> QED  BY <1>5, <1>6, <1>7, <1>8, <1>9 DEF QueueOf, x, n

(* The calls of cancel that are in progress are those of the ids in limbo. *)
IInv ==
    /\ Good(queue, queue.max_size)
    /\ QueueOf(cancelling, LimboIds(queue, queue.max_size))
    /\ Len(cancelling) = queue.cur_limbo
    /\ schedules \in 0 .. MaxSchedules

LEMMA Kept ==
    ASSUME IInv, NEW M, Good(queue', M),
           LimboIds(queue', M) = LimboIds(queue, queue.max_size),
           cancelling' = cancelling, schedules' \in 0 .. MaxSchedules
    PROVE  IInv'
<1>1. queue'.max_size = M /\ Cardinality(LimboIds(queue', M)) = queue'.cur_limbo
  BY GoodTypes DEF Good
<1>2. Cardinality(LimboIds(queue, queue.max_size)) = queue.cur_limbo
  BY DEF IInv, Good
<1> QED  BY <1>1, <1>2 DEF IInv

LEMMA TimersFound ==
    ASSUME IInv, NEW id \in DOMAIN queue.timer_ids, found(id)
    PROVE  /\ id \in 0..queue.max_size - 1
           /\ queue.timer_ids[id] \in 0..queue.cur_size - 1
           /\ queue.heap[queue.timer_ids[id]].id = id
<1> DEFINE M == queue.max_size
<1>1. Good(queue, M)
  BY DEF IInv
<1> HIDE DEF M
<1>2. id \in 0..M - 1
  BY <1>1, GoodTypes
<1>3. Exact(queue, M) /\ queue.timer_ids[id] >= 0
  BY <1>1 DEF Good, found
<1> QED  BY <1>2, <1>3 DEF Exact, ExactBut, M

LEMMA ScheduleKeeps == IInv /\ schedule_i => IInv'
<1> SUFFICES ASSUME IInv, schedule_i PROVE IInv'
  OBVIOUS
<1> DEFINE M == queue.max_size
           q == pop_freelist(queue)
<1>1. Good(queue, M) /\ schedules \in 0..MaxSchedules
  BY DEF IInv
<1>2. PICK r \in Requests :
          queue' = insert(q, [id |-> q.timer_ids_curr, type |-> r.type,
                              time |-> r.time, interval |-> r.interval])
  BY DEF schedule_i
<1> DEFINE node == [id |-> q.timer_ids_curr, type |-> r.type,
                    time |-> r.time, interval |-> r.interval]
<1> HIDE DEF M
<1>3. node \in NodesOf(M) /\ node.id = q.timer_ids_curr
  <2>1. Popped(queue, q, M)
    BY <1>1, PopFacts
  <2> HIDE DEF q
  <2>2. q.timer_ids_curr \in 0..M - 1
    BY <2>1 DEF Popped, FreeIds
  <2>3. r.time \in Int /\ r.interval \in Nat /\ r.type \in Types
    BY TimeAssumption DEF Types
  <2> QED  BY <2>2, <2>3 DEF NodesOf
<1> HIDE DEF node
<1>4. queue' = insert(q, node)
  BY <1>2 DEF node
<1>5. PICK M2 : Good(queue', M2) /\ LimboIds(queue', M2) = LimboIds(queue, M)
  <2> HIDE DEF q
  <2>1. q = pop_freelist(queue)
    BY DEF q
  <2> QED  BY <1>1, <1>3, <1>4, <2>1, ScheduleGood
<1>6. cancelling' = cancelling /\ schedules' \in 0..MaxSchedules
  <2> DEFINE S == {schedules + 1, MaxSchedules}
  <2>1. S \in SUBSET Nat /\ S # {} /\ MaxSchedules \in S /\ MaxSchedules \in Nat
    BY <1>1, TimeAssumption, SMT
  <2> HIDE DEF S
  <2>2. Min(S) \in S /\ \A y \in S : Min(S) <= y
    BY <2>1, LeastOf
  <2>3. Min(S) \in Nat /\ Min(S) <= MaxSchedules
    BY <2>1, <2>2
  <2>4. schedules' = Min(S) /\ cancelling' = cancelling
    BY DEF schedule_i, S
  <2> QED  BY <2>1, <2>3, <2>4, SMT
<1> QED  BY <1>5, <1>6, Kept DEF M

LEMMA CancelKeeps ==
    ASSUME IInv, NEW id \in DOMAIN queue.timer_ids, cancel(id)
    PROVE  IInv'
<1> DEFINE M == queue.max_size
           slot == queue.timer_ids[id]
<1>1. Good(queue, M) /\ QueueOf(cancelling, LimboIds(queue, M))
      /\ Len(cancelling) = queue.cur_limbo /\ schedules \in 0..MaxSchedules
  BY DEF IInv
<1>2. /\ found(id) /\ queue' = remove(queue, slot) /\ cancelling' = Append(cancelling, id)
      /\ schedules' = schedules
  BY DEF cancel
<1>3. slot \in 0..queue.cur_size - 1 /\ queue.heap[slot].id = id /\ id \in 0..M - 1
  BY <1>2, TimersFound
<1> HIDE DEF M
<1>4. /\ Good(queue', M) /\ Removed(queue, queue', M, queue.heap[slot])
      /\ LimboIds(queue', M) = LimboIds(queue, M) \cup {id}
  <2> HIDE DEF slot
  <2> QED  BY <1>1, <1>2, <1>3, RemoveGood
<1>5. id \notin LimboIds(queue, M)
  <2>1. queue.timer_ids[id] >= 0
    BY <1>2 DEF found
  <2> QED  BY <2>1, SMT DEF LimboIds, Limbo
<1>6. QueueOf(cancelling', LimboIds(queue', M)) /\ Len(cancelling') = Len(cancelling) + 1
  BY <1>1, <1>2, <1>4, <1>5, LinkLast
<1>7. queue'.max_size = M /\ queue'.cur_limbo = queue.cur_limbo + 1
  BY <1>4, GoodTypes DEF Removed
<1> QED  BY <1>1, <1>2, <1>4, <1>6, <1>7 DEF IInv

LEMMA ReturnKeeps == IInv /\ cancel_returns => IInv'
<1> SUFFICES ASSUME IInv, cancel_returns PROVE IInv'
  OBVIOUS
<1> DEFINE M == queue.max_size
           id == cancelling[Len(cancelling)]
<1>1. /\ Good(queue, M) /\ QueueOf(cancelling, LimboIds(queue, M))
      /\ Len(cancelling) = queue.cur_limbo /\ schedules \in 0..MaxSchedules
  BY DEF IInv
<1>2. /\ cancelling # <<>> /\ queue' = push_freelist(queue, id)
      /\ cancelling' = SubSeq(cancelling, 1, Len(cancelling) - 1)
      /\ schedules' = schedules
  BY DEF cancel_returns
<1> HIDE DEF M
<1>3. /\ id \in LimboIds(queue, M)
      /\ QueueOf(cancelling', LimboIds(queue, M) \ {id})
      /\ Len(cancelling') = Len(cancelling) - 1
  BY <1>1, <1>2, LastReturns
<1> HIDE DEF id
<1>4. /\ Good(queue', M) /\ queue'.cur_limbo = queue.cur_limbo - 1
      /\ LimboIds(queue', M) = LimboIds(queue, M) \ {id}
  BY <1>1, <1>2, <1>3, PushGood
<1>5. queue'.max_size = M
  BY <1>4, GoodTypes
<1> QED  BY <1>1, <1>2, <1>3, <1>4, <1>5 DEF IInv

LEMMA CancelTypeKeeps ==
    ASSUME IInv, NEW type, cancel_type(type)
    PROVE  IInv'
<1> DEFINE M == queue.max_size
<1>1. Good(queue, M) /\ schedules \in 0..MaxSchedules
  BY DEF IInv
<1>2. queue' = without(queue, type) /\ cancelling' = cancelling /\ schedules' = schedules
  BY DEF cancel_type
<1> HIDE DEF M
<1>3. Good(queue', M) /\ LimboIds(queue', M) = LimboIds(queue, M)
  BY <1>1, <1>2, WithoutGood
<1> QED  BY <1>1, <1>2, <1>3, Kept DEF M

LEMMA CloseKeeps == IInv /\ close => IInv'
<1> SUFFICES ASSUME IInv, close PROVE IInv'
  OBVIOUS
<1> DEFINE M == queue.max_size
<1>1. Good(queue, M) /\ schedules \in 0..MaxSchedules
  BY DEF IInv
<1>2. queue' = emptied(queue) /\ cancelling' = cancelling /\ schedules' = schedules
  BY DEF close
<1> HIDE DEF M
<1>3. Good(queue', M) /\ LimboIds(queue', M) = LimboIds(queue, M)
  BY <1>1, <1>2, EmptiedGood
<1> QED  BY <1>1, <1>2, <1>3, Kept DEF M

(* An interval is reset where the timer is.                                *)
LEMMA ResetGood ==
    ASSUME NEW M, NEW q, Good(q, M), NEW s \in 0..q.cur_size - 1, NEW i \in Nat,
           NEW p, p = [q EXCEPT !.heap[s].interval = i]
    PROVE  /\ Good(p, M) /\ p.cur_size = q.cur_size
           /\ LimboIds(p, M) = LimboIds(q, M)
           /\ NodesIn(p, q.cur_size)
                = (NodesIn(q, q.cur_size) \ {q.heap[s]}) \cup {[q.heap[s] EXCEPT !.interval = i]}
<1> DEFINE n == q.cur_size
           x == q.heap[s]
           y == [x EXCEPT !.interval = i]
           h == [q.heap EXCEPT ![s] = y]
           g == [q EXCEPT !.heap = h]
<1>1. /\ M \in Nat /\ M >= 2 /\ q \in HeapOf(M) /\ Exact(q, M) /\ Ordered(q, n) /\ Known(q, M)
      /\ Cardinality(LimboIds(q, M)) = q.cur_limbo
      /\ n + q.cur_limbo + 2 <= M
      /\ n \in Nat /\ n < M /\ q.heap \in [0..M - 1 -> NodesOf(M) \cup {NoNode}]
  BY GoodTypes DEF Good
<1>2. /\ \A j \in 0..n - 1 : /\ q.heap[j] \in NodesOf(M) /\ q.timer_ids[q.heap[j].id] = j
                             /\ j \in 0..M - 1
      /\ \A id \in 0..M - 1 :
             q.timer_ids[id] >= 0 =>
                 q.timer_ids[id] \in 0..n - 1 /\ q.heap[q.timer_ids[id]].id = id
  <2>1. \A j \in 0..n - 1 : j \in 0..M - 1
    <3> HIDE DEF n
    <3> QED  BY <1>1, SMT
  <2> QED  BY <1>1, <2>1 DEF Exact, ExactBut
<1>3. x \in NodesOf(M)
  BY <1>2
<1>4. p = g
  BY Zenon
<1> HIDE DEF x
<1>5. y \in NodesOf(M) /\ y.id = x.id /\ y.time = x.time
  BY <1>3 DEF NodesOf
<1> HIDE DEF y
<1>6. h \in [0..M - 1 -> NodesOf(M) \cup {NoNode}]
  BY <1>1, <1>5
<1>7. \A j \in 0..M - 1 : h[j] = IF j = s THEN y ELSE q.heap[j]
  BY <1>1
<1> HIDE DEF h
<1>8. g \in HeapOf(M)
  BY <1>1, <1>6, Zenon DEF HeapOf
<1>9. /\ g.heap = h /\ g.cur_size = n /\ g.cur_limbo = q.cur_limbo
      /\ g.timer_ids = q.timer_ids
      /\ g.timer_ids_curr = q.timer_ids_curr
      /\ g.timer_ids_min_free = q.timer_ids_min_free
  BY <1>1, SMT DEF HeapOf
<1> HIDE DEF g
<1>10. \A j \in 0..n - 1 : /\ g.heap[j] \in NodesOf(M)
                           /\ g.heap[j].id = q.heap[j].id /\ g.heap[j].time = q.heap[j].time
                           /\ g.heap[j] = IF j = s THEN y ELSE q.heap[j]
  BY <1>2, <1>5, <1>7, <1>9 DEF x
<1>11. Exact(g, M)
  BY <1>2, <1>9, <1>10 DEF Exact, ExactBut
<1>12. Ordered(g, n)
  <2> SUFFICES ASSUME NEW j \in 1..n - 1
               PROVE  g.heap[parent(j)].time <= g.heap[j].time
    BY DEF Ordered
  <2> HIDE DEF n
  <2>1. j \in 0..n - 1 /\ parent(j) \in 0..n - 1
    <3>1. j \in Nat \ {0}
      BY <1>1, SMT
    <3> QED  BY <1>1, <3>1, ParentFacts, SMT
  <2>2. q.heap[parent(j)].time <= q.heap[j].time
    BY <1>1 DEF Ordered
  <2> QED  BY <1>10, <2>1, <2>2
<1>13. FreeIds(g, M) = FreeIds(q, M) /\ LimboIds(g, M) = LimboIds(q, M)
  BY <1>9 DEF FreeIds, LimboIds, is_free
<1>14. Known(g, M)
  BY <1>1, <1>9, <1>13, KnownSame
<1>15. Good(g, M)
  BY <1>1, <1>8, <1>9, <1>11, <1>12, <1>13, <1>14 DEF Good
<1>16. NodesIn(g, n) = (NodesIn(q, n) \ {x}) \cup {y}
  <2>1. \A j \in 0..n - 1 : j # s => q.heap[j] # x
    BY <1>2 DEF x
  <2> QED  BY <1>10, <2>1 DEF NodesIn, x
<1> QED  BY <1>4, <1>9, <1>13, <1>15, <1>16 DEF x, y

LEMMA ResetKeeps ==
    ASSUME IInv, NEW id \in DOMAIN queue.timer_ids, reset_interval(id)
    PROVE  IInv'
<1> DEFINE M == queue.max_size
           s == queue.timer_ids[id]
<1>1. Good(queue, M) /\ schedules \in 0..MaxSchedules
  BY DEF IInv
<1>2. PICK i \in Intervals : queue' = [queue EXCEPT !.heap[s].interval = i]
  BY DEF reset_interval
<1>3. s \in 0..queue.cur_size - 1
  BY TimersFound DEF reset_interval
<1>4. cancelling' = cancelling /\ schedules' = schedules
  BY DEF reset_interval
<1>5. i \in Nat
  BY TimeAssumption
<1> HIDE DEF M, s
<1>6. Good(queue', M) /\ LimboIds(queue', M) = LimboIds(queue, M)
  BY <1>1, <1>2, <1>3, <1>5, ResetGood
<1> QED  BY <1>1, <1>4, <1>6, Kept DEF M

LEMMA NextIsInt ==
    ASSUME NEW M, NEW node \in NodesOf(M), NEW now \in Int, node.interval # 0
    PROVE  recompute_next_abs_interval_time(node, now) \in Int
<1>1. node.time \in Int /\ node.interval \in Nat
  BY DEF NodesOf
<1> QED  BY <1>1, SMT DEF recompute_next_abs_interval_time

(* The first timer is dispatched.                                          *)
Dispatched(q, p, M, next) ==
    /\ Good(p, M)
    /\ LimboIds(p, M) = LimboIds(q, M)
    /\ NodesIn(p, p.cur_size) =
         (NodesIn(q, q.cur_size) \ {q.heap[0]}) \cup
         IF q.heap[0].interval = 0 THEN {} ELSE {[q.heap[0] EXCEPT !.time = next]}

LEMMA DispatchGood ==
    ASSUME NEW M, NEW q, Good(q, M), q.cur_size > 0, NEW next,
           q.heap[0].interval # 0 => next \in Int, NEW p,
           p = IF q.heap[0].interval = 0
               THEN push_freelist(remove(q, 0), q.heap[0].id)
               ELSE reschedule(remove(q, 0), [q.heap[0] EXCEPT !.time = next])
    PROVE  Dispatched(q, p, M, next)
<1> DEFINE x == q.heap[0]
           r == remove(q, 0)
           y == [x EXCEPT !.time = next]
<1>1. q.cur_size \in Nat /\ 0 \in 0..q.cur_size - 1 /\ 0 # Limbo
  <2>1. q.cur_size \in Nat
    BY GoodTypes
  <2> QED  BY <2>1, SMT DEF Limbo
<1>2. /\ Good(r, M) /\ Removed(q, r, M, x) /\ x.id \in 0..M - 1 /\ q.timer_ids[x.id] = 0
      /\ LimboIds(r, M) = LimboIds(q, M) \cup {x.id}
  BY <1>1, RemoveGood
<1>3. x.id \in LimboIds(r, M) /\ x.id \notin LimboIds(q, M)
  BY <1>1, <1>2 DEF LimboIds
<1>4. x \in NodesOf(M)
  BY <1>1 DEF Good, Exact, ExactBut
<1>5. /\ NodesIn(r, r.cur_size) = NodesIn(q, q.cur_size) \ {x} /\ r.cur_size = q.cur_size - 1
  BY <1>2 DEF Removed
<1>6. CASE x.interval = 0
  <2>1. p = push_freelist(r, x.id)
    BY <1>6
  <2> HIDE DEF r, x
  <2>2. Good(p, M) /\ SameTimers(r, p) /\ LimboIds(p, M) = LimboIds(r, M) \ {x.id}
    BY <1>2, <1>3, <2>1, PushGood
  <2>3. LimboIds(p, M) = LimboIds(q, M)
    BY <1>2, <1>3, <2>2
  <2>4. NodesIn(p, p.cur_size) = (NodesIn(q, q.cur_size) \ {x}) \cup {}
    BY <1>5, <2>2 DEF SameTimers, NodesIn
  <2> QED  BY <1>6, <2>2, <2>3, <2>4 DEF Dispatched, x
<1>7. CASE x.interval # 0
  <2>1. p = reschedule(r, y)
    BY <1>7
  <2>2. y \in NodesOf(M) /\ y.id = x.id
    <3>1. next \in Int
      BY <1>7
    <3> HIDE DEF x
    <3> QED  BY <1>4, <3>1 DEF NodesOf
  <2> HIDE DEF r, x, y
  <2>3. /\ Good(p, M)
        /\ NodesIn(p, r.cur_size + 1) = NodesIn(r, r.cur_size) \cup {y}
        /\ p.cur_size = r.cur_size + 1
        /\ LimboIds(p, M) = LimboIds(r, M) \ {x.id}
    <3>1. Good(r, M) /\ y \in NodesOf(M) /\ y.id \in LimboIds(r, M)
      BY <1>2, <1>3, <2>2
    <3>2. Rescheduled(r, reschedule(r, y), M, y)
      BY <3>1, RescheduleGood
    <3>3. Rescheduled(r, p, M, y) /\ y.id = x.id
      BY <2>1, <2>2, <3>2
    <3> QED  BY <3>3 DEF Rescheduled
  <2>4. LimboIds(p, M) = LimboIds(q, M)
    BY <1>2, <1>3, <2>3, ZenonT(30)
  <2>5. NodesIn(p, p.cur_size) = (NodesIn(q, q.cur_size) \ {x}) \cup {y}
    BY <1>5, <2>3
  <2> QED  BY <1>7, <2>3, <2>4, <2>5 DEF Dispatched, x, y
<1> QED  BY <1>6, <1>7

LEMMA DispatchStep ==
    ASSUME IInv, NEW now \in CurTimes, dispatch_info_i(now)
    PROVE  /\ Dispatched(queue, queue', queue.max_size,
                         recompute_next_abs_interval_time(queue.heap[0], now))
           /\ queue.heap[0] \in NodesOf(queue.max_size)
<1> DEFINE M == queue.max_size
           x == queue.heap[0]
           next == recompute_next_abs_interval_time(x, now)
           q == remove(queue, 0)
<1>1. Good(queue, M) /\ queue.cur_size > 0 /\ now \in Int
  BY TimeAssumption DEF IInv, dispatch_info_i
<1> HIDE DEF M
<1>2. x \in NodesOf(M)
  <2>1. queue.cur_size \in Nat
    BY <1>1, GoodTypes
  <2>2. 0 \in 0..queue.cur_size - 1
    BY <1>1, <2>1, SMT
  <2> QED  BY <1>1, <2>2 DEF Good, Exact, ExactBut
<1>3. queue' = IF x.interval = 0 THEN push_freelist(q, x.id)
               ELSE reschedule(q, [x EXCEPT !.time = next])
  BY Zenon DEF dispatch_info_i
<1>4. x.interval # 0 => next \in Int
  <2> HIDE DEF x
  <2> QED  BY <1>1, <1>2, NextIsInt
<1> HIDE DEF next
<1>5. Dispatched(queue, queue', M, next)
  BY <1>1, <1>3, <1>4, DispatchGood
<1> QED  BY <1>2, <1>5 DEF M, next

LEMMA DispatchKeeps ==
    ASSUME IInv, NEW now \in CurTimes, dispatch_info_i(now)
    PROVE  IInv'
<1> DEFINE M == queue.max_size
<1>1. Good(queue', M) /\ LimboIds(queue', M) = LimboIds(queue, M)
  BY DispatchStep DEF Dispatched
<1>2. cancelling' = cancelling /\ schedules' = schedules /\ schedules \in 0..MaxSchedules
  BY DEF dispatch_info_i, IInv
<1> QED  BY <1>1, <1>2, Kept

LEMMA InitEstablishes == Init => IInv
<1> SUFFICES ASSUME Init PROVE IInv
  OBVIOUS
<1> DEFINE M == InitialSize
           h == [i \in 0 .. M - 1 |-> NoNode]
           ids == [i \in 0 .. M - 1 |-> -1]
<1>1. /\ queue = [max_size |-> M, cur_size |-> 0, cur_limbo |-> 0, heap |-> h,
                  timer_ids |-> ids, timer_ids_curr |-> 0, timer_ids_min_free |-> 0]
      /\ cancelling = <<>> /\ schedules = 0
  BY DEF Init
<1>2. /\ M \in Nat /\ M >= 2 /\ 0 \in 0..M /\ 0 \in 0..M - 1 /\ -1 \in Int /\ 0 < M
      /\ 0..0 - 1 = {} /\ 1..0 - 1 = {} /\ 0 + 0 + 2 <= M
  BY SizeAssumption, SMT
<1>3. /\ h \in [0..M - 1 -> NodesOf(M) \cup {NoNode}] /\ ids \in [0..M - 1 -> Int]
      /\ \A id \in 0..M - 1 : ids[id] = -1
  BY <1>2
<1> HIDE DEF h, ids, M
<1>4. /\ queue.max_size = M /\ queue.cur_size = 0 /\ queue.cur_limbo = 0
      /\ queue.timer_ids = ids /\ queue.timer_ids_curr = 0 /\ queue.timer_ids_min_free = 0
  BY <1>1
<1>5. queue \in HeapOf(M)
  BY <1>1, <1>2, <1>3 DEF HeapOf
<1>6. -1 < 0 /\ -1 # Limbo /\ ~(-1 >= 0)
  BY SMT DEF Limbo
<1>7. Exact(queue, M) /\ Ordered(queue, 0)
  BY <1>2, <1>3, <1>4, <1>6 DEF Exact, ExactBut, Ordered
<1>8. LimboIds(queue, M) = {}
  BY <1>3, <1>4, <1>6 DEF LimboIds
<1>9. Cardinality(LimboIds(queue, M)) = 0
  BY <1>8, FS_EmptySet
<1>10. Known(queue, M)
  <2>1. is_free(queue, 0)
    BY <1>2, <1>3, <1>4, <1>6 DEF is_free
  <2>2. \A id \in 0..M - 1 : ~(id < 0)
    BY <1>2, SMT
  <2>3. Forgotten(queue, M) = {}
    BY <1>4, <2>2 DEF Forgotten, FreeIds
  <2>4. 0 <= 0
    BY SMT
  <2> QED  BY <1>4, <2>1, <2>3, <2>4 DEF Known, AtMostOne
<1>11. Good(queue, M)
  BY <1>2, <1>4, <1>5, <1>7, <1>9, <1>10 DEF Good
<1>12. QueueOf(cancelling, {}) /\ Len(cancelling) = 0
  <2>1. <<>> \in Seq({}) /\ Len(<<>>) = 0
    BY SMT
  <2>2. 1..0 = {}
    BY SMT
  <2> QED  BY <1>1, <2>1, <2>2 DEF QueueOf
<1>13. schedules \in 0..MaxSchedules
  BY <1>1, TimeAssumption, SMT
<1> QED  BY <1>4, <1>8, <1>11, <1>12, <1>13 DEF IInv

LEMMA NextKeeps == IInv /\ [Next]_vars => IInv'
<1> SUFFICES ASSUME IInv, [Next]_vars PROVE IInv'
  OBVIOUS
<1>1. CASE schedule_i
  BY <1>1, ScheduleKeeps
<1>2. CASE \E id \in DOMAIN queue.timer_ids : cancel(id) \/ reset_interval(id)
  BY <1>2, CancelKeeps, ResetKeeps
<1>3. CASE cancel_returns
  BY <1>3, ReturnKeeps
<1>4. CASE \E type \in Types : cancel_type(type)
  BY <1>4, CancelTypeKeeps
<1>5. CASE \E now \in CurTimes : dispatch_info_i(now)
  BY <1>5, DispatchKeeps
<1>6. CASE close
  BY <1>6, CloseKeeps
<1>7. CASE UNCHANGED vars
  BY <1>7 DEF vars, IInv
<1> QED  BY <1>1, <1>2, <1>3, <1>4, <1>5, <1>6, <1>7 DEF Next

(* And holds of every behaviour.                                           *)
THEOREM InvHolds == Spec => []IInv
BY InitEstablishes, NextKeeps, PTL DEF Spec

LEMMA Views ==
    ASSUME IInv, NEW M, M = queue.max_size
    PROVE  /\ Nodes = NodesIn(queue, queue.cur_size)
           /\ InLimbo = LimboIds(queue, M)
           /\ DOMAIN queue.timer_ids = 0..M - 1
           /\ Slots(queue) = 0..queue.cur_size - 1
<1>1. queue.timer_ids \in [0..M - 1 -> Int]
  BY GoodTypes DEF IInv
<1> QED  BY <1>1 DEF Nodes, NodesIn, InLimbo, LimboIds, Slots

(* The heap and timer_ids_ are as large as one another, and every slot and *)
(* id that the queue keeps is within both, however often it grew.          *)
THEOREM TypeCorrect == Spec => []TypeOK
<1>1. IInv => TypeOK
  <2> SUFFICES ASSUME IInv PROVE TypeOK
    OBVIOUS
  <2> DEFINE M == queue.max_size
  <2>1. Good(queue, M) /\ QueueOf(cancelling, LimboIds(queue, M)) /\ schedules \in 0..MaxSchedules
    BY DEF IInv
  <2> HIDE DEF M
  <2>2. cancelling \in Seq(0..M - 1)
    <3>1. cancelling \in Seq(LimboIds(queue, M)) /\ LimboIds(queue, M) \subseteq 0..M - 1
      BY <2>1 DEF QueueOf, LimboIds
    <3> QED  BY <3>1, SeqMonotonic
  <2> QED  BY <2>1, <2>2 DEF Good, TypeOK, M
<1> QED  BY <1>1, InvHolds, PTL

(* An id is in use exactly when the heap has its timer in the slot that    *)
(* timer_ids_ says or its cancellation is being told, after any sequence   *)
(* of insertions, removals, growths and nested cancellations.              *)
THEOREM IdsAreExact == Spec => []IdsExact
<1>1. IInv => IdsExact
  <2> SUFFICES ASSUME IInv PROVE IdsExact
    OBVIOUS
  <2> DEFINE M == queue.max_size
  <2>1. Good(queue, M) /\ QueueOf(cancelling, LimboIds(queue, M)) /\ Len(cancelling) = queue.cur_limbo
    BY DEF IInv
  <2>2. /\ InLimbo = LimboIds(queue, M) /\ DOMAIN queue.timer_ids = 0..M - 1
        /\ Slots(queue) = 0..queue.cur_size - 1
    BY Views
  <2> HIDE DEF M
  <2>3. /\ \A slot \in Slots(queue) : queue.timer_ids[queue.heap[slot].id] = slot
        /\ \A id \in DOMAIN queue.timer_ids :
               queue.timer_ids[id] >= 0 =>
                   /\ queue.timer_ids[id] \in Slots(queue)
                   /\ queue.heap[queue.timer_ids[id]].id = id
    BY <2>1, <2>2 DEF Good, Exact, ExactBut
  <2>4. InLimbo = {cancelling[i] : i \in DOMAIN cancelling}
    <3>1. cancelling \in Seq(LimboIds(queue, M))
      BY <2>1 DEF QueueOf
    <3>2. DOMAIN cancelling = 1..Len(cancelling)
      BY <3>1, SMT
    <3>3. \A i \in 1..Len(cancelling) : cancelling[i] \in LimboIds(queue, M)
      BY <3>1, ElementOfSeq
    <3> QED  BY <2>1, <2>2, <3>2, <3>3 DEF QueueOf
  <2> QED  BY <2>1, <2>3, <2>4 DEF IdsExact
<1> QED  BY <1>1, InvHolds, PTL

(* schedule never refuses and always finds a free id, although free ids    *)
(* are forgotten when the heap grows: of the two that are always free, at  *)
(* most one is forgotten.                                                  *)
THEOREM ThereIsAlwaysRoom == Spec => []AlwaysRoom
<1>1. IInv => AlwaysRoom
  <2> SUFFICES ASSUME IInv PROVE AlwaysRoom
    OBVIOUS
  <2> DEFINE M == queue.max_size
             n == queue.cur_size
             L == queue.cur_limbo
  <2>1. Good(queue, M)
    BY DEF IInv
  <2>2. n \in Nat /\ L \in Nat /\ M \in Nat /\ n + L + 2 <= M
    BY <2>1, GoodTypes DEF Good
  <2> HIDE DEF M, n, L
  <2>3. n + L < M
    BY <2>2, SMT
  <2>4. ahead(queue) # {} \/ ( /\ queue.timer_ids_min_free < M
                               /\ is_free(queue, queue.timer_ids_min_free))
    BY <2>1, FreeIsFound
  <2> QED  BY <2>3, <2>4 DEF AlwaysRoom, M, n, L
<1> QED  BY <1>1, InvHolds, PTL

(* No timer is behind a later one, wherever one was taken out and however  *)
(* the one that fills its place moved.                                     *)
THEOREM HeapIsOrdered == Spec => []HeapOrder
<1>1. IInv => HeapOrder
  <2> SUFFICES ASSUME IInv, NEW slot \in Slots(queue)
               PROVE  queue.heap[parent(slot)].time <= queue.heap[slot].time
    BY DEF HeapOrder
  <2> DEFINE n == queue.cur_size
  <2>1. Good(queue, queue.max_size) /\ n \in Nat
    BY GoodTypes DEF IInv
  <2>2. slot \in 0..n - 1
    BY DEF Slots
  <2>3. CASE slot = 0
    <3>1. queue.heap[0].time \in Int
      BY <2>1, <2>2, <2>3 DEF Good, Exact, ExactBut, NodesOf
    <3>2. queue.heap[0].time <= queue.heap[0].time
      BY <3>1, SMT
    <3> QED  BY <2>3, <3>2, ParentFacts
  <2>4. CASE slot # 0
    <3>1. slot \in 1..n - 1
      <4> HIDE DEF n
      <4> QED  BY <2>1, <2>2, <2>4, SMT
    <3> QED  BY <2>1, <3>1 DEF Good, Ordered
  <2> QED  BY <2>3, <2>4
<1> QED  BY <1>1, InvHolds, PTL

-----------------------------------------------------------------------------
(* The timer queue that the heap implements *)

LEMMA Division ==
    ASSUME NEW a \in Int, NEW i \in Nat, i # 0
    PROVE  /\ a % i \in 0..i - 1 /\ a \div i \in Int
           /\ a = i * (a \div i) + (a % i)
BY SMT

LEMMA Multiples ==
    ASSUME NEW i \in Nat, i # 0, NEW d \in Int
    PROVE  /\ d > 0 => i * d >= i
           /\ d < 0 => i * d <= -i
           /\ (i * d) % i = 0
<1>1. d > 0 => i * d >= i
  BY SMT
<1>2. d < 0 => i * d <= -i
  BY SMT
<1>3. (i * d) % i = 0
  BY SMT
<1> QED  BY <1>1, <1>2, <1>3

(* The computed time is the first multiple of the interval that is to come. *)
LEMMA NextIsFirst ==
    ASSUME NEW t, t.time \in Int, t.interval \in Nat, t.interval # 0, NEW now \in Int
    PROVE  recompute_next_abs_interval_time(t, now) = Queue!NextTime(t, now)
<1> DEFINE i == t.interval
           b == t.time
           k == (now - b) \div i
           r == (now - b) % i
           m == now + i - r
           S == {x \in now + 1 .. now + i : (x - b) % i = 0}
<1>1. i \in Nat /\ i # 0 /\ b \in Int /\ now - b \in Int
  BY SMT
<1>2. recompute_next_abs_interval_time(t, now) = m
  BY DEF recompute_next_abs_interval_time
<1>3. Queue!NextTime(t, now) = CHOOSE x \in S : \A y \in S : x <= y
  BY DEF Queue!NextTime, Queue!Min
<1> HIDE DEF i, b
<1>4. r \in 0..i - 1 /\ k \in Int /\ now - b = i * k + r
  <2> HIDE DEF k, r
  <2> DEFINE a == now - b
  <2>1. a \in Int
    BY <1>1
  <2> HIDE DEF a
  <2>2. /\ a % i \in 0..i - 1 /\ a \div i \in Int
        /\ a = i * (a \div i) + (a % i)
    BY <1>1, <2>1, Division
  <2> QED  BY <2>2 DEF a, k, r
<1> HIDE DEF k, r
<1>5. m \in now + 1 .. now + i /\ m - b = i * (k + 1)
  BY <1>1, <1>4, SMT
<1> HIDE DEF m
<1>6. m \in S
  <2>1. k + 1 \in Int
    BY <1>4, SMT
  <2> DEFINE e == k + 1
  <2> HIDE DEF e
  <2>2. e \in Int /\ m - b = i * e
    BY <1>5, <2>1 DEF e
  <2>3. (i * e) % i = 0
    BY <1>1, <2>2, Multiples
  <2> QED  BY <1>5, <2>2, <2>3
<1>7. ASSUME NEW x \in S
      PROVE  x = m
  <2>1. x \in now + 1 .. now + i /\ (x - b) % i = 0 /\ x \in Int /\ m \in Int
    BY <1>1, <1>5, SMT
  <2> DEFINE a == x - b
             j == a \div i
             d == j - (k + 1)
  <2>2. a \in Int /\ a % i = 0
    BY <1>1, <2>1, SMT
  <2> HIDE DEF a
  <2>3. j \in Int /\ a = i * j + 0
    BY <1>1, <2>2, Division
  <2> HIDE DEF j
  <2>4. d \in Int /\ x - m = i * d
    BY <1>1, <1>4, <1>5, <2>1, <2>3, SMT DEF a
  <2>5. x - m < i /\ x - m > -i
    BY <1>1, <1>5, <2>1, SMT
  <2> HIDE DEF d
  <2>6. ~(d > 0) /\ ~(d < 0)
    <3>1. /\ d > 0 => i * d >= i
          /\ d < 0 => i * d <= -i
      BY <1>1, <2>4, Multiples
    <3> DEFINE g == i * d
    <3>2. g = x - m
      BY <2>4
    <3> HIDE DEF g
    <3>3. (d > 0 => g >= i) /\ (d < 0 => g <= -i)
      BY <3>1 DEF g
    <3> QED  BY <1>1, <2>1, <2>5, <3>2, <3>3, SMT
  <2>7. d = 0
    BY <2>4, <2>6, SMT
  <2> QED  BY <1>1, <2>1, <2>4, <2>7, SMT
<1> HIDE DEF S
<1>8. \A y \in S : m <= y
  <2>1. m \in Int
    BY <1>1, <1>5, SMT
  <2>2. m <= m
    BY <2>1, SMT
  <2> QED  BY <1>7, <2>2
<1>9. (CHOOSE x \in S : \A y \in S : x <= y) = m
  BY <1>6, <1>7, <1>8, Zenon
<1> QED  BY <1>2, <1>3, <1>9 DEF m, i

LEMMA RootIsFirst ==
    ASSUME NEW M, NEW q, Good(q, M)
    PROVE  \A s \in 0..q.cur_size - 1 : q.heap[0].time <= q.heap[s].time
<1> DEFINE n == q.cur_size
           K == {k \in Nat : \A s \in 0..n - 1 : s <= k => q.heap[0].time <= q.heap[s].time}
<1>1. n \in Nat /\ \A s \in 0..n - 1 : q.heap[s].time \in Int
  BY GoodTypes DEF Good, Exact, ExactBut, NodesOf
<1>2. \A i \in 1..n - 1 : q.heap[parent(i)].time <= q.heap[i].time
  BY DEF Good, Ordered
<1> HIDE DEF n
<1>3. 0 \in K
  <2> SUFFICES ASSUME NEW s \in 0..n - 1, s <= 0
               PROVE  q.heap[0].time <= q.heap[s].time
    OBVIOUS
  <2>1. s = 0
    BY <1>1, SMT
  <2>2. q.heap[0].time \in Int
    BY <1>1, <2>1
  <2> QED  BY <2>1, <2>2, SMT
<1>4. ASSUME NEW k \in Nat, k \in K
      PROVE  k + 1 \in K
  <2> SUFFICES ASSUME NEW s \in 0..n - 1, s <= k + 1
               PROVE  q.heap[0].time <= q.heap[s].time
    BY SMT
  <2>1. CASE s <= k
    BY <1>4, <2>1
  <2>2. CASE ~(s <= k)
    <3>1. s \in Nat \ {0} /\ s \in 1..n - 1 /\ 0 \in 0..n - 1
      BY <1>1, <2>2, SMT
    <3>2. parent(s) \in Nat /\ parent(s) < s
      BY <3>1, ParentFacts
    <3>3. parent(s) \in 0..n - 1 /\ parent(s) <= k
      BY <1>1, <3>1, <3>2, SMT
    <3>4. q.heap[0].time <= q.heap[parent(s)].time
      BY <1>4, <3>3
    <3>5. q.heap[parent(s)].time <= q.heap[s].time
      BY <1>2, <3>1
    <3>6. q.heap[0].time \in Int /\ q.heap[parent(s)].time \in Int /\ q.heap[s].time \in Int
      BY <1>1, <3>1, <3>3
    <3> QED  BY <3>4, <3>5, <3>6, SMT
  <2> QED  BY <2>1, <2>2
<1> HIDE DEF K
<1>5. \A k \in Nat : k \in K
  BY <1>3, <1>4, SetInduction
<1>6. ASSUME NEW s \in 0..n - 1
      PROVE  q.heap[0].time <= q.heap[s].time
  <2>1. s \in Nat /\ s <= s
    BY <1>1, SMT
  <2> QED  BY <1>5, <2>1 DEF K
<1> QED  BY <1>6 DEF n

(* What a client sees of a good queue. *)
ViewOf(q, nodes, limbo) ==
    /\ nodes = NodesIn(q, q.cur_size)
    /\ limbo = LimboIds(q, q.max_size)

LEMMA ViewIs ==
    ASSUME NEW q, Good(q, q.max_size)
    PROVE  ViewOf(q, {q.heap[slot] : slot \in Slots(q)},
                  {id \in DOMAIN q.timer_ids : q.timer_ids[id] = Limbo})
<1>1. q.timer_ids \in [0..q.max_size - 1 -> Int]
  BY GoodTypes
<1> QED  BY <1>1 DEF ViewOf, NodesIn, LimboIds, Slots

LEMMA Seen ==
    ASSUME IInv, IInv'
    PROVE  ViewOf(queue, Nodes, InLimbo) /\ ViewOf(queue', Nodes', InLimbo')
<1>1. Good(queue, queue.max_size) /\ Good(queue', queue'.max_size)
  BY DEF IInv
<1>2. ViewOf(queue, Nodes, InLimbo)
  BY <1>1, ViewIs DEF Nodes, InLimbo
<1>3. ViewOf(queue', Nodes', InLimbo')
  BY <1>1, ViewIs DEF Nodes, InLimbo
<1> QED  BY <1>2, <1>3

LEMMA ScheduleImplements ==
    ASSUME IInv, IInv', schedule_i
    PROVE  Queue!Schedule
<1> DEFINE M == queue.max_size
           n == queue.cur_size
           q == pop_freelist(queue)
<1>1. Good(queue, M) /\ ViewOf(queue, Nodes, InLimbo) /\ ViewOf(queue', Nodes', InLimbo')
  BY Seen DEF IInv
<1>2. PICK r \in Requests :
          queue' = insert(q, [id |-> q.timer_ids_curr, type |-> r.type,
                              time |-> r.time, interval |-> r.interval])
  BY DEF schedule_i
<1> DEFINE node == [id |-> q.timer_ids_curr, type |-> r.type,
                    time |-> r.time, interval |-> r.interval]
<1> HIDE DEF M, n
<1>3. node \in NodesOf(M) /\ node.id = q.timer_ids_curr
  <2>1. Popped(queue, q, M)
    BY <1>1, PopFacts
  <2> HIDE DEF q
  <2>2. q.timer_ids_curr \in 0..M - 1
    BY <2>1 DEF Popped, FreeIds
  <2>3. r.time \in Int /\ r.interval \in Nat /\ r.type \in Types
    BY TimeAssumption DEF Types
  <2> QED  BY <2>2, <2>3 DEF NodesOf
<1> HIDE DEF node
<1>4. queue' = insert(q, node)
  BY <1>2 DEF node
<1>5. PICK M2 : /\ Good(queue', M2)
                /\ NodesIn(queue', n + 1) = NodesIn(queue, n) \cup {node}
                /\ queue'.cur_size = n + 1
                /\ LimboIds(queue', M2) = LimboIds(queue, M)
                /\ node.id \in FreeIds(queue, M)
  <2> HIDE DEF q
  <2>1. q = pop_freelist(queue)
    BY DEF q
  <2> QED  BY <1>1, <1>3, <1>4, <2>1, ScheduleGood DEF n
<1>6. queue'.max_size = M2
  BY <1>5, GoodTypes
<1>7. Nodes' = Nodes \cup {node} /\ InLimbo' = InLimbo
  BY <1>1, <1>5, <1>6 DEF ViewOf, M, n
<1>8. node.id \notin Queue!Ids \cup InLimbo
  <2>1. is_free(queue, node.id)
    BY <1>5 DEF FreeIds
  <2>2. node.id \notin InLimbo
    BY <2>1 DEF InLimbo, is_free
  <2>3. ASSUME NEW t \in Nodes, t.id = node.id PROVE FALSE
    <3>1. PICK i \in 0..n - 1 : t = queue.heap[i]
      BY <1>1 DEF ViewOf, NodesIn, n
    <3>2. queue.timer_ids[t.id] = i
      BY <1>1, <3>1 DEF Good, Exact, ExactBut, n
    <3>3. n \in Nat
      BY <1>1, GoodTypes DEF n
    <3>4. ~(i < 0)
      BY <3>3, SMT
    <3> QED  BY <2>1, <2>3, <3>2, <3>4 DEF is_free
  <2> QED  BY <2>2, <2>3 DEF Queue!Ids
<1>9. node \in Nodes'
  BY <1>7
<1> QED  BY <1>7, <1>8, <1>9 DEF Queue!Schedule

LEMMA CancelImplements ==
    ASSUME IInv, IInv', NEW id \in DOMAIN queue.timer_ids, cancel(id)
    PROVE  Queue!Cancel
<1> DEFINE M == queue.max_size
           slot == queue.timer_ids[id]
           t == queue.heap[slot]
<1>1. Good(queue, M) /\ ViewOf(queue, Nodes, InLimbo) /\ ViewOf(queue', Nodes', InLimbo')
  BY Seen DEF IInv
<1>2. found(id) /\ queue' = remove(queue, slot)
  BY DEF cancel
<1>3. slot \in 0..queue.cur_size - 1
  BY <1>2, TimersFound
<1> HIDE DEF M, slot
<1>4. /\ Good(queue', M) /\ Removed(queue, queue', M, t)
      /\ LimboIds(queue', M) = LimboIds(queue, M) \cup {t.id}
  BY <1>1, <1>2, <1>3, RemoveGood
<1>5. t \in NodesIn(queue, queue.cur_size)
  BY <1>3 DEF NodesIn
<1> HIDE DEF t
<1>6. queue'.max_size = M
  BY <1>4, GoodTypes
<1>7. t \in Nodes /\ Nodes' = Nodes \ {t} /\ InLimbo' = InLimbo \cup {t.id}
  BY <1>1, <1>4, <1>5, <1>6 DEF ViewOf, M, Removed
<1> QED  BY <1>7 DEF Queue!Cancel

LEMMA ReturnImplements ==
    ASSUME IInv, IInv', cancel_returns
    PROVE  Queue!Cancelled
<1> DEFINE M == queue.max_size
           id == cancelling[Len(cancelling)]
<1>1. Good(queue, M) /\ ViewOf(queue, Nodes, InLimbo) /\ ViewOf(queue', Nodes', InLimbo')
      /\ QueueOf(cancelling, LimboIds(queue, M))
  BY Seen DEF IInv
<1>2. cancelling # <<>> /\ queue' = push_freelist(queue, id)
  BY DEF cancel_returns
<1> HIDE DEF M
<1>3. id \in LimboIds(queue, M)
  BY <1>1, <1>2, LastReturns
<1> HIDE DEF id
<1>4. /\ Good(queue', M) /\ SameTimers(queue, queue')
      /\ LimboIds(queue', M) = LimboIds(queue, M) \ {id}
  BY <1>1, <1>2, <1>3, PushGood
<1>5. queue'.max_size = M
  BY <1>4, GoodTypes
<1>6. Nodes' = Nodes /\ id \in InLimbo /\ InLimbo' = InLimbo \ {id}
  BY <1>1, <1>3, <1>4, <1>5 DEF ViewOf, M, SameTimers, NodesIn
<1> QED  BY <1>6 DEF Queue!Cancelled

LEMMA CancelTypeImplements ==
    ASSUME IInv, IInv', NEW type, cancel_type(type)
    PROVE  Queue!CancelType
<1> DEFINE M == queue.max_size
<1>1. Good(queue, M) /\ ViewOf(queue, Nodes, InLimbo) /\ ViewOf(queue', Nodes', InLimbo')
  BY Seen DEF IInv
<1>2. queue' = without(queue, type) /\ of_type(queue, type) # {}
  BY DEF cancel_type
<1> HIDE DEF M
<1>3. /\ Good(queue', M) /\ LimboIds(queue', M) = LimboIds(queue, M)
      /\ NodesIn(queue', queue'.cur_size)
           = {x \in NodesIn(queue, queue.cur_size) : x.type # type}
  BY <1>1, <1>2, WithoutGood
<1>4. queue'.max_size = M
  BY <1>3, GoodTypes
<1>5. Nodes' = {t \in Nodes : t.type # type} /\ InLimbo' = InLimbo
  BY <1>1, <1>3, <1>4 DEF ViewOf, M
<1>6. type \in {t.type : t \in Nodes}
  <2>1. PICK s \in 0..queue.cur_size - 1 : queue.heap[s].type = type
    BY <1>2 DEF of_type, Slots
  <2> QED  BY <1>1, <2>1 DEF ViewOf, NodesIn
<1> QED  BY <1>5, <1>6 DEF Queue!CancelType

LEMMA CloseImplements ==
    ASSUME IInv, IInv', close
    PROVE  Queue!CancelAll
<1> DEFINE M == queue.max_size
<1>1. Good(queue, M) /\ ViewOf(queue, Nodes, InLimbo) /\ ViewOf(queue', Nodes', InLimbo')
  BY Seen DEF IInv
<1>2. queue' = emptied(queue)
  BY DEF close
<1> HIDE DEF M
<1>3. /\ Good(queue', M) /\ LimboIds(queue', M) = LimboIds(queue, M)
      /\ queue'.cur_size = 0
  BY <1>1, <1>2, EmptiedGood
<1>4. queue'.max_size = M
  BY <1>3, GoodTypes
<1>5. Nodes' = {} /\ InLimbo' = InLimbo
  <2>1. 0..0 - 1 = {}
    BY SMT
  <2> QED  BY <1>1, <1>3, <1>4, <2>1 DEF ViewOf, M, NodesIn
<1> QED  BY <1>5 DEF Queue!CancelAll

LEMMA ResetImplements ==
    ASSUME IInv, IInv', NEW id \in DOMAIN queue.timer_ids, reset_interval(id)
    PROVE  Queue!ResetInterval
<1> DEFINE M == queue.max_size
           s == queue.timer_ids[id]
           t == queue.heap[s]
<1>1. Good(queue, M) /\ ViewOf(queue, Nodes, InLimbo) /\ ViewOf(queue', Nodes', InLimbo')
  BY Seen DEF IInv
<1>2. PICK i \in Intervals : queue' = [queue EXCEPT !.heap[s].interval = i]
  BY DEF reset_interval
<1>3. s \in 0..queue.cur_size - 1
  BY TimersFound DEF reset_interval
<1>4. i \in Nat
  BY TimeAssumption
<1> HIDE DEF M, s
<1>5. /\ Good(queue', M) /\ queue'.cur_size = queue.cur_size
      /\ LimboIds(queue', M) = LimboIds(queue, M)
      /\ NodesIn(queue', queue.cur_size)
           = (NodesIn(queue, queue.cur_size) \ {t}) \cup {[t EXCEPT !.interval = i]}
  BY <1>1, <1>2, <1>3, <1>4, ResetGood, SMTT(30)
<1>6. t \in NodesIn(queue, queue.cur_size)
  BY <1>3 DEF NodesIn
<1> HIDE DEF t
<1>7. queue'.max_size = M
  BY <1>5, GoodTypes
<1>8. /\ t \in Nodes /\ Nodes' = (Nodes \ {t}) \cup {[t EXCEPT !.interval = i]}
      /\ InLimbo' = InLimbo
  BY <1>1, <1>5, <1>6, <1>7 DEF ViewOf, M
<1> QED  BY <1>8 DEF Queue!ResetInterval

LEMMA DispatchImplements ==
    ASSUME IInv, IInv', NEW now \in CurTimes, dispatch_info_i(now)
    PROVE  Queue!Dispatch
<1> DEFINE M == queue.max_size
           t == queue.heap[0]
           next == recompute_next_abs_interval_time(t, now)
<1>1. Good(queue, M) /\ ViewOf(queue, Nodes, InLimbo) /\ ViewOf(queue', Nodes', InLimbo')
  BY Seen DEF IInv
<1>2. Dispatched(queue, queue', M, next) /\ t \in NodesOf(M)
  BY DispatchStep
<1>3. queue.cur_size > 0 /\ t.time <= now /\ now \in Int
  BY TimeAssumption DEF dispatch_info_i
<1> HIDE DEF M
<1>4. /\ t \in NodesIn(queue, queue.cur_size)
      /\ \A u \in NodesIn(queue, queue.cur_size) : t.time <= u.time
  <2>1. queue.cur_size \in Nat
    BY <1>1, GoodTypes
  <2>2. 0 \in 0..queue.cur_size - 1
    BY <1>3, <2>1, SMT
  <2> QED  BY <1>1, <2>2, RootIsFirst DEF NodesIn
<1> HIDE DEF next
<1>5. /\ Good(queue', M) /\ LimboIds(queue', M) = LimboIds(queue, M)
      /\ NodesIn(queue', queue'.cur_size) =
           (NodesIn(queue, queue.cur_size) \ {t}) \cup
           IF t.interval = 0 THEN {} ELSE {[t EXCEPT !.time = next]}
  BY <1>2 DEF Dispatched
<1> HIDE DEF t
<1>6. t.interval # 0 => next = Queue!NextTime(t, now)
  <2>1. t.time \in Int /\ t.interval \in Nat
    BY <1>2 DEF NodesOf
  <2> QED  BY <1>3, <2>1, NextIsFirst DEF next
<1>7. queue'.max_size = M
  BY <1>5, GoodTypes
<1>8. Nodes' = (Nodes \ {t}) \cup
               IF t.interval = 0 THEN {} ELSE {[t EXCEPT !.time = Queue!NextTime(t, now)]}
  <2>1. Nodes' = (Nodes \ {t}) \cup IF t.interval = 0 THEN {} ELSE {[t EXCEPT !.time = next]}
    BY <1>1, <1>5 DEF ViewOf
  <2> QED  BY <1>6, <2>1
<1>9. t \in Nodes /\ (\A u \in Nodes : t.time <= u.time) /\ InLimbo' = InLimbo
  BY <1>1, <1>4, <1>5, <1>7 DEF ViewOf, M
<1> QED  BY <1>3, <1>8, <1>9 DEF Queue!Dispatch

LEMMA StepImplements ==
    ASSUME IInv, IInv', [Next]_vars
    PROVE  [Queue!TQNext]_(Queue!tvars)
<1>1. CASE schedule_i
  BY <1>1, ScheduleImplements DEF Queue!TQNext
<1>2. CASE \E id \in DOMAIN queue.timer_ids : cancel(id) \/ reset_interval(id)
  BY <1>2, CancelImplements, ResetImplements DEF Queue!TQNext
<1>3. CASE cancel_returns
  BY <1>3, ReturnImplements DEF Queue!TQNext
<1>4. CASE \E type \in Types : cancel_type(type)
  BY <1>4, CancelTypeImplements DEF Queue!TQNext
<1>5. CASE \E now \in CurTimes : dispatch_info_i(now)
  BY <1>5, DispatchImplements DEF Queue!TQNext
<1>6. CASE close
  BY <1>6, CloseImplements DEF Queue!TQNext
<1>7. CASE UNCHANGED vars
  BY <1>7 DEF vars, Queue!tvars, Nodes, InLimbo, Slots
<1> QED  BY <1>1, <1>2, <1>3, <1>4, <1>5, <1>6, <1>7 DEF Next

(* The heap, whatever is scheduled, cancelled and dispatched, is a timer   *)
(* queue: no timer is lost or kept when others are cancelled, and the      *)
(* first one is dispatched and, periodic, put in at its next time.         *)
THEOREM HeapImplementsTimerQueue == Spec => ImplementsTimerQueue
<1>1. Init => Queue!TQInit
  <2> SUFFICES ASSUME Init PROVE Queue!TQInit
    OBVIOUS
  <2>1. /\ queue.cur_size = 0 /\ queue.timer_ids = [i \in 0 .. InitialSize - 1 |-> -1]
    BY DEF Init
  <2>2. 0..0 - 1 = {} /\ -1 # Limbo
    BY SMT DEF Limbo
  <2>3. Nodes = {} /\ InLimbo = {}
    BY <2>1, <2>2 DEF Nodes, InLimbo, Slots
  <2> QED  BY <2>3 DEF Queue!TQInit
<1>2. IInv /\ IInv' /\ [Next]_vars => [Queue!TQNext]_(Queue!tvars)
  BY StepImplements
<1> QED  BY InvHolds, <1>1, <1>2, PTL DEF Spec, ImplementsTimerQueue, Queue!TQSpec

=============================================================================
