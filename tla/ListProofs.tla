----------------------------- MODULE ListProofs -----------------------------
(***************************************************************************)
(* What linking and unlinking a node does to an intrusive list, such as    *)
(* ACE_Token_Queue or the follower set of TAO_Leader_Follower, whose nodes *)
(* belong to threads and are in it once.                                   *)
(***************************************************************************)
EXTENDS Integers, Sequences, SequencesExt, SequenceTheorems, WellFoundedInduction, TLAPS

(* The list holds the nodes of the threads in S, each once.                *)
QueueOf(q, S) ==
    /\ q \in Seq(S)
    /\ \A t \in S : \E i \in 1..Len(q) : q[i] = t
    /\ \A i, j \in 1..Len(q) : q[i] = q[j] => i = j

(* A node is linked at the end.                                            *)
LEMMA LinkLast ==
    ASSUME NEW S, NEW q, QueueOf(q, S), NEW t, t \notin S
    PROVE  /\ QueueOf(Append(q, t), S \cup {t})
           /\ Len(Append(q, t)) = Len(q) + 1
<1> DEFINE r == Append(q, t)
           n == Len(q)
<1>1. /\ q \in Seq(S) /\ q \in Seq(S \cup {t}) /\ n \in Nat
      /\ \A i \in 1..n : q[i] \in S /\ q[i] # t
  BY ElementOfSeq, SMT DEF QueueOf
<1>2. /\ r \in Seq(S \cup {t})
      /\ Len(r) = n + 1
      /\ \A i \in 1..(n + 1) : r[i] = IF i = n + 1 THEN t ELSE q[i]
  BY <1>1, SMT
<1>3. \A u \in S : \E i \in 1..n : q[i] = u
  BY DEF QueueOf
<1>4. \A i, j \in 1..n : q[i] = q[j] => i = j
  BY DEF QueueOf
<1> HIDE DEF r, n
<1>5. \A i, j \in 1..(n + 1) : r[i] = r[j] => i = j
  BY <1>1, <1>2, <1>4, SMT
<1>6. \A u \in S \cup {t} : \E i \in 1..(n + 1) : r[i] = u
  <2>1. r[n + 1] = t /\ n + 1 \in 1..(n + 1)
    BY <1>1, <1>2, SMT
  <2>2. \A i \in 1..n : i \in 1..(n + 1) /\ r[i] = q[i]
    BY <1>1, <1>2, SMT
  <2> QED  BY <1>3, <2>1, <2>2, SMT
<1> QED  BY <1>2, <1>5, <1>6 DEF QueueOf, r, n

(* A node is unlinked wherever it is; the others stay in their order.      *)
LEMMA UnlinkAt ==
    ASSUME NEW S, NEW q, QueueOf(q, S), NEW k \in 1..Len(q)
    PROVE  /\ QueueOf(RemoveAt(q, k), S \ {q[k]})
           /\ Len(RemoveAt(q, k)) = Len(q) - 1
           /\ \A i \in 1..(Len(q) - 1) :
                  RemoveAt(q, k)[i] = IF i < k THEN q[i] ELSE q[i + 1]
<1> DEFINE t == q[k]
           r == RemoveAt(q, k)
           n == Len(q)
<1>1. /\ q \in Seq(S) /\ n \in Nat
      /\ \A i \in 1..n : q[i] \in S
      /\ DOMAIN q = 1..n
  BY ElementOfSeq, SMT DEF QueueOf
<1>2. \A u \in S : \E i \in 1..n : q[i] = u
  BY DEF QueueOf
<1>3. \A i, j \in 1..n : q[i] = q[j] => i = j
  BY DEF QueueOf
<1>4. k \in 1..n /\ q[k] = t
  OBVIOUS
<1>5. r = SubSeq(q, 1, k - 1) \o SubSeq(q, k + 1, n)
  BY DEF RemoveAt
<1> HIDE DEF t, r, n
<1>6. /\ Len(r) = n - 1
      /\ r \in Seq(S)
      /\ \A i \in 1..(n - 1) : r[i] = IF i < k THEN q[i] ELSE q[i + 1]
  <2> DEFINE a == SubSeq(q, 1, k - 1)
             b == SubSeq(q, k + 1, n)
  <2>1. /\ a \in Seq(S) /\ Len(a) = k - 1
        /\ \A i \in 1..(k - 1) : a[i] = q[i]
    BY <1>1, <1>4, SMT
  <2>2. /\ b \in Seq(S) /\ Len(b) = n - k
        /\ \A i \in 1..(n - k) : b[i] = q[k + i]
    <3>1. /\ k + 1 \in Int /\ n \in Int /\ k \in Int
          /\ \A i \in (k + 1)..n : q[i] \in S
      BY <1>1, <1>4, SMT
    <3>2. /\ SubSeq(q, k + 1, n) \in Seq(S)
          /\ Len(SubSeq(q, k + 1, n)) = IF k + 1 <= n THEN n - (k + 1) + 1 ELSE 0
          /\ \A i \in 1..(n - (k + 1) + 1) :
                SubSeq(q, k + 1, n)[i] = q[k + 1 + i - 1]
      BY <3>1, SubSeqProperties
    <3>3. /\ n - (k + 1) + 1 = n - k
          /\ \A i \in 1..(n - k) : k + 1 + i - 1 = k + i
          /\ k + 1 > n => n - k = 0
      BY <1>1, <1>4, SMT
    <3>4. b \in Seq(S)
      BY <3>2
    <3>5. Len(b) = n - k
      BY <3>1, <3>2, <3>3, SMT
    <3> QED  BY <3>2, <3>3, <3>4, <3>5
  <2> HIDE DEF a, b
  <2>3. /\ a \o b \in Seq(S)
        /\ Len(a \o b) = Len(a) + Len(b)
        /\ \A i \in 1..(Len(a) + Len(b)) :
              (a \o b)[i] = IF i <= Len(a) THEN a[i] ELSE b[i - Len(a)]
    BY <2>1, <2>2, ConcatProperties
  <2>4. r = a \o b
    BY <1>5 DEF a, b
  <2>5. /\ r \in Seq(S)
        /\ Len(r) = n - 1
        /\ \A i \in 1..(n - 1) : r[i] = IF i <= k - 1 THEN a[i] ELSE b[i - (k - 1)]
    BY <1>1, <1>4, <2>1, <2>2, <2>3, <2>4, SMT
  <2>6. \A i \in 1..(n - 1) : i > k - 1 => b[i - (k - 1)] = q[i + 1]
    <3>1. TAKE i \in 1..(n - 1)
    <3>2. HAVE i > k - 1
    <3>3. i - (k - 1) \in 1..(n - k) /\ k + (i - (k - 1)) = i + 1
      BY <1>1, <1>4, <3>2, SMT
    <3> QED  BY <2>2, <3>3
  <2>7. \A i \in 1..(n - 1) : r[i] = IF i < k THEN q[i] ELSE q[i + 1]
    <3>1. TAKE i \in 1..(n - 1)
    <3>2. CASE i < k
      <4>1. i \in 1..(k - 1) /\ i <= k - 1
        BY <1>1, <1>4, <3>2, SMT
      <4> QED  BY <2>1, <2>5, <3>2, <4>1
    <3>3. CASE ~(i < k)
      <4>1. ~(i <= k - 1) /\ i > k - 1
        BY <1>1, <1>4, <3>3, SMT
      <4> QED  BY <2>5, <2>6, <3>3, <4>1
    <3> QED  BY <3>2, <3>3
  <2> QED  BY <2>5, <2>7
<1>7. \A i \in 1..(n - 1) : r[i] \in S \ {t}
  BY <1>1, <1>3, <1>4, <1>6, SMT
<1>8. r \in Seq(S \ {t})
  BY <1>6, <1>7, SMT
<1>9. \A i, j \in 1..(n - 1) : r[i] = r[j] => i = j
  BY <1>1, <1>3, <1>4, <1>6, SMT
<1>10. \A u \in S \ {t} : \E i \in 1..(n - 1) : r[i] = u
  <2>1. TAKE u \in S \ {t}
  <2>2. PICK i \in 1..n : q[i] = u
    BY <1>2
  <2>3. CASE i < k
    <3>1. i \in 1..(n - 1) /\ r[i] = u
      BY <1>1, <1>4, <1>6, <2>2, <2>3, SMT
    <3> QED  BY <3>1
  <2>4. CASE i > k
    <3>1. i - 1 \in 1..(n - 1) /\ r[i - 1] = u
      BY <1>1, <1>4, <1>6, <2>2, <2>4, SMT
    <3> QED  BY <3>1
  <2>5. i # k
    BY <1>4, <2>2
  <2> QED  BY <1>1, <1>4, <2>3, <2>4, <2>5, SMT
<1> QED  BY <1>6, <1>8, <1>9, <1>10 DEF QueueOf, r, n, t
-----------------------------------------------------------------------------
(* Induction, for the lists and loops that have no fixed length.  A set    *)
(* takes the place of the predicate, so that the rule can be cited.        *)

(* A set of naturals has a least element.                                  *)
LEMMA LeastExists ==
    ASSUME NEW S \in SUBSET Nat, S # {}
    PROVE  \E x \in S : \A y \in S : x <= y
<1> DEFINE R == OpToRel(<, Nat)
<1>1. \E x \in S : \A y \in S : ~(<<y, x>> \in R)
  BY NatLessThanWellFounded, WFMin
<1>2. \A x, y \in Nat : y < x => <<y, x>> \in R
  BY DEF OpToRel
<1> HIDE DEF R
<1>3. PICK x \in S : \A y \in S : ~(<<y, x>> \in R)
  BY <1>1
<1>4. \A y \in S : ~(y < x)
  BY <1>2, <1>3
<1>5. \A y \in S : x <= y
  BY <1>4, SMT
<1> QED  BY <1>5

(* A set that has 0, and with a number the next, has them all.             *)
LEMMA SetInduction ==
    ASSUME NEW S, 0 \in S, \A k \in Nat : k \in S => k + 1 \in S
    PROVE  \A k \in Nat : k \in S
<1> DEFINE Out == Nat \ S
<1> SUFFICES ASSUME Out # {} PROVE FALSE
  OBVIOUS
<1>1. PICK m \in Out : \A y \in Out : m <= y
  BY LeastExists
<1>2. m \in Nat \ {0} /\ m - 1 \in Nat
  BY <1>1, SMT
<1>3. m - 1 \in S
  <2>1. ~(m <= m - 1)
    BY <1>2, SMT
  <2> QED  BY <1>1, <1>2, <2>1
<1>4. (m - 1) + 1 = m
  BY <1>2, SMT
<1> QED  BY <1>1, <1>2, <1>3, <1>4

(* The sums of the first weights exist.                                    *)
SumsOf(f, w, n) ==
    /\ f \in [0..n -> Nat]
    /\ f[0] = 0
    /\ \A i \in 1..n : f[i] = f[i - 1] + w[i]

LEMMA SumsExist ==
    ASSUME NEW n \in Nat, NEW w \in [1..n -> Nat]
    PROVE  \E f : SumsOf(f, w, n)
<1> DEFINE S == {k \in Nat : k <= n => \E f : SumsOf(f, w, k)}
<1>1. 0 \in S
  <2> DEFINE f == [i \in 0..0 |-> 0]
  <2>1. SumsOf(f, w, 0)
    BY SMT DEF SumsOf
  <2> HIDE DEF f
  <2> QED  BY <2>1
<1>2. ASSUME NEW k \in Nat, k \in S
      PROVE  k + 1 \in S
  <2> SUFFICES ASSUME k + 1 <= n
               PROVE  \E f : SumsOf(f, w, k + 1)
    OBVIOUS
  <2>1. PICK f : SumsOf(f, w, k)
    BY <1>2, SMT
  <2> DEFINE g == [i \in 0..(k + 1) |-> IF i <= k THEN f[i] ELSE f[k] + w[k + 1]]
  <2>2. /\ k \in 0..k /\ f[k] \in Nat /\ w[k + 1] \in Nat
        /\ \A i \in 0..(k + 1) : i <= k => f[i] \in Nat
    BY <2>1, SMT DEF SumsOf
  <2>3. g \in [0..(k + 1) -> Nat]
    BY <2>2, SMT
  <2>4. g[0] = 0
    BY <2>1, SMT DEF SumsOf
  <2>5. ASSUME NEW i \in 1..(k + 1)
        PROVE  g[i] = g[i - 1] + w[i]
    <3>1. i - 1 \in 0..k /\ g[i - 1] = f[i - 1]
      BY SMT
    <3>2. CASE i <= k
      <4>1. i \in 1..k /\ g[i] = f[i]
        BY <3>2, SMT
      <4> QED  BY <2>1, <3>1, <4>1 DEF SumsOf
    <3>3. CASE ~(i <= k)
      <4>1. i = k + 1 /\ i - 1 = k /\ g[i] = f[k] + w[k + 1]
        BY <3>3, SMT
      <4> QED  BY <3>1, <4>1
    <3> QED  BY <3>2, <3>3
  <2> HIDE DEF g
  <2>6. SumsOf(g, w, k + 1)
    BY <2>3, <2>4, <2>5 DEF SumsOf
  <2> QED  BY <2>6
<1> HIDE DEF S
<1>3. n \in S
  BY <1>1, <1>2, SetInduction
<1> QED  BY <1>3, SMT DEF S

(* And there is only one list of them.                                     *)
LEMMA SumsAreUnique ==
    ASSUME NEW n \in Nat, NEW w, NEW f, NEW g, SumsOf(f, w, n), SumsOf(g, w, n)
    PROVE  f = g
<1> DEFINE S == {k \in Nat : k <= n => f[k] = g[k]}
<1>1. 0 \in S
  BY DEF SumsOf
<1>2. ASSUME NEW k \in Nat, k \in S
      PROVE  k + 1 \in S
  <2> SUFFICES ASSUME k + 1 <= n PROVE f[k + 1] = g[k + 1]
    OBVIOUS
  <2>1. k + 1 \in 1..n /\ (k + 1) - 1 = k /\ f[k] = g[k]
    BY <1>2, SMT
  <2> QED  BY <2>1 DEF SumsOf
<1> HIDE DEF S
<1>3. \A k \in Nat : k \in S
  BY <1>1, <1>2, SetInduction
<1>4. \A k \in 0..n : f[k] = g[k]
  BY <1>3, SMT DEF S
<1> QED  BY <1>4 DEF SumsOf

-----------------------------------------------------------------------------
(* Loops.  What the first rounds of a loop leave is a function of the      *)
(* number of rounds; F[k] is round k, and I[k] what holds before it.       *)

Rounds(f, n, a, S, F) ==
    /\ f \in [0..n -> S]
    /\ f[0] = a
    /\ \A k \in 0..(n - 1) : f[k + 1] = F[k][f[k]]

LEMMA RoundsExist ==
    ASSUME NEW S, NEW a \in S, NEW F \in [Nat -> [S -> S]], NEW n \in Nat
    PROVE  \E f : Rounds(f, n, a, S, F)
<1> DEFINE N == {k \in Nat : \E f : Rounds(f, k, a, S, F)}
<1>1. 0 \in N
  <2> DEFINE f == [k \in 0..0 |-> a]
  <2>1. Rounds(f, 0, a, S, F)
    BY SMT DEF Rounds
  <2> HIDE DEF f
  <2> QED  BY <2>1
<1>2. ASSUME NEW k \in Nat, k \in N
      PROVE  k + 1 \in N
  <2>1. PICK f : Rounds(f, k, a, S, F)
    BY <1>2
  <2> DEFINE g == [i \in 0..(k + 1) |-> IF i <= k THEN f[i] ELSE F[k][f[k]]]
  <2>2. /\ f[k] \in S /\ F[k][f[k]] \in S
        /\ \A i \in 0..(k + 1) : i <= k => f[i] \in S
    BY <2>1, SMT DEF Rounds
  <2>3. g \in [0..(k + 1) -> S]
    BY <2>2, SMT
  <2>4. g[0] = a
    BY <2>1, SMT DEF Rounds
  <2>5. ASSUME NEW i \in 0..((k + 1) - 1)
        PROVE  g[i + 1] = F[i][g[i]]
    <3>1. i \in 0..k /\ g[i] = f[i]
      BY SMT
    <3>2. CASE i < k
      <4>1. i \in 0..(k - 1) /\ g[i + 1] = f[i + 1]
        BY <3>2, SMT
      <4> QED  BY <2>1, <3>1, <4>1 DEF Rounds
    <3>3. CASE ~(i < k)
      <4>1. i = k /\ g[i + 1] = F[k][f[k]]
        BY <3>3, SMT
      <4> QED  BY <3>1, <4>1
    <3> QED  BY <3>2, <3>3
  <2> HIDE DEF g
  <2>6. Rounds(g, k + 1, a, S, F)
    BY <2>3, <2>4, <2>5 DEF Rounds
  <2> QED  BY <2>6
<1> HIDE DEF N
<1>3. n \in N
  BY <1>1, <1>2, SetInduction
<1> QED  BY <1>3 DEF N

LEMMA RoundsAreUnique ==
    ASSUME NEW S, NEW a, NEW F, NEW m \in Nat, NEW n \in Nat, NEW f, NEW g,
           Rounds(f, m, a, S, F), Rounds(g, n, a, S, F)
    PROVE  \A k \in Nat : k <= m /\ k <= n => f[k] = g[k]
<1> DEFINE N == {k \in Nat : k <= m /\ k <= n => f[k] = g[k]}
<1>1. 0 \in N
  BY DEF Rounds
<1>2. ASSUME NEW k \in Nat, k \in N
      PROVE  k + 1 \in N
  <2> SUFFICES ASSUME k + 1 <= m, k + 1 <= n PROVE f[k + 1] = g[k + 1]
    OBVIOUS
  <2>1. k \in 0..(m - 1) /\ k \in 0..(n - 1) /\ f[k] = g[k]
    BY <1>2, SMT
  <2> QED  BY <2>1 DEF Rounds
<1> HIDE DEF N
<1>3. \A k \in Nat : k \in N
  BY <1>1, <1>2, SetInduction
<1> QED  BY <1>3 DEF N

(* A loop that keeps to I can be run for any number of rounds.             *)
Loop(S, I, a, F) ==
    /\ I \in [Nat -> SUBSET S]
    /\ a \in I[0]
    /\ F \in [Nat -> [S -> S]]
    /\ \A k \in Nat : \A s \in I[k] : F[k][s] \in I[k + 1]

Runs(f, S, I, a, F) ==
    /\ f \in [Nat -> S]
    /\ f[0] = a
    /\ \A k \in Nat : f[k] \in I[k] /\ f[k + 1] = F[k][f[k]]

LEMMA LoopRuns ==
    ASSUME NEW S, NEW I, NEW a, NEW F, Loop(S, I, a, F)
    PROVE  \E f : Runs(f, S, I, a, F)
<1>1. a \in S /\ F \in [Nat -> [S -> S]] /\ a \in I[0]
      /\ \A k \in Nat : \A s \in I[k] : F[k][s] \in I[k + 1]
  BY DEF Loop
<1> DEFINE upto(n) == CHOOSE g : Rounds(g, n, a, S, F)
           f == [n \in Nat |-> upto(n)[n]]
<1>2. \A n \in Nat : Rounds(upto(n), n, a, S, F)
  BY <1>1, RoundsExist
<1> HIDE DEF upto
<1>3. f \in [Nat -> S]
  <2>1. \A n \in Nat : upto(n) \in [0..n -> S] /\ n \in 0..n
    BY <1>2, SMT DEF Rounds
  <2>2. \A n \in Nat : upto(n)[n] \in S
    BY <2>1
  <2> QED  BY <2>2
<1>4. f[0] = a
  <2>1. upto(0)[0] = a
    BY <1>2 DEF Rounds
  <2> QED  BY <2>1
<1>5. ASSUME NEW k \in Nat
      PROVE  f[k + 1] = F[k][f[k]]
  <2>1. Rounds(upto(k), k, a, S, F) /\ Rounds(upto(k + 1), k + 1, a, S, F)
    BY <1>2
  <2>2. upto(k)[k] = upto(k + 1)[k]
    <3>1. k <= k /\ k <= k + 1 /\ k + 1 \in Nat
      BY SMT
    <3> QED  BY <2>1, <3>1, RoundsAreUnique
  <2>3. upto(k + 1)[k + 1] = F[k][upto(k + 1)[k]]
    <3>1. k \in 0..((k + 1) - 1)
      BY SMT
    <3> QED  BY <2>1, <3>1 DEF Rounds
  <2>4. f[k] = upto(k)[k] /\ f[k + 1] = upto(k + 1)[k + 1]
    OBVIOUS
  <2> QED  BY <2>2, <2>3, <2>4
<1> HIDE DEF f
<1> DEFINE N == {k \in Nat : f[k] \in I[k]}
<1>6. \A k \in Nat : k \in N
  <2>1. 0 \in N
    BY <1>1, <1>4
  <2>2. \A k \in Nat : k \in N => k + 1 \in N
    BY <1>1, <1>5
  <2> HIDE DEF N
  <2> QED  BY <2>1, <2>2, SetInduction
<1>7. \A k \in Nat : f[k] \in I[k]
  BY <1>6
<1>8. Runs(f, S, I, a, F)
  BY <1>3, <1>4, <1>5, <1>7 DEF Runs
<1> QED  BY <1>8

=============================================================================
