------------------------ MODULE LeaderFollowerProofs ------------------------
(***************************************************************************)
(* The safety invariants of LeaderFollower, for any number of threads and  *)
(* any depth of nested calls.                                              *)
(***************************************************************************)
EXTENDS LeaderFollower, ListProofs, FiniteSetTheorems

-----------------------------------------------------------------------------
(* The counters of a thread and its stack of calls.  A call of             *)
(* wait_for_event that leads has raised client_leader_thread_ and a call   *)
(* of run in its event loop event_loop_thread_, unless set_upcall_thread   *)
(* has taken that back, from whatever call it was.                         *)

Leading(c) ==
    /\ c.call = "wait"
    /\ c.at \in {"leading", "polling", "handling", "upcall", "polled", "led"}

Running(c) == c.call = "run" /\ c.at \in {"polling", "handling", "upcall", "polled"}

Neutral(c) == ~Leading(c) /\ ~Running(c)

(* e[k] and c[k] are what the first k of n calls account for; the call m   *)
(* adds to them what it may.                                               *)
Level(m, k, e, c) ==
    /\ Running(m) => e[k] = e[k - 1] \/ e[k] = e[k - 1] + 1
    /\ ~Running(m) => e[k] = e[k - 1]
    /\ Leading(m) =>
          \/ c[k] = c[k - 1] + 1
          \/ c[k] = 0 /\ c[k - 1] = 0 /\ e[k] = 0
    /\ ~Leading(m) => c[k] = c[k - 1]

Levels(s, n, el, cl, e, c) ==
    /\ e \in [Nat -> Nat] /\ c \in [Nat -> Nat]
    /\ e[0] = 0 /\ c[0] = 0
    /\ e[n] = el /\ c[n] = cl
    /\ \A k \in 0..n : e[k] <= el
    /\ \A k \in 1..n : Level(s[k], k, e, c)

Accounted(s, n, el, cl) == \E e, c : Levels(s, n, el, cl, e, c)

(* Calls that neither lead nor run come and go without a trace.            *)
LEMMA PushAccounted ==
    ASSUME NEW s, NEW n \in Nat, NEW el, NEW cl, Accounted(s, n, el, cl),
           NEW z, \A k \in 1..n : z[k] = s[k], Neutral(z[n + 1])
    PROVE  Accounted(z, n + 1, el, cl)
<1>1. PICK e, c : Levels(s, n, el, cl, e, c)
  BY DEF Accounted
<1>2. /\ e \in [Nat -> Nat] /\ c \in [Nat -> Nat] /\ e[0] = 0 /\ c[0] = 0
      /\ e[n] = el /\ c[n] = cl /\ el \in Nat /\ cl \in Nat
      /\ \A k \in 0..n : e[k] <= el
      /\ \A k \in 1..n : Level(s[k], k, e, c)
  BY <1>1, SMT DEF Levels
<1> DEFINE e1 == [e EXCEPT ![n + 1] = el]
           c1 == [c EXCEPT ![n + 1] = cl]
<1>3. /\ e1 \in [Nat -> Nat] /\ c1 \in [Nat -> Nat] /\ e1[0] = 0 /\ c1[0] = 0
      /\ e1[n + 1] = el /\ c1[n + 1] = cl
      /\ \A k \in 0..n : e1[k] = e[k] /\ c1[k] = c[k]
  BY <1>2, SMT
<1> HIDE DEF e1, c1
<1>4. \A k \in 0..(n + 1) : e1[k] <= el
  BY <1>2, <1>3, SMT
<1>5. ASSUME NEW k \in 1..(n + 1) PROVE Level(z[k], k, e1, c1)
  <2>1. CASE k \in 1..n
    <3>1. k \in 0..n /\ k - 1 \in 0..n
      BY <2>1, SMT
    <3> QED  BY <1>2, <1>3, <2>1, <3>1 DEF Level
  <2>2. CASE k = n + 1
    <3>1. k - 1 = n /\ n \in 0..n
      BY <2>2, SMT
    <3>2. e1[k] = e1[k - 1] /\ c1[k] = c1[k - 1]
      BY <1>2, <1>3, <2>2, <3>1
    <3> QED  BY <2>2, <3>2 DEF Level, Neutral
  <2> QED  BY <2>1, <2>2, SMT
<1>6. Levels(z, n + 1, el, cl, e1, c1)
  BY <1>3, <1>4, <1>5 DEF Levels
<1> QED  BY <1>6 DEF Accounted

(* A call that neither leads nor runs returns.                             *)
LEMMA PopAccounted ==
    ASSUME NEW s, NEW n \in Nat \ {0}, NEW el, NEW cl, Accounted(s, n, el, cl),
           Neutral(s[n]),
           NEW z, \A k \in 1..(n - 1) : z[k] = s[k]
    PROVE  Accounted(z, n - 1, el, cl)
<1>1. PICK e, c : Levels(s, n, el, cl, e, c)
  BY DEF Accounted
<1>2. /\ 1..(n - 1) \subseteq 1..n /\ 0..(n - 1) \subseteq 0..n /\ n \in 1..n
  BY SMT
<1>3. e[n - 1] = e[n] /\ c[n - 1] = c[n]
  BY <1>1, <1>2 DEF Levels, Level, Neutral
<1>4. Levels(z, n - 1, el, cl, e, c)
  BY <1>1, <1>2, <1>3 DEF Levels
<1> QED  BY <1>4 DEF Accounted

(* A thread that goes on in the same calls.                                *)
LEMMA SameAccounted ==
    ASSUME NEW s, NEW n \in Nat, NEW el, NEW cl, Accounted(s, n, el, cl),
           NEW z,
           \A k \in 1..n : /\ Leading(z[k]) <=> Leading(s[k])
                           /\ Running(z[k]) <=> Running(s[k])
    PROVE  Accounted(z, n, el, cl)
<1>1. PICK e, c : Levels(s, n, el, cl, e, c)
  BY DEF Accounted
<1>2. \A k \in 1..n : Level(z[k], k, e, c)
  BY <1>1 DEF Levels, Level
<1>3. Levels(z, n, el, cl, e, c)
  BY <1>1, <1>2 DEF Levels
<1> QED  BY <1>3 DEF Accounted

(* The last call begins to lead, or to run the event loop.                 *)
LEMMA LeadAccounted ==
    ASSUME NEW s, NEW n \in Nat \ {0}, NEW el, NEW cl, Accounted(s, n, el, cl),
           Neutral(s[n]),
           NEW z, \A k \in 1..(n - 1) : z[k] = s[k],
           Leading(z[n])
    PROVE  Accounted(z, n, el, cl + 1)
<1>1. PICK e, c : Levels(s, n, el, cl, e, c)
  BY DEF Accounted
<1>2. /\ e \in [Nat -> Nat] /\ c \in [Nat -> Nat] /\ e[0] = 0 /\ c[0] = 0
      /\ e[n] = el /\ c[n] = cl /\ el \in Nat /\ cl \in Nat
      /\ \A k \in 0..n : e[k] <= el
      /\ \A k \in 1..n : Level(s[k], k, e, c)
  BY <1>1, SMT DEF Levels
<1> DEFINE c1 == [c EXCEPT ![n] = cl + 1]
<1>3. /\ c1 \in [Nat -> Nat] /\ c1[0] = 0 /\ c1[n] = cl + 1
      /\ \A k \in 0..(n - 1) : c1[k] = c[k]
  BY <1>2, SMT
<1> HIDE DEF c1
<1>4. n \in 1..n /\ n - 1 \in 0..(n - 1)
  BY SMT
<1>5. e[n] = e[n - 1] /\ c[n] = c[n - 1]
  BY <1>2, <1>4 DEF Level, Neutral
<1>6. ASSUME NEW k \in 1..n PROVE Level(z[k], k, e, c1)
  <2>1. CASE k \in 1..(n - 1)
    <3>1. k \in 0..(n - 1) /\ k - 1 \in 0..(n - 1) /\ k \in 1..n
      BY <2>1, SMT
    <3> QED  BY <1>2, <1>3, <2>1, <3>1 DEF Level
  <2>2. CASE k = n
    <3>1. c1[n] = c1[n - 1] + 1
      BY <1>2, <1>3, <1>4, <1>5
    <3>2. ~Running(z[n])
      BY DEF Leading, Running
    <3> QED  BY <1>5, <2>2, <3>1, <3>2 DEF Level
  <2> QED  BY <2>1, <2>2, SMT
<1>7. Levels(z, n, el, cl + 1, e, c1)
  BY <1>2, <1>3, <1>6 DEF Levels
<1> QED  BY <1>7 DEF Accounted

(* The last call begins to run the event loop.                             *)
LEMMA RunAccounted ==
    ASSUME NEW s, NEW n \in Nat \ {0}, NEW el, NEW cl, Accounted(s, n, el, cl),
           Neutral(s[n]),
           NEW z, \A k \in 1..(n - 1) : z[k] = s[k],
           Running(z[n])
    PROVE  Accounted(z, n, el + 1, cl)
<1>1. PICK e, c : Levels(s, n, el, cl, e, c)
  BY DEF Accounted
<1>2. /\ e \in [Nat -> Nat] /\ c \in [Nat -> Nat] /\ e[0] = 0 /\ c[0] = 0
      /\ e[n] = el /\ c[n] = cl /\ el \in Nat /\ cl \in Nat
      /\ \A k \in 0..n : e[k] <= el
      /\ \A k \in 1..n : Level(s[k], k, e, c)
  BY <1>1, SMT DEF Levels
<1> DEFINE e1 == [e EXCEPT ![n] = el + 1]
<1>3. /\ e1 \in [Nat -> Nat] /\ e1[0] = 0 /\ e1[n] = el + 1
      /\ \A k \in 0..(n - 1) : e1[k] = e[k]
  BY <1>2, SMT
<1> HIDE DEF e1
<1>4. n \in 1..n /\ n - 1 \in 0..(n - 1)
  BY SMT
<1>5. e[n] = e[n - 1] /\ c[n] = c[n - 1]
  BY <1>2, <1>4 DEF Level, Neutral
<1>6. ASSUME NEW k \in 1..n PROVE Level(z[k], k, e1, c)
  <2>1. CASE k \in 1..(n - 1)
    <3>1. k \in 0..(n - 1) /\ k - 1 \in 0..(n - 1) /\ k \in 1..n
      BY <2>1, SMT
    <3> QED  BY <1>2, <1>3, <2>1, <3>1 DEF Level
  <2>2. CASE k = n
    <3>1. e1[n] = e1[n - 1] + 1
      BY <1>2, <1>3, <1>4, <1>5
    <3>2. ~Leading(z[n])
      BY DEF Leading, Running
    <3> QED  BY <1>5, <2>2, <3>1, <3>2 DEF Level
  <2> QED  BY <2>1, <2>2, SMT
<1>7. ASSUME NEW k \in 0..n PROVE e1[k] <= el + 1
  <2>1. k = n \/ (k \in 0..(n - 1) /\ e1[k] = e[k] /\ e[k] \in Nat /\ e[k] <= el)
    BY <1>2, <1>3, SMT
  <2> QED  BY <1>2, <1>3, <2>1, SMT
<1>8. Levels(z, n, el + 1, cl, e1, c)
  BY <1>2, <1>3, <1>6, <1>7 DEF Levels
<1> QED  BY <1>8 DEF Accounted

(* The last call ends to lead.  If set_upcall_thread has taken its         *)
(* leadership back, it has no event loop below it either.                  *)
LEMMA UnleadAccounted ==
    ASSUME NEW s, NEW n \in Nat \ {0}, NEW el, NEW cl, Accounted(s, n, el, cl),
           Leading(s[n]),
           NEW z, \A k \in 1..(n - 1) : z[k] = s[k],
           Neutral(z[n])
    PROVE  /\ cl = 0 => el = 0 /\ Accounted(z, n, el, cl)
           /\ cl > 0 => Accounted(z, n, el, cl - 1)
<1>1. PICK e, c : Levels(s, n, el, cl, e, c)
  BY DEF Accounted
<1>2. /\ e \in [Nat -> Nat] /\ c \in [Nat -> Nat] /\ e[0] = 0 /\ c[0] = 0
      /\ e[n] = el /\ c[n] = cl /\ el \in Nat /\ cl \in Nat
      /\ \A k \in 0..n : e[k] <= el
      /\ \A k \in 1..n : Level(s[k], k, e, c)
  BY <1>1, SMT DEF Levels
<1>3. n \in 1..n /\ n - 1 \in 0..(n - 1) /\ n - 1 \in Nat
  BY SMT
<1>4. /\ e[n] = e[n - 1]
      /\ c[n] = c[n - 1] + 1 \/ (c[n] = 0 /\ c[n - 1] = 0 /\ e[n] = 0)
  <2>1. Level(s[n], n, e, c)
    BY <1>2, <1>3
  <2>2. ~Running(s[n])
    BY DEF Leading, Running
  <2>3. e[n] = e[n - 1]
    BY <2>1, <2>2 DEF Level
  <2>4. c[n] = c[n - 1] + 1 \/ (c[n] = 0 /\ c[n - 1] = 0 /\ e[n] = 0)
    BY <2>1 DEF Level
  <2> QED  BY <2>3, <2>4
<1> DEFINE c1 == [c EXCEPT ![n] = c[n - 1]]
<1>5. /\ c1 \in [Nat -> Nat] /\ c1[0] = 0 /\ c1[n] = c[n - 1]
      /\ \A k \in 0..(n - 1) : c1[k] = c[k]
  BY <1>2, <1>3, SMT
<1> HIDE DEF c1
<1>6. ASSUME NEW k \in 1..n PROVE Level(z[k], k, e, c1)
  <2>1. CASE k \in 1..(n - 1)
    <3>1. k \in 0..(n - 1) /\ k - 1 \in 0..(n - 1) /\ k \in 1..n
      BY <2>1, SMT
    <3> QED  BY <1>2, <1>5, <2>1, <3>1 DEF Level
  <2>2. CASE k = n
    BY <1>3, <1>4, <1>5, <2>2 DEF Level, Neutral
  <2> QED  BY <2>1, <2>2, SMT
<1>7. Levels(z, n, el, c[n - 1], e, c1)
  BY <1>2, <1>5, <1>6 DEF Levels
<1>8. Accounted(z, n, el, c[n - 1])
  BY <1>7 DEF Accounted
<1>9. /\ cl = 0 => el = 0 /\ c[n - 1] = cl
      /\ cl > 0 => c[n - 1] = cl - 1
  BY <1>2, <1>3, <1>4, SMT
<1> QED  BY <1>8, <1>9

(* set_upcall_thread gives the event loop up, or the end of the event loop *)
(* itself: the counter goes down whichever call it was raised for.         *)
LEMMA LeaveAccounted ==
    ASSUME NEW s, NEW n \in Nat, NEW el, NEW cl, Accounted(s, n, el, cl), el > 0,
           NEW z,
           \A k \in 1..n :
              \/ (Leading(z[k]) <=> Leading(s[k])) /\ (Running(z[k]) <=> Running(s[k]))
              \/ k = n /\ Running(s[n]) /\ Neutral(z[n])
    PROVE  Accounted(z, n, el - 1, cl)
<1>1. PICK e, c : Levels(s, n, el, cl, e, c)
  BY DEF Accounted
<1>2. /\ e \in [Nat -> Nat] /\ c \in [Nat -> Nat] /\ e[0] = 0 /\ c[0] = 0
      /\ e[n] = el /\ c[n] = cl /\ el \in Nat /\ cl \in Nat
      /\ \A k \in 0..n : e[k] <= el
      /\ \A k \in 1..n : Level(s[k], k, e, c)
  BY <1>1, SMT DEF Levels
<1> DEFINE e1 == [k \in Nat |-> IF e[k] < el THEN e[k] ELSE el - 1]
<1>3. /\ e1 \in [Nat -> Nat] /\ e1[0] = 0 /\ e1[n] = el - 1
      /\ \A k \in 0..n : e1[k] <= el - 1
      /\ \A k \in Nat : e1[k] = IF e[k] < el THEN e[k] ELSE el - 1
  BY <1>2, SMT
<1> HIDE DEF e1
<1>4. ASSUME NEW k \in 1..n PROVE Level(z[k], k, e1, c)
  <2>1. Level(s[k], k, e, c)
    BY <1>2
  <2>2. /\ k \in 0..n /\ k - 1 \in 0..n /\ k \in Nat /\ k - 1 \in Nat
        /\ e[k] <= el /\ e[k - 1] <= el /\ e[k] \in Nat /\ e[k - 1] \in Nat
    BY <1>2, SMT
  <2>3. /\ e[k] = e[k - 1] => e1[k] = e1[k - 1]
        /\ e[k] = e[k - 1] + 1 => e1[k] = e1[k - 1] \/ e1[k] = e1[k - 1] + 1
        /\ e[k] = 0 => e1[k] = 0
    BY <1>2, <1>3, <2>2, SMT
  <2>4. CASE (Leading(z[k]) <=> Leading(s[k])) /\ (Running(z[k]) <=> Running(s[k]))
    BY <2>1, <2>3, <2>4 DEF Level
  <2>5. CASE k = n /\ Running(s[n]) /\ Neutral(z[n])
    <3>1. e1[k] = e1[k - 1]
      <4>1. e[k] = e[k - 1] \/ e[k] = e[k - 1] + 1
        BY <2>1, <2>5 DEF Level
      <4> QED  BY <1>2, <1>3, <2>2, <2>5, <4>1, SMT
    <3>2. c[k] = c[k - 1]
      <4>1. ~Leading(s[k])
        BY <2>5 DEF Leading, Running
      <4> QED  BY <2>1, <4>1 DEF Level
    <3> QED  BY <2>5, <3>1, <3>2 DEF Level, Neutral
  <2> QED  BY <2>4, <2>5
<1>5. Levels(z, n, el - 1, cl, e1, c)
  BY <1>2, <1>3, <1>4 DEF Levels
<1> QED  BY <1>5 DEF Accounted

(* The event loop ends after all has been given up.                        *)
LEMMA LeftAccounted ==
    ASSUME NEW s, NEW n \in Nat \ {0}, NEW cl, Accounted(s, n, 0, cl), Running(s[n]),
           NEW z, \A k \in 1..(n - 1) : z[k] = s[k], Neutral(z[n])
    PROVE  Accounted(z, n, 0, cl)
<1>1. PICK e, c : Levels(s, n, 0, cl, e, c)
  BY DEF Accounted
<1>2. /\ e \in [Nat -> Nat] /\ e[n] = 0
      /\ \A k \in 0..n : e[k] <= 0
      /\ \A k \in 1..n : Level(s[k], k, e, c)
  BY <1>1, SMT DEF Levels
<1>3. n \in 1..n /\ n - 1 \in 0..n /\ n - 1 \in Nat
  BY SMT
<1>4. e[n - 1] = 0
  BY <1>2, <1>3, SMT
<1>5. ASSUME NEW k \in 1..n PROVE Level(z[k], k, e, c)
  <2>1. CASE k \in 1..(n - 1)
    BY <1>2, <2>1
  <2>2. CASE k = n
    <3>1. ~Leading(s[n])
      BY DEF Leading, Running
    <3> QED  BY <1>2, <1>3, <1>4, <2>2, <3>1 DEF Level, Neutral
  <2> QED  BY <2>1, <2>2, SMT
<1>6. Levels(z, n, 0, cl, e, c)
  BY <1>1, <1>5 DEF Levels
<1> QED  BY <1>6 DEF Accounted

(* set_upcall_thread gives the one leadership of a client up.              *)
LEMMA GiveUpAccounted ==
    ASSUME NEW s, NEW n \in Nat, Accounted(s, n, 0, 1)
    PROVE  Accounted(s, n, 0, 0)
<1>1. PICK e, c : Levels(s, n, 0, 1, e, c)
  BY DEF Accounted
<1>2. /\ e \in [Nat -> Nat] /\ \A k \in 0..n : e[k] <= 0
      /\ \A k \in 1..n : Level(s[k], k, e, c)
  BY <1>1, SMT DEF Levels
<1> DEFINE c1 == [k \in Nat |-> 0]
<1>3. c1 \in [Nat -> Nat] /\ \A k \in Nat : c1[k] = 0
  BY SMT
<1> HIDE DEF c1
<1>4. ASSUME NEW k \in 1..n PROVE Level(s[k], k, e, c1)
  <2>1. k \in Nat /\ k - 1 \in Nat /\ k \in 0..n /\ k - 1 \in 0..n
    BY SMT
  <2>2. e[k] = 0 /\ e[k - 1] = 0
    BY <1>2, <2>1, SMT
  <2> QED  BY <1>3, <2>1, <2>2 DEF Level
<1>5. Levels(s, n, 0, 0, e, c1)
  BY <1>1, <1>3, <1>4 DEF Levels
<1> QED  BY <1>5 DEF Accounted

-----------------------------------------------------------------------------
(* The inductive invariant.                                                *)

Calls == WaitCall \cup RunCall

(* What is true of each thread by itself, of its stack s and counters r:   *)
(* only the last call is not in an upcall, and a thread that runs the      *)
(* reactor, or handles what it has just read, leads.                       *)
LeadsInReactor(x, r) ==
    /\ x.call = "wait" /\ x.at \in {"leading", "polling"} => r.client_leader_thread > 0
    /\ x.call = "run" /\ x.at = "polling" => r.event_loop_thread > 0
    /\ x.at = "handling" => leads(r)

ThreadOK(s, r) ==
    /\ s \in Seq(Calls)
    /\ r \in Tss
    /\ \A k \in 1..(Len(s) - 1) : s[k].at = "upcall"
    /\ Accounted(s, Len(s), r.event_loop_thread, r.client_leader_thread)
    /\ s # <<>> => LeadsInReactor(Last(s), r)

ThreadsOK == \A t \in Threads : ThreadOK(calls[t], tss[t])

(* The follower set is a list of the threads that sleep, each once.        *)
Sleepers == {t \in Threads : Asleep(t)}

(* A follower whose event is complete has been signalled.                  *)
CompletedIsWoken ==
    \A t \in Threads : At(t, "wait", "follower") /\ Call(t).event = "FINAL" => t \in woken

Inv ==
    /\ TypeOK
    /\ ThreadsOK
    /\ CountersExact
    /\ IsFiniteSet(ClientLevels)
    /\ FollowersExact
    /\ CompletedIsWoken

-----------------------------------------------------------------------------
(* The list of followers.                                                  *)

LEMMA FollowersAreAQueue ==
    ASSUME NEW q, NEW S, q \in Seq(Threads)
    PROVE  QueueOf(q, S) <=> IsInjective(q) /\ ToSet(q) = S
<1>1. DOMAIN q = 1..Len(q) /\ \A i \in 1..Len(q) : q[i] \in Threads
  BY ElementOfSeq, SMT
<1>2. ASSUME QueueOf(q, S) PROVE IsInjective(q) /\ ToSet(q) = S
  <2>1. \A i \in 1..Len(q) : q[i] \in S
    BY <1>2, ElementOfSeq, SMT DEF QueueOf
  <2> QED  BY <1>1, <1>2, <2>1 DEF QueueOf, IsInjective, ToSet
<1>3. ASSUME IsInjective(q), ToSet(q) = S PROVE QueueOf(q, S)
  <2>1. \A i \in 1..Len(q) : q[i] \in S
    BY <1>1, <1>3 DEF ToSet
  <2>2. q \in Seq(S)
    BY <1>1, <2>1, SMT
  <2> QED  BY <1>1, <1>3, <2>2 DEF QueueOf, IsInjective, ToSet
<1> QED  BY <1>2, <1>3

(* A follower is unlinked, if it is there.                                 *)
LEMMA RemoveFollower ==
    ASSUME NEW q, NEW S, QueueOf(q, S), NEW t
    PROVE  QueueOf(remove_follower(q, t), S \ {t})
<1>1. DOMAIN q = 1..Len(q) /\ \A i \in 1..Len(q) : q[i] \in S
  BY ElementOfSeq, SMT DEF QueueOf
<1>2. CASE t \in S
  <2> DEFINE k == CHOOSE i \in DOMAIN q : q[i] = t
  <2>1. k \in 1..Len(q) /\ q[k] = t
    BY <1>1, <1>2 DEF QueueOf
  <2>2. remove_follower(q, t) = RemoveAt(q, k)
    BY <1>1, <2>1 DEF remove_follower, ToSet
  <2> QED  BY <2>1, <2>2, UnlinkAt
<1>3. CASE t \notin S
  <2>1. remove_follower(q, t) = q
    BY <1>1, <1>3 DEF remove_follower, ToSet
  <2>2. S \ {t} = S
    BY <1>3
  <2> QED  BY <2>1, <2>2
<1> QED  BY <1>2, <1>3

(* An election takes out of the list whom it signals, the threads W.       *)
Elects(S, c, W) ==
    /\ elect_new_leader(c).woken = woken \cup W
    /\ QueueOf(elect_new_leader(c).set, S \ W)
    /\ W = {} \/ W = BlockedThreads \/ \E t \in S : W = {t}
    /\ c.leaders = 0 =>
          \/ c.event_loop_threads_waiting > 0 /\ W = BlockedThreads
          \/ W \cap S # {}
          \/ S = {}

(* There is always such a set of threads.                                  *)
LEMMA Election ==
    ASSUME NEW S, QueueOf(follower_set, S), S \cap BlockedThreads = {}, NEW c
    PROVE  \E W : Elects(S, c, W)
<1>1. CASE c.leaders = 0 /\ c.event_loop_threads_waiting > 0
  <2>1. S \ BlockedThreads = S
    OBVIOUS
  <2>2. elect_new_leader(c) = [set |-> follower_set, woken |-> woken \cup BlockedThreads]
    BY <1>1 DEF elect_new_leader
  <2>3. Elects(S, c, BlockedThreads)
    BY <1>1, <2>1, <2>2 DEF Elects
  <2> QED  BY <2>3
<1>2. CASE c.leaders = 0 /\ ~(c.event_loop_threads_waiting > 0) /\ follower_set # <<>>
  <2> DEFINE h == Head(follower_set)
  <2>1. /\ follower_set \in Seq(S) /\ Len(follower_set) \in Nat /\ 1 \in 1..Len(follower_set)
        /\ h = follower_set[1] /\ h \in S
        /\ Tail(follower_set) = RemoveAt(follower_set, 1)
    <3>1. follower_set \in Seq(S)
      BY DEF QueueOf
    <3>2. /\ Len(follower_set) \in Nat /\ 1 \in 1..Len(follower_set)
          /\ h = follower_set[1] /\ h \in S
      BY <1>2, <3>1, SMT
    <3>3. Tail(follower_set) = RemoveAt(follower_set, 1)
      <4>1. SubSeq(follower_set, 1, 0) = <<>>
        BY <3>1, SMT
      <4>2. SubSeq(follower_set, 2, Len(follower_set)) \in Seq(S)
        <5>1. 2 \in Int /\ Len(follower_set) \in Int /\ \A i \in 2..Len(follower_set) : follower_set[i] \in S
          BY <3>1, <3>2, SMT
        <5> QED  BY <5>1, SubSeqProperties
      <4>3. <<>> \o SubSeq(follower_set, 2, Len(follower_set)) =
               SubSeq(follower_set, 2, Len(follower_set))
        BY <4>2, ConcatEmptySeq
      <4>4. Tail(follower_set) = SubSeq(follower_set, 2, Len(follower_set))
        <5>1. follower_set # <<>>
          BY <1>2
        <5> QED  BY <3>1, <5>1, TailIsSubSeq, Zenon
      <4> QED  BY <4>1, <4>3, <4>4, SMT DEF RemoveAt
    <3> QED  BY <3>1, <3>2, <3>3
  <2>2. QueueOf(Tail(follower_set), S \ {h})
    <3>1. QueueOf(RemoveAt(follower_set, 1), S \ {follower_set[1]})
      BY <2>1, UnlinkAt
    <3> QED  BY <2>1, <3>1
  <2>3. elect_new_leader(c) = [set |-> Tail(follower_set), woken |-> woken \cup {h}]
    BY <1>2 DEF elect_new_leader
  <2>4. elect_new_leader(c).woken = woken \cup {h} /\ elect_new_leader(c).set = Tail(follower_set)
    BY <2>3
  <2>5. {h} \cap S # {}
    BY <2>1
  <2> HIDE DEF h
  <2>6. \E t \in S : {h} = {t}
    BY <2>1
  <2>7. QueueOf(elect_new_leader(c).set, S \ {h})
    BY <2>2, <2>4
  <2>8. Elects(S, c, {h})
    BY <1>2, <2>4, <2>5, <2>6, <2>7 DEF Elects
  <2> QED  BY <2>8
<1>3. CASE ~(c.leaders = 0) \/ (~(c.event_loop_threads_waiting > 0) /\ follower_set = <<>>)
  <2>1. elect_new_leader(c) = [set |-> follower_set, woken |-> woken]
    BY <1>3 DEF elect_new_leader
  <2>2. woken \cup {} = woken /\ S \ {} = S
    OBVIOUS
  <2>3. follower_set = <<>> => S = {}
    <3>1. follower_set = <<>> => Len(follower_set) = 0
      BY SMT
    <3> QED  BY <3>1, SMT DEF QueueOf
  <2>4. Elects(S, c, {})
    BY <1>3, <2>1, <2>2, <2>3 DEF Elects
  <2> QED  BY <2>4
<1> QED  BY <1>1, <1>2, <1>3

-----------------------------------------------------------------------------
(* One thread takes a step.                                                *)

One(b) == IF b THEN 1 ELSE 0

(* How the size of a set changes when one element comes or goes.           *)
LEMMA OneComesOrGoes ==
    ASSUME NEW S, NEW T, IsFiniteSet(S), NEW t, \A u : u # t => (u \in S <=> u \in T)
    PROVE  /\ IsFiniteSet(T)
           /\ Cardinality(S) \in Nat /\ Cardinality(T) \in Nat
           /\ Cardinality(T) = Cardinality(S) + One(t \in T) - One(t \in S)
<1>1. Cardinality(S) \in Nat
  BY FS_CardinalityType
<1>2. CASE t \in T
  <2>1. T = S \cup {t}
    BY <1>2
  <2>2. IsFiniteSet(T) /\ Cardinality(T) = IF t \in S THEN Cardinality(S) ELSE Cardinality(S) + 1
    BY <2>1, FS_AddElement
  <2> QED  BY <1>1, <1>2, <2>2, SMT DEF One
<1>3. CASE t \notin T
  <2>1. T = S \ {t}
    BY <1>3
  <2>2. IsFiniteSet(T) /\ Cardinality(T) = IF t \in S THEN Cardinality(S) - 1 ELSE Cardinality(S)
    BY <2>1, FS_RemoveElement
  <2>3. Cardinality(T) \in Nat
    BY <2>2, FS_CardinalityType
  <2> QED  BY <1>1, <1>3, <2>2, <2>3, SMT DEF One
<1> QED  BY <1>2, <1>3

(* Who is in charge of the reactor, and who is at the event loop's door,   *)
(* by the last call and the counters.                                      *)
Aside(x) == x.call = "wait" /\ x.at \in {"follower", "yielding"}
Waits(x) == x.call = "run" /\ x.at = "blocked"

Charge(s, r) == leads(r) /\ ~(s # <<>> /\ Aside(Last(s)))
AtDoor(s) == s # <<>> /\ Waits(Last(s))

(* The counters d when t has gone on to the stack s and the counters r.    *)
CountsFor(t, s, r, d) ==
    /\ d \in [leaders : Int, client_thread_is_leader : Int, event_loop_threads_waiting : Int]
    /\ d.leaders = lf.leaders + One(Charge(s, r)) - One(Charge(calls[t], tss[t]))
    /\ d.event_loop_threads_waiting =
          lf.event_loop_threads_waiting + One(AtDoor(s)) - One(AtDoor(calls[t]))
    /\ d.client_thread_is_leader =
          lf.client_thread_is_leader + r.client_leader_thread - tss[t].client_leader_thread
    /\ r.client_leader_thread \in
          (tss[t].client_leader_thread - 1)..(tss[t].client_leader_thread + 1)

(* The whole step of t in its calls and in the counters.                   *)
Steps(t, s, r) ==
    /\ ThreadOK(s, r)
    /\ calls' = [calls EXCEPT ![t] = s]
    /\ tss' = [tss EXCEPT ![t] = r]
    /\ CountsFor(t, s, r, lf')

CountersInv ==
    /\ calls \in [Threads -> Seq(Calls)]
    /\ lf \in Counters
    /\ tss \in [Threads -> Tss]
    /\ ThreadsOK
    /\ CountersExact
    /\ IsFiniteSet(ClientLevels)

(* The levels of client leadership: a thread has one more, or one less.    *)
LEMMA ClientLevelsStep ==
    ASSUME NEW f \in [Threads -> Nat], NEW t \in Threads, NEW g, NEW n \in Nat,
           g = [f EXCEPT ![t] = n], n \in (f[t] - 1)..(f[t] + 1),
           NEW S, \A x : x \in S <=> \E u \in Threads : \E k \in 1..f[u] : x = <<u, k>>,
           NEW T, \A x : x \in T <=> \E u \in Threads : \E k \in 1..g[u] : x = <<u, k>>,
           IsFiniteSet(S)
    PROVE  /\ IsFiniteSet(T)
           /\ Cardinality(T) = Cardinality(S) + n - f[t]
           /\ Cardinality(T) \in Nat /\ Cardinality(S) \in Nat
<1>1. /\ f[t] \in Nat /\ g[t] = n /\ \A u \in Threads \ {t} : g[u] = f[u]
  OBVIOUS
<1>2. CASE n = f[t] + 1
  <2>1. \A x : x # <<t, n>> => (x \in S <=> x \in T)
    BY <1>1, <1>2, SMT
  <2>2. <<t, n>> \notin S /\ <<t, n>> \in T
    BY <1>1, <1>2, SMT
  <2>3. /\ IsFiniteSet(T) /\ Cardinality(S) \in Nat /\ Cardinality(T) \in Nat
        /\ Cardinality(T) = Cardinality(S) + One(<<t, n>> \in T) - One(<<t, n>> \in S)
    BY <2>1, OneComesOrGoes
  <2> QED  BY <1>1, <1>2, <2>2, <2>3, SMT DEF One
<1>3. CASE n = f[t] - 1
  <2>1. \A x : x # <<t, f[t]>> => (x \in S <=> x \in T)
    BY <1>1, <1>3, SMT
  <2>2. <<t, f[t]>> \in S /\ <<t, f[t]>> \notin T
    BY <1>1, <1>3, SMT
  <2>3. /\ IsFiniteSet(T) /\ Cardinality(S) \in Nat /\ Cardinality(T) \in Nat
        /\ Cardinality(T) = Cardinality(S) + One(<<t, f[t]>> \in T) - One(<<t, f[t]>> \in S)
    BY <2>1, OneComesOrGoes
  <2> QED  BY <1>1, <1>3, <2>2, <2>3, SMT DEF One
<1>4. CASE n = f[t]
  <2>1. \A u \in Threads : g[u] = f[u]
    BY <1>1, <1>4
  <2>2. S = T
    BY <2>1
  <2>3. Cardinality(S) \in Nat
    BY FS_CardinalityType
  <2> QED  BY <1>1, <1>4, <2>2, <2>3, SMT
<1>5. n = f[t] + 1 \/ n = f[t] - 1 \/ n = f[t]
  BY <1>1, SMT
<1> QED  BY <1>2, <1>3, <1>4, <1>5

(* What holds of the counters and of each thread holds after the step.     *)
LEMMA CountersStep ==
    ASSUME Inv, NEW t \in Threads, NEW s, NEW r, Steps(t, s, r)
    PROVE  CountersInv'
<1>1. /\ calls \in [Threads -> Seq(Calls)] /\ tss \in [Threads -> Tss] /\ lf \in Counters
      /\ s \in Seq(Calls) /\ r \in Tss
  BY DEF Inv, TypeOK, Steps, ThreadOK, Calls
<1>2. /\ calls' \in [Threads -> Seq(Calls)] /\ tss' \in [Threads -> Tss]
      /\ calls'[t] = s /\ tss'[t] = r
      /\ \A u \in Threads \ {t} : calls'[u] = calls[u] /\ tss'[u] = tss[u]
  BY <1>1 DEF Steps
<1>3. ThreadsOK'
  BY <1>2 DEF Inv, ThreadsOK, Steps
<1> DEFINE S1 == {u \in Threads : InCharge(u)}
           S2 == {u \in Threads : AtDoor(calls[u])}
<1>4. /\ \A u \in Threads : InCharge(u) <=> Charge(calls[u], tss[u])
      /\ \A u \in Threads : InCharge(u)' <=> Charge(calls'[u], tss'[u])
  BY DEF InCharge, Charge, Aside, At, Busy, Call
<1>5. BlockedThreads = S2 /\ BlockedThreads' = S2'
  BY DEF BlockedThreads, AtDoor, Waits, At, Busy, Call
<1>6. IsFiniteSet(S1) /\ IsFiniteSet(S2)
  <2>1. S1 \in SUBSET Threads /\ S2 \in SUBSET Threads
    OBVIOUS
  <2> QED  BY <2>1, FS_Subset, LeaderFollowerAssumption DEF LeaderFollowerAssumption
<1>7. /\ Cardinality(S1') = Cardinality(S1) + One(Charge(s, r)) - One(Charge(calls[t], tss[t]))
      /\ Cardinality(S1') \in Nat
  <2>1. \A u : u # t => (u \in S1 <=> u \in S1')
    BY <1>2, <1>4
  <2>2. /\ Cardinality(S1') = Cardinality(S1) + One(t \in S1') - One(t \in S1)
        /\ Cardinality(S1') \in Nat
    BY <1>6, <2>1, OneComesOrGoes
  <2>3. t \in S1' <=> Charge(s, r)
    BY <1>2, <1>4
  <2>4. t \in S1 <=> Charge(calls[t], tss[t])
    BY <1>4
  <2> QED  BY <2>2, <2>3, <2>4 DEF One
<1>8. /\ Cardinality(S2') = Cardinality(S2) + One(AtDoor(s)) - One(AtDoor(calls[t]))
      /\ Cardinality(S2') \in Nat
  <2>1. \A u : u # t => (u \in S2 <=> u \in S2')
    BY <1>2
  <2>2. /\ Cardinality(S2') = Cardinality(S2) + One(t \in S2') - One(t \in S2)
        /\ Cardinality(S2') \in Nat
    BY <1>6, <2>1, OneComesOrGoes
  <2>3. t \in S2' <=> AtDoor(s)
    BY <1>2
  <2>4. t \in S2 <=> AtDoor(calls[t])
    OBVIOUS
  <2> QED  BY <2>2, <2>3, <2>4 DEF One
<1>9. /\ IsFiniteSet(ClientLevels')
      /\ Cardinality(ClientLevels') =
            Cardinality(ClientLevels) + r.client_leader_thread - tss[t].client_leader_thread
      /\ Cardinality(ClientLevels') \in Nat
  <2> DEFINE f == [u \in Threads |-> tss[u].client_leader_thread]
             g == [u \in Threads |-> tss'[u].client_leader_thread]
  <2>1. f \in [Threads -> Nat] /\ r.client_leader_thread \in Nat /\ f[t] = tss[t].client_leader_thread
    BY <1>1, SMT DEF Tss
  <2>2. g = [f EXCEPT ![t] = r.client_leader_thread]
    <3>1. \A u \in Threads : tss'[u].client_leader_thread =
             IF u = t THEN r.client_leader_thread ELSE tss[u].client_leader_thread
      BY <1>2
    <3> QED  BY <3>1
  <2>3. r.client_leader_thread \in (f[t] - 1)..(f[t] + 1)
    BY <2>1 DEF Steps, CountsFor
  <2>4. \A x : x \in ClientLevels <=> \E u \in Threads : \E k \in 1..f[u] : x = <<u, k>>
    BY SMT DEF ClientLevels
  <2>5. \A x : x \in ClientLevels' <=> \E u \in Threads : \E k \in 1..g[u] : x = <<u, k>>
    BY SMT DEF ClientLevels
  <2>6. IsFiniteSet(ClientLevels)
    BY DEF Inv
  <2> DEFINE n == r.client_leader_thread
             L == ClientLevels
             M == ClientLevels'
  <2>7. /\ f \in [Threads -> Nat] /\ n \in Nat /\ g = [f EXCEPT ![t] = n]
        /\ n \in (f[t] - 1)..(f[t] + 1) /\ IsFiniteSet(L)
        /\ \A x : x \in L <=> \E u \in Threads : \E k \in 1..f[u] : x = <<u, k>>
        /\ \A x : x \in M <=> \E u \in Threads : \E k \in 1..g[u] : x = <<u, k>>
    BY <2>1, <2>2, <2>3, <2>4, <2>5, <2>6
  <2> HIDE DEF f, g, n, L, M
  <2>8. /\ IsFiniteSet(M) /\ Cardinality(M) \in Nat
        /\ Cardinality(M) = Cardinality(L) + n - f[t]
    BY <2>7, ClientLevelsStep
  <2> QED  BY <2>1, <2>8 DEF n, L, M
<1>10. /\ lf.leaders = Cardinality(S1)
       /\ lf.client_thread_is_leader = Cardinality(ClientLevels)
       /\ lf.event_loop_threads_waiting = Cardinality(S2)
  BY <1>5 DEF Inv, CountersExact, S1, S2
<1> HIDE DEF S1, S2
<1>11. /\ lf'.leaders = Cardinality(S1')
       /\ lf'.client_thread_is_leader = Cardinality(ClientLevels')
       /\ lf'.event_loop_threads_waiting = Cardinality(S2')
  BY <1>7, <1>8, <1>9, <1>10 DEF Steps, CountsFor
<1>12. lf' \in Counters
  BY <1>7, <1>8, <1>9, <1>11, SMT DEF Counters, Steps, CountsFor
<1>13. CountersExact'
  BY <1>5, <1>11 DEF CountersExact, S1
<1> QED  BY <1>2, <1>3, <1>9, <1>12, <1>13 DEF CountersInv

-----------------------------------------------------------------------------
(* The stacks.                                                             *)

LEMMA TopFacts ==
    ASSUME NEW s \in Seq(Calls), s # <<>>, NEW x \in Calls,
           NEW z, z = [s EXCEPT ![Len(s)] = x]
    PROVE  /\ Len(s) \in Nat \ {0} /\ Last(s) = s[Len(s)] /\ Last(s) \in Calls
           /\ z \in Seq(Calls) /\ Len(z) = Len(s) /\ z # <<>>
           /\ Last(z) = x /\ z[Len(s)] = x
           /\ \A k \in 1..(Len(s) - 1) : z[k] = s[k]
<1>1. Len(s) \in Nat \ {0} /\ Len(s) \in 1..Len(s)
  BY SMT
<1>2. Last(s) = s[Len(s)] /\ Last(s) \in Calls
  BY <1>1, ElementOfSeq, SMT DEF Last
<1>3. z \in Seq(Calls) /\ Len(z) = Len(s)
  BY <1>1, ExceptSeq
<1>4. z[Len(s)] = x /\ \A k \in 1..(Len(s) - 1) : z[k] = s[k]
  <2>1. \A k \in 1..Len(s) : z[k] = IF k = Len(s) THEN x ELSE s[k]
    BY <1>1, ExceptSeq
  <2>2. \A k \in 1..(Len(s) - 1) : k \in 1..Len(s) /\ k # Len(s)
    BY <1>1, SMT
  <2> QED  BY <1>1, <2>1, <2>2
<1>5. z # <<>>
  BY <1>1, <1>3, SMT
<1> QED  BY <1>1, <1>2, <1>3, <1>4, <1>5 DEF Last

(* The stack when the last call has returned.                              *)
LEMMA FrontFacts ==
    ASSUME NEW s \in Seq(Calls), s # <<>>
    PROVE  /\ Front(s) \in Seq(Calls) /\ Len(Front(s)) = Len(s) - 1
           /\ \A k \in 1..(Len(s) - 1) : Front(s)[k] = s[k]
           /\ Len(s) \in Nat \ {0}
           /\ Front(s) # <<>> =>
                 /\ Len(s) > 1
                 /\ Last(Front(s)) = s[Len(s) - 1]
<1>1. Len(s) \in Nat \ {0}
  BY SMT
<1>2. /\ Front(s) \in Seq(Calls) /\ Len(Front(s)) = Len(s) - 1
      /\ \A k \in 1..(Len(s) - 1) : Front(s)[k] = s[k]
  <2>1. /\ 1 \in Int /\ Len(s) - 1 \in Int
        /\ \A i \in 1..(Len(s) - 1) : s[i] \in Calls
    BY <1>1, SMT
  <2>2. /\ SubSeq(s, 1, Len(s) - 1) \in Seq(Calls)
        /\ Len(SubSeq(s, 1, Len(s) - 1)) = IF 1 <= Len(s) - 1 THEN Len(s) - 1 - 1 + 1 ELSE 0
        /\ \A i \in 1..(Len(s) - 1 - 1 + 1) : SubSeq(s, 1, Len(s) - 1)[i] = s[1 + i - 1]
    BY <2>1, SubSeqProperties
  <2>3. \A n \in Nat \ {0} :
           /\ (IF 1 <= n - 1 THEN n - 1 - 1 + 1 ELSE 0) = n - 1
           /\ n - 1 - 1 + 1 = n - 1
           /\ \A i \in 1..(n - 1) : 1 + i - 1 = i
    BY SMT
  <2> QED  BY <1>1, <2>2, <2>3 DEF Front
<1>3. Front(s) # <<>> => Len(s) > 1
  BY <1>1, <1>2, SMT
<1>4. Front(s) # <<>> => Last(Front(s)) = s[Len(s) - 1]
  <2>1. Len(s) > 1 => Len(s) - 1 \in 1..(Len(s) - 1)
    BY <1>1, SMT
  <2> QED  BY <1>2, <1>3, <2>1 DEF Last
<1> QED  BY <1>1, <1>2, <1>3, <1>4

(* The stack with one more call.                                           *)
LEMMA AppendFacts ==
    ASSUME NEW s \in Seq(Calls), NEW x \in Calls
    PROVE  /\ Append(s, x) \in Seq(Calls) /\ Len(Append(s, x)) = Len(s) + 1
           /\ Append(s, x) # <<>> /\ Last(Append(s, x)) = x
           /\ Append(s, x)[Len(s) + 1] = x
           /\ \A k \in 1..Len(s) : Append(s, x)[k] = s[k]
           /\ Len(s) \in Nat
<1>1. /\ Append(s, x) \in Seq(Calls) /\ Len(Append(s, x)) = Len(s) + 1
      /\ Append(s, x)[Len(s) + 1] = x
      /\ \A k \in 1..Len(s) : Append(s, x)[k] = s[k]
      /\ Len(s) \in Nat
  BY SMT
<1>2. Append(s, x) # <<>>
  BY <1>1, SMT
<1> QED  BY <1>1, <1>2 DEF Last

(* A call that has moved on is still a call.                               *)
LEMMA CallFacts ==
    /\ \A x \in WaitCall, p \in WaitPoints :
          /\ [x EXCEPT !.at = p] \in WaitCall
          /\ [x EXCEPT !.at = p].at = p
          /\ [x EXCEPT !.at = p].event = x.event
          /\ [x EXCEPT !.at = "led", !.expired = TRUE] \in WaitCall
          /\ [x EXCEPT !.at = "led", !.expired = TRUE].at = "led"
          /\ [x EXCEPT !.event = "FINAL"] \in WaitCall
          /\ [x EXCEPT !.event = "FINAL"].at = x.at
          /\ [x EXCEPT !.event = "FINAL"].event = "FINAL"
    /\ \A x \in RunCall, p \in RunPoints :
          /\ [x EXCEPT !.at = p] \in RunCall
          /\ [x EXCEPT !.at = p].at = p
    /\ \A x \in WaitCall : x.call = "wait" /\ x.at \in WaitPoints /\ x.event \in EventStates
    /\ \A x \in RunCall : x.call = "run" /\ x.at \in RunPoints
    /\ \A x \in Calls : /\ x.call = "wait" => x \in WaitCall
                        /\ x.call = "run" => x \in RunCall
                        /\ x.call \in {"wait", "run"}
<1>1. /\ \A x \in WaitCall : x.call = "wait" /\ x.at \in WaitPoints /\ x.event \in EventStates
      /\ \A x \in RunCall : x.call = "run" /\ x.at \in RunPoints
  BY SMT DEF WaitCall, RunCall
<1>2. ASSUME NEW x \in WaitCall, NEW p \in WaitPoints
      PROVE  /\ [x EXCEPT !.at = p] \in WaitCall
             /\ [x EXCEPT !.at = p].at = p
             /\ [x EXCEPT !.at = p].event = x.event
             /\ [x EXCEPT !.event = "FINAL"] \in WaitCall
             /\ [x EXCEPT !.event = "FINAL"].at = x.at
             /\ [x EXCEPT !.event = "FINAL"].event = "FINAL"
  BY SMT DEF WaitCall, EventStates
<1>3. ASSUME NEW x \in WaitCall
      PROVE  /\ [x EXCEPT !.at = "led", !.expired = TRUE] \in WaitCall
             /\ [x EXCEPT !.at = "led", !.expired = TRUE].at = "led"
  <2>1. [x EXCEPT !.at = "led", !.expired = TRUE] \in WaitCall
    BY Zenon DEF WaitCall, WaitPoints
  <2>2. [x EXCEPT !.at = "led", !.expired = TRUE].at = "led"
    BY SMT DEF WaitCall
  <2> QED  BY <2>1, <2>2
<1>4. ASSUME NEW x \in RunCall, NEW p \in RunPoints
      PROVE  [x EXCEPT !.at = p] \in RunCall /\ [x EXCEPT !.at = p].at = p
  BY SMT DEF RunCall
<1>5. \A x \in Calls : /\ x.call = "wait" => x \in WaitCall
                       /\ x.call = "run" => x \in RunCall
                       /\ x.call \in {"wait", "run"}
  BY <1>1 DEF Calls
<1> QED  BY <1>1, <1>2, <1>3, <1>4, <1>5

(* Thread t, and its last call x, before a step.                           *)
LEMMA ThreadFacts ==
    ASSUME Inv, NEW t \in Threads
    PROVE  /\ calls \in [Threads -> Seq(Calls)] /\ tss \in [Threads -> Tss]
           /\ lf \in Counters
           /\ lf \in [leaders : Int, client_thread_is_leader : Int,
                      event_loop_threads_waiting : Int]
           /\ calls[t] \in Seq(Calls) /\ Len(calls[t]) \in Nat
           /\ ThreadOK(calls[t], tss[t])
           /\ tss[t] \in Tss
           /\ tss[t].event_loop_thread \in Nat /\ tss[t].client_leader_thread \in Nat
           /\ tss = [tss EXCEPT ![t] = tss[t]]
           /\ Busy(t) => /\ Call(t) = calls[t][Len(calls[t])]
                         /\ Call(t) \in Calls
                         /\ Len(calls[t]) \in Nat \ {0}
<1>1. /\ calls \in [Threads -> Seq(Calls)] /\ tss \in [Threads -> Tss] /\ lf \in Counters
  BY DEF Inv, TypeOK, Calls
<1>2. /\ calls[t] \in Seq(Calls) /\ Len(calls[t]) \in Nat /\ tss[t] \in Tss
      /\ tss = [tss EXCEPT ![t] = tss[t]]
  BY <1>1, SMT
<1>3. tss[t].event_loop_thread \in Nat /\ tss[t].client_leader_thread \in Nat
  BY <1>2, SMT DEF Tss
<1>4. lf \in [leaders : Int, client_thread_is_leader : Int, event_loop_threads_waiting : Int]
  BY <1>1, SMT DEF Counters
<1>5. ThreadOK(calls[t], tss[t])
  BY DEF Inv, ThreadsOK
<1>6. Busy(t) => /\ Call(t) = calls[t][Len(calls[t])]
                 /\ Call(t) \in Calls
                 /\ Len(calls[t]) \in Nat \ {0}
  BY <1>2, SMT DEF Busy, Call, Last
<1> QED  BY <1>1, <1>2, <1>3, <1>4, <1>5, <1>6

(* The counters, two of them changed.                                      *)
LEMMA CounterFacts ==
    ASSUME NEW c \in [leaders : Int, client_thread_is_leader : Int,
                      event_loop_threads_waiting : Int],
           NEW a \in Int, NEW b \in Int,
           NEW d, d = [c EXCEPT !.leaders = a, !.client_thread_is_leader = b]
    PROVE  /\ d \in [leaders : Int, client_thread_is_leader : Int,
                     event_loop_threads_waiting : Int]
           /\ d.leaders = a /\ d.client_thread_is_leader = b
           /\ d.event_loop_threads_waiting = c.event_loop_threads_waiting
<1>1. d.leaders = a /\ d.client_thread_is_leader = b
      /\ d.event_loop_threads_waiting = c.event_loop_threads_waiting
  BY SMT
<1>2. d \in [leaders : Int, client_thread_is_leader : Int, event_loop_threads_waiting : Int]
  BY Zenon
<1> QED  BY <1>1, <1>2

(* The counters d when the last call of t has become x, and its counters   *)
(* r.                                                                      *)
CountsTop(t, x, r, d) ==
    /\ d \in [leaders : Int, client_thread_is_leader : Int, event_loop_threads_waiting : Int]
    /\ d.leaders = lf.leaders + One(leads(r) /\ ~Aside(x))
                              - One(leads(tss[t]) /\ ~Aside(Call(t)))
    /\ d.event_loop_threads_waiting =
          lf.event_loop_threads_waiting + One(Waits(x)) - One(Waits(Call(t)))
    /\ d.client_thread_is_leader =
          lf.client_thread_is_leader + r.client_leader_thread - tss[t].client_leader_thread
    /\ r.client_leader_thread \in
          (tss[t].client_leader_thread - 1)..(tss[t].client_leader_thread + 1)

(* The thread is accounted for with x as its last call.                    *)
TopAccounted(t, x, r) ==
    \A z : /\ \A k \in 1..(Len(calls[t]) - 1) : z[k] = calls[t][k]
           /\ z[Len(calls[t])] = x
           => Accounted(z, Len(calls[t]), r.event_loop_thread, r.client_leader_thread)

(* Only the last call of t changes.                                        *)
LEMMA TopStep ==
    ASSUME Inv, NEW t \in Threads, Busy(t), NEW x \in Calls, NEW r \in Tss,
           TopAccounted(t, x, r), LeadsInReactor(x, r), CountsTop(t, x, r, lf'),
           calls' = With(t, x), tss' = [tss EXCEPT ![t] = r]
    PROVE  \E s : Steps(t, s, r)
<1> DEFINE o == calls[t]
           s == [o EXCEPT ![Len(o)] = x]
<1>1. o \in Seq(Calls) /\ o # <<>> /\ ThreadOK(o, tss[t])
  BY ThreadFacts DEF Busy
<1>2. /\ Len(o) \in Nat \ {0} /\ s \in Seq(Calls) /\ Len(s) = Len(o) /\ s # <<>>
      /\ Last(s) = x /\ s[Len(o)] = x
      /\ \A k \in 1..(Len(o) - 1) : s[k] = o[k]
  BY <1>1, TopFacts
<1>3. calls' = [calls EXCEPT ![t] = s]
  BY DEF With
<1>4. Call(t) = Last(o)
  BY DEF Call
<1> HIDE DEF s
<1>5. Accounted(s, Len(s), r.event_loop_thread, r.client_leader_thread)
  BY <1>2 DEF TopAccounted
<1>6. ThreadOK(s, r)
  BY <1>1, <1>2, <1>5 DEF ThreadOK
<1>7. /\ Charge(s, r) <=> leads(r) /\ ~Aside(x)
      /\ Charge(o, tss[t]) <=> leads(tss[t]) /\ ~Aside(Call(t))
      /\ AtDoor(s) <=> Waits(x)
      /\ AtDoor(o) <=> Waits(Call(t))
  BY <1>1, <1>2, <1>4 DEF Charge, AtDoor
<1>8. /\ One(Charge(s, r)) = One(leads(r) /\ ~Aside(x))
      /\ One(Charge(o, tss[t])) = One(leads(tss[t]) /\ ~Aside(Call(t)))
      /\ One(AtDoor(s)) = One(Waits(x))
      /\ One(AtDoor(o)) = One(Waits(Call(t)))
  BY <1>7 DEF One
<1>9. CountsFor(t, s, r, lf')
  BY <1>8 DEF CountsFor, CountsTop
<1> QED  BY <1>3, <1>6, <1>9 DEF Steps

(* The last call of t does what leaves the counters as they are.           *)
SameRole(x, y) ==
    /\ Leading(x) <=> Leading(y)
    /\ Running(x) <=> Running(y)
    /\ Aside(x) <=> Aside(y)
    /\ Waits(x) <=> Waits(y)

(* The last call is accounted for as it was.                               *)
LEMMA TopSame ==
    ASSUME Inv, NEW t \in Threads, Busy(t), NEW x,
           Leading(x) <=> Leading(Call(t)), Running(x) <=> Running(Call(t))
    PROVE  TopAccounted(t, x, tss[t])
<1> DEFINE o == calls[t]
           n == Len(o)
           r == tss[t]
<1>1. ThreadOK(o, r) /\ n \in Nat \ {0} /\ Call(t) = o[n]
  BY ThreadFacts
<1> SUFFICES ASSUME NEW z, \A k \in 1..(n - 1) : z[k] = o[k], z[n] = x
             PROVE  Accounted(z, n, r.event_loop_thread, r.client_leader_thread)
  BY DEF TopAccounted
<1>2. ASSUME NEW k \in 1..n
      PROVE  /\ Leading(z[k]) <=> Leading(o[k])
             /\ Running(z[k]) <=> Running(o[k])
  <2>1. CASE k = n
    BY <1>1, <2>1
  <2>2. CASE k # n
    <3>1. k \in 1..(n - 1)
      BY <1>1, <2>2, SMT
    <3> QED  BY <3>1
  <2> QED  BY <2>1, <2>2
<1>3. Accounted(o, n, r.event_loop_thread, r.client_leader_thread)
  BY <1>1 DEF ThreadOK
<1> QED  BY <1>1, <1>2, <1>3, SameAccounted

(* The thread goes on in the same role.                                    *)
LEMMA SameStep ==
    ASSUME Inv, NEW t \in Threads, Busy(t), NEW x \in Calls,
           SameRole(x, Call(t)), LeadsInReactor(x, tss[t]),
           calls' = With(t, x), tss' = tss, lf' = lf
    PROVE  \E s : Steps(t, s, tss[t])
<1> DEFINE o == calls[t]
           n == Len(o)
           r == tss[t]
<1>1. /\ o \in Seq(Calls) /\ ThreadOK(o, r) /\ r \in Tss
      /\ r.client_leader_thread \in Nat
      /\ tss' = [tss EXCEPT ![t] = r]
      /\ n \in Nat \ {0} /\ Call(t) = o[n]
      /\ lf \in [leaders : Int, client_thread_is_leader : Int, event_loop_threads_waiting : Int]
  BY ThreadFacts
<1>2. TopAccounted(t, x, r)
  BY TopSame DEF SameRole
<1>3. /\ One(leads(r) /\ ~Aside(x)) = One(leads(r) /\ ~Aside(Call(t)))
      /\ One(Waits(x)) = One(Waits(Call(t)))
      /\ One(leads(r) /\ ~Aside(x)) \in {0, 1} /\ One(Waits(x)) \in {0, 1}
  BY DEF SameRole, One
<1>4. CountsTop(t, x, r, lf')
  BY <1>1, <1>3, SMT DEF CountsTop
<1> QED  BY <1>1, <1>2, <1>4, TopStep

(* The last call of t returns.                                             *)
LEMMA PopStep ==
    ASSUME Inv, NEW t \in Threads, Busy(t), NEW r \in Tss,
           \A z : (\A k \in 1..(Len(calls[t]) - 1) : z[k] = calls[t][k]) =>
              Accounted(z, Len(calls[t]) - 1, r.event_loop_thread, r.client_leader_thread),
           lf' \in [leaders : Int, client_thread_is_leader : Int, event_loop_threads_waiting : Int],
           lf'.leaders = lf.leaders + One(leads(r)) - One(leads(tss[t]) /\ ~Aside(Call(t))),
           lf'.event_loop_threads_waiting = lf.event_loop_threads_waiting - One(Waits(Call(t))),
           lf'.client_thread_is_leader =
              lf.client_thread_is_leader + r.client_leader_thread - tss[t].client_leader_thread,
           r.client_leader_thread \in
              (tss[t].client_leader_thread - 1)..(tss[t].client_leader_thread + 1),
           calls' = Returned(t), tss' = [tss EXCEPT ![t] = r]
    PROVE  \E s : Steps(t, s, r)
<1> DEFINE o == calls[t]
           s == Front(o)
<1>1. o \in Seq(Calls) /\ o # <<>> /\ ThreadOK(o, tss[t]) /\ Call(t) = Last(o)
      /\ lf.event_loop_threads_waiting \in Int
  BY ThreadFacts, SMT DEF Busy, Call
<1>2. /\ Len(o) \in Nat \ {0} /\ s \in Seq(Calls) /\ Len(s) = Len(o) - 1
      /\ \A k \in 1..(Len(o) - 1) : s[k] = o[k]
      /\ s # <<>> => Len(o) > 1 /\ Last(s) = o[Len(o) - 1]
  BY <1>1, FrontFacts
<1>3. calls' = [calls EXCEPT ![t] = s]
  BY DEF Returned
<1> HIDE DEF s
<1>4. \A k \in 1..(Len(o) - 1) : o[k].at = "upcall"
  BY <1>1 DEF ThreadOK
<1>5. s # <<>> => Last(s).at = "upcall"
  <2>1. Len(o) > 1 => Len(o) - 1 \in 1..(Len(o) - 1)
    BY <1>2, SMT
  <2> QED  BY <1>2, <1>4, <2>1
<1>6. ~(s # <<>> /\ Aside(Last(s))) /\ ~AtDoor(s)
  BY <1>5 DEF Aside, AtDoor, Waits
<1>7. ThreadOK(s, r)
  <2>1. \A k \in 1..(Len(s) - 1) : s[k].at = "upcall"
    <3>1. \A k \in 1..(Len(s) - 1) : k \in 1..(Len(o) - 1)
      BY <1>2, SMT
    <3> QED  BY <1>2, <1>4, <3>1
  <2>2. s # <<>> => LeadsInReactor(Last(s), r)
    BY <1>5 DEF LeadsInReactor
  <2> QED  BY <1>2, <2>1, <2>2 DEF ThreadOK
<1>8. /\ One(Charge(s, r)) = One(leads(r))
      /\ One(Charge(o, tss[t])) = One(leads(tss[t]) /\ ~Aside(Call(t)))
      /\ One(AtDoor(s)) = 0
      /\ One(AtDoor(o)) = One(Waits(Call(t)))
      /\ One(AtDoor(o)) \in {0, 1}
  BY <1>1, <1>6 DEF One, Charge, AtDoor
<1>9. CountsFor(t, s, r, lf')
  BY <1>1, <1>8, SMT DEF CountsFor
<1> QED  BY <1>3, <1>7, <1>9 DEF Steps

(* A thread calls wait_for_event or run.                                   *)
LEMMA PushStep ==
    ASSUME Inv, NEW t \in Threads, MayCall(t), NEW x \in Calls,
           x.at \in {"calling", "entering"},
           calls' = [calls EXCEPT ![t] = Append(@, x)], tss' = tss, lf' = lf
    PROVE  \E s : Steps(t, s, tss[t])
<1> DEFINE o == calls[t]
           s == Append(o, x)
           r == tss[t]
<1>1. /\ o \in Seq(Calls) /\ ThreadOK(o, r) /\ r \in Tss
      /\ r.client_leader_thread \in Nat
      /\ tss' = [tss EXCEPT ![t] = r]
      /\ lf \in [leaders : Int, client_thread_is_leader : Int, event_loop_threads_waiting : Int]
      /\ o # <<>> => Call(t) = o[Len(o)]
      /\ Call(t) = Last(o)
  BY ThreadFacts DEF Busy, Call
<1>2. /\ s \in Seq(Calls) /\ Len(s) = Len(o) + 1 /\ s # <<>> /\ Last(s) = x
      /\ s[Len(o) + 1] = x /\ \A k \in 1..Len(o) : s[k] = o[k]
      /\ Len(o) \in Nat
  BY <1>1, AppendFacts
<1>3. calls' = [calls EXCEPT ![t] = s]
  BY <1>1, ThreadFacts
<1> HIDE DEF s
<1>4. Neutral(x) /\ ~Aside(x) /\ ~Waits(x) /\ LeadsInReactor(x, r)
  BY DEF Neutral, Leading, Running, Aside, Waits, LeadsInReactor
<1>5. Accounted(s, Len(s), r.event_loop_thread, r.client_leader_thread)
  <2>1. Accounted(o, Len(o), r.event_loop_thread, r.client_leader_thread)
    BY <1>1 DEF ThreadOK
  <2> QED  BY <1>2, <1>4, <2>1, PushAccounted
<1>6. o # <<>> => Last(o).at = "upcall" /\ o[Len(o)].at = "upcall"
  BY <1>1 DEF MayCall, Busy
<1>7. \A k \in 1..(Len(s) - 1) : s[k].at = "upcall"
  <2> SUFFICES ASSUME NEW k \in 1..(Len(s) - 1) PROVE s[k].at = "upcall"
    OBVIOUS
  <2>1. k \in 1..Len(o)
    BY <1>2, SMT
  <2>2. k \in 1..(Len(o) - 1) \/ (k = Len(o) /\ Len(o) # 0)
    BY <1>2, <2>1, SMT
  <2>3. Len(o) # 0 => o # <<>>
    BY EmptySeq
  <2>4. s[k] = o[k]
    BY <1>2, <2>1
  <2>5. CASE k \in 1..(Len(o) - 1)
    BY <1>1, <2>4, <2>5 DEF ThreadOK
  <2>6. CASE k = Len(o) /\ Len(o) # 0
    BY <1>6, <2>3, <2>4, <2>6
  <2> QED  BY <2>2, <2>5, <2>6
<1>8. ThreadOK(s, r)
  BY <1>1, <1>2, <1>4, <1>5, <1>7 DEF ThreadOK
<1>9. /\ Charge(s, r) <=> leads(r)
      /\ Charge(o, r) <=> leads(r)
      /\ ~AtDoor(s) /\ ~AtDoor(o)
  BY <1>2, <1>4, <1>6 DEF Charge, AtDoor, Aside, Waits
<1>10. /\ One(Charge(s, r)) = One(Charge(o, r)) /\ One(Charge(o, r)) \in {0, 1}
       /\ One(AtDoor(s)) = 0 /\ One(AtDoor(o)) = 0
  BY <1>9 DEF One
<1>11. CountsFor(t, s, r, lf')
  BY <1>1, <1>10, SMT DEF CountsFor
<1> QED  BY <1>1, <1>3, <1>8, <1>11 DEF Steps

-----------------------------------------------------------------------------
(* The actions, in the calls and the counters.                             *)

(* The thread has come to the head of the loop of wait_for_event, with the *)
(* counters c, its own r, and its client leadership given up.              *)
AtLoop(t, c, r) ==
    /\ Busy(t) /\ Call(t).call = "wait" /\ r \in Tss
    /\ c \in [leaders : Int, client_thread_is_leader : Int, event_loop_threads_waiting : Int]
    /\ c.leaders = lf.leaders - One(leads(tss[t]) /\ ~Aside(Call(t)))
    /\ c.event_loop_threads_waiting = lf.event_loop_threads_waiting
    /\ c.client_thread_is_leader =
          lf.client_thread_is_leader + r.client_leader_thread - tss[t].client_leader_thread
    /\ r.client_leader_thread \in
          (tss[t].client_leader_thread - 1)..tss[t].client_leader_thread
    /\ \E x \in Calls : Neutral(x) /\ TopAccounted(t, x, r)

(* Where the loop of wait_for_event may lead.                              *)
LEMMA FromLoop ==
    ASSUME Inv, NEW t \in Threads, NEW c, NEW r, AtLoop(t, c, r)
    PROVE  /\ \A y \in Calls : Neutral(y) => TopAccounted(t, y, r)
           /\ \A y \in Calls : Leading(y) =>
                 TopAccounted(t, y, [r EXCEPT !.client_leader_thread = @ + 1])
           /\ \A z : (\A k \in 1..(Len(calls[t]) - 1) : z[k] = calls[t][k]) =>
                 Accounted(z, Len(calls[t]) - 1, r.event_loop_thread, r.client_leader_thread)
<1> DEFINE o == calls[t]
           n == Len(o)
           el == r.event_loop_thread
           cl == r.client_leader_thread
<1>1. n \in Nat \ {0} /\ r \in Tss /\ o \in Seq(Calls)
  BY ThreadFacts DEF AtLoop
<1>2. PICK x \in Calls : Neutral(x) /\ TopAccounted(t, x, r)
  BY DEF AtLoop
<1> DEFINE w == [k \in 1..n |-> IF k = n THEN x ELSE o[k]]
<1>3. (\A k \in 1..(n - 1) : w[k] = o[k]) /\ w[n] = x
  BY <1>1, SMT
<1> HIDE DEF w
<1>4. Accounted(w, n, el, cl)
  BY <1>2, <1>3 DEF TopAccounted
<1>5. ASSUME NEW z, \A k \in 1..(n - 1) : z[k] = o[k]
      PROVE  \A k \in 1..(n - 1) : z[k] = w[k]
  BY <1>3, <1>5
<1>6. ASSUME NEW z, \A k \in 1..(n - 1) : z[k] = o[k], Neutral(z[n])
      PROVE  Accounted(z, n, el, cl)
  <2>1. ASSUME NEW k \in 1..n
        PROVE  /\ Leading(z[k]) <=> Leading(w[k])
               /\ Running(z[k]) <=> Running(w[k])
    <3>1. CASE k = n
      BY <1>2, <1>3, <1>6, <3>1 DEF Neutral
    <3>2. CASE k # n
      <4>1. k \in 1..(n - 1)
        BY <1>1, <3>2, SMT
      <4> QED  BY <1>3, <1>6, <4>1
    <3> QED  BY <3>1, <3>2
  <2> QED  BY <1>1, <1>4, <2>1, SameAccounted
<1>7. ASSUME NEW z, \A k \in 1..(n - 1) : z[k] = o[k], Leading(z[n])
      PROVE  Accounted(z, n, el, cl + 1)
  BY <1>1, <1>2, <1>3, <1>4, <1>5, <1>7, LeadAccounted
<1>8. ASSUME NEW z, \A k \in 1..(n - 1) : z[k] = o[k]
      PROVE  Accounted(z, n - 1, el, cl)
  BY <1>1, <1>2, <1>3, <1>4, <1>5, <1>8, PopAccounted
<1>9. ASSUME NEW y \in Calls, Neutral(y) PROVE TopAccounted(t, y, r)
  BY <1>6, <1>9 DEF TopAccounted
<1>10. ASSUME NEW y \in Calls, Leading(y)
       PROVE  TopAccounted(t, y, [r EXCEPT !.client_leader_thread = @ + 1])
  <2>1. /\ [r EXCEPT !.client_leader_thread = @ + 1].client_leader_thread = cl + 1
        /\ [r EXCEPT !.client_leader_thread = @ + 1].event_loop_thread = el
    BY <1>1, SMT DEF Tss
  <2> QED  BY <1>7, <1>10, <2>1 DEF TopAccounted
<1> QED  BY <1>8, <1>9, <1>10

(* The thread becomes a follower.                                          *)
LEMMA FollowStep ==
    ASSUME Inv, NEW t \in Threads, NEW c, NEW r, AtLoop(t, c, r), Follow(t, c, r)
    PROVE  \E s : Steps(t, s, r)
<1> DEFINE x == [Call(t) EXCEPT !.at = "follower"]
<1>1. Busy(t) /\ Call(t) \in WaitCall /\ r \in Tss
  BY ThreadFacts, CallFacts DEF AtLoop
<1>2. x \in WaitCall /\ x.at = "follower" /\ x.call = "wait"
  BY <1>1, CallFacts, ZenonT(40) DEF WaitPoints
<1>3. calls' = With(t, x) /\ lf' = c /\ tss' = [tss EXCEPT ![t] = r]
  BY DEF Follow, Moved
<1> HIDE DEF x
<1>4. /\ x \in Calls /\ Neutral(x) /\ Aside(x) /\ ~Waits(x) /\ ~Waits(Call(t))
      /\ LeadsInReactor(x, r)
  BY <1>2, CallFacts DEF Calls, Neutral, Leading, Running, Aside, Waits, LeadsInReactor, AtLoop
<1>5. TopAccounted(t, x, r)
  BY <1>4, FromLoop
<1>6. /\ One(leads(r) /\ ~Aside(x)) = 0 /\ One(Waits(x)) = 0 /\ One(Waits(Call(t))) = 0
      /\ One(leads(tss[t]) /\ ~Aside(Call(t))) \in {0, 1}
      /\ tss[t].client_leader_thread \in Nat
      /\ lf.leaders \in Int /\ lf.event_loop_threads_waiting \in Int
  BY <1>4, ThreadFacts, SMT DEF One
<1>7. r.client_leader_thread \in Nat
  BY <1>1, SMT DEF Tss
<1>8. /\ lf' \in [leaders : Int, client_thread_is_leader : Int, event_loop_threads_waiting : Int]
      /\ lf'.leaders = lf.leaders - One(leads(tss[t]) /\ ~Aside(Call(t)))
      /\ lf'.event_loop_threads_waiting = lf.event_loop_threads_waiting
      /\ lf'.client_thread_is_leader =
            lf.client_thread_is_leader + r.client_leader_thread - tss[t].client_leader_thread
      /\ r.client_leader_thread \in
            (tss[t].client_leader_thread - 1)..tss[t].client_leader_thread
  BY <1>3 DEF AtLoop
<1>9. CountsTop(t, x, r, lf')
  BY <1>6, <1>7, <1>8, SMT DEF CountsTop
<1> QED  BY <1>1, <1>3, <1>4, <1>5, <1>9, TopStep

(* The thread becomes the client leader.                                   *)
LEMMA BecomeStep ==
    ASSUME Inv, NEW t \in Threads, NEW c, NEW r, AtLoop(t, c, r), BecomeClientLeader(t, c, r)
    PROVE  \E s, q : Steps(t, s, q)
<1> DEFINE x == [Call(t) EXCEPT !.at = "leading"]
           q == [r EXCEPT !.client_leader_thread = @ + 1]
<1>1. Busy(t) /\ Call(t) \in WaitCall /\ r \in Tss
  BY ThreadFacts, CallFacts DEF AtLoop
<1>2. x \in WaitCall /\ x.at = "leading" /\ x.call = "wait"
  BY <1>1, CallFacts, ZenonT(40) DEF WaitPoints
<1>3. /\ calls' = With(t, x) /\ lf' = set_client_leader_thread(c)
      /\ tss' = [tss EXCEPT ![t] = q]
  BY DEF BecomeClientLeader, Moved
<1>4. q \in Tss /\ q.client_leader_thread = r.client_leader_thread + 1
      /\ q.client_leader_thread > 0 /\ leads(q)
  BY <1>1, SMT DEF Tss, leads
<1>5. /\ lf' \in [leaders : Int, client_thread_is_leader : Int, event_loop_threads_waiting : Int]
      /\ lf'.leaders = c.leaders + 1
      /\ lf'.client_thread_is_leader = c.client_thread_is_leader + 1
      /\ lf'.event_loop_threads_waiting = c.event_loop_threads_waiting
  <2>1. /\ c \in [leaders : Int, client_thread_is_leader : Int, event_loop_threads_waiting : Int]
        /\ lf' = [c EXCEPT !.leaders = @ + 1, !.client_thread_is_leader = @ + 1]
    BY <1>3 DEF set_client_leader_thread, AtLoop
  <2>2. c.leaders + 1 \in Int /\ c.client_thread_is_leader + 1 \in Int
    BY <2>1, SMT
  <2> QED  BY <2>1, <2>2, CounterFacts
<1>6. x \in Calls /\ Leading(x) /\ ~Aside(x) /\ ~Waits(x) /\ ~Waits(Call(t))
  BY <1>2 DEF Calls, Leading, Aside, Waits, AtLoop
<1>7. TopAccounted(t, x, q)
  BY <1>6, FromLoop
<1> HIDE DEF x, q
<1>8. LeadsInReactor(x, q)
  BY <1>2, <1>4 DEF LeadsInReactor
<1>9. /\ One(leads(q) /\ ~Aside(x)) = 1 /\ One(Waits(x)) = 0 /\ One(Waits(Call(t))) = 0
      /\ One(leads(tss[t]) /\ ~Aside(Call(t))) \in {0, 1}
      /\ tss[t].client_leader_thread \in Nat
      /\ lf.leaders \in Int /\ lf.event_loop_threads_waiting \in Int
      /\ lf.client_thread_is_leader \in Int
  BY <1>4, <1>6, ThreadFacts, SMT DEF One
<1>10. r.client_leader_thread \in Nat
  BY <1>1, SMT DEF Tss
<1>11. CountsTop(t, x, q, lf')
  BY <1>4, <1>5, <1>9, <1>10, SMT DEF CountsTop, AtLoop
<1> QED  BY <1>1, <1>3, <1>4, <1>6, <1>7, <1>8, <1>11, TopStep

(* The end of the call, with an election or without.                       *)
LEMMA ReturnStep ==
    ASSUME Inv, NEW t \in Threads, NEW c, NEW r, AtLoop(t, c, r),
           calls' = Returned(t), lf' = reset_client_thread(c, r), tss' = [tss EXCEPT ![t] = r]
    PROVE  \E s : Steps(t, s, r)
<1>1. Busy(t) /\ r \in Tss /\ ~Waits(Call(t))
  BY DEF AtLoop, Waits
<1>2. /\ lf' \in [leaders : Int, client_thread_is_leader : Int, event_loop_threads_waiting : Int]
      /\ lf'.leaders = c.leaders + One(leads(r))
      /\ lf'.client_thread_is_leader = c.client_thread_is_leader
      /\ lf'.event_loop_threads_waiting = c.event_loop_threads_waiting
  <2>1. CASE leads(r)
    <3>1. lf' = [c EXCEPT !.leaders = @ + 1] /\ One(leads(r)) = 1
      BY <2>1 DEF reset_client_thread, One
    <3> QED  BY <3>1, SMT DEF AtLoop
  <2>2. CASE ~leads(r)
    <3>1. lf' = c /\ One(leads(r)) = 0
      BY <2>2 DEF reset_client_thread, One
    <3> QED  BY <3>1, SMT DEF AtLoop
  <2> QED  BY <2>1, <2>2
<1>3. /\ One(Waits(Call(t))) = 0
      /\ One(leads(tss[t]) /\ ~Aside(Call(t))) \in {0, 1}
      /\ One(leads(r)) \in {0, 1}
      /\ tss[t].client_leader_thread \in Nat
      /\ lf.leaders \in Int /\ lf.event_loop_threads_waiting \in Int
  BY <1>1, ThreadFacts, SMT DEF One
<1>4. /\ lf'.leaders = lf.leaders + One(leads(r)) - One(leads(tss[t]) /\ ~Aside(Call(t)))
      /\ lf'.event_loop_threads_waiting = lf.event_loop_threads_waiting - One(Waits(Call(t)))
      /\ lf'.client_thread_is_leader =
            lf.client_thread_is_leader + r.client_leader_thread - tss[t].client_leader_thread
      /\ r.client_leader_thread \in
            (tss[t].client_leader_thread - 1)..(tss[t].client_leader_thread + 1)
  BY <1>2, <1>3, SMT DEF AtLoop
<1>5. \A z : (\A k \in 1..(Len(calls[t]) - 1) : z[k] = calls[t][k]) =>
         Accounted(z, Len(calls[t]) - 1, r.event_loop_thread, r.client_leader_thread)
  BY FromLoop
<1> QED  BY <1>1, <1>2, <1>4, <1>5, PopStep

(* A round of the loop of wait_for_event.                                  *)
LEMMA WaitLoopStep ==
    ASSUME Inv, NEW t \in Threads, NEW c, NEW r, AtLoop(t, c, r), WaitLoop(t, c, r)
    PROVE  \E s, q : Steps(t, s, q)
<1>1. CASE Return(t, c, r)
  BY <1>1, ReturnStep DEF Return
<1>2. CASE Follow(t, c, r)
  BY <1>2, FollowStep
<1>3. CASE BecomeClientLeader(t, c, r)
  BY <1>3, BecomeStep
<1> QED  BY <1>1, <1>2, <1>3 DEF WaitLoop

(* wait_for_event: coming to the head of its loop.                         *)
LEMMA EnterAtLoop ==
    ASSUME Inv, NEW t \in Threads, At(t, "wait", "calling")
    PROVE  AtLoop(t, set_client_thread(lf, tss[t]), tss[t])
<1> DEFINE r == tss[t]
           c == set_client_thread(lf, r)
<1>1. /\ Busy(t) /\ Call(t) \in Calls /\ Call(t).call = "wait" /\ Call(t).at = "calling"
      /\ r \in Tss /\ r.client_leader_thread \in Nat
      /\ lf \in [leaders : Int, client_thread_is_leader : Int, event_loop_threads_waiting : Int]
      /\ Len(calls[t]) \in Nat \ {0} /\ ThreadOK(calls[t], r)
      /\ Call(t) = calls[t][Len(calls[t])]
  BY ThreadFacts DEF At
<1>2. ~Aside(Call(t)) /\ Neutral(Call(t))
  BY <1>1 DEF Aside, Neutral, Leading, Running
<1>3. /\ c \in [leaders : Int, client_thread_is_leader : Int, event_loop_threads_waiting : Int]
      /\ c.leaders = lf.leaders - One(leads(r) /\ ~Aside(Call(t)))
      /\ c.event_loop_threads_waiting = lf.event_loop_threads_waiting
      /\ c.client_thread_is_leader = lf.client_thread_is_leader
  <2>1. CASE leads(r)
    <3>1. c = [lf EXCEPT !.leaders = @ - 1] /\ One(leads(r) /\ ~Aside(Call(t))) = 1
      BY <1>2, <2>1 DEF set_client_thread, One
    <3> QED  BY <1>1, <3>1, SMT
  <2>2. CASE ~leads(r)
    <3>1. c = lf /\ One(leads(r) /\ ~Aside(Call(t))) = 0
      BY <2>2 DEF set_client_thread, One
    <3> QED  BY <1>1, <3>1, SMT
  <2> QED  BY <2>1, <2>2
<1>4. TopAccounted(t, Call(t), r)
  BY <1>1, TopSame
<1> HIDE DEF c, r
<1>5. /\ c.client_thread_is_leader =
            lf.client_thread_is_leader + r.client_leader_thread - r.client_leader_thread
      /\ r.client_leader_thread \in (r.client_leader_thread - 1)..r.client_leader_thread
  BY <1>1, <1>3, SMT
<1> QED  BY <1>1, <1>2, <1>3, <1>4, <1>5 DEF AtLoop, r, c

(* A thread whose place has been counted off already.                      *)
LEMMA AsideAtLoop ==
    ASSUME Inv, NEW t \in Threads, Busy(t), Aside(Call(t))
    PROVE  AtLoop(t, lf, tss[t])
<1> DEFINE r == tss[t]
<1>1. /\ Call(t) \in Calls /\ Call(t).call = "wait" /\ Call(t).at \in {"follower", "yielding"}
      /\ r \in Tss /\ r.client_leader_thread \in Nat
      /\ lf \in [leaders : Int, client_thread_is_leader : Int, event_loop_threads_waiting : Int]
      /\ Len(calls[t]) \in Nat \ {0} /\ ThreadOK(calls[t], r)
      /\ Call(t) = calls[t][Len(calls[t])]
  BY ThreadFacts DEF Aside
<1>2. Neutral(Call(t)) /\ One(leads(r) /\ ~Aside(Call(t))) = 0
  BY <1>1 DEF Neutral, Leading, Running, One
<1>3. TopAccounted(t, Call(t), r)
  BY <1>1, TopSame
<1>4. lf.leaders \in Int /\ lf.client_thread_is_leader \in Int
  BY <1>1, SMT
<1> HIDE DEF r
<1>5. /\ lf.leaders = lf.leaders - One(leads(r) /\ ~Aside(Call(t)))
      /\ lf.client_thread_is_leader =
            lf.client_thread_is_leader + r.client_leader_thread - r.client_leader_thread
      /\ r.client_leader_thread \in (r.client_leader_thread - 1)..r.client_leader_thread
  BY <1>1, <1>2, <1>4, SMT
<1> QED  BY <1>1, <1>2, <1>3, <1>5 DEF AtLoop, r

(* The leader gives its leadership up.                                     *)
LEMMA LedAtLoop ==
    ASSUME Inv, NEW t \in Threads, At(t, "wait", "led")
    PROVE  AtLoop(t, reset_client_leader_thread(lf, tss[t]), client_leader_given_up(tss[t]))
<1> DEFINE o == calls[t]
           n == Len(o)
           el == tss[t].event_loop_thread
           cl == tss[t].client_leader_thread
           c == reset_client_leader_thread(lf, tss[t])
           r == client_leader_given_up(tss[t])
           x == [Call(t) EXCEPT !.at = "yielding"]
<1>1. /\ Busy(t) /\ Call(t) \in WaitCall /\ Call(t).call = "wait" /\ Call(t).at = "led"
      /\ tss[t] \in Tss /\ el \in Nat /\ cl \in Nat
      /\ lf \in [leaders : Int, client_thread_is_leader : Int, event_loop_threads_waiting : Int]
      /\ n \in Nat \ {0} /\ Call(t) = o[n]
      /\ Accounted(o, n, el, cl)
  BY ThreadFacts, CallFacts DEF At, ThreadOK
<1>2. x \in Calls /\ Neutral(x)
  <2>1. x \in WaitCall /\ x.at = "yielding" /\ x.call = "wait"
    BY <1>1, CallFacts DEF WaitPoints
  <2> QED  BY <2>1 DEF Calls, Neutral, Leading, Running
<1>3. Leading(Call(t)) /\ ~Aside(Call(t))
  BY <1>1 DEF Leading, Aside
<1> HIDE DEF x
<1>4. ASSUME NEW z, \A k \in 1..(n - 1) : z[k] = o[k], z[n] = x
      PROVE  /\ cl = 0 => el = 0 /\ Accounted(z, n, el, cl)
             /\ cl > 0 => Accounted(z, n, el, cl - 1)
  <2>1. Leading(o[n]) /\ Neutral(z[n])
    BY <1>1, <1>2, <1>3, <1>4
  <2> QED  BY <1>1, <1>4, <2>1, UnleadAccounted
<1>5. CASE cl > 0
  <2>1. /\ c = [lf EXCEPT !.leaders = @ - 1, !.client_thread_is_leader = @ - 1]
        /\ r = [tss[t] EXCEPT !.client_leader_thread = @ - 1]
    BY <1>5 DEF reset_client_leader_thread, client_leader_given_up
  <2>2. /\ c \in [leaders : Int, client_thread_is_leader : Int, event_loop_threads_waiting : Int]
        /\ c.leaders = lf.leaders - 1
        /\ c.client_thread_is_leader = lf.client_thread_is_leader - 1
        /\ c.event_loop_threads_waiting = lf.event_loop_threads_waiting
    <3>1. lf.leaders - 1 \in Int /\ lf.client_thread_is_leader - 1 \in Int
      BY <1>1, SMT
    <3> QED  BY <1>1, <2>1, <3>1, CounterFacts
  <2>3. /\ r \in Tss /\ r.client_leader_thread = cl - 1 /\ r.event_loop_thread = el
    BY <1>1, <1>5, <2>1, SMT DEF Tss
  <2>4. One(leads(tss[t]) /\ ~Aside(Call(t))) = 1
    BY <1>3, <1>5 DEF One, leads
  <2>5. TopAccounted(t, x, r)
    BY <1>4, <1>5, <2>3 DEF TopAccounted
  <2> HIDE DEF c, r
  <2>6. /\ c.leaders = lf.leaders - One(leads(tss[t]) /\ ~Aside(Call(t)))
        /\ c.client_thread_is_leader = lf.client_thread_is_leader + r.client_leader_thread - cl
        /\ r.client_leader_thread \in (cl - 1)..cl
    <3>1. cl \in Int /\ lf.client_thread_is_leader \in Int
      BY <1>1
    <3> HIDE DEF cl
    <3>2. c.leaders = lf.leaders - One(leads(tss[t]) /\ ~Aside(Call(t)))
      BY <2>2, <2>4
    <3>3. c.client_thread_is_leader = lf.client_thread_is_leader + r.client_leader_thread - cl
      BY <2>2, <2>3, <3>1, SMT
    <3>4. r.client_leader_thread \in (cl - 1)..cl
      BY <2>3, <3>1, SMT
    <3> QED  BY <3>2, <3>3, <3>4
  <2> QED  BY <1>1, <1>2, <2>2, <2>3, <2>5, <2>6 DEF AtLoop, c, r
<1>6. CASE cl = 0
  <2>1. c = lf /\ r = tss[t]
    BY <1>6, SMT DEF reset_client_leader_thread, client_leader_given_up
  <2>2. el = 0
    <3> DEFINE w == [k \in 1..n |-> IF k = n THEN x ELSE o[k]]
    <3>1. (\A k \in 1..(n - 1) : w[k] = o[k]) /\ w[n] = x
      BY <1>1, SMT
    <3> HIDE DEF w
    <3> QED  BY <1>4, <1>6, <3>1
  <2>3. ~leads(tss[t]) /\ One(leads(tss[t]) /\ ~Aside(Call(t))) = 0
    <3>1. ~leads(tss[t])
      BY <1>6, <2>2, SMT DEF leads
    <3> QED  BY <3>1 DEF One
  <2>4. TopAccounted(t, x, r)
    BY <1>4, <1>6, <2>1 DEF TopAccounted
  <2>5. lf.leaders \in Int /\ lf.client_thread_is_leader \in Int
    BY <1>1, SMT
  <2>6. /\ lf.leaders = lf.leaders - One(leads(tss[t]) /\ ~Aside(Call(t)))
        /\ lf.client_thread_is_leader = lf.client_thread_is_leader + cl - cl
        /\ cl \in (cl - 1)..cl
    BY <1>1, <2>3, <2>5, SMT
  <2> QED  BY <1>1, <1>2, <2>1, <2>4, <2>6 DEF AtLoop
<1> QED  BY <1>1, <1>5, <1>6, SMT

(* EnterWait: the first round of the loop.                                 *)
LEMMA EnterWaitStep ==
    ASSUME Inv, NEW t \in Threads, EnterWait(t)
    PROVE  \E s, q : Steps(t, s, q)
  BY EnterAtLoop, WaitLoopStep DEF EnterWait

(* YieldEnds: a round after the event loop threads went first.             *)
LEMMA YieldEndsStep ==
    ASSUME Inv, NEW t \in Threads, YieldEnds(t)
    PROVE  \E s, q : Steps(t, s, q)
<1>1. Busy(t) /\ Aside(Call(t))
  BY DEF YieldEnds, At, Aside
<1> QED  BY <1>1, AsideAtLoop, WaitLoopStep DEF YieldEnds

(* FollowerWakes: from the follower's sleep.                               *)
LEMMA FollowerWakesStep ==
    ASSUME Inv, NEW t \in Threads, FollowerWakes(t)
    PROVE  \E s, q : Steps(t, s, q)
<1>1. Busy(t) /\ Aside(Call(t))
  BY DEF FollowerWakes, At, Aside
<1>2. AtLoop(t, lf, tss[t])
  BY <1>1, AsideAtLoop
<1>3. CASE Follow(t, lf, tss[t])
  BY <1>2, <1>3, FollowStep
<1>4. CASE BecomeClientLeader(t, lf, tss[t])
  BY <1>2, <1>4, BecomeStep
<1>5. CASE /\ calls' = Returned(t)
           /\ lf' = reset_client_thread(lf, tss[t])
           /\ UNCHANGED tss
  <2>1. tss' = [tss EXCEPT ![t] = tss[t]]
    BY <1>5, ThreadFacts
  <2> QED  BY <1>2, <1>5, <2>1, ReturnStep
<1> QED  BY <1>3, <1>4, <1>5 DEF FollowerWakes

(* FollowerTimesOut: the call returns.                                     *)
LEMMA FollowerTimesOutStep ==
    ASSUME Inv, NEW t \in Threads, FollowerTimesOut(t)
    PROVE  \E s, q : Steps(t, s, q)
<1>1. Busy(t) /\ Aside(Call(t))
  BY DEF FollowerTimesOut, At, Aside
<1>2. AtLoop(t, lf, tss[t])
  BY <1>1, AsideAtLoop
<1>3. tss' = [tss EXCEPT ![t] = tss[t]]
  BY ThreadFacts DEF FollowerTimesOut
<1> QED  BY <1>2, <1>3, ReturnStep DEF FollowerTimesOut

(* LeadEnds: the thread yields to the event loop threads, or goes on.      *)
LEMMA LeadEndsStep ==
    ASSUME Inv, NEW t \in Threads, LeadEnds(t)
    PROVE  \E s, q : Steps(t, s, q)
<1> DEFINE c == reset_client_leader_thread(lf, tss[t])
           r == client_leader_given_up(tss[t])
           x == [Call(t) EXCEPT !.at = "yielding"]
<1>1. AtLoop(t, c, r)
  BY LedAtLoop DEF LeadEnds
<1>2. CASE WaitLoop(t, c, r)
  BY <1>1, <1>2, WaitLoopStep
<1>3. CASE /\ calls' = Moved(t, "yielding")
           /\ lf' = c
           /\ tss' = [tss EXCEPT ![t] = r]
  <2>1. Busy(t) /\ Call(t) \in WaitCall /\ r \in Tss
    BY <1>1, ThreadFacts, CallFacts DEF AtLoop
  <2>2. x \in WaitCall /\ x.at = "yielding" /\ x.call = "wait"
    BY <2>1, CallFacts DEF WaitPoints
  <2>3. calls' = With(t, x)
    BY <1>3 DEF Moved
  <2> HIDE DEF x, c, r
  <2>4. /\ x \in Calls /\ Neutral(x) /\ Aside(x) /\ ~Waits(x) /\ ~Waits(Call(t))
        /\ LeadsInReactor(x, r)
    BY <1>1, <2>2 DEF Calls, Neutral, Leading, Running, Aside, Waits, LeadsInReactor, AtLoop
  <2>5. TopAccounted(t, x, r)
    BY <1>1, <2>4, FromLoop
  <2>6. /\ One(leads(r) /\ ~Aside(x)) = 0 /\ One(Waits(x)) = 0 /\ One(Waits(Call(t))) = 0
        /\ One(leads(tss[t]) /\ ~Aside(Call(t))) \in {0, 1}
        /\ tss[t].client_leader_thread \in Nat
        /\ lf.leaders \in Int /\ lf.event_loop_threads_waiting \in Int
    BY <2>4, ThreadFacts, SMT DEF One
  <2>7. r.client_leader_thread \in Nat
    BY <2>1, SMT DEF Tss
  <2>8. /\ lf' \in [leaders : Int, client_thread_is_leader : Int, event_loop_threads_waiting : Int]
        /\ lf'.leaders = lf.leaders - One(leads(tss[t]) /\ ~Aside(Call(t)))
        /\ lf'.event_loop_threads_waiting = lf.event_loop_threads_waiting
        /\ lf'.client_thread_is_leader =
              lf.client_thread_is_leader + r.client_leader_thread - tss[t].client_leader_thread
        /\ r.client_leader_thread \in
              (tss[t].client_leader_thread - 1)..tss[t].client_leader_thread
    BY <1>1, <1>3 DEF AtLoop
  <2>9. CountsTop(t, x, r, lf')
    BY <2>6, <2>7, <2>8, SMT DEF CountsTop
  <2> QED  BY <1>3, <2>1, <2>3, <2>4, <2>5, <2>9, TopStep
<1> QED  BY <1>2, <1>3 DEF LeadEnds

(* A thread that goes on in the reactor: LeadBegins, LeadGoesOn, Dispatch  *)
(* and so on.                                                              *)
LEMMA MovedFacts ==
    ASSUME Inv, NEW t \in Threads, Busy(t), NEW p,
           p \in WaitPoints \/ Call(t).call # "wait",
           p \in RunPoints \/ Call(t).call # "run",
           NEW x, x = [Call(t) EXCEPT !.at = p]
    PROVE  x \in Calls /\ x.at = p /\ x.call = Call(t).call
<1>1. Call(t) \in Calls
  BY ThreadFacts
<1>2. CASE Call(t).call = "wait"
  BY <1>1, <1>2, CallFacts DEF Calls
<1>3. CASE Call(t).call = "run"
  BY <1>1, <1>3, CallFacts DEF Calls
<1> QED  BY <1>1, <1>2, <1>3, CallFacts

(* The thread moves on to p and keeps its counters.                        *)
LEMMA ReactorStep ==
    ASSUME Inv, NEW t \in Threads, Busy(t),
           NEW p \in {"polling", "handling", "upcall", "polled", "led"},
           Leading(Call(t)) \/ Running(Call(t)),
           Call(t).call = "run" => p # "led",
           Call(t).call = "wait" /\ p = "polling" => tss[t].client_leader_thread > 0,
           Call(t).call = "run" => p # "polling",
           p = "handling" => leads(tss[t]),
           calls' = Moved(t, p), lf' = lf, tss' = tss
    PROVE  \E s : Steps(t, s, tss[t])
<1> DEFINE x == [Call(t) EXCEPT !.at = p]
<1>1. x \in Calls /\ x.at = p /\ x.call = Call(t).call
  BY MovedFacts DEF WaitPoints, RunPoints
<1>2. calls' = With(t, x)
  BY DEF Moved
<1> HIDE DEF x
<1>3. SameRole(x, Call(t))
  BY <1>1 DEF SameRole, Leading, Running, Aside, Waits
<1>4. LeadsInReactor(x, tss[t])
  BY <1>1 DEF LeadsInReactor
<1> QED  BY <1>1, <1>2, <1>3, <1>4, SameStep

(* All of these actions.                                                   *)
LEMMA ReactorSteps ==
    ASSUME Inv, NEW t \in Threads,
           LeadBegins(t) \/ LeadGoesOn(t) \/ LeadExpires(t)
           \/ Dispatch(t) \/ HandleEventsReturns(t) \/ CallBack(t)
    PROVE  \E s : Steps(t, s, tss[t])
<1>1. Busy(t) => Call(t).call \in {"wait", "run"} /\ LeadsInReactor(Call(t), tss[t])
  BY ThreadFacts, CallFacts DEF ThreadOK, Busy, Call
<1>2. CASE LeadBegins(t)
  <2>1. /\ Busy(t) /\ Call(t).call = "wait" /\ Call(t).at = "leading"
        /\ Leading(Call(t)) /\ lf' = lf /\ tss' = tss
    BY <1>2 DEF LeadBegins, At, Leading
  <2>2. calls' = Moved(t, "polling") \/ calls' = Moved(t, "led")
    BY <1>2 DEF LeadBegins
  <2>3. tss[t].client_leader_thread > 0
    BY <1>1, <2>1 DEF LeadsInReactor
  <2> QED  BY <2>1, <2>2, <2>3, ReactorStep
<1>3. CASE LeadGoesOn(t)
  <2>1. /\ Busy(t) /\ Call(t).call = "wait" /\ Leading(Call(t)) /\ lf' = lf /\ tss' = tss
    BY <1>3 DEF LeadGoesOn, At, Leading
  <2>2. \/ tss[t].client_leader_thread > 0 /\ calls' = Moved(t, "polling")
        \/ calls' = Moved(t, "led")
    BY <1>3 DEF LeadGoesOn
  <2> QED  BY <2>1, <2>2, ReactorStep
<1>4. CASE LeadExpires(t)
  <2> DEFINE x == [Call(t) EXCEPT !.at = "led", !.expired = TRUE]
  <2>1. /\ Busy(t) /\ Call(t).call = "wait" /\ Call(t).at = "polling" /\ Call(t) \in WaitCall
        /\ lf' = lf /\ tss' = tss /\ calls' = With(t, x)
    BY <1>4, ThreadFacts, CallFacts DEF LeadExpires, At
  <2>2. x \in WaitCall /\ x.at = "led" /\ x.call = "wait" /\ x \in Calls
    BY <2>1, CallFacts DEF Calls, WaitPoints
  <2> HIDE DEF x
  <2>3. SameRole(x, Call(t)) /\ LeadsInReactor(x, tss[t])
    BY <2>1, <2>2 DEF SameRole, Leading, Running, Aside, Waits, LeadsInReactor
  <2> QED  BY <2>1, <2>2, <2>3, SameStep
<1>5. CASE Dispatch(t)
  <2>1. Busy(t) /\ Call(t).at = "polling" /\ lf' = lf /\ tss' = tss /\ calls' = Moved(t, "handling")
    BY <1>5 DEF Dispatch, InReactor
  <2>2. leads(tss[t]) /\ (Leading(Call(t)) \/ Running(Call(t)))
    BY <1>1, <2>1 DEF LeadsInReactor, leads, Leading, Running
  <2> QED  BY <2>1, <2>2, ReactorStep
<1>6. CASE HandleEventsReturns(t)
  <2>1. /\ Busy(t) /\ Call(t).at \in {"handling", "upcall"}
        /\ lf' = lf /\ tss' = tss /\ calls' = Moved(t, "polled")
    BY <1>6 DEF HandleEventsReturns, InReactor
  <2>2. Leading(Call(t)) \/ Running(Call(t))
    BY <1>1, <2>1 DEF Leading, Running
  <2> QED  BY <2>1, <2>2, ReactorStep
<1>7. CASE CallBack(t)
  <2>1. /\ Busy(t) /\ Call(t).at = "handling"
        /\ lf' = lf /\ tss' = tss /\ calls' = Moved(t, "upcall")
    BY <1>7 DEF CallBack, InReactor
  <2>2. Leading(Call(t)) \/ Running(Call(t))
    BY <1>1, <2>1 DEF Leading, Running
  <2> QED  BY <2>1, <2>2, ReactorStep
<1> QED  BY <1>2, <1>3, <1>4, <1>5, <1>6, <1>7

(* Invoke and Run.                                                         *)
LEMMA NewCallSteps ==
    ASSUME Inv, NEW t \in Threads, Invoke(t) \/ Run(t)
    PROVE  \E s : Steps(t, s, tss[t])
<1>1. CASE Invoke(t)
  <2> DEFINE x == [call |-> "wait", at |-> "calling", event |-> "ACTIVE", expired |-> FALSE]
  <2>1. x \in WaitCall /\ x.at = "calling"
    BY Zenon DEF WaitCall, WaitPoints, EventStates
  <2>2. x \in Calls
    BY <2>1 DEF Calls
  <2>3. /\ MayCall(t) /\ tss' = tss /\ lf' = lf
        /\ calls' = [calls EXCEPT ![t] = Append(@, x)]
    BY <1>1 DEF Invoke
  <2> HIDE DEF x
  <2> QED  BY <2>1, <2>2, <2>3, PushStep
<1>2. CASE Run(t)
  <2> DEFINE x == [call |-> "run", at |-> "entering"]
  <2>1. x \in RunCall /\ x.at = "entering"
    BY SMT DEF RunCall, RunPoints
  <2>2. x \in Calls
    BY <2>1 DEF Calls
  <2>3. /\ MayCall(t) /\ tss' = tss /\ lf' = lf
        /\ calls' = [calls EXCEPT ![t] = Append(@, x)]
    BY <1>2 DEF Run
  <2> HIDE DEF x
  <2> QED  BY <2>1, <2>2, <2>3, PushStep
<1> QED  BY <1>1, <1>2

(* The event of a call is completed, wherever it is on the stack of u.     *)
LEMMA StateChangedStep ==
    ASSUME Inv, NEW u \in Threads, NEW k, state_changed(u, k)
    PROVE  \E s : /\ Steps(u, s, tss[u])
                  /\ calls[u] # <<>> /\ s # <<>>
                  /\ Last(s).call = Last(calls[u]).call /\ Last(s).at = Last(calls[u]).at
                  /\ Last(s).event = IF k = Len(calls[u]) THEN "FINAL" ELSE Last(calls[u]).event
                  /\ k \in 1..Len(calls[u])
<1> DEFINE o == calls[u]
           n == Len(o)
           r == tss[u]
           x == [o[k] EXCEPT !.event = "FINAL"]
           s == [o EXCEPT ![k] = x]
<1>1. /\ o \in Seq(Calls) /\ ThreadOK(o, r) /\ r \in Tss
      /\ r.client_leader_thread \in Nat
      /\ tss = [tss EXCEPT ![u] = r]
      /\ lf \in [leaders : Int, client_thread_is_leader : Int, event_loop_threads_waiting : Int]
      /\ calls \in [Threads -> Seq(Calls)] /\ n \in Nat
  BY ThreadFacts
<1>2. k \in 1..n /\ o[k].call = "wait" /\ o[k] \in WaitCall /\ n \in Nat \ {0} /\ n \in 1..n
  <2>1. k \in 1..n /\ o[k].call = "wait"
    BY <1>1, LenProperties DEF state_changed, Active
  <2>2. o[k] \in Calls
    BY <1>1, <2>1, ElementOfSeq
  <2>3. n \in Nat \ {0} /\ n \in 1..n
    BY <1>1, <2>1, SMT
  <2> QED  BY <2>1, <2>2, <2>3, CallFacts
<1>3. /\ x \in WaitCall /\ x \in Calls /\ x.call = "wait" /\ x.at = o[k].at
      /\ x.event = "FINAL"
  <2>1. "led" \in WaitPoints
    BY DEF WaitPoints
  <2> QED  BY <1>2, <2>1, CallFacts DEF Calls
<1>4. /\ calls' = [calls EXCEPT ![u] = s] /\ tss' = [tss EXCEPT ![u] = r] /\ lf' = lf
  <2>1. calls' = [calls EXCEPT ![u][k].event = "FINAL"] /\ tss' = tss /\ lf' = lf
    BY DEF state_changed
  <2> QED  BY <1>1, <2>1
<1> HIDE DEF x
<1>5. /\ s \in Seq(Calls) /\ Len(s) = n
      /\ \A j \in 1..n : s[j] = IF j = k THEN x ELSE o[j]
  BY <1>1, <1>2, <1>3, ExceptSeq
<1> HIDE DEF s
<1>6. s # <<>> /\ o # <<>>
  BY <1>2, <1>5, EmptySeq
<1>7. \A j \in 1..n : s[j].call = o[j].call /\ s[j].at = o[j].at
  BY <1>2, <1>3, <1>5
<1>8. Last(s) = s[n] /\ Last(o) = o[n] /\ Last(s).call = Last(o).call /\ Last(s).at = Last(o).at
  BY <1>2, <1>5, <1>7 DEF Last
<1>9. Accounted(s, n, r.event_loop_thread, r.client_leader_thread)
  <2>1. \A j \in 1..n : (Leading(s[j]) <=> Leading(o[j])) /\ (Running(s[j]) <=> Running(o[j]))
    BY <1>7 DEF Leading, Running
  <2>2. Accounted(o, n, r.event_loop_thread, r.client_leader_thread)
    BY <1>1 DEF ThreadOK
  <2> QED  BY <1>2, <2>1, <2>2, SameAccounted
<1>10. ThreadOK(s, r)
  <2>1. \A j \in 1..(n - 1) : s[j].at = "upcall"
    <3>1. \A j \in 1..(n - 1) : j \in 1..n
      BY <1>2, SMT
    <3> QED  BY <1>1, <1>7, <3>1 DEF ThreadOK
  <2>2. LeadsInReactor(Last(s), r)
    BY <1>1, <1>6, <1>8 DEF ThreadOK, LeadsInReactor
  <2> QED  BY <1>1, <1>5, <1>9, <2>1, <2>2 DEF ThreadOK
<1>11. (Charge(s, r) <=> Charge(o, r)) /\ (AtDoor(s) <=> AtDoor(o))
  BY <1>6, <1>8 DEF Charge, AtDoor, Aside, Waits
<1>12. /\ One(Charge(s, r)) = One(Charge(o, r)) /\ One(Charge(o, r)) \in {0, 1}
       /\ One(AtDoor(s)) = One(AtDoor(o)) /\ One(AtDoor(o)) \in {0, 1}
  BY <1>11 DEF One
<1>13. CountsFor(u, s, r, lf')
  BY <1>1, <1>4, <1>12, SMT DEF CountsFor
<1>14. Last(s).event = IF k = n THEN "FINAL" ELSE Last(o).event
  BY <1>2, <1>3, <1>5, <1>8
<1>15. Steps(u, s, r)
  BY <1>4, <1>10, <1>13 DEF Steps
<1> QED  BY <1>2, <1>6, <1>8, <1>14, <1>15

-----------------------------------------------------------------------------
(* The event loop and set_upcall_thread, in the calls and the counters.    *)

(* What event_loop_left does: the thread is counted off when it leads no   *)
(* longer.                                                                 *)
LEMMA LeftCounts ==
    ASSUME Inv, NEW t \in Threads, tss[t].event_loop_thread > 0,
           NEW q, q = [tss[t] EXCEPT !.event_loop_thread = @ - 1],
           NEW c, c = event_loop_left(lf, tss[t])
    PROVE  /\ q \in Tss /\ q.client_leader_thread = tss[t].client_leader_thread
           /\ q.event_loop_thread = tss[t].event_loop_thread - 1
           /\ c \in [leaders : Int, client_thread_is_leader : Int,
                     event_loop_threads_waiting : Int]
           /\ c.leaders = lf.leaders + One(leads(q)) - One(leads(tss[t]))
           /\ c.event_loop_threads_waiting = lf.event_loop_threads_waiting
           /\ c.client_thread_is_leader = lf.client_thread_is_leader
           /\ leads(tss[t])
           /\ ~leads(q) <=> tss[t].event_loop_thread = 1 /\ tss[t].client_leader_thread = 0
<1> DEFINE r == tss[t]
<1>1. /\ r \in Tss /\ r.event_loop_thread \in Nat /\ r.client_leader_thread \in Nat
      /\ lf \in [leaders : Int, client_thread_is_leader : Int, event_loop_threads_waiting : Int]
  BY ThreadFacts
<1>2. /\ q \in Tss /\ q.client_leader_thread = r.client_leader_thread
      /\ q.event_loop_thread = r.event_loop_thread - 1
  BY <1>1, SMT DEF Tss
<1>3. leads(r)
  BY DEF leads
<1>4. ~leads(q) <=> r.event_loop_thread = 1 /\ r.client_leader_thread = 0
  BY <1>1, <1>2, SMT DEF leads
<1>5. CASE leads(q)
  <2>1. c = lf
    BY <1>4, <1>5 DEF event_loop_left
  <2>2. One(leads(q)) = 1 /\ One(leads(r)) = 1
    BY <1>3, <1>5 DEF One
  <2>3. c.leaders = lf.leaders + 1 - 1
    BY <1>1, <2>1, SMT
  <2> QED  BY <1>1, <1>2, <1>3, <1>4, <2>1, <2>2, <2>3
<1>6. CASE ~leads(q)
  <2>1. c = [lf EXCEPT !.leaders = @ - 1]
    BY <1>4, <1>6 DEF event_loop_left
  <2>2. One(leads(q)) = 0 /\ One(leads(r)) = 1
    BY <1>3, <1>6 DEF One
  <2>3. /\ c \in [leaders : Int, client_thread_is_leader : Int, event_loop_threads_waiting : Int]
        /\ c.leaders = lf.leaders + 0 - 1
        /\ c.event_loop_threads_waiting = lf.event_loop_threads_waiting
        /\ c.client_thread_is_leader = lf.client_thread_is_leader
    BY <1>1, <2>1, SMT
  <2> QED  BY <1>2, <1>3, <1>4, <2>2, <2>3
<1> QED  BY <1>5, <1>6

(* A thread begins to run the reactor in its event loop.                   *)
LEMMA RunReactorStep ==
    ASSUME Inv, NEW t \in Threads, Busy(t), Call(t).call = "run",
           Call(t).at \in {"entering", "blocked"},
           NEW c \in [leaders : Int, client_thread_is_leader : Int,
                      event_loop_threads_waiting : Int],
           c.leaders = lf.leaders, c.client_thread_is_leader = lf.client_thread_is_leader,
           c.event_loop_threads_waiting =
              lf.event_loop_threads_waiting - One(Waits(Call(t))),
           RunReactor(t, c)
    PROVE  \E s, q : Steps(t, s, q)
<1> DEFINE o == calls[t]
           n == Len(o)
           r == tss[t]
           x == [Call(t) EXCEPT !.at = "polling"]
           q == [r EXCEPT !.event_loop_thread = @ + 1]
<1>1. /\ r \in Tss /\ r.event_loop_thread \in Nat /\ r.client_leader_thread \in Nat
      /\ lf \in [leaders : Int, client_thread_is_leader : Int, event_loop_threads_waiting : Int]
      /\ n \in Nat \ {0} /\ Call(t) = o[n] /\ ThreadOK(o, r)
      /\ tss \in [Threads -> Tss]
  BY ThreadFacts
<1>2. x \in Calls /\ x.at = "polling" /\ x.call = "run"
  BY MovedFacts DEF RunPoints
<1>3. /\ q \in Tss /\ q.event_loop_thread = r.event_loop_thread + 1
      /\ q.client_leader_thread = r.client_leader_thread
      /\ q.event_loop_thread > 0 /\ leads(q)
  BY <1>1, SMT DEF Tss, leads
<1>4. /\ calls' = With(t, x) /\ lf' = event_loop_entered(c, r)
      /\ tss' = [tss EXCEPT ![t] = q]
  BY <1>1 DEF RunReactor, Moved
<1> HIDE DEF x, q
<1>5. /\ Running(x) /\ ~Aside(x) /\ ~Waits(x) /\ LeadsInReactor(x, q)
      /\ Neutral(Call(t)) /\ ~Aside(Call(t))
  BY <1>2, <1>3 DEF Running, Aside, Waits, LeadsInReactor, Neutral, Leading
<1>6. TopAccounted(t, x, q)
  <2> SUFFICES ASSUME NEW z, \A k \in 1..(n - 1) : z[k] = o[k], z[n] = x
               PROVE  Accounted(z, n, q.event_loop_thread, q.client_leader_thread)
    BY DEF TopAccounted
  <2>1. Accounted(o, n, r.event_loop_thread, r.client_leader_thread) /\ Neutral(o[n])
    BY <1>1, <1>5 DEF ThreadOK
  <2>2. n \in Nat \ {0} /\ Running(z[n])
    BY <1>1, <1>5
  <2> HIDE DEF n, o, r
  <2>3. Accounted(z, n, r.event_loop_thread + 1, r.client_leader_thread)
    BY <2>1, <2>2, RunAccounted
  <2> QED  BY <1>3, <2>3
<1>7. /\ lf' \in [leaders : Int, client_thread_is_leader : Int, event_loop_threads_waiting : Int]
      /\ lf'.leaders = lf.leaders + 1 - One(leads(r))
      /\ lf'.event_loop_threads_waiting = c.event_loop_threads_waiting
      /\ lf'.client_thread_is_leader = lf.client_thread_is_leader
  <2>1. CASE leads(r)
    <3>1. lf' = c /\ One(leads(r)) = 1
      BY <1>4, <2>1 DEF event_loop_entered, One
    <3> QED  BY <3>1, SMT
  <2>2. CASE ~leads(r)
    <3>1. lf' = [c EXCEPT !.leaders = @ + 1] /\ One(leads(r)) = 0
      BY <1>4, <2>2 DEF event_loop_entered, One
    <3> QED  BY <3>1, SMT
  <2> QED  BY <2>1, <2>2
<1>8. /\ One(leads(q) /\ ~Aside(x)) = 1 /\ One(Waits(x)) = 0
      /\ One(leads(r) /\ ~Aside(Call(t))) = One(leads(r))
      /\ One(Waits(Call(t))) \in {0, 1}
  BY <1>3, <1>5 DEF One
<1>9. CountsTop(t, x, q, lf')
  BY <1>1, <1>3, <1>7, <1>8, SMT DEF CountsTop
<1> QED  BY <1>2, <1>3, <1>4, <1>5, <1>6, <1>9, TopStep

(* A thread comes to the event loop's door, or goes away from it.          *)
LEMMA DoorStep ==
    ASSUME Inv, NEW t \in Threads, Busy(t), Call(t).call = "run",
           Call(t).at \in {"entering", "blocked"}, NEW p \in {"blocked", "failed"},
           NEW d, d = One(p = "blocked") - One(Call(t).at = "blocked"),
           lf' = [lf EXCEPT !.event_loop_threads_waiting = @ + d],
           calls' = Moved(t, p), tss' = tss
    PROVE  \E s, q : Steps(t, s, q)
<1> DEFINE r == tss[t]
           x == [Call(t) EXCEPT !.at = p]
<1>1. /\ r \in Tss /\ r.client_leader_thread \in Nat
      /\ lf \in [leaders : Int, client_thread_is_leader : Int, event_loop_threads_waiting : Int]
      /\ tss' = [tss EXCEPT ![t] = r]
  BY ThreadFacts
<1>2. x \in Calls /\ x.at = p /\ x.call = "run"
  BY MovedFacts DEF RunPoints
<1>3. calls' = With(t, x)
  BY DEF Moved
<1> HIDE DEF x
<1>4. /\ Neutral(x) /\ ~Aside(x) /\ LeadsInReactor(x, r)
      /\ Neutral(Call(t)) /\ ~Aside(Call(t))
  BY <1>2 DEF Running, Aside, LeadsInReactor, Neutral, Leading
<1>5. TopAccounted(t, x, r)
  BY <1>4, TopSame DEF Neutral
<1>6. /\ One(leads(r) /\ ~Aside(x)) = One(leads(r) /\ ~Aside(Call(t)))
      /\ One(leads(r) /\ ~Aside(x)) \in {0, 1}
      /\ One(Waits(x)) = One(p = "blocked")
      /\ One(Waits(Call(t))) = One(Call(t).at = "blocked")
      /\ One(p = "blocked") \in {0, 1} /\ One(Call(t).at = "blocked") \in {0, 1}
  BY <1>2, <1>4 DEF One, Waits
<1>7. d \in Int
  BY <1>6, SMT
<1>8. /\ lf' \in [leaders : Int, client_thread_is_leader : Int, event_loop_threads_waiting : Int]
      /\ lf'.leaders = lf.leaders
      /\ lf'.event_loop_threads_waiting = lf.event_loop_threads_waiting + d
      /\ lf'.client_thread_is_leader = lf.client_thread_is_leader
  BY <1>1, <1>7, SMT
<1>9. CountsTop(t, x, r, lf')
  BY <1>1, <1>6, <1>8, SMT DEF CountsTop
<1> QED  BY <1>1, <1>2, <1>3, <1>4, <1>5, <1>9, TopStep

(* A round of the event loop is over: the thread enters it again, or run   *)
(* returns.                                                                *)
LEMMA RoundEndsStep ==
    ASSUME Inv, NEW t \in Threads, Busy(t), Call(t).call = "run",
           Call(t).at \in {"polled", "failed"}, NEW q \in Tss,
           \A z : /\ \A k \in 1..(Len(calls[t]) - 1) : z[k] = calls[t][k]
                  /\ Neutral(z[Len(calls[t])])
                  => Accounted(z, Len(calls[t]), q.event_loop_thread, q.client_leader_thread),
           q.client_leader_thread = tss[t].client_leader_thread,
           lf' \in [leaders : Int, client_thread_is_leader : Int,
                    event_loop_threads_waiting : Int],
           lf'.leaders = lf.leaders + One(leads(q)) - One(leads(tss[t])),
           lf'.event_loop_threads_waiting = lf.event_loop_threads_waiting,
           lf'.client_thread_is_leader = lf.client_thread_is_leader,
           tss' = [tss EXCEPT ![t] = q],
           calls' = Moved(t, "entering") \/ calls' = Returned(t)
    PROVE  \E s : Steps(t, s, q)
<1> DEFINE o == calls[t]
           n == Len(o)
           r == tss[t]
           x == [Call(t) EXCEPT !.at = "entering"]
<1>1. /\ r.client_leader_thread \in Nat
      /\ lf \in [leaders : Int, client_thread_is_leader : Int, event_loop_threads_waiting : Int]
      /\ n \in Nat \ {0} /\ Call(t) = o[n]
  BY ThreadFacts
<1>2. x \in Calls /\ x.at = "entering" /\ x.call = "run"
  <2>1. "entering" \in RunPoints /\ Call(t).call # "wait"
    BY DEF RunPoints
  <2> QED  BY <2>1, MovedFacts
<1>3. calls' = With(t, x) \/ calls' = Returned(t)
  BY DEF Moved
<1> HIDE DEF x
<1>4. /\ Neutral(x) /\ ~Aside(x) /\ ~Waits(x) /\ LeadsInReactor(x, q)
      /\ ~Aside(Call(t)) /\ ~Waits(Call(t))
  BY <1>2 DEF Running, Aside, Waits, LeadsInReactor, Neutral, Leading
<1>5. /\ One(leads(q) /\ ~Aside(x)) = One(leads(q)) /\ One(leads(q)) \in {0, 1}
      /\ One(leads(r) /\ ~Aside(Call(t))) = One(leads(r))
      /\ One(Waits(x)) = 0 /\ One(Waits(Call(t))) = 0
  BY <1>4 DEF One
<1>6. CASE calls' = With(t, x)
  <2>1. TopAccounted(t, x, q)
    BY <1>4 DEF TopAccounted
  <2>2. CountsTop(t, x, q, lf')
    BY <1>1, <1>5, SMT DEF CountsTop
  <2> QED  BY <1>2, <1>4, <1>6, <2>1, <2>2, TopStep
<1>7. CASE calls' = Returned(t)
  <2> DEFINE w == [k \in 1..n |-> IF k = n THEN x ELSE o[k]]
  <2>1. (\A k \in 1..(n - 1) : w[k] = o[k]) /\ w[n] = x
    BY <1>1, SMT
  <2> HIDE DEF w
  <2>2. Accounted(w, n, q.event_loop_thread, q.client_leader_thread) /\ Neutral(w[n])
    BY <1>4, <2>1
  <2>3. ASSUME NEW z, \A k \in 1..(n - 1) : z[k] = o[k]
        PROVE  Accounted(z, n - 1, q.event_loop_thread, q.client_leader_thread)
    <3>1. \A k \in 1..(n - 1) : z[k] = w[k]
      BY <2>1, <2>3
    <3> QED  BY <1>1, <2>2, <3>1, PopAccounted
  <2>4. /\ lf'.leaders = lf.leaders + One(leads(q)) - One(leads(r) /\ ~Aside(Call(t)))
        /\ lf'.event_loop_threads_waiting =
              lf.event_loop_threads_waiting - One(Waits(Call(t)))
        /\ lf'.client_thread_is_leader =
              lf.client_thread_is_leader + q.client_leader_thread - r.client_leader_thread
        /\ q.client_leader_thread \in
              (r.client_leader_thread - 1)..(r.client_leader_thread + 1)
    BY <1>1, <1>5, SMT
  <2> QED  BY <1>7, <2>3, <2>4, PopStep
<1> QED  BY <1>3, <1>6, <1>7

(* ORB_Core::run, up to the event loop's door and through it.              *)
LEMMA DoorSteps ==
    ASSUME Inv, NEW t \in Threads, EnterLoop(t) \/ BlockedWakes(t) \/ BlockedTimesOut(t)
    PROVE  \/ \E s, q : Steps(t, s, q)
           \/ UNCHANGED <<calls, lf, tss>>
<1>1. /\ lf \in [leaders : Int, client_thread_is_leader : Int, event_loop_threads_waiting : Int]
      /\ lf.event_loop_threads_waiting \in Int
  BY ThreadFacts, SMT
<1>2. CASE EnterLoop(t)
  <2>1. Busy(t) /\ Call(t).call = "run" /\ Call(t).at = "entering" /\ ~Waits(Call(t))
    BY <1>2 DEF EnterLoop, At, Waits
  <2>2. CASE must_wait(t)
    <3> DEFINE p == "blocked"
               d == One(p = "blocked") - One(Call(t).at = "blocked")
    <3>1. One(p = "blocked") = 1 /\ One(Call(t).at = "blocked") = 0
      BY <2>1 DEF One
    <3>2. d = 1
      BY <3>1, SMT
    <3>3. /\ calls' = Moved(t, "blocked") /\ tss' = tss
          /\ lf' = [lf EXCEPT !.event_loop_threads_waiting = @ + 1]
      BY <1>2, <2>2 DEF EnterLoop
    <3>4. lf' = [lf EXCEPT !.event_loop_threads_waiting = @ + d]
      BY <3>2, <3>3
    <3> HIDE DEF d
    <3>5. d = One("blocked" = "blocked") - One(Call(t).at = "blocked")
      BY DEF d
    <3> QED  BY <2>1, <3>3, <3>4, <3>5, DoorStep
  <2>3. CASE RunReactor(t, lf)
    <3>1. lf.event_loop_threads_waiting = lf.event_loop_threads_waiting - One(Waits(Call(t)))
      <4>1. One(Waits(Call(t))) = 0
        BY <2>1 DEF One
      <4> QED  BY <1>1, <4>1, SMT
    <3> QED  BY <1>1, <2>1, <2>3, <3>1, RunReactorStep
  <2> QED  BY <1>2, <2>2, <2>3 DEF EnterLoop
<1>3. CASE BlockedWakes(t)
  <2> DEFINE c == [lf EXCEPT !.event_loop_threads_waiting = @ - 1]
  <2>1. Busy(t) /\ Call(t).call = "run" /\ Call(t).at = "blocked" /\ Waits(Call(t))
    BY <1>3 DEF BlockedWakes, At, Waits
  <2>2. CASE RunReactor(t, c)
    <3>1. One(Waits(Call(t))) = 1
      BY <2>1 DEF One
    <3>2. /\ c \in [leaders : Int, client_thread_is_leader : Int,
                    event_loop_threads_waiting : Int]
          /\ c.leaders = lf.leaders /\ c.client_thread_is_leader = lf.client_thread_is_leader
          /\ c.event_loop_threads_waiting = lf.event_loop_threads_waiting - 1
      BY <1>1, SMT
    <3> HIDE DEF c
    <3> QED  BY <2>1, <2>2, <3>1, <3>2, RunReactorStep
  <2>3. CASE UNCHANGED <<calls, lf, tss>>
    BY <2>3
  <2> QED  BY <1>3, <2>2, <2>3 DEF BlockedWakes
<1>4. CASE BlockedTimesOut(t)
  <2> DEFINE d == One("failed" = "blocked") - One(Call(t).at = "blocked")
  <2>1. Busy(t) /\ Call(t).call = "run" /\ Call(t).at = "blocked"
    BY <1>4 DEF BlockedTimesOut, At
  <2>2. One("failed" = "blocked") = 0 /\ One(Call(t).at = "blocked") = 1
    BY <2>1 DEF One
  <2>3. d = 0 - 1
    BY <2>2
  <2>4. /\ calls' = Moved(t, "failed") /\ tss' = tss
        /\ lf' = [lf EXCEPT !.event_loop_threads_waiting = @ - 1]
    BY <1>4 DEF BlockedTimesOut
  <2>5. lf.event_loop_threads_waiting - 1 = lf.event_loop_threads_waiting + d
    BY <1>1, <2>3, SMT
  <2>6. lf' = [lf EXCEPT !.event_loop_threads_waiting = @ + d]
    BY <2>4, <2>5
  <2> HIDE DEF d
  <2>7. d = One("failed" = "blocked") - One(Call(t).at = "blocked")
    BY DEF d
  <2> QED  BY <2>1, <2>4, <2>6, <2>7, DoorStep
<1> QED  BY <1>2, <1>3, <1>4

(* ORB_Core::run, out of the event loop.                                   *)
LEMMA RoundEndsSteps ==
    ASSUME Inv, NEW t \in Threads, LeaveLoop(t) \/ GiveUpLoop(t)
    PROVE  \E s, q : Steps(t, s, q)
<1> DEFINE o == calls[t]
           n == Len(o)
           r == tss[t]
           el == r.event_loop_thread
           cl == r.client_leader_thread
<1>1. /\ r \in Tss /\ el \in Nat /\ cl \in Nat
      /\ lf \in [leaders : Int, client_thread_is_leader : Int, event_loop_threads_waiting : Int]
      /\ tss = [tss EXCEPT ![t] = r] /\ tss \in [Threads -> Tss]
      /\ Busy(t) => n \in Nat \ {0} /\ Call(t) = o[n]
      /\ Accounted(o, n, el, cl)
  BY ThreadFacts DEF ThreadOK
<1>2. lf.leaders = lf.leaders + One(leads(r)) - One(leads(r))
  <2>1. One(leads(r)) \in {0, 1} /\ lf.leaders \in Int
    BY <1>1, SMT DEF One
  <2> QED  BY <2>1, SMT
<1>3. CASE LeaveLoop(t)
  <2>1. /\ Busy(t) /\ Call(t).call = "run" /\ Call(t).at = "polled" /\ Running(Call(t))
        /\ calls' = Moved(t, "entering") \/ calls' = Returned(t)
    BY <1>3 DEF LeaveLoop, At, Running
  <2>2. CASE el > 0
    <3> DEFINE q == [r EXCEPT !.event_loop_thread = @ - 1]
    <3>1. /\ lf' = event_loop_left(lf, r) /\ tss' = [tss EXCEPT ![t] = q]
      BY <1>1, <1>3, <2>2 DEF LeaveLoop
    <3>2. /\ q \in Tss /\ q.client_leader_thread = cl /\ q.event_loop_thread = el - 1
          /\ lf' \in [leaders : Int, client_thread_is_leader : Int,
                      event_loop_threads_waiting : Int]
          /\ lf'.leaders = lf.leaders + One(leads(q)) - One(leads(r))
          /\ lf'.event_loop_threads_waiting = lf.event_loop_threads_waiting
          /\ lf'.client_thread_is_leader = lf.client_thread_is_leader
      BY <2>2, <3>1, LeftCounts
    <3> HIDE DEF q
    <3>3. ASSUME NEW z, \A k \in 1..(n - 1) : z[k] = o[k], Neutral(z[n])
          PROVE  Accounted(z, n, q.event_loop_thread, q.client_leader_thread)
      <4>1. n \in Nat /\ Running(o[n])
        BY <1>1, <2>1
      <4>2. ASSUME NEW k \in 1..n
            PROVE  \/ (Leading(z[k]) <=> Leading(o[k])) /\ (Running(z[k]) <=> Running(o[k]))
                   \/ k = n /\ Running(o[n]) /\ Neutral(z[n])
        <5>1. k = n \/ k \in 1..(n - 1)
          BY <4>1, SMT
        <5> QED  BY <3>3, <4>1, <5>1
      <4>3. Accounted(z, n, el - 1, cl)
        BY <1>1, <2>2, <4>1, <4>2, LeaveAccounted
      <4> QED  BY <3>2, <4>3
    <3> QED  BY <2>1, <3>1, <3>2, <3>3, RoundEndsStep
  <2>3. CASE ~(el > 0)
    <3>1. el = 0
      BY <1>1, <2>3, SMT
    <3>2. lf' = lf /\ tss' = [tss EXCEPT ![t] = r]
      BY <1>1, <1>3, <2>3 DEF LeaveLoop
    <3>3. ASSUME NEW z, \A k \in 1..(n - 1) : z[k] = o[k], Neutral(z[n])
          PROVE  Accounted(z, n, el, cl)
      <4>1. n \in Nat \ {0} /\ Running(o[n]) /\ Accounted(o, n, 0, cl)
        BY <1>1, <2>1, <3>1
      <4>2. Accounted(z, n, 0, cl)
        BY <3>3, <4>1, LeftAccounted
      <4> QED  BY <3>1, <4>2
    <3> QED  BY <1>1, <1>2, <2>1, <3>2, <3>3, RoundEndsStep
  <2> QED  BY <2>2, <2>3
<1>4. CASE GiveUpLoop(t)
  <2>1. /\ Busy(t) /\ Call(t).call = "run" /\ Call(t).at = "failed" /\ Neutral(Call(t))
        /\ calls' = Returned(t) /\ lf' = lf /\ tss' = [tss EXCEPT ![t] = r]
    BY <1>1, <1>4 DEF GiveUpLoop, At, Neutral, Leading, Running
  <2>2. ASSUME NEW z, \A k \in 1..(n - 1) : z[k] = o[k], Neutral(z[n])
        PROVE  Accounted(z, n, el, cl)
    <3>1. ASSUME NEW k \in 1..n
          PROVE  (Leading(z[k]) <=> Leading(o[k])) /\ (Running(z[k]) <=> Running(o[k]))
      <4>1. k = n \/ k \in 1..(n - 1)
        BY <1>1, <2>1, SMT
      <4> QED  BY <1>1, <2>1, <2>2, <4>1 DEF Neutral
    <3> QED  BY <1>1, <2>1, <3>1, SameAccounted
  <2> QED  BY <1>1, <1>2, <2>1, <2>2, RoundEndsStep
<1> QED  BY <1>3, <1>4

(* set_upcall_thread.                                                      *)
LEMMA UpcallStep ==
    ASSUME Inv, NEW t \in Threads, set_upcall_thread(t)
    PROVE  \E s, q : Steps(t, s, q)
<1> DEFINE o == calls[t]
           n == Len(o)
           r == tss[t]
           el == r.event_loop_thread
           cl == r.client_leader_thread
           x == [Call(t) EXCEPT !.at = "upcall"]
<1>1. /\ r \in Tss /\ el \in Nat /\ cl \in Nat
      /\ lf \in [leaders : Int, client_thread_is_leader : Int, event_loop_threads_waiting : Int]
      /\ tss \in [Threads -> Tss]
      /\ Busy(t) => n \in Nat \ {0} /\ Call(t) = o[n] /\ Call(t) \in Calls
      /\ Accounted(o, n, el, cl)
  BY ThreadFacts DEF ThreadOK
<1>2. Busy(t) /\ Call(t).at = "handling" /\ calls' = Moved(t, "upcall") /\ calls' = With(t, x)
  BY DEF set_upcall_thread, InReactor, Moved
<1>3. x \in Calls /\ x.at = "upcall" /\ x.call = Call(t).call
  BY <1>2, MovedFacts DEF WaitPoints, RunPoints
<1>4. Leading(Call(t)) \/ Running(Call(t))
  <2>1. Call(t).call \in {"wait", "run"}
    BY <1>1, <1>2, CallFacts
  <2> QED  BY <1>2, <2>1 DEF Leading, Running
<1> HIDE DEF x
<1>5. /\ Leading(x) <=> Leading(Call(t))
      /\ Running(x) <=> Running(Call(t))
      /\ ~Aside(x) /\ ~Waits(x) /\ ~Aside(Call(t)) /\ ~Waits(Call(t))
  BY <1>2, <1>3 DEF Leading, Running, Aside, Waits
<1>6. ASSUME NEW z, \A k \in 1..(n - 1) : z[k] = o[k], z[n] = x
      PROVE  \A k \in 1..n : /\ Leading(z[k]) <=> Leading(o[k])
                             /\ Running(z[k]) <=> Running(o[k])
  <2> TAKE k \in 1..n
  <2>1. k = n \/ k \in 1..(n - 1)
    BY <1>1, <1>2, SMT
  <2> QED  BY <1>1, <1>2, <1>5, <1>6, <2>1
<1>7. One(Waits(x)) = 0 /\ One(Waits(Call(t))) = 0
  BY <1>5 DEF One
<1>8. \A q : LeadsInReactor(x, q)
  BY <1>3 DEF LeadsInReactor
<1>9. CASE /\ el > 0
           /\ lf' = event_loop_left(lf, r)
           /\ tss' = [tss EXCEPT ![t].event_loop_thread = @ - 1]
  <2> DEFINE q == [r EXCEPT !.event_loop_thread = @ - 1]
  <2>1. tss' = [tss EXCEPT ![t] = q]
    BY <1>1, <1>9
  <2>2. /\ q \in Tss /\ q.client_leader_thread = cl /\ q.event_loop_thread = el - 1
        /\ lf' \in [leaders : Int, client_thread_is_leader : Int,
                    event_loop_threads_waiting : Int]
        /\ lf'.leaders = lf.leaders + One(leads(q)) - One(leads(r))
        /\ lf'.event_loop_threads_waiting = lf.event_loop_threads_waiting
        /\ lf'.client_thread_is_leader = lf.client_thread_is_leader
    BY <1>9, LeftCounts
  <2> HIDE DEF q
  <2>3. TopAccounted(t, x, q)
    <3> SUFFICES ASSUME NEW z, \A k \in 1..(n - 1) : z[k] = o[k], z[n] = x
                 PROVE  Accounted(z, n, q.event_loop_thread, q.client_leader_thread)
      BY DEF TopAccounted
    <3>1. Accounted(z, n, el - 1, cl)
      BY <1>1, <1>2, <1>6, <1>9, LeaveAccounted
    <3> QED  BY <2>2, <3>1
  <2>4. /\ One(leads(q) /\ ~Aside(x)) = One(leads(q))
        /\ One(leads(r) /\ ~Aside(Call(t))) = One(leads(r))
    BY <1>5 DEF One
  <2>5. CountsTop(t, x, q, lf')
    <3>1. /\ lf'.event_loop_threads_waiting = lf.event_loop_threads_waiting + 0 - 0
          /\ lf'.client_thread_is_leader = lf.client_thread_is_leader + cl - cl
          /\ cl \in (cl - 1)..(cl + 1)
      BY <1>1, <2>2, SMT
    <3> QED  BY <1>7, <2>2, <2>4, <3>1 DEF CountsTop
  <2> QED  BY <1>2, <1>3, <1>8, <2>1, <2>2, <2>3, <2>5, TopStep
<1>10. CASE /\ el = 0 /\ cl = 1
            /\ lf' = reset_client_leader_thread(lf, r)
            /\ tss' = [tss EXCEPT ![t].client_leader_thread = 0]
  <2> DEFINE q == [r EXCEPT !.client_leader_thread = 0]
  <2>1. tss' = [tss EXCEPT ![t] = q]
    BY <1>1, <1>10
  <2>2. q \in Tss /\ q.client_leader_thread = 0 /\ q.event_loop_thread = 0
    <3>1. r.client_leader_thread = cl /\ r.event_loop_thread = 0
      BY <1>1, <1>10
    <3> QED  BY <1>1, <3>1, SMTT(30) DEF Tss
  <2>3. ~leads(q) /\ leads(r)
    BY <1>10, <2>2, SMT DEF leads
  <2> HIDE DEF q
  <2>4. /\ lf' \in [leaders : Int, client_thread_is_leader : Int, event_loop_threads_waiting : Int]
        /\ lf'.leaders = lf.leaders - 1
        /\ lf'.client_thread_is_leader = lf.client_thread_is_leader - 1
        /\ lf'.event_loop_threads_waiting = lf.event_loop_threads_waiting
    <3>1. lf' = [lf EXCEPT !.leaders = @ - 1, !.client_thread_is_leader = @ - 1]
      BY <1>10 DEF reset_client_leader_thread
    <3>2. lf.leaders - 1 \in Int /\ lf.client_thread_is_leader - 1 \in Int
      BY <1>1, SMT
    <3> QED  BY <1>1, <3>1, <3>2, CounterFacts
  <2>5. TopAccounted(t, x, q)
    <3> SUFFICES ASSUME NEW z, \A k \in 1..(n - 1) : z[k] = o[k], z[n] = x
                 PROVE  Accounted(z, n, q.event_loop_thread, q.client_leader_thread)
      BY DEF TopAccounted
    <3>1. Accounted(o, n, 0, 0)
      BY <1>1, <1>2, <1>10, GiveUpAccounted
    <3> QED  BY <1>1, <1>2, <1>6, <2>2, <3>1, SameAccounted
  <2>6. One(leads(q) /\ ~Aside(x)) = 0 /\ One(leads(r) /\ ~Aside(Call(t))) = 1
    BY <1>5, <2>3 DEF One
  <2>7. CountsTop(t, x, q, lf')
    <3>1. /\ lf'.leaders = lf.leaders + 0 - 1
          /\ lf'.event_loop_threads_waiting = lf.event_loop_threads_waiting + 0 - 0
          /\ lf'.client_thread_is_leader = lf.client_thread_is_leader + 0 - cl
          /\ 0 \in (cl - 1)..(cl + 1)
      BY <1>1, <1>10, <2>4, SMT
    <3> QED  BY <1>7, <2>2, <2>4, <2>6, <3>1 DEF CountsTop
  <2> QED  BY <1>2, <1>3, <1>8, <2>1, <2>2, <2>5, <2>7, TopStep
<1>11. CASE UNCHANGED <<lf, tss>>
  <2>1. "upcall" # "polling" /\ "upcall" # "led" /\ "upcall" # "handling"
    OBVIOUS
  <2> QED  BY <1>2, <1>4, <1>11, <2>1, ReactorStep
<1>12. \/ /\ el > 0
          /\ lf' = event_loop_left(lf, r)
          /\ tss' = [tss EXCEPT ![t].event_loop_thread = @ - 1]
       \/ /\ el = 0 /\ cl = 1
          /\ lf' = reset_client_leader_thread(lf, r)
          /\ tss' = [tss EXCEPT ![t].client_leader_thread = 0]
       \/ UNCHANGED <<lf, tss>>
  BY DEF set_upcall_thread
<1> QED  BY <1>9, <1>10, <1>11, <1>12

(* The calls and the counters of every step.                               *)
LEMMA EveryStep ==
    ASSUME Inv, [Next]_vars
    PROVE  \/ \E t \in Threads : \E s, q : Steps(t, s, q)
           \/ UNCHANGED <<calls, lf, tss>>
<1>1. CASE UNCHANGED vars
  BY <1>1 DEF vars
<1>2. ASSUME NEW t \in Threads,
             \/ Invoke(t) \/ EnterWait(t) \/ FollowerWakes(t) \/ FollowerTimesOut(t)
             \/ LeadBegins(t) \/ LeadGoesOn(t) \/ LeadExpires(t) \/ LeadEnds(t)
             \/ YieldEnds(t)
      PROVE  \E s, q : Steps(t, s, q)
  BY <1>2, NewCallSteps, EnterWaitStep, FollowerWakesStep, FollowerTimesOutStep,
     ReactorSteps, LeadEndsStep, YieldEndsStep
<1>3. ASSUME NEW t \in Threads,
             \/ Run(t) \/ EnterLoop(t) \/ BlockedWakes(t) \/ BlockedTimesOut(t)
             \/ LeaveLoop(t) \/ GiveUpLoop(t)
      PROVE  (\E s, q : Steps(t, s, q)) \/ UNCHANGED <<calls, lf, tss>>
  BY <1>3, NewCallSteps, DoorSteps, RoundEndsSteps
<1>4. ASSUME NEW t \in Threads,
             \/ Dispatch(t) \/ HandleEventsReturns(t) \/ CallBack(t) \/ set_upcall_thread(t)
      PROVE  \E s, q : Steps(t, s, q)
  BY <1>4, ReactorSteps, UpcallStep
<1>5. ASSUME NEW u \in Threads, NEW k,
             (\E t \in Threads : DispatchReply(t, u, k)) \/ ConnectionClosed(u, k)
      PROVE  \E s, q : Steps(u, s, q)
  <2>1. state_changed(u, k)
    BY <1>5 DEF DispatchReply, ConnectionClosed
  <2> QED  BY <2>1, StateChangedStep
<1> QED  BY <1>1, <1>2, <1>3, <1>4, <1>5 DEF Next

(* So the counters stay exact.                                             *)
LEMMA CountersNext ==
    ASSUME Inv, [Next]_vars
    PROVE  CountersInv'
<1>1. CASE \E t \in Threads : \E s, q : Steps(t, s, q)
  BY <1>1, CountersStep
<1>2. CASE UNCHANGED <<calls, lf, tss>>
  <2>1. CountersInv
    BY DEF Inv, TypeOK, Calls, CountersInv
  <2>2. CountersInv <=> CountersInv'
    BY <1>2 DEF CountersInv, ThreadsOK, CountersExact, ClientLevels, BlockedThreads,
       InCharge, At, Busy, Call
  <2> QED  BY <2>1, <2>2
<1> QED  BY <1>1, <1>2, EveryStep

-----------------------------------------------------------------------------
(* The list of followers, and who has been signalled.                      *)

ListInv ==
    /\ follower_set \in Seq(Threads)
    /\ woken \subseteq Threads
    /\ FollowersExact
    /\ CompletedIsWoken

Following(t) == At(t, "wait", "follower")

(* The invariant says that the list is a queue of the sleeping followers.  *)
LEMMA ListFacts ==
    ASSUME Inv
    PROVE  /\ QueueOf(follower_set, Sleepers) /\ Sleepers \cap BlockedThreads = {}
           /\ woken \subseteq Threads /\ CompletedIsWoken
<1>1. follower_set \in Seq(Threads) /\ woken \subseteq Threads /\ CompletedIsWoken
  BY DEF Inv, TypeOK
<1>2. QueueOf(follower_set, Sleepers)
  BY <1>1, FollowersAreAQueue DEF Inv, FollowersExact, Sleepers
<1>3. Sleepers \cap BlockedThreads = {}
  BY DEF Sleepers, BlockedThreads, Asleep, At
<1> QED  BY <1>1, <1>2, <1>3

(* The threads W, and perhaps t, have been signalled, and t has gone on.   *)
LEMMA ListStep ==
    ASSUME Inv, NEW t \in Threads, \A u \in Threads \ {t} : calls'[u] = calls[u],
           NEW W, woken' \subseteq Threads,
           \A u \in Threads \ {t} : u \in woken' <=> u \in woken \/ u \in W,
           NEW S, QueueOf(follower_set', S),
           \A u : u # t => (u \in S <=> u \in Sleepers \ W),
           t \in S <=> Asleep(t)',
           Following(t)' /\ Call(t)'.event = "FINAL" => t \in woken'
    PROVE  ListInv'
<1>1. \A u \in Threads \ {t} : /\ Asleep(u)' <=> Asleep(u) /\ u \notin W
                               /\ Following(u)' <=> Following(u)
                               /\ Call(u)' = Call(u)
  BY DEF Asleep, At, Busy, Call, Following
<1>2. S = Sleepers'
  <2>1. \A u : u \in Sleepers' <=> u \in Threads /\ Asleep(u)'
    BY DEF Sleepers
  <2>2. \A u : u \in Sleepers <=> u \in Threads /\ Asleep(u)
    BY DEF Sleepers
  <2> QED  BY <1>1, <2>1, <2>2
<1>3. follower_set' \in Seq(Threads)
  <2>1. S \subseteq Threads
    BY <1>2 DEF Sleepers
  <2>2. follower_set' \in Seq(S)
    BY DEF QueueOf
  <2> QED  BY <2>1, <2>2, SMT
<1>4. FollowersExact'
  <2>1. IsInjective(follower_set') /\ ToSet(follower_set') = S
    BY <1>3, FollowersAreAQueue
  <2> QED  BY <1>2, <2>1 DEF FollowersExact, Sleepers
<1>5. CompletedIsWoken'
  <2> SUFFICES ASSUME NEW u \in Threads, Following(u)', Call(u)'.event = "FINAL"
               PROVE  u \in woken'
    BY DEF CompletedIsWoken, Following
  <2>1. CASE u = t
    BY <2>1
  <2>2. CASE u # t
    <3>1. Following(u) /\ Call(u).event = "FINAL"
      BY <1>1, <2>2
    <3>2. u \in woken
      BY <3>1, ListFacts DEF CompletedIsWoken, Following
    <3> QED  BY <2>2, <3>2
  <2> QED  BY <2>1, <2>2
<1> QED  BY <1>3, <1>4, <1>5 DEF ListInv

(* The thread t goes on, and to anywhere but a follower's sleep.           *)
Elsewhere(t) ==
    /\ \A u \in Threads \ {t} : calls'[u] = calls[u]
    /\ ~Following(t)'

(* The last call of the thread has become x.                               *)
LEMMA MovedElsewhere ==
    ASSUME Inv, NEW t \in Threads, Busy(t), NEW x \in Calls, calls' = With(t, x)
    PROVE  /\ \A u \in Threads \ {t} : calls'[u] = calls[u]
           /\ Busy(t)' /\ Call(t)' = x
           /\ x.at # "follower" => Elsewhere(t)
<1> DEFINE o == calls[t]
           s == [o EXCEPT ![Len(o)] = x]
<1>1. o \in Seq(Calls) /\ o # <<>> /\ calls \in [Threads -> Seq(Calls)]
  BY ThreadFacts DEF Busy
<1>2. s # <<>> /\ Last(s) = x
  BY <1>1, TopFacts
<1>3. calls'[t] = s /\ \A u \in Threads \ {t} : calls'[u] = calls[u]
  BY <1>1 DEF With
<1>4. Busy(t)' /\ Call(t)' = x
  BY <1>2, <1>3 DEF Busy, Call
<1> QED  BY <1>3, <1>4 DEF Elsewhere, Following, At

(* The last call of the thread has moved on to p.                          *)
LEMMA PointElsewhere ==
    ASSUME Inv, NEW t \in Threads, Busy(t), NEW p,
           p \in WaitPoints \/ Call(t).call # "wait",
           p \in RunPoints \/ Call(t).call # "run",
           p # "follower", calls' = Moved(t, p)
    PROVE  Elsewhere(t)
<1> DEFINE x == [Call(t) EXCEPT !.at = p]
<1>1. x \in Calls /\ x.at = p
  BY MovedFacts
<1>2. calls' = With(t, x)
  BY DEF Moved
<1> HIDE DEF x
<1> QED  BY <1>1, <1>2, MovedElsewhere

(* Below the last call there are calls in upcalls only.                    *)
LEMMA ReturnedElsewhere ==
    ASSUME Inv, NEW t \in Threads, Busy(t), calls' = Returned(t)
    PROVE  Elsewhere(t)
<1> DEFINE o == calls[t]
           s == Front(o)
<1>1. o \in Seq(Calls) /\ o # <<>> /\ calls \in [Threads -> Seq(Calls)]
      /\ \A k \in 1..(Len(o) - 1) : o[k].at = "upcall"
  BY ThreadFacts DEF Busy, ThreadOK
<1>2. /\ Len(o) \in Nat \ {0}
      /\ s # <<>> => Len(o) > 1 /\ Last(s) = o[Len(o) - 1]
  BY <1>1, FrontFacts
<1>3. calls'[t] = s /\ \A u \in Threads \ {t} : calls'[u] = calls[u]
  BY <1>1 DEF Returned
<1> HIDE DEF s
<1>4. s # <<>> => Last(s).at = "upcall"
  <2>1. Len(o) > 1 => Len(o) - 1 \in 1..(Len(o) - 1)
    BY <1>2, SMT
  <2> QED  BY <1>1, <1>2, <2>1
<1> QED  BY <1>3, <1>4 DEF Elsewhere, Following, At, Busy, Call

(* The thread has made a new call.                                         *)
LEMMA PushedElsewhere ==
    ASSUME Inv, NEW t \in Threads, NEW x \in Calls, x.at # "follower",
           calls' = [calls EXCEPT ![t] = Append(@, x)]
    PROVE  Elsewhere(t)
<1>1. calls[t] \in Seq(Calls) /\ calls \in [Threads -> Seq(Calls)]
  BY ThreadFacts
<1>2. Append(calls[t], x) # <<>> /\ Last(Append(calls[t], x)) = x
  BY <1>1, AppendFacts
<1>3. /\ calls'[t] = Append(calls[t], x)
      /\ \A u \in Threads \ {t} : calls'[u] = calls[u]
  BY <1>1
<1> QED  BY <1>2, <1>3 DEF Elsewhere, Following, At, Busy, Call

(* Nobody is signalled.                                                    *)
LEMMA StillLists ==
    ASSUME Inv, NEW t \in Threads, Elsewhere(t), ~Following(t),
           follower_set' = follower_set, woken' = woken \/ woken' = woken \ {t}
    PROVE  ListInv'
<1>1. t \notin Sleepers /\ ~Asleep(t)' /\ Sleepers \ {} = Sleepers
  BY DEF Sleepers, Asleep, Following, Elsewhere
<1>2. QueueOf(follower_set', Sleepers) /\ woken' \subseteq Threads
  BY ListFacts
<1> QED  BY <1>1, <1>2, ListStep DEF Elsewhere

(* An election; t, if it followed, is taken out of the list as well.       *)
LEMMA ElectLists ==
    ASSUME Inv, NEW t \in Threads, Elsewhere(t), ~Following(t), NEW c, Elect(c)
    PROVE  ListInv'
<1>1. PICK W : Elects(Sleepers, c, W)
  BY ListFacts, Election
<1>2. W \subseteq Threads
  BY <1>1 DEF Elects, BlockedThreads, Sleepers
<1>3. /\ woken' = woken \cup W /\ woken' \subseteq Threads
      /\ QueueOf(follower_set', Sleepers \ W)
  BY <1>1, <1>2, ListFacts DEF Elect, Elects
<1>4. t \notin Sleepers \ W /\ ~Asleep(t)'
  BY DEF Sleepers, Asleep, Following, Elsewhere
<1> QED  BY <1>3, <1>4, ListStep DEF Elsewhere

(* A follower times out: an election, then it is unlinked.                 *)
LEMMA TimeoutLists ==
    ASSUME Inv, NEW t \in Threads, Elsewhere(t), NEW c,
           follower_set' = remove_follower(elect_new_leader(c).set, t),
           woken' = elect_new_leader(c).woken \ {t}
    PROVE  ListInv'
<1>1. PICK W : Elects(Sleepers, c, W)
  BY ListFacts, Election
<1>2. W \subseteq Threads
  BY <1>1 DEF Elects, BlockedThreads, Sleepers
<1>3. woken' = (woken \cup W) \ {t} /\ woken' \subseteq Threads
  BY <1>1, <1>2, ListFacts DEF Elects
<1>4. QueueOf(follower_set', (Sleepers \ W) \ {t})
  BY <1>1, RemoveFollower DEF Elects
<1>5. t \notin (Sleepers \ W) \ {t} /\ ~Asleep(t)'
  BY DEF Asleep, Following, Elsewhere
<1> QED  BY <1>3, <1>4, <1>5, ListStep DEF Elsewhere

(* A follower is a follower no longer.                                     *)
LEMMA RemoveLists ==
    ASSUME Inv, NEW t \in Threads, Elsewhere(t),
           follower_set' = remove_follower(follower_set, t), woken' = woken \ {t}
    PROVE  ListInv'
<1>1. QueueOf(follower_set', Sleepers \ {t})
  BY ListFacts, RemoveFollower
<1>2. t \notin Sleepers \ {t} /\ ~Asleep(t)' /\ woken' \subseteq Threads
  BY ListFacts DEF Asleep, Following, Elsewhere
<1>3. /\ \A u \in Threads \ {t} : u \in woken' <=> u \in woken \/ u \in {}
      /\ \A u : u # t => (u \in Sleepers \ {t} <=> u \in Sleepers \ {})
  OBVIOUS
<1> QED  BY <1>1, <1>2, <1>3, ListStep DEF Elsewhere

(* A thread goes to sleep as a follower, or does so again.                 *)
LEMMA FollowLists ==
    ASSUME Inv, NEW t \in Threads, Busy(t), Call(t).call = "wait", keep_waiting_i(Call(t)),
           NEW c, NEW r, Follow(t, c, r)
    PROVE  ListInv'
<1> DEFINE x == [Call(t) EXCEPT !.at = "follower"]
<1>1. Call(t) \in WaitCall /\ Call(t).event = "ACTIVE"
  BY ThreadFacts, CallFacts DEF keep_waiting_i
<1>2. x \in Calls /\ x.at = "follower" /\ x.event = "ACTIVE"
  BY <1>1, CallFacts, ZenonT(40) DEF WaitPoints, Calls
<1>3. /\ calls' = With(t, x) /\ woken' = woken \ {t}
      /\ follower_set' = Append(remove_follower(follower_set, t), t)
  BY DEF Follow, Moved
<1> HIDE DEF x
<1>4. Busy(t)' /\ Call(t)' = x /\ \A u \in Threads \ {t} : calls'[u] = calls[u]
  BY <1>2, <1>3, MovedElsewhere
<1>5. x.call = "wait"
  BY <1>1, <1>2, MovedFacts DEF WaitPoints, x
<1>6. Asleep(t)' /\ Call(t)'.event # "FINAL"
  BY <1>2, <1>3, <1>4, <1>5 DEF Asleep, At
<1>7. QueueOf(follower_set', (Sleepers \ {t}) \cup {t})
  <2>1. QueueOf(remove_follower(follower_set, t), Sleepers \ {t})
    BY ListFacts, RemoveFollower
  <2> QED  BY <1>3, <2>1, LinkLast
<1>8. /\ \A u \in Threads \ {t} : u \in woken' <=> u \in woken \/ u \in {}
      /\ \A u : u # t => (u \in (Sleepers \ {t}) \cup {t} <=> u \in Sleepers \ {})
      /\ t \in (Sleepers \ {t}) \cup {t} /\ woken' \subseteq Threads
  BY <1>3, ListFacts
<1> QED  BY <1>4, <1>6, <1>7, <1>8, ListStep

(* A client that becomes the leader is in the list no longer.              *)
LEMMA BecomeLists ==
    ASSUME Inv, NEW t \in Threads, Busy(t), Call(t).call = "wait",
           NEW c, NEW r, BecomeClientLeader(t, c, r)
    PROVE  ListInv'
<1>1. Elsewhere(t)
  BY PointElsewhere DEF BecomeClientLeader, WaitPoints
<1> QED  BY <1>1, RemoveLists DEF BecomeClientLeader

(* A round of the loop of wait_for_event, from outside the list.           *)
LEMMA WaitLoopLists ==
    ASSUME Inv, NEW t \in Threads, Busy(t), Call(t).call = "wait", ~Following(t),
           NEW c, NEW r, WaitLoop(t, c, r)
    PROVE  ListInv'
<1>1. CASE Return(t, c, r)
  BY <1>1, ReturnedElsewhere, ElectLists DEF Return
<1>2. CASE keep_waiting_i(Call(t)) /\ Follow(t, c, r)
  BY <1>2, FollowLists
<1>3. CASE BecomeClientLeader(t, c, r)
  BY <1>3, BecomeLists
<1> QED  BY <1>1, <1>2, <1>3 DEF WaitLoop

(* The calls of wait_for_event.                                            *)
LEMMA WaitLists ==
    ASSUME Inv, NEW t \in Threads,
           \/ Invoke(t) \/ EnterWait(t) \/ FollowerWakes(t) \/ FollowerTimesOut(t)
           \/ LeadEnds(t) \/ YieldEnds(t)
    PROVE  ListInv'
<1>1. CASE Invoke(t)
  <2> DEFINE x == [call |-> "wait", at |-> "calling", event |-> "ACTIVE", expired |-> FALSE]
  <2>1. x \in WaitCall /\ x.at = "calling"
    BY Zenon DEF WaitCall, WaitPoints, EventStates
  <2>2. x \in Calls
    BY <2>1 DEF Calls
  <2>3. calls' = [calls EXCEPT ![t] = Append(@, x)]
    BY <1>1 DEF Invoke
  <2> HIDE DEF x
  <2>4. Elsewhere(t)
    BY <2>1, <2>2, <2>3, PushedElsewhere
  <2>5. ~Following(t)
    BY <1>1 DEF Invoke, MayCall, Following, At
  <2> QED  BY <1>1, <2>4, <2>5, StillLists DEF Invoke
<1>2. CASE EnterWait(t)
  <2>1. Busy(t) /\ Call(t).call = "wait" /\ ~Following(t)
    BY <1>2 DEF EnterWait, At, Following
  <2> QED  BY <1>2, <2>1, WaitLoopLists DEF EnterWait
<1>3. CASE FollowerWakes(t)
  <2>1. Busy(t) /\ Call(t).call = "wait"
    BY <1>3 DEF FollowerWakes, At
  <2>2. CASE keep_waiting_i(Call(t)) /\ Follow(t, lf, tss[t])
    BY <2>1, <2>2, FollowLists
  <2>3. CASE BecomeClientLeader(t, lf, tss[t])
    BY <2>1, <2>3, BecomeLists
  <2>4. CASE /\ calls' = Returned(t)
             /\ follower_set' = remove_follower(follower_set, t)
             /\ woken' = woken \ {t}
    BY <2>1, <2>4, ReturnedElsewhere, RemoveLists
  <2> QED  BY <1>3, <2>2, <2>3, <2>4 DEF FollowerWakes
<1>4. CASE FollowerTimesOut(t)
  <2>1. Busy(t) /\ Elsewhere(t)
    BY <1>4, ReturnedElsewhere DEF FollowerTimesOut, At
  <2>2. /\ follower_set' = remove_follower(elect_new_leader(lf).set, t)
        /\ woken' = elect_new_leader(lf).woken \ {t}
    BY <1>4 DEF FollowerTimesOut, elected_on_timeout
  <2> QED  BY <2>1, <2>2, TimeoutLists
<1>5. CASE LeadEnds(t)
  <2> DEFINE c == reset_client_leader_thread(lf, tss[t])
             r == client_leader_given_up(tss[t])
  <2>1. Busy(t) /\ Call(t).call = "wait" /\ ~Following(t)
    BY <1>5 DEF LeadEnds, At, Following
  <2>2. CASE WaitLoop(t, c, r)
    BY <2>1, <2>2, WaitLoopLists
  <2>3. CASE calls' = Moved(t, "yielding") /\ Elect(c)
    <3>1. Elsewhere(t)
      BY <2>1, <2>3, PointElsewhere DEF WaitPoints
    <3> QED  BY <2>1, <2>3, <3>1, ElectLists
  <2> QED  BY <1>5, <2>2, <2>3 DEF LeadEnds
<1>6. CASE YieldEnds(t)
  <2>1. Busy(t) /\ Call(t).call = "wait" /\ ~Following(t)
    BY <1>6 DEF YieldEnds, At, Following
  <2> QED  BY <1>6, <2>1, WaitLoopLists DEF YieldEnds
<1> QED  BY <1>1, <1>2, <1>3, <1>4, <1>5, <1>6

(* The calls of ORB_Core::run.                                             *)
LEMMA RunLists ==
    ASSUME Inv, NEW t \in Threads,
           \/ Run(t) \/ EnterLoop(t) \/ BlockedWakes(t) \/ BlockedTimesOut(t)
           \/ LeaveLoop(t) \/ GiveUpLoop(t)
    PROVE  ListInv'
<1>1. CASE Run(t)
  <2> DEFINE x == [call |-> "run", at |-> "entering"]
  <2>1. x \in RunCall /\ x.at = "entering"
    BY SMT DEF RunCall, RunPoints
  <2>2. x \in Calls
    BY <2>1 DEF Calls
  <2>3. calls' = [calls EXCEPT ![t] = Append(@, x)]
    BY <1>1 DEF Run
  <2> HIDE DEF x
  <2>4. Elsewhere(t)
    BY <2>1, <2>2, <2>3, PushedElsewhere
  <2>5. ~Following(t)
    BY <1>1 DEF Run, MayCall, Following, At
  <2> QED  BY <1>1, <2>4, <2>5, StillLists DEF Run
<1>2. CASE EnterLoop(t) \/ BlockedWakes(t) \/ BlockedTimesOut(t)
  <2>1. Busy(t) /\ Call(t).call = "run" /\ ~Following(t)
    BY <1>2 DEF EnterLoop, BlockedWakes, BlockedTimesOut, At, Following
  <2>2. follower_set' = follower_set /\ (woken' = woken \/ woken' = woken \ {t})
    BY <1>2 DEF EnterLoop, BlockedWakes, BlockedTimesOut, RunReactor
  <2>3. \/ \E p \in {"blocked", "polling", "failed"} : calls' = Moved(t, p)
        \/ calls' = calls
    BY <1>2 DEF EnterLoop, BlockedWakes, BlockedTimesOut, RunReactor
  <2>4. CASE \E p \in {"blocked", "polling", "failed"} : calls' = Moved(t, p)
    <3>1. Elsewhere(t)
      BY <2>1, <2>4, PointElsewhere DEF RunPoints
    <3> QED  BY <2>1, <2>2, <3>1, StillLists
  <2>5. CASE calls' = calls
    <3>1. Elsewhere(t)
      BY <2>1, <2>5 DEF Elsewhere, Following, At, Busy, Call
    <3> QED  BY <2>1, <2>2, <3>1, StillLists
  <2> QED  BY <2>3, <2>4, <2>5
<1>3. CASE LeaveLoop(t) \/ GiveUpLoop(t)
  <2>1. Busy(t) /\ Call(t).call = "run" /\ ~Following(t)
    BY <1>3 DEF LeaveLoop, GiveUpLoop, At, Following
  <2>2. \E c : Elect(c)
    BY <1>3 DEF LeaveLoop, GiveUpLoop
  <2>3. calls' = Moved(t, "entering") \/ calls' = Returned(t)
    BY <1>3 DEF LeaveLoop, GiveUpLoop
  <2>4. Elsewhere(t)
    BY <2>1, <2>3, PointElsewhere, ReturnedElsewhere DEF RunPoints
  <2> QED  BY <2>1, <2>2, <2>4, ElectLists
<1> QED  BY <1>1, <1>2, <1>3

(* The reactor and its handlers.                                           *)
LEMMA ReactorLists ==
    ASSUME Inv, NEW t \in Threads,
           \/ LeadBegins(t) \/ LeadGoesOn(t) \/ LeadExpires(t)
           \/ Dispatch(t) \/ HandleEventsReturns(t) \/ CallBack(t) \/ set_upcall_thread(t)
    PROVE  ListInv'
<1>1. CASE LeadBegins(t) \/ LeadGoesOn(t)
  <2>1. Busy(t) /\ Call(t).call = "wait" /\ ~Following(t)
    BY <1>1 DEF LeadBegins, LeadGoesOn, At, Following
  <2>2. calls' = Moved(t, "polling") \/ calls' = Moved(t, "led")
    BY <1>1 DEF LeadBegins, LeadGoesOn
  <2>3. Elsewhere(t)
    BY <2>1, <2>2, PointElsewhere DEF WaitPoints
  <2> QED  BY <1>1, <2>1, <2>3, StillLists DEF LeadBegins, LeadGoesOn
<1>2. CASE LeadExpires(t)
  <2> DEFINE x == [Call(t) EXCEPT !.at = "led", !.expired = TRUE]
  <2>1. Busy(t) /\ Call(t) \in WaitCall /\ ~Following(t) /\ calls' = With(t, x)
    BY <1>2, ThreadFacts, CallFacts DEF LeadExpires, At, Following
  <2>2. x \in Calls /\ x.at = "led"
    BY <2>1, CallFacts DEF Calls, WaitPoints
  <2> HIDE DEF x
  <2>3. Elsewhere(t)
    BY <2>1, <2>2, MovedElsewhere
  <2> QED  BY <1>2, <2>1, <2>3, StillLists DEF LeadExpires
<1>3. CASE Dispatch(t) \/ HandleEventsReturns(t) \/ CallBack(t) \/ set_upcall_thread(t)
  <2>1. Busy(t) /\ Call(t).at # "follower" /\ ~Following(t)
    BY <1>3 DEF Dispatch, HandleEventsReturns, CallBack, set_upcall_thread, InReactor,
       At, Following
  <2>2. \E p \in {"handling", "polled", "upcall"} : calls' = Moved(t, p)
    BY <1>3 DEF Dispatch, HandleEventsReturns, CallBack, set_upcall_thread
  <2>3. Elsewhere(t)
    BY <2>1, <2>2, PointElsewhere DEF WaitPoints, RunPoints
  <2>4. (follower_set' = follower_set /\ woken' = woken) \/ \E c : Elect(c)
    BY <1>3 DEF Dispatch, HandleEventsReturns, CallBack, set_upcall_thread
  <2>5. CASE follower_set' = follower_set /\ woken' = woken
    BY <2>1, <2>3, <2>5, StillLists
  <2>6. CASE \E c : Elect(c)
    BY <2>1, <2>3, <2>6, ElectLists
  <2> QED  BY <2>4, <2>5, <2>6
<1> QED  BY <1>1, <1>2, <1>3

(* The event of a call is completed.  Only the last call can be asleep.    *)
LEMMA EventLists ==
    ASSUME Inv, NEW u \in Threads, NEW k, state_changed(u, k)
    PROVE  ListInv'
<1> DEFINE o == calls[u]
<1>1. /\ o \in Seq(Calls) /\ Len(o) \in Nat /\ calls \in [Threads -> Seq(Calls)]
      /\ \A j \in 1..(Len(o) - 1) : o[j].at = "upcall"
  BY ThreadFacts DEF ThreadOK
<1>2. PICK s : /\ Steps(u, s, tss[u])
               /\ o # <<>> /\ s # <<>>
               /\ Last(s).call = Last(o).call /\ Last(s).at = Last(o).at
               /\ Last(s).event = IF k = Len(o) THEN "FINAL" ELSE Last(o).event
               /\ k \in 1..Len(o)
  BY StateChangedStep
<1>3. /\ calls'[u] = s /\ \A v \in Threads \ {u} : calls'[v] = calls[v]
  BY <1>1, <1>2 DEF Steps
<1>4. Following(u)' <=> Following(u)
  BY <1>2, <1>3 DEF Following, At, Busy, Call
<1>5. Busy(u) => Call(u) = o[Len(o)]
  BY ThreadFacts
<1>6. CASE o[k].at = "follower"
  <2>1. follower_set' = remove_follower(follower_set, u) /\ woken' = woken \cup {u}
    BY <1>6 DEF state_changed
  <2>2. QueueOf(follower_set', Sleepers \ {u})
    BY <2>1, ListFacts, RemoveFollower
  <2>3. u \notin Sleepers \ {u} /\ ~Asleep(u)' /\ woken' \subseteq Threads /\ u \in woken'
    BY <2>1, ListFacts DEF Asleep
  <2>4. /\ \A v \in Threads \ {u} : v \in woken' <=> v \in woken \/ v \in {}
        /\ \A v : v # u => (v \in Sleepers \ {u} <=> v \in Sleepers \ {})
    BY <2>1
  <2> QED  BY <1>3, <2>2, <2>3, <2>4, ListStep
<1>7. CASE o[k].at # "follower"
  <2>1. follower_set' = follower_set /\ woken' = woken
    BY <1>7 DEF state_changed
  <2>2. Following(u) => k # Len(o)
    BY <1>5, <1>7 DEF Following, At
  <2>3. Following(u)' => Call(u)'.event = Call(u).event
    BY <1>2, <1>3, <1>4, <2>2 DEF Call
  <2>4. Following(u)' /\ Call(u)'.event = "FINAL" => u \in woken'
    BY <1>4, <2>1, <2>3, ListFacts DEF CompletedIsWoken, Following
  <2>5. Asleep(u)' <=> Asleep(u)
    BY <1>4, <2>1 DEF Asleep, Following
  <2>6. u \in Sleepers <=> Asleep(u)'
    BY <2>5 DEF Sleepers
  <2>7. QueueOf(follower_set', Sleepers) /\ woken' \subseteq Threads
    BY <2>1, ListFacts
  <2>8. /\ \A v \in Threads \ {u} : v \in woken' <=> v \in woken \/ v \in {}
        /\ \A v : v # u => (v \in Sleepers <=> v \in Sleepers \ {})
    BY <2>1
  <2> QED  BY <1>3, <2>4, <2>6, <2>7, <2>8, ListStep
<1> QED  BY <1>6, <1>7

(* So the list of followers stays exact.                                   *)
LEMMA ListsNext ==
    ASSUME Inv, [Next]_vars
    PROVE  ListInv'
<1>1. CASE UNCHANGED vars
  <2>1. ListInv
    BY DEF Inv, TypeOK, ListInv
  <2>2. ListInv <=> ListInv'
    BY <1>1 DEF vars, ListInv, FollowersExact, CompletedIsWoken, Asleep, At, Busy, Call
  <2> QED  BY <2>1, <2>2
<1>2. ASSUME NEW u \in Threads, NEW k,
             (\E t \in Threads : DispatchReply(t, u, k)) \/ ConnectionClosed(u, k)
      PROVE  ListInv'
  BY <1>2, EventLists DEF DispatchReply, ConnectionClosed
<1> QED  BY <1>1, <1>2, WaitLists, RunLists, ReactorLists DEF Next

-----------------------------------------------------------------------------
(* What has happened has happened.                                         *)
LEMMA MetStep ==
    ASSUME met \subseteq Incidents, [Next]_vars
    PROVE  met \subseteq met' /\ met' \subseteq Incidents
<1>1. CASE UNCHANGED vars
  BY <1>1 DEF vars
<1>2. ASSUME NEW t \in Threads, Invoke(t) \/ Run(t)
      PROVE  met \subseteq met' /\ met' \subseteq Incidents
  BY <1>2 DEF Invoke, Run, NoteCall, Incidents
<1>3. ASSUME NEW t \in Threads,
             \/ EnterWait(t) \/ FollowerWakes(t) \/ FollowerTimesOut(t)
             \/ LeadEnds(t) \/ YieldEnds(t)
      PROVE  met' = met
  <2>1. \A c, r : WaitLoop(t, c, r) \/ Follow(t, c, r) \/ BecomeClientLeader(t, c, r)
                    => met' = met
    BY DEF WaitLoop, Return, Follow, BecomeClientLeader
  <2>2. CASE EnterWait(t) \/ YieldEnds(t) \/ LeadEnds(t)
    BY <2>1, <2>2, Zenon DEF EnterWait, YieldEnds, LeadEnds
  <2>3. CASE FollowerWakes(t) \/ FollowerTimesOut(t)
    BY <2>1, <2>3 DEF FollowerWakes, FollowerTimesOut
  <2> QED  BY <1>3, <2>2, <2>3
<1>4. ASSUME NEW t \in Threads,
             \/ LeadBegins(t) \/ LeadGoesOn(t) \/ LeadExpires(t)
             \/ Dispatch(t) \/ HandleEventsReturns(t) \/ CallBack(t) \/ set_upcall_thread(t)
      PROVE  met' = met
  BY <1>4 DEF LeadBegins, LeadGoesOn, LeadExpires, Dispatch, HandleEventsReturns,
     CallBack, set_upcall_thread
<1>5. ASSUME NEW t \in Threads,
             \/ EnterLoop(t) \/ BlockedWakes(t) \/ BlockedTimesOut(t)
             \/ LeaveLoop(t) \/ GiveUpLoop(t)
      PROVE  met' = met
  <2>1. CASE EnterLoop(t) \/ BlockedWakes(t) \/ BlockedTimesOut(t)
    BY <2>1 DEF EnterLoop, BlockedWakes, BlockedTimesOut, RunReactor
  <2>2. CASE LeaveLoop(t) \/ GiveUpLoop(t)
    BY <2>2 DEF LeaveLoop, GiveUpLoop
  <2> QED  BY <1>5, <2>1, <2>2
<1>6. ASSUME NEW u \in Threads, NEW k, NEW t \in Threads, DispatchReply(t, u, k)
      PROVE  met' = met
  BY <1>6 DEF DispatchReply
<1>7. ASSUME NEW u \in Threads, NEW k, ConnectionClosed(u, k)
      PROVE  met \subseteq met' /\ met' \subseteq Incidents
  BY <1>7 DEF ConnectionClosed, Incidents
<1> QED  BY <1>1, <1>2, <1>3, <1>4, <1>5, <1>6, <1>7 DEF Next

-----------------------------------------------------------------------------
(* The theorems.                                                           *)

(* No thread has made a call yet.                                          *)
LEMMA InitInv == Init => Inv
<1> SUFFICES ASSUME Init PROVE Inv
  OBVIOUS
<1> USE DEF Init
<1>1. \A t \in Threads : /\ calls[t] = <<>> /\ tss[t] \in Tss
                         /\ tss[t].event_loop_thread = 0 /\ tss[t].client_leader_thread = 0
  BY SMT DEF Tss
<1>2. TypeOK
  <2>1. calls \in [Threads -> Seq(WaitCall \cup RunCall)] /\ follower_set \in Seq(Threads)
    BY SMT
  <2>2. lf \in Counters
    BY SMT DEF Counters
  <2>3. tss \in [Threads -> Tss]
    BY SMT DEF Tss
  <2> QED  BY <2>1, <2>2, <2>3 DEF TypeOK, Incidents
<1>3. ThreadsOK
  <2> SUFFICES ASSUME NEW t \in Threads PROVE ThreadOK(calls[t], tss[t])
    BY DEF ThreadsOK
  <2>1. calls[t] \in Seq(Calls) /\ Len(calls[t]) = 0
    BY <1>1, SMT
  <2>2. Accounted(calls[t], 0, 0, 0)
    <3> DEFINE z == [k \in Nat |-> 0]
    <3>1. Levels(calls[t], 0, 0, 0, z, z)
      BY SMT DEF Levels
    <3> QED  BY <3>1 DEF Accounted
  <2>3. \A k \in 1..(0 - 1) : calls[t][k].at = "upcall"
    BY SMT
  <2> QED  BY <1>1, <2>1, <2>2, <2>3 DEF ThreadOK
<1>4. /\ {t \in Threads : InCharge(t)} = {} /\ BlockedThreads = {}
      /\ ClientLevels = {}
  <2>1. \A t \in Threads : ~leads(tss[t]) /\ 1..tss[t].client_leader_thread = {}
    BY <1>1, SMT DEF leads
  <2>2. {t \in Threads : InCharge(t)} = {} /\ BlockedThreads = {}
    BY <1>1, <2>1 DEF InCharge, BlockedThreads, At, Busy
  <2>3. ClientLevels = {}
    BY <2>1, SMT DEF ClientLevels
  <2> QED  BY <2>2, <2>3
<1>5. CountersExact /\ IsFiniteSet(ClientLevels)
  <2>1. IsFiniteSet({}) /\ Cardinality({}) = 0
    BY FS_EmptySet
  <2>2. /\ lf.leaders = 0 /\ lf.client_thread_is_leader = 0
        /\ lf.event_loop_threads_waiting = 0
    BY SMT
  <2> QED  BY <1>4, <2>1, <2>2 DEF CountersExact
<1>6. FollowersExact
  <2>1. ToSet(follower_set) = {} /\ IsInjective(follower_set)
    BY SMT DEF ToSet, IsInjective
  <2> QED  BY <1>1, <2>1 DEF FollowersExact, Asleep, At, Busy
<1>7. CompletedIsWoken
  BY <1>1 DEF CompletedIsWoken, At, Busy
<1> QED  BY <1>2, <1>3, <1>5, <1>6, <1>7 DEF Inv

(* The invariant is inductive.                                             *)
LEMMA InvNext == Inv /\ [Next]_vars => Inv'
<1> SUFFICES ASSUME Inv, [Next]_vars PROVE Inv'
  OBVIOUS
<1>1. CountersInv' /\ ListInv'
  BY CountersNext, ListsNext
<1>2. met' \subseteq Incidents
  BY MetStep DEF Inv, TypeOK
<1>3. TypeOK'
  BY <1>1, <1>2 DEF TypeOK, CountersInv, ListInv, Calls
<1> QED  BY <1>1, <1>3 DEF Inv, CountersInv, ListInv

(* The invariant holds of every behaviour.                                 *)
THEOREM InvHolds == Spec => []Inv
  BY InitInv, InvNext, PTL DEF Spec

(* Every variable has its type; in particular no counter of the            *)
(* TAO_Leader_Follower or of a thread ever falls below zero, in whatever   *)
(* order event loops, requests and upcalls are nested.                     *)
THEOREM TypeCorrect == Spec => []TypeOK
<1>1. Inv => TypeOK
  BY DEF Inv
<1> QED  BY <1>1, InvHolds, PTL

(* leaders_, client_thread_is_leader_ and event_loop_threads_waiting_      *)
(* count what elect_new_leader and set_event_loop_thread take them for.    *)
THEOREM CountersAreExact == Spec => []CountersExact
<1>1. Inv => CountersExact
  BY DEF Inv
<1> QED  BY <1>1, InvHolds, PTL

(* follower_set_ holds each sleeping follower that nobody has signalled,   *)
(* once, and nobody else, so that an election wakes a thread that sleeps.  *)
THEOREM FollowersAreExact == Spec => []FollowersExact
<1>1. Inv => FollowersExact
  BY DEF Inv
<1> QED  BY <1>1, InvHolds, PTL

(* A thread that runs the reactor is counted as a leader.                  *)
THEOREM PollersCount == Spec => []PollerCounts
<1>1. ASSUME Inv PROVE PollerCounts
  <2> SUFFICES ASSUME NEW t \in Threads, InReactor(t, "polling") PROVE lf.leaders > 0
    BY DEF PollerCounts
  <2>1. Busy(t) /\ Call(t).at = "polling" /\ Call(t).call \in {"wait", "run"}
    BY <1>1, ThreadFacts, CallFacts DEF InReactor
  <2>2. LeadsInReactor(Call(t), tss[t])
    BY <1>1, <2>1, ThreadFacts DEF ThreadOK, Busy, Call
  <2>3. InCharge(t)
    BY <2>1, <2>2 DEF LeadsInReactor, InCharge, leads, At
  <2> DEFINE S == {u \in Threads : InCharge(u)}
  <2>4. IsFiniteSet(S) /\ S # {}
    <3>1. S \in SUBSET Threads /\ S # {}
      BY <2>3
    <3> QED  BY <3>1, FS_Subset, LeaderFollowerAssumption DEF LeaderFollowerAssumption
  <2>5. Cardinality(S) \in Nat /\ Cardinality(S) # 0
    BY <2>4, FS_CardinalityType, FS_EmptySet
  <2>6. lf.leaders = Cardinality(S)
    BY <1>1 DEF Inv, CountersExact
  <2> QED  BY <2>5, <2>6, SMT
<1> QED  BY <1>1, InvHolds, PTL

-----------------------------------------------------------------------------
(* Until a thread makes a call while it leads: a thread leads once, in its *)
(* last call, and is in an upcall as a leader when a handler calls the     *)
(* application outside set_upcall_thread.                                  *)

Single(s, r) ==
    leads(r) =>
        /\ s # <<>>
        /\ Last(s).at \in {"leading", "polling", "handling", "upcall", "polled", "led"}
        /\ \/ Last(s).call = "wait" /\ r.client_leader_thread = 1 /\ r.event_loop_thread = 0
           \/ Last(s).call = "run" /\ r.client_leader_thread = 0 /\ r.event_loop_thread = 1

(* And a client leads when no other thread does.                           *)
Sole ==
    /\ \A t \in Threads : Single(calls[t], tss[t])
    /\ \A t, u \in Threads :
          t # u /\ tss[t].client_leader_thread > 0 => ~leads(tss[u])

(* One thread goes on, to lead once or not at all.                         *)
LEMMA SoleStep ==
    ASSUME Inv, Sole, NEW t \in Threads,
           \A u \in Threads \ {t} : calls'[u] = calls[u], NEW r,
           tss' = [tss EXCEPT ![t] = r], Single(calls'[t], r),
           r.client_leader_thread > 0 => \A u \in Threads \ {t} : ~leads(tss[u]),
           leads(r) => \A u \in Threads \ {t} : ~(tss[u].client_leader_thread > 0)
    PROVE  Sole'
<1>1. tss'[t] = r /\ \A u \in Threads \ {t} : tss'[u] = tss[u]
  BY ThreadFacts
<1>2. \A u \in Threads : Single(calls'[u], tss'[u])
  BY <1>1 DEF Sole
<1>3. \A v, u \in Threads : v # u /\ tss'[v].client_leader_thread > 0 => ~leads(tss'[u])
  BY <1>1 DEF Sole
<1> QED  BY <1>2, <1>3 DEF Sole

(* A thread that leads no longer.                                          *)
LEMMA QuietStep ==
    ASSUME Inv, Sole, NEW t \in Threads,
           \A u \in Threads \ {t} : calls'[u] = calls[u], NEW r,
           tss' = [tss EXCEPT ![t] = r], ~leads(r)
    PROVE  Sole'
<1>1. Single(calls'[t], r) /\ ~(r.client_leader_thread > 0)
  BY DEF Single, leads
<1> QED  BY <1>1, SoleStep

(* A thread that goes on to lead, or not to lead, in the same call.        *)
LEMMA StayStep ==
    ASSUME Inv, Sole, NEW t \in Threads, Busy(t), NEW x \in Calls, calls' = With(t, x),
           x.call = Call(t).call, tss' = tss,
           \/ x.at \in {"leading", "polling", "handling", "upcall", "polled", "led"}
           \/ ~leads(tss[t])
    PROVE  Sole'
<1>1. tss' = [tss EXCEPT ![t] = tss[t]]
  BY ThreadFacts
<1>2. /\ \A u \in Threads \ {t} : calls'[u] = calls[u]
      /\ Busy(t)' /\ Call(t)' = x
  BY MovedElsewhere
<1>3. CASE ~leads(tss[t])
  BY <1>1, <1>2, <1>3, QuietStep
<1>4. CASE leads(tss[t]) /\ x.at \in {"leading", "polling", "handling", "upcall", "polled", "led"}
  <2>1. Single(calls'[t], tss[t])
    <3>1. Single(calls[t], tss[t])
      BY DEF Sole
    <3> QED  BY <1>2, <1>4, <3>1 DEF Single, Busy, Call
  <2> QED  BY <1>1, <1>2, <2>1, SoleStep DEF Sole
<1> QED  BY <1>3, <1>4

(* Who leads is in one of these places.                                    *)
LEMMA QuietFacts ==
    ASSUME Inv, Sole, NEW t \in Threads
    PROVE  /\ leads(tss[t]) =>
                 /\ Busy(t)
                 /\ Call(t).at \in {"leading", "polling", "handling", "upcall", "polled", "led"}
           /\ leads(tss[t]) /\ Call(t).call = "wait" =>
                 tss[t].client_leader_thread = 1 /\ tss[t].event_loop_thread = 0
           /\ leads(tss[t]) /\ Call(t).call = "run" =>
                 tss[t].client_leader_thread = 0 /\ tss[t].event_loop_thread = 1
           /\ leads(tss[t]) => InCharge(t)
<1>1. Single(calls[t], tss[t])
  BY DEF Sole
<1>2. leads(tss[t]) =>
        /\ Busy(t)
        /\ Call(t).at \in {"leading", "polling", "handling", "upcall", "polled", "led"}
        /\ Call(t).call = "wait" =>
              tss[t].client_leader_thread = 1 /\ tss[t].event_loop_thread = 0
        /\ Call(t).call = "run" =>
              tss[t].client_leader_thread = 0 /\ tss[t].event_loop_thread = 1
  BY <1>1, SMT DEF Single, Busy, Call
<1>3. leads(tss[t]) => InCharge(t)
  BY <1>2 DEF InCharge, At
<1> QED  BY <1>2, <1>3

(* Nobody is counted when the counter is zero.                             *)
LEMMA ZeroFacts ==
    ASSUME Inv
    PROVE  /\ lf.leaders \in Nat
           /\ \A t \in Threads : InCharge(t) => lf.leaders > 0
           /\ \A t \in Threads : tss[t].client_leader_thread > 0 =>
                 lf.client_thread_is_leader > 0
           /\ lf.client_thread_is_leader > 0 =>
                 \E t \in Threads : tss[t].client_leader_thread > 0
           /\ lf.event_loop_threads_waiting > 0 => BlockedThreads # {}
<1> DEFINE S == {u \in Threads : InCharge(u)}
<1>1. /\ lf.leaders = Cardinality(S)
      /\ lf.client_thread_is_leader = Cardinality(ClientLevels)
      /\ lf.event_loop_threads_waiting = Cardinality(BlockedThreads)
      /\ IsFiniteSet(ClientLevels)
  BY DEF Inv, CountersExact
<1>2. IsFiniteSet(S)
  <2>1. S \in SUBSET Threads
    OBVIOUS
  <2> QED  BY <2>1, FS_Subset, LeaderFollowerAssumption DEF LeaderFollowerAssumption
<1>3. lf.leaders \in Nat /\ (S # {} => lf.leaders > 0)
  <2>1. Cardinality(S) \in Nat /\ (Cardinality(S) = 0 <=> S = {})
    BY <1>2, FS_CardinalityType, FS_EmptySet
  <2> QED  BY <1>1, <2>1, SMT
<1>4. /\ ClientLevels # {} => lf.client_thread_is_leader > 0
      /\ lf.client_thread_is_leader > 0 => ClientLevels # {}
  <2>1. Cardinality(ClientLevels) \in Nat /\ (Cardinality(ClientLevels) = 0 <=> ClientLevels = {})
    BY <1>1, FS_CardinalityType, FS_EmptySet
  <2> QED  BY <1>1, <2>1, SMT
<1>5. lf.event_loop_threads_waiting > 0 => BlockedThreads # {}
  <2>1. Cardinality({}) = 0
    BY FS_EmptySet
  <2> QED  BY <1>1, <2>1, SMT
<1>6. \A t \in Threads : tss[t].client_leader_thread > 0 => ClientLevels # {}
  <2> SUFFICES ASSUME NEW t \in Threads, tss[t].client_leader_thread > 0
               PROVE  ClientLevels # {}
    OBVIOUS
  <2>1. tss[t].client_leader_thread \in Nat
    BY ThreadFacts
  <2>2. 1 \in 1..tss[t].client_leader_thread
    BY <2>1, SMT
  <2>3. <<t, 1>> \in ClientLevels
    BY <2>2 DEF ClientLevels
  <2> QED  BY <2>3
<1>7. ClientLevels # {} => \E t \in Threads : tss[t].client_leader_thread > 0
  <2> SUFFICES ASSUME ClientLevels # {}
               PROVE  \E t \in Threads : tss[t].client_leader_thread > 0
    OBVIOUS
  <2>1. PICK t \in Threads : 1..tss[t].client_leader_thread # {}
    BY DEF ClientLevels
  <2>2. tss[t].client_leader_thread \in Nat
    BY ThreadFacts
  <2>3. tss[t].client_leader_thread > 0
    BY <2>1, <2>2, SMT
  <2> QED  BY <2>3
<1> HIDE DEF S
<1>8. \A t \in Threads : InCharge(t) => S # {}
  BY DEF S
<1> QED  BY <1>3, <1>4, <1>5, <1>6, <1>7, <1>8

(* The loop of wait_for_event: c counts the other threads.                 *)
LEMMA BecomeSole ==
    ASSUME Inv, Sole, NEW t \in Threads, Busy(t), Call(t).call = "wait",
           NEW c, NEW r \in Tss, ~leads(r),
           \A u \in Threads \ {t} : ~leads(tss[u]),
           BecomeClientLeader(t, c, r)
    PROVE  Sole'
<1> DEFINE x == [Call(t) EXCEPT !.at = "leading"]
           q == [r EXCEPT !.client_leader_thread = @ + 1]
<1>1. x \in Calls /\ x.at = "leading" /\ x.call = "wait"
  BY MovedFacts DEF WaitPoints
<1>2. calls' = With(t, x) /\ tss' = [tss EXCEPT ![t] = q]
  BY DEF BecomeClientLeader, Moved
<1>3. r.client_leader_thread = 0 /\ r.event_loop_thread = 0
  BY SMT DEF leads, Tss
<1>4. q.client_leader_thread = 1 /\ q.event_loop_thread = 0
  BY <1>3, SMT DEF Tss
<1> HIDE DEF x, q
<1>5. /\ \A u \in Threads \ {t} : calls'[u] = calls[u]
      /\ Busy(t)' /\ Call(t)' = x
  BY <1>1, <1>2, MovedElsewhere
<1>6. Single(calls'[t], q)
  BY <1>1, <1>4, <1>5 DEF Single, Busy, Call
<1>7. \A u \in Threads \ {t} : ~(tss[u].client_leader_thread > 0)
  BY DEF leads
<1> QED  BY <1>2, <1>5, <1>6, <1>7, SoleStep

(* A follower does not lead.                                               *)
LEMMA FollowSole ==
    ASSUME Inv, Sole, NEW t \in Threads, Busy(t), Call(t).call = "wait",
           NEW c, NEW r, ~leads(r), Follow(t, c, r)
    PROVE  Sole'
<1> DEFINE x == [Call(t) EXCEPT !.at = "follower"]
<1>1. x \in Calls
  BY MovedFacts DEF WaitPoints
<1>2. calls' = With(t, x) /\ tss' = [tss EXCEPT ![t] = r]
  BY DEF Follow, Moved
<1> HIDE DEF x
<1> QED  BY <1>1, <1>2, MovedElsewhere, QuietStep

(* A round of the loop of wait_for_event.                                  *)
LEMMA WaitLoopSole ==
    ASSUME Inv, Sole, NEW t \in Threads, Busy(t), Call(t).call = "wait",
           NEW c, NEW r \in Tss, ~leads(r),
           c.leaders = 0 => \A u \in Threads \ {t} : ~leads(tss[u]),
           WaitLoop(t, c, r)
    PROVE  Sole'
<1>1. CASE Return(t, c, r)
  BY <1>1, ReturnedElsewhere, QuietStep DEF Return, Elsewhere
<1>2. CASE Follow(t, c, r)
  BY <1>2, FollowSole
<1>3. CASE c.leaders = 0 /\ BecomeClientLeader(t, c, r)
  BY <1>3, BecomeSole
<1> QED  BY <1>1, <1>2, <1>3 DEF WaitLoop

(* The calls of wait_for_event.                                            *)
LEMMA WaitSole ==
    ASSUME Inv, Sole, "leader_calls" \notin met', NEW t \in Threads,
           \/ Invoke(t) \/ EnterWait(t) \/ FollowerWakes(t) \/ FollowerTimesOut(t)
           \/ LeadBegins(t) \/ LeadGoesOn(t) \/ LeadExpires(t) \/ LeadEnds(t) \/ YieldEnds(t)
    PROVE  Sole'
<1> DEFINE r == tss[t]
<1>1. /\ r \in Tss /\ tss = [tss EXCEPT ![t] = r]
      /\ r.event_loop_thread \in Nat /\ r.client_leader_thread \in Nat
  BY ThreadFacts
<1>2. lf.leaders = 0 => \A u \in Threads : ~leads(tss[u])
  <2>1. lf.leaders \in Nat /\ \A u \in Threads : leads(tss[u]) => lf.leaders > 0
    BY ZeroFacts, QuietFacts
  <2> QED  BY <2>1, SMT
<1>3. leads(r) => Busy(t) /\ Call(t).at \in {"leading", "polling", "handling", "upcall", "polled", "led"}
  BY QuietFacts
<1>4. CASE Invoke(t)
  <2> DEFINE x == [call |-> "wait", at |-> "calling", event |-> "ACTIVE", expired |-> FALSE]
  <2>1. x \in WaitCall /\ x.at = "calling"
    BY Zenon DEF WaitCall, WaitPoints, EventStates
  <2>2. x \in Calls
    BY <2>1 DEF Calls
  <2>3. calls' = [calls EXCEPT ![t] = Append(@, x)] /\ tss' = tss
    BY <1>4 DEF Invoke
  <2> HIDE DEF x
  <2>4. ~leads(r)
    BY <1>4 DEF Invoke, NoteCall
  <2> QED  BY <1>1, <2>1, <2>2, <2>3, <2>4, PushedElsewhere, QuietStep DEF Elsewhere
<1>5. CASE EnterWait(t)
  <2>1. Busy(t) /\ Call(t).call = "wait" /\ ~leads(r)
    BY <1>3, <1>5 DEF EnterWait, At
  <2>2. set_client_thread(lf, r) = lf
    BY <2>1 DEF set_client_thread
  <2>3. WaitLoop(t, lf, r)
    BY <1>5, <2>2 DEF EnterWait
  <2> HIDE DEF r
  <2> QED  BY <1>1, <1>2, <2>1, <2>3, WaitLoopSole
<1>6. CASE FollowerWakes(t)
  <2>1. Busy(t) /\ Call(t).call = "wait" /\ ~leads(r)
    BY <1>3, <1>6 DEF FollowerWakes, At
  <2>2. CASE Follow(t, lf, r)
    BY <2>1, <2>2, FollowSole
  <2>3. CASE lf.leaders = 0 /\ BecomeClientLeader(t, lf, r)
    <3> HIDE DEF r
    <3> QED  BY <1>1, <1>2, <2>1, <2>3, BecomeSole
  <2>4. CASE calls' = Returned(t) /\ tss' = tss
    BY <1>1, <2>1, <2>4, ReturnedElsewhere, QuietStep DEF Elsewhere
  <2> QED  BY <1>6, <2>2, <2>3, <2>4 DEF FollowerWakes
<1>7. CASE FollowerTimesOut(t)
  <2>1. Busy(t) /\ ~leads(r) /\ calls' = Returned(t) /\ tss' = tss
    BY <1>3, <1>7 DEF FollowerTimesOut, At
  <2> QED  BY <1>1, <2>1, ReturnedElsewhere, QuietStep DEF Elsewhere
<1>8. CASE LeadBegins(t) \/ LeadGoesOn(t)
  <2>1. Busy(t) /\ Call(t).call = "wait" /\ tss' = tss
    BY <1>8 DEF LeadBegins, LeadGoesOn, At
  <2>2. PICK p \in {"polling", "led"} : calls' = Moved(t, p)
    BY <1>8 DEF LeadBegins, LeadGoesOn
  <2> DEFINE x == [Call(t) EXCEPT !.at = p]
  <2>3. x \in Calls /\ x.at = p /\ x.call = Call(t).call
    BY <2>1, MovedFacts DEF WaitPoints
  <2>4. calls' = With(t, x)
    BY <2>2 DEF Moved
  <2> HIDE DEF x
  <2> QED  BY <2>1, <2>3, <2>4, StayStep
<1>9. CASE LeadExpires(t)
  <2> DEFINE x == [Call(t) EXCEPT !.at = "led", !.expired = TRUE]
  <2>1. /\ Busy(t) /\ Call(t).call = "wait" /\ Call(t) \in WaitCall
        /\ calls' = With(t, x) /\ tss' = tss
    BY <1>9, ThreadFacts, CallFacts DEF LeadExpires, At
  <2>2. x \in WaitCall /\ x \in Calls /\ x.at = "led" /\ x.call = Call(t).call
    BY <2>1, CallFacts DEF Calls, WaitPoints
  <2> HIDE DEF x
  <2> QED  BY <2>1, <2>2, StayStep
<1>10. CASE LeadEnds(t)
  <2> DEFINE c == reset_client_leader_thread(lf, r)
             q == client_leader_given_up(r)
  <2>1. Busy(t) /\ Call(t).call = "wait" /\ Call(t).at = "led"
    BY <1>10 DEF LeadEnds, At
  <2>2. leads(r) => r.client_leader_thread = 1 /\ r.event_loop_thread = 0
    BY <2>1, QuietFacts
  <2>3. q \in Tss /\ ~leads(q)
    <3>1. CASE leads(r)
      <4>1. q = [r EXCEPT !.client_leader_thread = @ - 1]
        BY <2>2, <3>1, SMT DEF client_leader_given_up
      <4> QED  BY <1>1, <2>2, <3>1, <4>1, SMT DEF Tss, leads
    <3>2. CASE ~leads(r)
      <4>1. q = r
        BY <3>2 DEF client_leader_given_up, leads
      <4> QED  BY <1>1, <3>2, <4>1
    <3> QED  BY <3>1, <3>2
  <2>4. c.leaders = 0 => \A u \in Threads \ {t} : ~leads(tss[u])
    <3>1. CASE leads(r)
      <4>1. r.client_leader_thread > 0
        BY <2>2, <3>1, SMT
      <4> QED  BY <4>1 DEF Sole
    <3>2. CASE ~leads(r)
      <4>1. c = lf
        BY <3>2 DEF reset_client_leader_thread, leads
      <4> QED  BY <1>2, <4>1
    <3> QED  BY <3>1, <3>2
  <2>5. CASE WaitLoop(t, c, q)
    <3> HIDE DEF c, q
    <3> QED  BY <2>1, <2>3, <2>4, <2>5, WaitLoopSole
  <2>6. CASE calls' = Moved(t, "yielding") /\ tss' = [tss EXCEPT ![t] = q]
    <3> HIDE DEF q
    <3>1. Elsewhere(t)
      BY <2>1, <2>6, PointElsewhere DEF WaitPoints
    <3> QED  BY <2>3, <2>6, <3>1, QuietStep DEF Elsewhere
  <2> QED  BY <1>10, <2>5, <2>6 DEF LeadEnds
<1>11. CASE YieldEnds(t)
  <2>1. Busy(t) /\ Call(t).call = "wait" /\ ~leads(r) /\ WaitLoop(t, lf, r)
    BY <1>3, <1>11 DEF YieldEnds, At
  <2> HIDE DEF r
  <2> QED  BY <1>1, <1>2, <2>1, WaitLoopSole
<1> QED  BY <1>4, <1>5, <1>6, <1>7, <1>8, <1>9, <1>10, <1>11

(* The thread begins to run the reactor, with no client leader about.      *)
LEMMA RunReactorSole ==
    ASSUME Inv, Sole, NEW t \in Threads, Busy(t), Call(t).call = "run", ~leads(tss[t]),
           ~(lf.client_thread_is_leader > 0), NEW c, RunReactor(t, c)
    PROVE  Sole'
<1> DEFINE r == tss[t]
           x == [Call(t) EXCEPT !.at = "polling"]
           q == [r EXCEPT !.event_loop_thread = @ + 1]
<1>1. /\ r \in Tss /\ tss \in [Threads -> Tss]
      /\ r.event_loop_thread \in Nat /\ r.client_leader_thread \in Nat
  BY ThreadFacts
<1>2. x \in Calls /\ x.at = "polling" /\ x.call = "run"
  BY MovedFacts DEF RunPoints
<1>3. calls' = With(t, x) /\ tss' = [tss EXCEPT ![t] = q]
  BY <1>1 DEF RunReactor, Moved
<1>4. q.client_leader_thread = 0 /\ q.event_loop_thread = 1
  <2>1. r.client_leader_thread = 0 /\ r.event_loop_thread = 0
    BY <1>1, SMT DEF leads
  <2> QED  BY <1>1, <2>1, SMT DEF Tss
<1> HIDE DEF x, q
<1>5. /\ \A u \in Threads \ {t} : calls'[u] = calls[u]
      /\ Busy(t)' /\ Call(t)' = x
  BY <1>2, <1>3, MovedElsewhere
<1>6. Single(calls'[t], q)
  BY <1>2, <1>4, <1>5 DEF Single, Busy, Call
<1>7. \A u \in Threads : ~(tss[u].client_leader_thread > 0)
  BY ZeroFacts
<1>8. ~(q.client_leader_thread > 0)
  BY <1>4, SMT
<1> QED  BY <1>3, <1>5, <1>6, <1>7, <1>8, SoleStep

(* The calls of ORB_Core::run.                                             *)
LEMMA RunSole ==
    ASSUME Inv, Sole, "leader_calls" \notin met', NEW t \in Threads,
           \/ Run(t) \/ EnterLoop(t) \/ BlockedWakes(t) \/ BlockedTimesOut(t)
           \/ LeaveLoop(t) \/ GiveUpLoop(t)
    PROVE  Sole'
<1> DEFINE r == tss[t]
<1>1. /\ r \in Tss /\ tss = [tss EXCEPT ![t] = r] /\ tss \in [Threads -> Tss]
      /\ r.event_loop_thread \in Nat /\ r.client_leader_thread \in Nat
  BY ThreadFacts
<1>2. leads(r) => Busy(t) /\ Call(t).at \in {"leading", "polling", "handling", "upcall", "polled", "led"}
  BY QuietFacts
<1>3. CASE Run(t)
  <2> DEFINE x == [call |-> "run", at |-> "entering"]
  <2>1. x \in RunCall /\ x.at = "entering"
    BY SMT DEF RunCall, RunPoints
  <2>2. x \in Calls
    BY <2>1 DEF Calls
  <2>3. calls' = [calls EXCEPT ![t] = Append(@, x)] /\ tss' = tss
    BY <1>3 DEF Run
  <2> HIDE DEF x
  <2>4. ~leads(r)
    BY <1>3 DEF Run, NoteCall
  <2> QED  BY <1>1, <2>1, <2>2, <2>3, <2>4, PushedElsewhere, QuietStep DEF Elsewhere
<1>4. CASE EnterLoop(t) \/ BlockedWakes(t) \/ BlockedTimesOut(t)
  <2>1. Busy(t) /\ Call(t).call = "run" /\ ~leads(r)
    BY <1>2, <1>4 DEF EnterLoop, BlockedWakes, BlockedTimesOut, At
  <2>2. r.client_leader_thread = 0
    BY <1>1, <2>1, SMT DEF leads
  <2>3. CASE ~(lf.client_thread_is_leader > 0) /\ \E c : RunReactor(t, c)
    BY <2>1, <2>3, RunReactorSole
  <2>4. CASE tss' = tss /\ \E p \in {"blocked", "failed"} : calls' = Moved(t, p)
    <3>1. Elsewhere(t)
      BY <2>1, <2>4, PointElsewhere DEF RunPoints
    <3> QED  BY <1>1, <2>1, <2>4, <3>1, QuietStep DEF Elsewhere
  <2>5. CASE tss' = tss /\ calls' = calls
    BY <1>1, <2>1, <2>5, QuietStep
  <2> QED  BY <1>4, <2>2, <2>3, <2>4, <2>5 DEF EnterLoop, BlockedWakes, BlockedTimesOut, must_wait
<1>5. CASE LeaveLoop(t)
  <2>1. Busy(t) /\ Call(t).call = "run" /\ Elsewhere(t)
    BY <1>5, PointElsewhere, ReturnedElsewhere DEF LeaveLoop, At, RunPoints
  <2>2. leads(r) => r.client_leader_thread = 0 /\ r.event_loop_thread = 1
    BY <2>1, QuietFacts
  <2>3. CASE r.event_loop_thread > 0
    <3> DEFINE q == [r EXCEPT !.event_loop_thread = @ - 1]
    <3>1. tss' = [tss EXCEPT ![t] = q]
      BY <1>1, <1>5, <2>3 DEF LeaveLoop
    <3>2. ~leads(q)
      BY <1>1, <2>2, <2>3, SMT DEF leads, Tss
    <3> HIDE DEF q
    <3> QED  BY <2>1, <3>1, <3>2, QuietStep DEF Elsewhere
  <2>4. CASE ~(r.event_loop_thread > 0)
    <3>1. ~leads(r) /\ tss' = tss
      BY <1>5, <2>2, <2>4, SMT DEF LeaveLoop
    <3> QED  BY <1>1, <2>1, <3>1, QuietStep DEF Elsewhere
  <2> QED  BY <2>3, <2>4
<1>6. CASE GiveUpLoop(t)
  <2>1. Busy(t) /\ ~leads(r) /\ calls' = Returned(t) /\ tss' = tss
    BY <1>2, <1>6 DEF GiveUpLoop, At
  <2> QED  BY <1>1, <2>1, ReturnedElsewhere, QuietStep DEF Elsewhere
<1> QED  BY <1>3, <1>4, <1>5, <1>6

(* The reactor and its handlers.                                           *)
LEMMA ReactorSole ==
    ASSUME Inv, Sole, NEW t \in Threads,
           Dispatch(t) \/ HandleEventsReturns(t) \/ CallBack(t) \/ set_upcall_thread(t)
    PROVE  Sole'
<1> DEFINE r == tss[t]
<1>1. /\ r \in Tss /\ tss = [tss EXCEPT ![t] = r] /\ tss \in [Threads -> Tss]
      /\ r.event_loop_thread \in Nat /\ r.client_leader_thread \in Nat
      /\ Busy(t) => Call(t) \in Calls
  BY ThreadFacts
<1>2. CASE Dispatch(t) \/ HandleEventsReturns(t) \/ CallBack(t)
  <2>1. Busy(t) /\ tss' = tss
    BY <1>2 DEF Dispatch, HandleEventsReturns, CallBack, InReactor
  <2>2. PICK p \in {"handling", "upcall", "polled"} : calls' = Moved(t, p)
    BY <1>2 DEF Dispatch, HandleEventsReturns, CallBack
  <2> DEFINE x == [Call(t) EXCEPT !.at = p]
  <2>3. x \in Calls /\ x.at = p /\ x.call = Call(t).call
    BY <2>1, MovedFacts DEF WaitPoints, RunPoints
  <2>4. calls' = With(t, x)
    BY <2>2 DEF Moved
  <2> HIDE DEF x
  <2> QED  BY <2>1, <2>3, <2>4, StayStep
<1>3. CASE set_upcall_thread(t)
  <2>1. Busy(t) /\ Elsewhere(t) /\ Call(t).call \in {"wait", "run"}
    <3>1. Busy(t) /\ calls' = Moved(t, "upcall")
      BY <1>3 DEF set_upcall_thread, InReactor
    <3> QED  BY <1>1, <3>1, PointElsewhere, CallFacts DEF WaitPoints, RunPoints
  <2>2. leads(r) => \/ r.client_leader_thread = 1 /\ r.event_loop_thread = 0
                    \/ r.client_leader_thread = 0 /\ r.event_loop_thread = 1
    BY <2>1, QuietFacts
  <2>3. CASE /\ r.event_loop_thread > 0
             /\ tss' = [tss EXCEPT ![t].event_loop_thread = @ - 1]
    <3> DEFINE q == [r EXCEPT !.event_loop_thread = @ - 1]
    <3>1. tss' = [tss EXCEPT ![t] = q]
      BY <1>1, <2>3
    <3>2. leads(r)
      BY <2>3 DEF leads
    <3>3. ~leads(q)
      BY <1>1, <2>2, <2>3, <3>2, SMT DEF leads, Tss
    <3> HIDE DEF q
    <3> QED  BY <2>1, <3>1, <3>3, QuietStep DEF Elsewhere
  <2>4. CASE /\ r.event_loop_thread = 0
             /\ tss' = [tss EXCEPT ![t].client_leader_thread = 0]
    <3> DEFINE q == [r EXCEPT !.client_leader_thread = 0]
    <3>1. tss' = [tss EXCEPT ![t] = q]
      BY <1>1, <2>4
    <3>2. ~leads(q)
      BY <1>1, <2>4, SMT DEF leads, Tss
    <3> HIDE DEF q
    <3> QED  BY <2>1, <3>1, <3>2, QuietStep DEF Elsewhere
  <2>5. CASE r.event_loop_thread = 0 /\ r.client_leader_thread # 1 /\ tss' = tss
    <3>1. ~leads(r)
      BY <2>2, <2>5, SMT
    <3> QED  BY <1>1, <2>1, <2>5, <3>1, QuietStep DEF Elsewhere
  <2> QED  BY <1>3, <2>3, <2>4, <2>5 DEF set_upcall_thread
<1> QED  BY <1>2, <1>3

(* Events do not tell who leads.                                           *)
LEMMA EventSole ==
    ASSUME Inv, Sole, NEW u \in Threads, NEW k, state_changed(u, k)
    PROVE  Sole'
<1>1. PICK s : /\ Steps(u, s, tss[u])
               /\ calls[u] # <<>> /\ s # <<>>
               /\ Last(s).call = Last(calls[u]).call /\ Last(s).at = Last(calls[u]).at
  BY StateChangedStep
<1>2. /\ calls'[u] = s /\ \A v \in Threads \ {u} : calls'[v] = calls[v]
      /\ tss' = [tss EXCEPT ![u] = tss[u]]
  BY <1>1, ThreadFacts DEF Steps
<1>3. Single(calls'[u], tss[u])
  <2>1. Single(calls[u], tss[u])
    BY DEF Sole
  <2> QED  BY <1>1, <1>2, <2>1 DEF Single
<1> QED  BY <1>2, <1>3, SoleStep DEF Sole

(* Every step keeps the leader of a client alone.                          *)
LEMMA SoleNext ==
    ASSUME Inv, Sole, "leader_calls" \notin met', [Next]_vars
    PROVE  Sole'
<1>1. CASE UNCHANGED vars
  BY <1>1 DEF vars, Sole
<1>2. ASSUME NEW u \in Threads, NEW k,
             (\E t \in Threads : DispatchReply(t, u, k)) \/ ConnectionClosed(u, k)
      PROVE  Sole'
  BY <1>2, EventSole DEF DispatchReply, ConnectionClosed
<1> QED  BY <1>1, <1>2, WaitSole, RunSole, ReactorSole DEF Next

(* Nobody leads at first.                                                  *)
LEMMA InitSole == Init => Sole
<1> SUFFICES ASSUME Init PROVE Sole
  OBVIOUS
<1>1. \A t \in Threads : ~leads(tss[t])
  BY SMT DEF Init, leads
<1> QED  BY <1>1 DEF Sole, Single, leads

(* Until a thread makes a call while it leads, a client leader runs the    *)
(* reactor alone, whatever handlers do and whoever closes connections.     *)
THEOREM ClientLeadsAlone == Spec => []OneClientLeaderUndisturbed
<1> DEFINE SoleUndisturbed == "leader_calls" \notin met => Sole
<1>1. Inv /\ Sole => OneClientLeader
  <2> SUFFICES ASSUME Inv, Sole, NEW t \in Threads, NEW u \in Threads, t # u,
                      At(t, "wait", "polling"), InReactor(u, "polling")
               PROVE  FALSE
    BY DEF OneClientLeader
  <2>1. Busy(t) /\ LeadsInReactor(Call(t), tss[t])
    BY ThreadFacts DEF ThreadOK, At, Busy, Call
  <2>2. tss[t].client_leader_thread > 0
    BY <2>1 DEF LeadsInReactor, At
  <2>3. Busy(u) /\ LeadsInReactor(Call(u), tss[u]) /\ Call(u).call \in {"wait", "run"}
    BY ThreadFacts, CallFacts DEF ThreadOK, InReactor, Busy, Call
  <2>4. leads(tss[u])
    BY <2>3 DEF LeadsInReactor, InReactor, leads
  <2> QED  BY <2>2, <2>4 DEF Sole
<1>2. Init => SoleUndisturbed
  BY InitSole
<1>3. Inv /\ SoleUndisturbed /\ [Next]_vars => SoleUndisturbed'
  BY SoleNext, MetStep DEF Inv, TypeOK
<1>4. SoleUndisturbed => (Inv => OneClientLeaderUndisturbed)
  BY <1>1 DEF OneClientLeaderUndisturbed
<1> QED  BY <1>2, <1>3, <1>4, InvHolds, PTL DEF Spec

-----------------------------------------------------------------------------
(* The leadership is not lost, as long as no elected follower loses its    *)
(* connection to a thread outside the reactor.                             *)

(* What another thread is about to do, it is about to do after the step.   *)
LEMMA OthersTend ==
    ASSUME Inv, NEW t \in Threads, \A u \in Threads \ {t} : calls'[u] = calls[u],
           NEW u \in Threads \ {t}
    PROVE  /\ WillElect(u) => WillElect(u)'
           /\ Elected(u) /\ u \in woken' => Elected(u)'
           /\ At(u, "run", "blocked") /\ u \in woken' => Elected(u)'
           /\ Asleep(u) /\ u \in woken' => Elected(u)'
           /\ Asleep(u)' => At(u, "wait", "follower")
<1>1. calls'[u] = calls[u]
  OBVIOUS
<1>2. /\ WillElect(u) => WillElect(u)'
      /\ Elected(u) /\ u \in woken' => Elected(u)'
      /\ At(u, "run", "blocked") /\ u \in woken' => Elected(u)'
      /\ Asleep(u)' => At(u, "wait", "follower")
  BY <1>1 DEF WillElect, Elected, At, Busy, Call, Asleep
<1>3. Asleep(u) => Call(u).event = "ACTIVE"
  <2> SUFFICES ASSUME Asleep(u) PROVE Call(u).event = "ACTIVE"
    OBVIOUS
  <2>1. At(u, "wait", "follower") /\ u \notin woken
    BY DEF Asleep
  <2>2. Call(u).event # "FINAL"
    BY <2>1 DEF Inv, CompletedIsWoken
  <2>3. Call(u) \in WaitCall
    BY <2>1, ThreadFacts, CallFacts DEF At
  <2> QED  BY <2>2, <2>3, CallFacts DEF EventStates
<1>4. Asleep(u) /\ u \in woken' => Elected(u)'
  BY <1>1, <1>3 DEF Elected, At, Busy, Call, Asleep, keep_waiting_i
<1> QED  BY <1>2, <1>4

(* There is a leader, or the thread is about to elect one.                 *)
LEMMA LeaderTends ==
    ASSUME lf'.leaders > 0 \/ \E t \in Threads : WillElect(t)'
    PROVE  LeaderNotLost'
  BY DEF LeaderNotLost

(* An election, by a thread that has not been elected itself.              *)
LEMMA ElectTends ==
    ASSUME Inv, NEW t \in Threads, Elsewhere(t), ~Following(t), ~At(t, "run", "blocked"),
           Elect(lf'), lf'.event_loop_threads_waiting = lf.event_loop_threads_waiting,
           lf'.leaders \in Nat
    PROVE  LeaderNotLost'
<1> SUFFICES ASSUME NEW v \in Threads, Asleep(v)', ~(lf'.leaders > 0)
             PROVE  \E u \in Threads : Elected(u)'
  BY DEF LeaderNotLost
<1>1. lf'.leaders = 0
  BY SMT
<1>2. PICK W : Elects(Sleepers, lf', W)
  BY ListFacts, Election
<1>3. woken' = woken \cup W
  BY <1>2 DEF Elect, Elects
<1>4. v # t /\ v \in Sleepers
  <2>1. v # t
    BY DEF Elsewhere, Following, Asleep
  <2>2. At(v, "wait", "follower")
    BY <2>1, OthersTend DEF Elsewhere
  <2>3. v \notin woken
    BY <1>3 DEF Asleep
  <2> QED  BY <2>1, <2>2, <2>3 DEF Sleepers, Asleep
<1>5. CASE lf'.event_loop_threads_waiting > 0 /\ W = BlockedThreads
  <2>1. PICK b \in BlockedThreads : TRUE
    BY <1>5, ZeroFacts
  <2>2. b \in Threads \ {t} /\ At(b, "run", "blocked") /\ b \in woken'
    BY <1>3, <1>5 DEF BlockedThreads
  <2> QED  BY <2>2, OthersTend DEF Elsewhere
<1>6. CASE W \cap Sleepers # {}
  <2>1. PICK u \in W \cap Sleepers : TRUE
    BY <1>6
  <2>2. u \in Threads \ {t} /\ Asleep(u) /\ u \in woken'
    BY <1>3, <2>1 DEF Sleepers, Asleep, Following
  <2> QED  BY <2>2, OthersTend DEF Elsewhere
<1> QED  BY <1>1, <1>2, <1>4, <1>5, <1>6 DEF Elects

(* The election of a follower that times out may take that follower: then  *)
(* somebody else was about to see to it.                                   *)
LEMMA TimeoutTends ==
    ASSUME Inv, LeaderNotLost, NEW t \in Threads, Elsewhere(t), Following(t),
           lf' = lf, woken' = elect_new_leader(lf).woken \ {t}
    PROVE  LeaderNotLost'
<1> SUFFICES ASSUME NEW v \in Threads, Asleep(v)', ~(lf.leaders > 0)
             PROVE  \E u \in Threads : Elected(u)' \/ WillElect(u)'
  BY DEF LeaderNotLost
<1>1. lf.leaders = 0
  <2>1. lf.leaders \in Nat
    BY ZeroFacts
  <2> QED  BY <2>1, SMT
<1>2. PICK W : Elects(Sleepers, lf, W)
  BY ListFacts, Election
<1>3. woken' = (woken \cup W) \ {t}
  BY <1>2 DEF Elects
<1>4. v # t /\ v \in Sleepers /\ Asleep(v)
  <2>1. v # t
    BY DEF Elsewhere, Following, Asleep
  <2>2. At(v, "wait", "follower")
    BY <2>1, OthersTend DEF Elsewhere
  <2>3. v \notin woken
    BY <1>3, <2>1 DEF Asleep
  <2> QED  BY <2>1, <2>2, <2>3 DEF Sleepers, Asleep
<1>5. CASE lf.event_loop_threads_waiting > 0 /\ W = BlockedThreads
  <2>1. PICK b \in BlockedThreads : TRUE
    BY <1>5, ZeroFacts
  <2>2. b \in Threads \ {t} /\ At(b, "run", "blocked")
    BY DEF BlockedThreads, Following, At
  <2>3. b \in woken'
    BY <1>3, <1>5, <2>2
  <2> QED  BY <2>2, <2>3, OthersTend DEF Elsewhere
<1>6. CASE W \cap Sleepers # {}
  <2>1. PICK u \in W \cap Sleepers : TRUE
    BY <1>6
  <2>2. CASE u # t
    <3>1. u \in Threads \ {t} /\ Asleep(u) /\ u \in woken'
      BY <1>3, <2>1, <2>2 DEF Sleepers
    <3> QED  BY <3>1, OthersTend DEF Elsewhere
  <2>3. CASE u = t
    <3>1. ~Elected(t) /\ ~WillElect(t)
      BY <2>1, <2>3 DEF Sleepers, Asleep, Elected, WillElect, At
    <3>2. PICK w \in Threads : Elected(w) \/ WillElect(w)
      BY <1>4 DEF LeaderNotLost
    <3>3. w \in Threads \ {t} /\ (Elected(w) => w \in woken')
      BY <1>3, <3>1, <3>2 DEF Elected
    <3> QED  BY <3>2, <3>3, OthersTend DEF Elsewhere
  <2> QED  BY <2>2, <2>3
<1> QED  BY <1>1, <1>2, <1>4, <1>5, <1>6 DEF Elects

(* A thread goes on that was neither elected nor about to elect.           *)
LEMMA StillTends ==
    ASSUME Inv, LeaderNotLost, NEW t \in Threads,
           \A u \in Threads \ {t} : calls'[u] = calls[u], ~Following(t)',
           ~Elected(t), ~WillElect(t), lf'.leaders = lf.leaders,
           woken' = woken \/ woken' = woken \ {t}
    PROVE  LeaderNotLost'
<1> SUFFICES ASSUME NEW v \in Threads, Asleep(v)', ~(lf.leaders > 0)
             PROVE  \E u \in Threads : Elected(u)' \/ WillElect(u)'
  BY DEF LeaderNotLost
<1>1. v # t /\ Asleep(v)
  <2>1. v # t
    BY DEF Following, Asleep
  <2>2. At(v, "wait", "follower")
    BY <2>1, OthersTend
  <2> QED  BY <2>1, <2>2 DEF Asleep
<1>2. PICK w \in Threads : Elected(w) \/ WillElect(w)
  BY <1>1 DEF LeaderNotLost
<1>3. w \in Threads \ {t} /\ (Elected(w) => w \in woken')
  BY <1>2 DEF Elected
<1> QED  BY <1>2, <1>3, OthersTend

(* A thread that follows has seen a leader.                               *)
LEMMA FollowTends ==
    ASSUME Inv', NEW t \in Threads, NEW c, NEW r, c.leaders # 0, Follow(t, c, r)
    PROVE  LeaderNotLost'
<1>1. lf'.leaders \in Nat
  BY SMT DEF Inv, TypeOK, Counters
<1>2. lf'.leaders > 0
  BY <1>1, SMT DEF Follow
<1> QED  BY <1>2, LeaderTends

(* The thread becomes the client leader, and counts as one.                *)
LEMMA BecomeTends ==
    ASSUME NEW t \in Threads,
           NEW c \in [leaders : Int, client_thread_is_leader : Int,
                      event_loop_threads_waiting : Int],
           NEW r, c.leaders = 0, BecomeClientLeader(t, c, r)
    PROVE  LeaderNotLost'
<1>1. /\ lf' = [c EXCEPT !.leaders = @ + 1, !.client_thread_is_leader = @ + 1]
      /\ c.leaders + 1 \in Int /\ c.client_thread_is_leader + 1 \in Int
  BY SMT DEF BecomeClientLeader, set_client_leader_thread
<1>2. lf'.leaders = c.leaders + 1
  BY <1>1, CounterFacts
<1>3. lf'.leaders > 0
  BY <1>2, SMT
<1> QED  BY <1>3, LeaderTends

(* A round of the loop of wait_for_event: lead, follow or elect.           *)
LEMMA WaitLoopTends ==
    ASSUME Inv, Inv', NEW t \in Threads, ~Following(t), NEW c, NEW r,
           AtLoop(t, c, r), WaitLoop(t, c, r)
    PROVE  LeaderNotLost'
<1>1. /\ Busy(t) /\ Call(t).call = "wait"
      /\ c \in [leaders : Int, client_thread_is_leader : Int, event_loop_threads_waiting : Int]
      /\ c.event_loop_threads_waiting = lf.event_loop_threads_waiting
  BY DEF AtLoop
<1>2. CASE Return(t, c, r)
  <2>1. lf' = reset_client_thread(c, r) /\ Elect(lf') /\ Elsewhere(t)
    BY <1>1, <1>2, ReturnedElsewhere DEF Return
  <2>2. lf'.event_loop_threads_waiting = lf.event_loop_threads_waiting
    <3>1. lf' = c \/ lf' = [c EXCEPT !.leaders = @ + 1]
      BY <2>1 DEF reset_client_thread
    <3> QED  BY <1>1, <3>1, SMT
  <2>3. ~At(t, "run", "blocked") /\ lf'.leaders \in Nat
    BY <1>1, SMT DEF At, Inv, TypeOK, Counters
  <2> QED  BY <2>1, <2>2, <2>3, ElectTends
<1>3. CASE c.leaders # 0 /\ Follow(t, c, r)
  BY <1>3, FollowTends
<1>4. CASE c.leaders = 0 /\ BecomeClientLeader(t, c, r)
  BY <1>1, <1>4, BecomeTends
<1> QED  BY <1>2, <1>3, <1>4 DEF WaitLoop

(* The calls of wait_for_event.                                            *)
LEMMA WaitTends ==
    ASSUME Inv, Inv', Sole, LeaderNotLost, NEW t \in Threads,
           \/ Invoke(t) \/ EnterWait(t) \/ FollowerWakes(t) \/ FollowerTimesOut(t)
           \/ LeadEnds(t) \/ YieldEnds(t)
    PROVE  LeaderNotLost'
<1>1. lf \in [leaders : Int, client_thread_is_leader : Int, event_loop_threads_waiting : Int]
  BY ThreadFacts
<1>2. CASE Invoke(t)
  <2> DEFINE x == [call |-> "wait", at |-> "calling", event |-> "ACTIVE", expired |-> FALSE]
  <2>1. x \in WaitCall /\ x.at = "calling"
    BY Zenon DEF WaitCall, WaitPoints, EventStates
  <2>2. x \in Calls
    BY <2>1 DEF Calls
  <2>3. calls' = [calls EXCEPT ![t] = Append(@, x)] /\ lf' = lf /\ woken' = woken
    BY <1>2 DEF Invoke
  <2> HIDE DEF x
  <2>4. Elsewhere(t)
    BY <2>1, <2>2, <2>3, PushedElsewhere
  <2>5. ~Elected(t) /\ ~WillElect(t)
    BY <1>2 DEF Invoke, MayCall, Elected, WillElect, At
  <2> QED  BY <2>3, <2>4, <2>5, StillTends DEF Elsewhere
<1>3. CASE EnterWait(t)
  <2>1. At(t, "wait", "calling") /\ ~Following(t)
    BY <1>3 DEF EnterWait, At, Following
  <2> QED  BY <1>3, <2>1, EnterAtLoop, WaitLoopTends DEF EnterWait
<1>4. ASSUME Following(t) PROVE ~leads(tss[t])
  BY <1>4, QuietFacts DEF Following, At
<1>5. CASE FollowerWakes(t)
  <2>1. Busy(t) /\ Following(t)
    BY <1>5 DEF FollowerWakes, Following, At
  <2>2. CASE lf.leaders # 0 /\ Follow(t, lf, tss[t])
    BY <2>2, FollowTends
  <2>3. CASE lf.leaders = 0 /\ BecomeClientLeader(t, lf, tss[t])
    BY <1>1, <2>3, BecomeTends
  <2>4. CASE /\ ~keep_waiting_i(Call(t))
             /\ calls' = Returned(t)
             /\ lf' = reset_client_thread(lf, tss[t])
             /\ woken' = woken \ {t}
    <3>1. lf' = lf
      BY <1>4, <2>1, <2>4 DEF reset_client_thread
    <3>2. ~Elected(t) /\ ~WillElect(t)
      BY <2>1, <2>4 DEF Elected, WillElect, At, Following
    <3>3. Elsewhere(t)
      BY <2>1, <2>4, ReturnedElsewhere
    <3> QED  BY <2>4, <3>1, <3>2, <3>3, StillTends DEF Elsewhere
  <2> QED  BY <1>5, <2>2, <2>3, <2>4 DEF FollowerWakes
<1>6. CASE FollowerTimesOut(t)
  <2>1. Busy(t) /\ Following(t)
    BY <1>6 DEF FollowerTimesOut, Following, At
  <2>2. lf' = lf
    BY <1>4, <1>6, <2>1 DEF FollowerTimesOut, reset_client_thread
  <2>3. woken' = elect_new_leader(lf).woken \ {t}
    BY <1>6 DEF FollowerTimesOut, elected_on_timeout
  <2>4. Elsewhere(t)
    BY <1>6, <2>1, ReturnedElsewhere DEF FollowerTimesOut
  <2> QED  BY <2>1, <2>2, <2>3, <2>4, TimeoutTends
<1>7. CASE LeadEnds(t)
  <2> DEFINE c == reset_client_leader_thread(lf, tss[t])
             r == client_leader_given_up(tss[t])
             x == [Call(t) EXCEPT !.at = "yielding"]
  <2>1. At(t, "wait", "led") /\ ~Following(t) /\ Busy(t) /\ Call(t).call = "wait"
    BY <1>7 DEF LeadEnds, At, Following
  <2>2. CASE WaitLoop(t, c, r)
    <3>1. AtLoop(t, c, r)
      BY <2>1, LedAtLoop
    <3> HIDE DEF c, r
    <3> QED  BY <2>1, <2>2, <3>1, WaitLoopTends
  <2>3. CASE calls' = Moved(t, "yielding")
    <3>1. x \in Calls /\ x.at = "yielding" /\ x.call = "wait" /\ calls' = With(t, x)
      BY <2>1, <2>3, MovedFacts DEF WaitPoints, Moved
    <3> HIDE DEF x
    <3>2. Busy(t)' /\ Call(t)' = x
      BY <2>1, <3>1, MovedElsewhere
    <3>3. WillElect(t)'
      BY <3>1, <3>2 DEF WillElect, At
    <3> QED  BY <3>3, LeaderTends
  <2> QED  BY <1>7, <2>2, <2>3 DEF LeadEnds
<1>8. CASE YieldEnds(t)
  <2>1. Busy(t) /\ Aside(Call(t)) /\ ~Following(t)
    BY <1>8 DEF YieldEnds, At, Aside, Following
  <2> QED  BY <1>8, <2>1, AsideAtLoop, WaitLoopTends DEF YieldEnds
<1> QED  BY <1>2, <1>3, <1>5, <1>6, <1>7, <1>8

(* Who is in the reactor as a leader is counted as one.                    *)
LEMMA ReactorLeads ==
    ASSUME Inv, Sole, NEW t \in Threads, Busy(t),
           \/ Call(t).at = "polling" \/ Call(t).at = "handling"
           \/ Call(t).call = "wait" /\ Call(t).at = "leading"
    PROVE  lf.leaders > 0
<1>1. LeadsInReactor(Call(t), tss[t]) /\ Call(t).call \in {"wait", "run"}
  BY ThreadFacts, CallFacts DEF ThreadOK, Busy, Call
<1>2. leads(tss[t])
  BY <1>1 DEF LeadsInReactor, leads
<1> QED  BY <1>2, QuietFacts, ZeroFacts

(* The calls of ORB_Core::run.                                             *)
LEMMA RunTends ==
    ASSUME Inv, Inv', Sole, LeaderNotLost, NEW t \in Threads,
           \/ Run(t) \/ EnterLoop(t) \/ BlockedWakes(t) \/ BlockedTimesOut(t)
           \/ LeaveLoop(t) \/ GiveUpLoop(t)
    PROVE  LeaderNotLost'
<1>1. /\ lf \in [leaders : Int, client_thread_is_leader : Int, event_loop_threads_waiting : Int]
      /\ lf.leaders \in Nat /\ lf'.leaders \in Nat
  BY ThreadFacts, ZeroFacts, SMT DEF Inv, TypeOK, Counters
<1>2. CASE Run(t)
  <2> DEFINE x == [call |-> "run", at |-> "entering"]
  <2>1. x \in RunCall /\ x.at = "entering"
    BY SMT DEF RunCall, RunPoints
  <2>2. x \in Calls
    BY <2>1 DEF Calls
  <2>3. calls' = [calls EXCEPT ![t] = Append(@, x)] /\ lf' = lf /\ woken' = woken
    BY <1>2 DEF Run
  <2> HIDE DEF x
  <2>4. Elsewhere(t)
    BY <2>1, <2>2, <2>3, PushedElsewhere
  <2>5. ~Elected(t) /\ ~WillElect(t)
    BY <1>2 DEF Run, MayCall, Elected, WillElect, At
  <2> QED  BY <2>3, <2>4, <2>5, StillTends DEF Elsewhere
<1>3. ASSUME At(t, "run", "entering") \/ At(t, "run", "blocked"),
             NEW c \in [leaders : Int, client_thread_is_leader : Int,
                        event_loop_threads_waiting : Int],
             c.leaders = lf.leaders, RunReactor(t, c)
      PROVE  LeaderNotLost'
  <2>1. ~leads(tss[t])
    BY <1>3, QuietFacts DEF At
  <2>2. lf' = [c EXCEPT !.leaders = @ + 1]
    BY <1>3, <2>1 DEF RunReactor, event_loop_entered
  <2>3. lf'.leaders = lf.leaders + 1
    BY <1>3, <2>2, SMT
  <2>4. lf'.leaders > 0
    BY <1>1, <2>3, SMT
  <2> QED  BY <2>4, LeaderTends
<1>4. CASE EnterLoop(t)
  <2>1. At(t, "run", "entering") /\ Busy(t) /\ Call(t).call = "run"
    BY <1>4 DEF EnterLoop, At
  <2>2. CASE RunReactor(t, lf)
    BY <1>1, <1>3, <2>1, <2>2
  <2>3. CASE /\ calls' = Moved(t, "blocked")
             /\ lf' = [lf EXCEPT !.event_loop_threads_waiting = @ + 1]
             /\ woken' = woken
    <3>1. Elsewhere(t)
      BY <2>1, <2>3, PointElsewhere DEF RunPoints
    <3>2. lf'.leaders = lf.leaders
      BY <1>1, <2>3, SMT
    <3>3. ~Elected(t) /\ ~WillElect(t)
      BY <2>1 DEF At, Elected, WillElect
    <3> QED  BY <2>3, <3>1, <3>2, <3>3, StillTends DEF Elsewhere
  <2> QED  BY <1>4, <2>2, <2>3 DEF EnterLoop
<1>5. CASE BlockedWakes(t)
  <2> DEFINE c == [lf EXCEPT !.event_loop_threads_waiting = @ - 1]
  <2>1. CASE RunReactor(t, c)
    <3>1. /\ c \in [leaders : Int, client_thread_is_leader : Int,
                    event_loop_threads_waiting : Int]
          /\ c.leaders = lf.leaders
      BY <1>1, SMT
    <3>2. At(t, "run", "blocked")
      BY <1>5 DEF BlockedWakes
    <3> HIDE DEF c
    <3> QED  BY <1>3, <2>1, <3>1, <3>2
  <2>2. CASE lf.client_thread_is_leader > 0 /\ lf' = lf
    <3>1. PICK u \in Threads : tss[u].client_leader_thread > 0
      BY <2>2, ZeroFacts
    <3>2. InCharge(u)
      BY <3>1, QuietFacts DEF leads
    <3> QED  BY <2>2, <3>2, ZeroFacts, LeaderTends
  <2> QED  BY <1>5, <2>1, <2>2 DEF BlockedWakes
<1>6. CASE BlockedTimesOut(t)
  <2> DEFINE x == [Call(t) EXCEPT !.at = "failed"]
  <2>1. Busy(t) /\ Call(t).call = "run" /\ calls' = Moved(t, "failed")
    BY <1>6 DEF BlockedTimesOut, At
  <2>2. x \in Calls /\ x.at = "failed" /\ x.call = "run" /\ calls' = With(t, x)
    BY <2>1, MovedFacts DEF RunPoints, Moved
  <2> HIDE DEF x
  <2>3. Busy(t)' /\ Call(t)' = x
    BY <2>1, <2>2, MovedElsewhere
  <2>4. WillElect(t)'
    BY <2>2, <2>3 DEF WillElect, At
  <2> QED  BY <2>4, LeaderTends
<1>7. CASE LeaveLoop(t)
  <2>1. Busy(t) /\ Call(t).call = "run" /\ ~Following(t) /\ ~At(t, "run", "blocked")
    BY <1>7 DEF LeaveLoop, At, Following
  <2>2. Elsewhere(t)
    BY <1>7, <2>1, PointElsewhere, ReturnedElsewhere DEF LeaveLoop, RunPoints
  <2>3. Elect(lf') /\ lf'.event_loop_threads_waiting = lf.event_loop_threads_waiting
    <3>1. CASE tss[t].event_loop_thread > 0
      <4>1. lf' = event_loop_left(lf, tss[t]) /\ Elect(event_loop_left(lf, tss[t]))
        BY <1>7, <3>1 DEF LeaveLoop
      <4> QED  BY <3>1, <4>1, LeftCounts, ZenonT(40)
    <3>2. CASE ~(tss[t].event_loop_thread > 0)
      BY <1>7, <3>2 DEF LeaveLoop
    <3> QED  BY <3>1, <3>2
  <2> QED  BY <1>1, <2>1, <2>2, <2>3, ElectTends
<1>8. CASE GiveUpLoop(t)
  <2>1. Busy(t) /\ Call(t).call = "run" /\ ~Following(t) /\ ~At(t, "run", "blocked")
    BY <1>8 DEF GiveUpLoop, At, Following
  <2>2. Elsewhere(t) /\ lf' = lf /\ Elect(lf')
    BY <1>8, <2>1, ReturnedElsewhere DEF GiveUpLoop
  <2> QED  BY <1>1, <2>1, <2>2, ElectTends
<1> QED  BY <1>2, <1>4, <1>5, <1>6, <1>7, <1>8

(* The reactor and its handlers.                                           *)
LEMMA ReactorTends ==
    ASSUME Inv, Inv', Sole, LeaderNotLost, NEW t \in Threads,
           \/ LeadBegins(t) \/ LeadGoesOn(t) \/ LeadExpires(t)
           \/ Dispatch(t) \/ HandleEventsReturns(t) \/ CallBack(t) \/ set_upcall_thread(t)
    PROVE  LeaderNotLost'
<1>1. /\ lf \in [leaders : Int, client_thread_is_leader : Int, event_loop_threads_waiting : Int]
      /\ lf'.leaders \in Nat
  BY ThreadFacts, SMT DEF Inv, TypeOK, Counters
<1>2. CASE LeadBegins(t) \/ LeadExpires(t) \/ Dispatch(t) \/ CallBack(t)
  <2>1. /\ Busy(t) /\ lf' = lf
        /\ \/ Call(t).at = "polling" \/ Call(t).at = "handling"
           \/ (Call(t).call = "wait" /\ Call(t).at = "leading")
    BY <1>2 DEF LeadBegins, LeadExpires, Dispatch, CallBack, At, InReactor
  <2> QED  BY <2>1, ReactorLeads, LeaderTends
<1>3. CASE LeadGoesOn(t)
  <2>1. Busy(t) /\ Call(t).call = "wait" /\ lf' = lf
    BY <1>3 DEF LeadGoesOn, At
  <2>2. CASE tss[t].client_leader_thread > 0
    <3>1. InCharge(t)
      BY <2>2, QuietFacts DEF leads
    <3> QED  BY <2>1, <3>1, ZeroFacts, LeaderTends
  <2>3. CASE calls' = Moved(t, "led")
    <3> DEFINE x == [Call(t) EXCEPT !.at = "led"]
    <3>1. x \in Calls /\ x.at = "led" /\ x.call = "wait" /\ calls' = With(t, x)
      BY <2>1, <2>3, MovedFacts DEF WaitPoints, Moved
    <3> HIDE DEF x
    <3>2. Busy(t)' /\ Call(t)' = x
      BY <2>1, <3>1, MovedElsewhere
    <3>3. WillElect(t)'
      BY <3>1, <3>2 DEF WillElect, At
    <3> QED  BY <3>3, LeaderTends
  <2> QED  BY <1>3, <2>2, <2>3 DEF LeadGoesOn
<1>4. CASE HandleEventsReturns(t)
  <2>1. Busy(t) /\ lf' = lf /\ woken' = woken /\ calls' = Moved(t, "polled")
    BY <1>4 DEF HandleEventsReturns, InReactor
  <2>2. CASE Call(t).at = "handling"
    BY <2>1, <2>2, ReactorLeads, LeaderTends
  <2>3. CASE Call(t).at = "upcall"
    <3>1. Elsewhere(t)
      BY <2>1, PointElsewhere DEF WaitPoints, RunPoints
    <3>2. ~Elected(t) /\ ~WillElect(t)
      BY <2>3 DEF Elected, WillElect, At
    <3> QED  BY <2>1, <3>1, <3>2, StillTends DEF Elsewhere
  <2> QED  BY <1>4, <2>2, <2>3 DEF HandleEventsReturns, InReactor
<1>5. CASE set_upcall_thread(t)
  <2>1. /\ Busy(t) /\ Call(t).at = "handling" /\ ~Following(t) /\ ~At(t, "run", "blocked")
        /\ Elsewhere(t)
    <3>1. Busy(t) /\ Call(t).at = "handling" /\ calls' = Moved(t, "upcall")
      BY <1>5 DEF set_upcall_thread, InReactor
    <3> QED  BY <3>1, PointElsewhere DEF WaitPoints, RunPoints, Following, At
  <2>2. CASE /\ tss[t].event_loop_thread > 0
             /\ lf' = event_loop_left(lf, tss[t])
             /\ Elect(event_loop_left(lf, tss[t]))
    <3>1. lf'.event_loop_threads_waiting = lf.event_loop_threads_waiting
      BY <2>2, LeftCounts, ZenonT(40)
    <3> QED  BY <1>1, <2>1, <2>2, <3>1, ElectTends
  <2>3. CASE /\ lf' = reset_client_leader_thread(lf, tss[t])
             /\ Elect(reset_client_leader_thread(lf, tss[t]))
    <3>1. lf'.event_loop_threads_waiting = lf.event_loop_threads_waiting
      <4>1. CASE lf' = lf
        BY <4>1
      <4>2. CASE lf' = [lf EXCEPT !.leaders = @ - 1, !.client_thread_is_leader = @ - 1]
        <5>1. lf.leaders - 1 \in Int /\ lf.client_thread_is_leader - 1 \in Int
          BY <1>1, SMT
        <5> QED  BY <1>1, <4>2, <5>1, CounterFacts
      <4> QED  BY <2>3, <4>1, <4>2 DEF reset_client_leader_thread
    <3> QED  BY <1>1, <2>1, <2>3, <3>1, ElectTends
  <2>4. CASE lf' = lf
    BY <2>1, <2>4, ReactorLeads, LeaderTends
  <2> QED  BY <1>5, <2>2, <2>3, <2>4 DEF set_upcall_thread
<1> QED  BY <1>2, <1>3, <1>4, <1>5

(* The event of a follower that has not been elected is completed, or of   *)
(* a call further down the stack.                                          *)
LEMMA OtherEventTends ==
    ASSUME Inv, LeaderNotLost, NEW u \in Threads, NEW k, state_changed(u, k),
           k # Len(calls[u]) \/ ~Elected(u)
    PROVE  LeaderNotLost'
<1> DEFINE o == calls[u]
<1>1. PICK s : /\ Steps(u, s, tss[u])
               /\ o # <<>> /\ s # <<>>
               /\ Last(s).call = Last(o).call /\ Last(s).at = Last(o).at
               /\ Last(s).event = IF k = Len(o) THEN "FINAL" ELSE Last(o).event
  BY StateChangedStep
<1>2. calls'[u] = s /\ \A v \in Threads \ {u} : calls'[v] = calls[v]
  BY <1>1, ThreadFacts DEF Steps
<1>3. lf' = lf /\ woken \subseteq woken'
  BY DEF state_changed
<1>4. \A call, point : At(u, call, point)' <=> At(u, call, point)
  BY <1>1, <1>2 DEF At, Busy, Call
<1>5. WillElect(u) => WillElect(u)'
  BY <1>4 DEF WillElect
<1>6. Elected(u) => Elected(u)'
  <2>1. Elected(u) => Call(u)'.event = Call(u).event
    BY <1>1, <1>2 DEF Call
  <2> QED  BY <1>3, <1>4, <2>1 DEF Elected, keep_waiting_i
<1>7. ASSUME NEW v \in Threads, Asleep(v)' PROVE Asleep(v)
  BY <1>2, <1>3, <1>4, <1>7 DEF Asleep, At, Busy, Call
<1>8. ASSUME NEW v \in Threads, Elected(v) \/ WillElect(v)
      PROVE  Elected(v)' \/ WillElect(v)'
  <2>1. CASE v = u
    BY <1>5, <1>6, <1>8, <2>1
  <2>2. CASE v # u
    BY <1>2, <1>3, <1>8, <2>2, OthersTend DEF Elected
  <2> QED  BY <2>1, <2>2
<1> QED  BY <1>3, <1>7, <1>8 DEF LeaderNotLost

(* No step loses the leadership.                                           *)
LEMMA TendNext ==
    ASSUME Inv, Sole, LeaderNotLost, met' = {}, [Next]_vars
    PROVE  LeaderNotLost'
<1>1. Inv' /\ "leader_calls" \notin met'
  BY InvNext
<1>2. CASE UNCHANGED vars
  BY <1>2 DEF vars, LeaderNotLost, Asleep, Elected, WillElect, At, Busy, Call
<1>3. ASSUME NEW u \in Threads, NEW k,
             (\E t \in Threads : DispatchReply(t, u, k)) \/ ConnectionClosed(u, k)
      PROVE  LeaderNotLost'
  <2>1. CASE \E t \in Threads : InReactor(t, "handling")
    <3>1. PICK t \in Threads : InReactor(t, "handling")
      BY <2>1
    <3>2. lf' = lf
      BY <1>3 DEF DispatchReply, ConnectionClosed, state_changed
    <3>3. Busy(t) /\ Call(t).at = "handling"
      BY <3>1 DEF InReactor
    <3> QED  BY <1>1, <3>2, <3>3, ReactorLeads, LeaderTends
  <2>2. CASE ~\E t \in Threads : InReactor(t, "handling")
    <3>1. ConnectionClosed(u, k)
      BY <1>3, <2>2 DEF DispatchReply
    <3>2. k # Len(calls[u]) \/ ~Elected(u)
      BY <2>2, <3>1 DEF ConnectionClosed
    <3> QED  BY <3>1, <3>2, OtherEventTends DEF ConnectionClosed
  <2> QED  BY <2>1, <2>2
<1> QED  BY <1>1, <1>2, <1>3, WaitTends, RunTends, ReactorTends DEF Next

(* When a follower sleeps there is a leader, or a thread that has been     *)
(* elected or is about to elect: no order of arrivals, replies, timeouts   *)
(* and nested upcalls loses the leadership, until a thread makes a call    *)
(* while it leads or an elected follower loses its connection to a thread  *)
(* outside the reactor.                                                    *)
THEOREM LeadershipIsNotLost == Spec => []LeaderNotLostUndisturbed
<1> DEFINE Led == met = {} => Sole /\ LeaderNotLost
<1>1. Init => Led
  <2>1. Init => LeaderNotLost
    BY DEF Init, LeaderNotLost, Asleep, At, Busy
  <2> QED  BY <2>1, InitSole
<1>2. Inv /\ Led /\ [Next]_vars => Led'
  BY SoleNext, TendNext, MetStep DEF Inv, TypeOK
<1>3. Led => LeaderNotLostUndisturbed
  BY DEF LeaderNotLostUndisturbed
<1> QED  BY <1>1, <1>2, <1>3, InvHolds, PTL DEF Spec
=============================================================================
