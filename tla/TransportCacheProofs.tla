------------------------ MODULE TransportCacheProofs ------------------------
(***************************************************************************)
(* Proofs about the transport cache, for any clients, transports and       *)
(* limits.                                                                 *)
(***************************************************************************)
EXTENDS TransportCache, FiniteSetTheorems, WellFoundedInduction, TLAPS

-----------------------------------------------------------------------------
(* The inductive invariant, transport by transport.                        *)

(* Every pointer leads to an entry of its transport; t has an entry that   *)
(* its pointer does not lead to.                                           *)
PointersOwn ==
    \A t \in Transports : Cached(t) =>
        /\ cache_map_entry[t] \in Bound
        /\ EntryOf(t).transport = t

Loose(t) == \E i \in Bound : cache_map[i].transport = t /\ cache_map_entry[t] # i

CacheOK ==
    /\ IsFiniteSet(Bound)
    /\ Bound \subseteq Nat
    /\ \A i \in Bound : cache_map[i] \in Entry
    /\ cache_map_entry \in [Transports -> Nat \cup {NoEntry}]
    /\ bound_twice \subseteq Transports
    /\ PointersOwn

(* A transport is connected from Opened to close_connection_eh, and its    *)
(* event succeeds when post_open is over.                                  *)
Status(t) ==
    /\ closing[t] # "no" => is_closed[t] /\ ~is_connected[t]
    /\ phase[t] \in {"marking", "idling", "signalling", "open"} /\ closing[t] = "no" =>
          is_connected[t]
    /\ event[t].state = "SUCCESS" => phase[t] = "open"

(* Nobody knows a transport before it is made, and only its maker before   *)
(* it is cached.  It is cached once more only after it has been closed, so *)
(* that it has no entry but one while it is connecting.                    *)
Fresh(t) ==
    /\ phase[t] = "unused" =>
          /\ ~has_entry(t) /\ t \notin idle_purged /\ closing[t] = "no" /\ ~is_registered[t]
          /\ \A c \in Clients : held[c] # t /\ t \notin doomed[c]
    /\ \A c \in Clients :
          held[c] = t /\ pc[c] \in {"cache", "complete", "bind_open", "bind_connecting"} =>
              /\ ~has_entry(t) /\ t \notin idle_purged
              /\ \A d \in Clients \ {c} : held[d] # t
    /\ phase[t] \in {"pending", "marking", "idling", "signalling"} => ~Loose(t)
    /\ Loose(t) => t \in bound_twice /\ closing[t] # "no"
    /\ \A c \in Clients :
          held[c] = t /\ pc[c] \in {"cache", "bind_open", "rebind"} => phase[t] = "open"
    /\ \A c \in Clients : held[c] = t /\ pc[c] = "rebind" => closing[t] # "no"

(* The entry of a closed transport is that of a connecting one which       *)
(* nobody uses, or says that it is not connected.                          *)
ClosedEntry(t) ==
    closing[t] \in {"notify", "done"} /\ Cached(t) =>
        \/ ~EntryOf(t).is_connected /\ phase[t] # "marking"
        \/ /\ phase[t] \in {"marking", "idling"}
           /\ EntryOf(t).recycle_state = "CONNECTING"
           /\ \A c \in Clients : held[c] = t => pc[c] \notin Using

(* A transport that the idle scanner has chosen takes no request.          *)
IdleEntry(t) ==
    t \in idle_purged /\ closing[t] = "no" => active_requests[t] = 0 /\ ~Cached(t)

(* The entry follows the phases of post_open.                              *)
OpenEntry(t) ==
    Cached(t) /\ ~is_closed[t] =>
        /\ phase[t] \in {"idling", "signalling", "open"} => EntryOf(t).is_connected
        /\ phase[t] \in {"signalling", "open"} => EntryOf(t).recycle_state # "CONNECTING"

BusyEntry(t) ==
    Cached(t) /\ EntryOf(t).recycle_state = "BUSY" /\ ~is_closed[t] =>
        \E c \in Clients : t \in doomed[c] \/ (held[c] = t /\ pc[c] \in Using)

TransportOK(t) ==
    /\ Status(t) /\ Fresh(t) /\ ClosedEntry(t) /\ IdleEntry(t)
    /\ OpenEntry(t) /\ BusyEntry(t)

Inv ==
    /\ TypeOK
    /\ CacheOK
    /\ \A c \in Clients : pc[c] # "purging" => doomed[c] = {}
    /\ \A t \in Transports : TransportOK(t)

-----------------------------------------------------------------------------
(* What the operations of the cache do to the entries of transports.       *)

(* The entry of t is kept, or unbound.                                     *)
Fewer(t) ==
    /\ Cached(t)' => Cached(t)
    /\ has_entry(t)' => has_entry(t)
    /\ Loose(t)' => Loose(t)
    /\ t \in bound_twice => t \in bound_twice'

Kept(t) == Fewer(t) /\ (Cached(t)' => EntryOf(t)' = EntryOf(t))

(* A set of naturals has a least element.                                  *)
LEMMA LeastExists ==
    ASSUME NEW S \in SUBSET Nat, S # {}
    PROVE  Min(S) \in S
<1> DEFINE R == OpToRel(<, Nat)
<1>1. \E x \in S : \A y \in S : ~(<<y, x>> \in R)
  BY NatLessThanWellFounded, WFMin
<1>2. \A x, y \in Nat : y < x => <<y, x>> \in R
  BY DEF OpToRel
<1> HIDE DEF R
<1>3. PICK x \in S : \A y \in S : ~(<<y, x>> \in R)
  BY <1>1
<1>4. \A y \in S : ~(y < x)
  BY <1>2, <1>3
<1>5. \A y \in S : x =< y
  BY <1>4, SMT
<1> QED  BY <1>3, <1>5 DEF Min

(* The pointer of a transport leads to its entry.                          *)
LEMMA EntryFacts ==
    ASSUME CacheOK, NEW t \in Transports, Cached(t)
    PROVE  /\ cache_map_entry[t] \in Bound /\ cache_map_entry[t] \in Nat
           /\ EntryOf(t) \in Entry /\ EntryOf(t).transport = t
           /\ has_entry(t)
  BY DEF CacheOK, PointersOwn, EntryOf, has_entry

(* Entries are unbound, and the pointers of their transports cleared.      *)
LEMMA EntriesPurged ==
    ASSUME CacheOK, NEW is \in SUBSET Bound, purge_entries(is)
    PROVE  /\ CacheOK'
           /\ \A u \in Transports : Kept(u)
           /\ \A i \in is : cache_map_entry'[cache_map[i].transport] = NoEntry
<1>1. /\ Bound' = Bound \ is
      /\ \A i \in Bound' : cache_map'[i] = cache_map[i]
  BY DEF purge_entries, unbind, Bound
<1>2. \A u \in Transports :
         cache_map_entry'[u] =
            IF \E i \in is : cache_map[i].transport = u THEN NoEntry ELSE cache_map_entry[u]
  BY DEF purge_entries, pointers_cleared
<1>3. cache_map_entry' \in [Transports -> Nat \cup {NoEntry}]
  BY DEF purge_entries, pointers_cleared, CacheOK
<1>9. bound_twice' = bound_twice
  BY DEF purge_entries
<1>4. IsFiniteSet(Bound')
  BY <1>1, FS_Subset DEF CacheOK
<1>5. ASSUME NEW u \in Transports
      PROVE  /\ Cached(u)' => /\ Cached(u) /\ cache_map_entry'[u] = cache_map_entry[u]
                              /\ cache_map_entry[u] \in Bound'
             /\ Kept(u)
  <2>1. Cached(u)' => /\ Cached(u) /\ cache_map_entry'[u] = cache_map_entry[u]
                      /\ ~\E i \in is : cache_map[i].transport = u
    BY <1>2 DEF Cached
  <2>2. Cached(u)' => cache_map_entry[u] \in Bound'
    BY <1>1, <2>1, EntryFacts DEF EntryOf
  <2>3. Cached(u)' => EntryOf(u)' = EntryOf(u)
    BY <1>1, <2>1, <2>2 DEF EntryOf
  <2>4. has_entry(u)' => has_entry(u)
    BY <1>1 DEF has_entry
  <2>5. Loose(u)' => Loose(u)
    <3> SUFFICES ASSUME NEW i \in Bound', cache_map'[i].transport = u,
                        cache_map_entry'[u] # i
                 PROVE  Loose(u)
      BY DEF Loose
    <3>1. i \in Bound \ is /\ cache_map[i].transport = u
      BY <1>1
    <3>2. CASE \E j \in is : cache_map[j].transport = u
      BY <3>1, <3>2 DEF Loose
    <3>3. CASE ~\E j \in is : cache_map[j].transport = u
      BY <1>2, <3>1, <3>3 DEF Loose
    <3> QED  BY <3>2, <3>3
  <2> QED  BY <1>9, <2>1, <2>2, <2>3, <2>4, <2>5 DEF Kept, Fewer
<1>6. PointersOwn'
  BY <1>5, EntryFacts DEF PointersOwn, Kept
<1>7. \A i \in is : cache_map[i].transport \in Transports
  BY DEF CacheOK, Entry
<1>8. \A i \in is : cache_map_entry'[cache_map[i].transport] = NoEntry
  BY <1>2, <1>7
<1> QED  BY <1>1, <1>3, <1>4, <1>5, <1>6, <1>8, <1>9 DEF CacheOK

(* purge_entry leaves the transport without an entry that it knows of.     *)
LEMMA EntryPurged ==
    ASSUME CacheOK, NEW t \in Transports, purge_entry(t)
    PROVE  /\ CacheOK' /\ ~Cached(t)'
           /\ \A u \in Transports : Kept(u)
<1>1. CASE Cached(t)
  <2>1. cache_map_entry[t] \in Bound /\ cache_map[cache_map_entry[t]].transport = t
    BY <1>1, EntryFacts DEF EntryOf
  <2>2. purge_entries({cache_map_entry[t]}) /\ {cache_map_entry[t]} \in SUBSET Bound
    BY <1>1, <2>1 DEF purge_entry
  <2>3. cache_map_entry'[t] = NoEntry
    BY <2>1, <2>2, EntriesPurged
  <2> QED  BY <2>2, <2>3, EntriesPurged DEF Cached
<1>2. CASE ~Cached(t)
  BY <1>2 DEF purge_entry, cache, index, Kept, Fewer, CacheOK, PointersOwn, EntryOf, Cached,
              Bound, has_entry, Loose
<1> QED  BY <1>1, <1>2

(* Entries are changed where they are, each to one of the same transport.  *)
LEMMA EntriesChanged ==
    ASSUME CacheOK, UNCHANGED index, Bound' = Bound,
           \A i \in Bound : /\ cache_map'[i] \in Entry
                            /\ cache_map'[i].transport = cache_map[i].transport
    PROVE  /\ CacheOK'
           /\ \A u \in Transports :
                 /\ Fewer(u) /\ (Cached(u)' <=> Cached(u))
                 /\ Cached(u) => EntryOf(u)' = cache_map'[cache_map_entry[u]]
<1> USE DEF index
<1>1. \A u \in Transports : Cached(u)' <=> Cached(u)
  BY DEF Cached
<1>2. \A u \in Transports : EntryOf(u)' = cache_map'[cache_map_entry[u]]
  BY DEF EntryOf
<1>3. \A u \in Transports : (has_entry(u)' <=> has_entry(u)) /\ (Loose(u)' <=> Loose(u))
  BY DEF has_entry, Loose
<1>4. PointersOwn'
  BY <1>1, <1>2, EntryFacts DEF PointersOwn, EntryOf
<1> QED  BY <1>1, <1>2, <1>3, <1>4 DEF CacheOK, Fewer

(* The entry of t becomes e.                                               *)
LEMMA EntrySet ==
    ASSUME CacheOK, UNCHANGED index, NEW t \in Transports, NEW e,
           Cached(t) => e \in Entry /\ e.transport = t,
           IF Cached(t) THEN cache_map' = [cache_map EXCEPT ![cache_map_entry[t]] = e]
                        ELSE UNCHANGED cache_map
    PROVE  /\ CacheOK'
           /\ \A u \in Transports : u # t => Kept(u)
           /\ Fewer(t) /\ (Cached(t) => EntryOf(t)' = e)
<1>1. CASE Cached(t)
  <2> DEFINE k == cache_map_entry[t]
  <2>1. /\ k \in Bound /\ cache_map[k].transport = t
        /\ \A u \in Transports : Cached(u) => /\ cache_map_entry[u] \in Bound
                                              /\ cache_map[cache_map_entry[u]].transport = u
    BY <1>1, EntryFacts DEF EntryOf
  <2>2. Bound' = Bound /\ \A i \in Bound : cache_map'[i] = IF i = k THEN e ELSE cache_map[i]
    BY <1>1, <2>1 DEF Bound
  <2> HIDE DEF k
  <2>3. \A i \in Bound : /\ cache_map'[i] \in Entry
                         /\ cache_map'[i].transport = cache_map[i].transport
    BY <1>1, <2>1, <2>2 DEF CacheOK
  <2>4. /\ CacheOK'
        /\ \A u \in Transports :
              /\ Fewer(u) /\ (Cached(u)' <=> Cached(u))
              /\ Cached(u) => EntryOf(u)' = cache_map'[cache_map_entry[u]]
    BY <2>2, <2>3, EntriesChanged
  <2>5. \A u \in Transports : u # t /\ Cached(u) => EntryOf(u)' = EntryOf(u)
    BY <2>1, <2>2, <2>4 DEF EntryOf
  <2> QED  BY <1>1, <2>1, <2>2, <2>4, <2>5 DEF Kept, k
<1>2. CASE ~Cached(t)
  BY <1>2 DEF index, Kept, Fewer, CacheOK, PointersOwn, EntryOf, Cached, Bound,
              has_entry, Loose
<1> QED  BY <1>1, <1>2

(* A transport is bound, at a new index or at one of its own.              *)
LEMMA EntryBound ==
    ASSUME CacheOK, NEW t \in Transports, NEW state, bind_i(t, state),
           new_entry(t, state) \in Entry
    PROVE  /\ CacheOK'
           /\ \A u \in Transports : u # t => Kept(u)
           /\ \/ Cached(t)' /\ EntryOf(t)' = new_entry(t, state)
              \/ has_entry(t) /\ (Cached(t)' => Cached(t) /\ EntryOf(t)' = EntryOf(t))
           /\ Loose(t)' => has_entry(t) /\ (Loose(t) \/ t \in bound_twice')
           /\ t \in bound_twice => t \in bound_twice'
<1> DEFINE e == new_entry(t, state)
<1>1. PICK i \in 0 .. Cardinality(Bound) :
         /\ bindable(i, t)
         /\ cache_map' = [j \in Bound \cup {i} |-> IF j = i THEN e ELSE cache_map[j]]
         /\ IF i \in Bound THEN UNCHANGED index
            ELSE /\ cache_map_entry' = [cache_map_entry EXCEPT ![t] = i]
                 /\ bound_twice' = IF has_entry(t) THEN bound_twice \cup {t}
                                   ELSE bound_twice
  BY DEF bind_i
<1>2. i \in Nat
  BY <1>1, FS_CardinalityType, SMT DEF CacheOK
<1>3. e.transport = t /\ e \in Entry
  BY DEF new_entry
<1> HIDE DEF e
<1>4. /\ Bound' = Bound \cup {i}
      /\ \A j \in Bound' : cache_map'[j] = IF j = i THEN e ELSE cache_map[j]
  BY <1>1 DEF Bound
<1>5. \A u \in Transports :
         cache_map_entry'[u] = IF u = t /\ i \notin Bound THEN i ELSE cache_map_entry[u]
  BY <1>1 DEF CacheOK, index
<1>6. i \in Bound => cache_map[i].transport = t
  BY <1>1 DEF bindable
<1>7. /\ cache_map_entry' \in [Transports -> Nat \cup {NoEntry}]
      /\ bound_twice' \subseteq Transports
      /\ \A u \in Transports : u \in bound_twice => u \in bound_twice'
      /\ i \notin Bound /\ has_entry(t) => t \in bound_twice'
  BY <1>1, <1>2 DEF CacheOK, index
<1>8. IsFiniteSet(Bound')
  BY <1>4, FS_AddElement DEF CacheOK
<1>9. \A j \in Bound' : cache_map'[j] \in Entry
  BY <1>3, <1>4 DEF CacheOK
<1>10. /\ Cached(t)' => cache_map_entry'[t] \in Bound' /\ EntryOf(t)'.transport = t
       /\ \/ Cached(t)' /\ EntryOf(t)' = e
          \/ has_entry(t) /\ (Cached(t)' => Cached(t) /\ EntryOf(t)' = EntryOf(t))
  <2>1. Cached(t) => cache_map_entry[t] \in Bound /\ EntryOf(t).transport = t
    BY EntryFacts
  <2>2. CASE i \in Bound
    <3>1. cache_map_entry'[t] = cache_map_entry[t]
      BY <1>5, <2>2
    <3>2. Cached(t)' => Cached(t) /\ cache_map_entry'[t] \in Bound'
      BY <1>4, <2>1, <3>1 DEF Cached
    <3>3. Cached(t)' => EntryOf(t)' = e \/ EntryOf(t)' = EntryOf(t)
      BY <1>4, <3>1, <3>2 DEF EntryOf
    <3>4. has_entry(t)
      BY <1>6, <2>2 DEF has_entry
    <3> QED  BY <1>3, <2>1, <3>2, <3>3, <3>4
  <2>3. CASE i \notin Bound
    <3>1. cache_map_entry'[t] = i /\ i \in Bound' /\ i # NoEntry
      BY <1>2, <1>4, <1>5, <2>3, SMT DEF NoEntry
    <3> QED  BY <1>3, <1>4, <3>1 DEF Cached, EntryOf
  <2> QED  BY <2>2, <2>3
<1>11. ASSUME NEW u \in Transports, u # t
       PROVE  /\ Kept(u)
              /\ Cached(u)' => cache_map_entry'[u] \in Bound' /\ EntryOf(u)'.transport = u
  <2>1. (Cached(u)' <=> Cached(u)) /\ cache_map_entry'[u] = cache_map_entry[u]
    BY <1>5, <1>11 DEF Cached
  <2>2. Cached(u) => /\ cache_map_entry[u] \in Bound /\ cache_map_entry[u] # i
                     /\ cache_map[cache_map_entry[u]].transport = u
    BY <1>6, <1>11, EntryFacts DEF EntryOf
  <2>3. Cached(u) => EntryOf(u)' = EntryOf(u) /\ cache_map_entry'[u] \in Bound'
    BY <1>4, <2>1, <2>2 DEF EntryOf
  <2>4. \A j \in Bound' : cache_map'[j].transport = u => j \in Bound /\ cache_map[j].transport = u
    BY <1>3, <1>4, <1>11
  <2>5. (has_entry(u)' => has_entry(u)) /\ (Loose(u)' => Loose(u))
    BY <2>1, <2>4 DEF has_entry, Loose
  <2> QED  BY <1>7, <2>1, <2>2, <2>3, <2>5 DEF Kept, Fewer, EntryOf
<1>12. PointersOwn'
  BY <1>10, <1>11 DEF PointersOwn
<1>13. Loose(t)' => has_entry(t) /\ (Loose(t) \/ t \in bound_twice')
  <2> SUFFICES ASSUME NEW j \in Bound', cache_map'[j].transport = t,
                      cache_map_entry'[t] # j
               PROVE  has_entry(t) /\ (Loose(t) \/ t \in bound_twice')
    BY DEF Loose
  <2>1. CASE i \in Bound
    <3>1. cache_map_entry'[t] = cache_map_entry[t] /\ j \in Bound
      BY <1>4, <1>5, <2>1
    <3>2. cache_map[j].transport = t
      BY <1>4, <1>6, <2>1, <3>1
    <3> QED  BY <3>1, <3>2 DEF Loose, has_entry
  <2>2. CASE i \notin Bound
    <3>1. j \in Bound /\ cache_map[j].transport = t
      BY <1>4, <1>5, <2>2
    <3> QED  BY <1>7, <2>2, <3>1 DEF has_entry
  <2> QED  BY <2>1, <2>2
<1> QED  BY <1>2, <1>4, <1>7, <1>8, <1>9, <1>10, <1>11, <1>12, <1>13 DEF CacheOK, e

-----------------------------------------------------------------------------
(* What a step leaves alone.                                               *)

(* t stays what it is, except that close_connection_eh may begin.          *)
StillOpen(t) ==
    /\ phase'[t] = phase[t]
    /\ \/ /\ closing'[t] = closing[t] /\ is_connected'[t] = is_connected[t]
          /\ is_closed[t] => is_closed'[t]
       \/ /\ phase[t] # "unused"
          /\ closing'[t] = "mark" /\ ~is_connected'[t] /\ is_closed'[t]
    /\ event'[t].state = "SUCCESS" => event[t].state = "SUCCESS"
    /\ is_registered'[t] => is_registered[t] \/ phase[t] # "unused"
    /\ active_requests[t] = 0 => active_requests'[t] = 0
    /\ t \in idle_purged' => t \in idle_purged

(* Clients may move, but none comes to t.                                  *)
NewPoints == {"cache", "complete", "bind_open", "bind_connecting"}
OpenPoints == {"cache", "bind_open", "rebind"}

StillKnown(t) ==
    \A c \in Clients :
        /\ held'[c] = t =>
              /\ held[c] = t
              /\ pc'[c] \in NewPoints => pc[c] \in NewPoints
              /\ pc'[c] \in OpenPoints => pc[c] \in OpenPoints \/ phase[t] = "open"
              /\ pc'[c] = "rebind" => pc[c] = "rebind" \/ closing[t] # "no"
              /\ pc'[c] \in Using => pc[c] \in Using
        /\ t \in doomed'[c] => t \in doomed[c]

(* Clients which use t or are about to purge it go on, if it matters.      *)
StillUsed(t) ==
    \/ \A c \in Clients :
          /\ held[c] = t /\ pc[c] \in Using => held'[c] = t /\ pc'[c] \in Using
          /\ t \in doomed[c] => t \in doomed'[c]
    \/ ~Cached(t)'
    \/ EntryOf(t)'.recycle_state # "BUSY"
    \/ is_closed'[t]

Still(t) == StillOpen(t) /\ StillKnown(t) /\ StillUsed(t)

(* A transport that Kept and Still describe stays as Inv has it.           *)
LEMMA StillOK ==
    ASSUME NEW t \in Transports, TransportOK(t), Kept(t), Still(t)
    PROVE  TransportOK(t)'
<1> USE DEF TransportOK, Still, StillOpen, StillKnown
<1>1. Status(t)'
  BY DEF Status
<1>2. Fresh(t)'
  <2>1. ~has_entry(t) => ~has_entry(t)'
    BY DEF Kept, Fewer
  <2>2. (~Loose(t) => ~Loose(t)') /\ (t \in bound_twice => t \in bound_twice')
    BY DEF Kept, Fewer
  <2> QED  BY <2>1, <2>2 DEF Fresh, NewPoints, OpenPoints
<1>3. ClosedEntry(t)'
  BY DEF ClosedEntry, Kept, Fewer
<1>4. IdleEntry(t)'
  BY DEF IdleEntry, Kept, Fewer
<1>5. OpenEntry(t)'
  BY DEF OpenEntry, Kept, Fewer
<1>6. BusyEntry(t)'
  BY DEF BusyEntry, Kept, Fewer, StillUsed
<1> QED  BY <1>1, <1>2, <1>3, <1>4, <1>5, <1>6

(* A step about t, or about nothing, keeps the invariant of the others.    *)
LEMMA OneOK ==
    ASSUME Inv, NEW t \in Transports, CacheOK', TransportOK(t)',
           \A u \in Transports : u # t => Kept(u) /\ Still(u)
    PROVE  CacheOK' /\ \A u \in Transports : TransportOK(u)'
<1>1. \A u \in Transports : u # t => TransportOK(u)'
  BY StillOK DEF Inv
<1> QED  BY <1>1

(* So does every one of them.                                              *)
LEMMA AllOK ==
    ASSUME Inv, CacheOK', \A u \in Transports : Kept(u) /\ Still(u)
    PROVE  CacheOK' /\ \A u \in Transports : TransportOK(u)'
  BY StillOK DEF Inv

(* Members of Entry.                                                       *)
LEMMA EntryFields ==
    ASSUME NEW e \in Entry, NEW b \in BOOLEAN
    PROVE  /\ LET x == [e EXCEPT !.is_connected = b]
              IN  /\ x \in Entry /\ x.transport = e.transport
                  /\ x.is_connected = b /\ x.recycle_state = e.recycle_state
           /\ \A r \in {"IDLE_AND_PURGABLE", "BUSY", "CONNECTING"} :
                 /\ LET x == [e EXCEPT !.recycle_state = r]
                    IN  /\ x \in Entry /\ x.transport = e.transport
                        /\ x.is_connected = e.is_connected /\ x.recycle_state = r
                 /\ LET x == [e EXCEPT !.recycle_state = r, !.is_connected = b]
                    IN  /\ x \in Entry /\ x.transport = e.transport
                        /\ x.is_connected = b /\ x.recycle_state = r
  BY DEF Entry

(* The cache is not touched.                                               *)
LEMMA CacheSame ==
    ASSUME CacheOK, UNCHANGED cache
    PROVE  CacheOK' /\ \A u \in Transports : Kept(u)
  BY DEF cache, index, Kept, Fewer, CacheOK, PointersOwn, EntryOf, Cached, Bound, has_entry,
     Loose

(* validate_state_change.                                                  *)
LEMMA EventChanged ==
    ASSUME TypeOK, NEW t \in Transports, NEW new \in {"SUCCESS", "CLOSED"},
           state_changed(t, new)
    PROVE  /\ event' \in [Transports -> Events]
           /\ \A u \in Transports : u # t => event'[u] = event[u]
           /\ event'[t].state = "SUCCESS" => event[t].state = "SUCCESS" \/ new = "SUCCESS"
<1>1. event \in [Transports -> Events]
  BY DEF TypeOK
<1> DEFINE e == event[t]
           n == CASE e.state = "WAIT" -> [state |-> new, prev |-> "WAIT"]
                  [] e.state = "SUCCESS" /\ new = "CLOSED" ->
                        [state |-> new, prev |-> "SUCCESS"]
                  [] e.state = "TIMEOUT" /\ new = "CLOSED" -> [e EXCEPT !.state = new]
                  [] OTHER -> e
<1>2. e \in Events
  BY <1>1
<1>3. event' = [event EXCEPT ![t] = n]
  BY DEF state_changed
<1>4. /\ n \in Events
      /\ n.state = "SUCCESS" => e.state = "SUCCESS" \/ new = "SUCCESS"
  <2> HIDE DEF e
  <2>1. CASE e.state = "WAIT"
    BY <1>2, <2>1 DEF Events
  <2>2. CASE e.state = "SUCCESS" /\ new = "CLOSED"
    BY <1>2, <2>2 DEF Events
  <2>3. CASE e.state = "TIMEOUT" /\ new = "CLOSED"
    BY <1>2, <2>3 DEF Events
  <2>4. CASE /\ e.state # "WAIT" /\ ~(e.state = "SUCCESS" /\ new = "CLOSED")
             /\ ~(e.state = "TIMEOUT" /\ new = "CLOSED")
    <3>1. n = e
      BY <2>4
    <3> QED  BY <1>2, <3>1
  <2> QED  BY <2>1, <2>2, <2>3, <2>4
<1> HIDE DEF n
<1> QED  BY <1>1, <1>2, <1>3, <1>4

(* Requests, replies and closed connections.                               *)
LEMMA RequestOK ==
    ASSUME Inv, NEW t \in Transports,
           \/ PeerCloses(t) \/ RequestRefused(t) \/ RequestEnds(t) \/ IdleClose(t)
           \/ \E c \in Clients : ReplyArrives(t, c)
    PROVE  CacheOK' /\ \A u \in Transports : TransportOK(u)'
<1>1. TypeOK /\ CacheOK /\ \A u \in Transports : Status(u) /\ Fresh(u)
  BY DEF Inv, TransportOK
<1>2. CASE PeerCloses(t)
  <2>1. CacheOK' /\ \A u \in Transports : Kept(u)
    BY <1>1, <1>2, CacheSame DEF PeerCloses, cache, index
  <2>2. ASSUME NEW u \in Transports
        PROVE  Still(u)
    <3>1. StillOpen(u)
      BY <1>1, <1>2 DEF PeerCloses, connection, close, use, client, TypeOK, StillOpen,
         Fresh, close_connection
    <3>2. StillKnown(u)
      BY <1>1, <1>2 DEF PeerCloses, connection, close, use, client, TypeOK, StillKnown,
         NewPoints, OpenPoints, Using, Status, close_connection
    <3>3. StillUsed(u)
      BY <1>1, <1>2 DEF PeerCloses, connection, close, use, client, TypeOK, StillUsed,
         Using, close_connection
    <3> QED  BY <3>1, <3>2, <3>3 DEF Still
  <2> QED  BY <2>1, <2>2, AllOK
<1>3. CASE RequestRefused(t)
  <2>1. CacheOK' /\ \A u \in Transports : Kept(u)
    BY <1>1, <1>3, CacheSame DEF RequestRefused, cache, index
  <2>2. ASSUME NEW u \in Transports
        PROVE  Still(u)
    <3>1. StillOpen(u)
      BY <1>1, <1>3 DEF RequestRefused, connection, close, use, client, TypeOK,
         StillOpen, Fresh, close_connection
    <3>2. StillKnown(u)
      BY <1>1, <1>3 DEF RequestRefused, connection, close, use, client, TypeOK,
         StillKnown, NewPoints, OpenPoints, Using, Status, close_connection
    <3>3. StillUsed(u)
      BY <1>1, <1>3 DEF RequestRefused, connection, close, use, client, TypeOK,
         StillUsed, Using, close_connection
    <3> QED  BY <3>1, <3>2, <3>3 DEF Still
  <2> QED  BY <2>1, <2>2, AllOK
<1>4. CASE RequestEnds(t)
  <2>1. CacheOK' /\ \A u \in Transports : Kept(u)
    BY <1>1, <1>4, CacheSame DEF RequestEnds, cache, index
  <2>2. ASSUME NEW u \in Transports
        PROVE  Still(u)
    <3>1. StillOpen(u)
      BY <1>1, <1>4 DEF RequestEnds, connection, close, use, client, TypeOK, StillOpen,
         Fresh
    <3>2. StillKnown(u)
      BY <1>1, <1>4 DEF RequestEnds, connection, close, use, client, TypeOK, StillKnown,
         NewPoints, OpenPoints, Using, Status
    <3>3. StillUsed(u)
      BY <1>1, <1>4 DEF RequestEnds, connection, close, use, client, TypeOK, StillUsed,
         Using
    <3> QED  BY <3>1, <3>2, <3>3 DEF Still
  <2> QED  BY <2>1, <2>2, AllOK
<1>5. CASE IdleClose(t)
  <2>1. CacheOK' /\ \A u \in Transports : Kept(u)
    BY <1>1, <1>5, CacheSame DEF IdleClose, cache, index
  <2>2. ASSUME NEW u \in Transports
        PROVE  Still(u)
    <3>1. StillOpen(u)
      BY <1>1, <1>5 DEF IdleClose, connection, close, use, client, TypeOK, StillOpen,
         Fresh, close_connection
    <3>2. StillKnown(u)
      BY <1>1, <1>5 DEF IdleClose, connection, close, use, client, TypeOK, StillKnown,
         NewPoints, OpenPoints, Using, Status, close_connection
    <3>3. StillUsed(u)
      BY <1>1, <1>5 DEF IdleClose, connection, close, use, client, TypeOK, StillUsed,
         Using, close_connection
    <3> QED  BY <3>1, <3>2, <3>3 DEF Still
  <2> QED  BY <2>1, <2>2, AllOK
<1>6. CASE \E c \in Clients : ReplyArrives(t, c)
  <2>1. CacheOK' /\ \A u \in Transports : Kept(u)
    BY <1>1, <1>6, CacheSame DEF ReplyArrives, cache, index
  <2>2. ASSUME NEW u \in Transports
        PROVE  Still(u)
    <3>1. StillOpen(u)
      BY <1>1, <1>6 DEF ReplyArrives, connection, close, use, client, TypeOK, StillOpen,
         Fresh
    <3>2. StillKnown(u)
      BY <1>1, <1>6 DEF ReplyArrives, connection, close, use, client, TypeOK,
         StillKnown, NewPoints, OpenPoints, Using, Status
    <3>3. StillUsed(u)
      BY <1>1, <1>6 DEF ReplyArrives, connection, close, use, client, TypeOK, StillUsed,
         Using
    <3> QED  BY <3>1, <3>2, <3>3 DEF Still
  <2> QED  BY <2>1, <2>2, AllOK
<1> QED  BY <1>2, <1>3, <1>4, <1>5, <1>6

(* A client between two transports.                                        *)
LEMMA ConnectOK ==
    ASSUME Inv, NEW c \in Clients, Invoke(c) \/ PurgeEnds(c) \/ MakeFails(c)
    PROVE  CacheOK' /\ \A u \in Transports : TransportOK(u)'
<1>1. TypeOK /\ CacheOK /\ \A u \in Transports : Status(u) /\ Fresh(u)
  BY DEF Inv, TransportOK
<1>2. CASE Invoke(c)
  <2>1. CacheOK' /\ \A u \in Transports : Kept(u)
    BY <1>1, <1>2, CacheSame DEF Invoke, cache, index
  <2>2. ASSUME NEW u \in Transports
        PROVE  Still(u)
    <3>1. StillOpen(u)
      BY <1>1, <1>2 DEF Invoke, connection, close, use, client, TypeOK, StillOpen,
         Fresh, go, take, give_up, At
    <3>2. StillKnown(u)
      BY <1>1, <1>2 DEF Invoke, connection, close, use, client, TypeOK, StillKnown,
         NewPoints, OpenPoints, Using, Status, go, take, give_up, At
    <3>3. StillUsed(u)
      BY <1>1, <1>2 DEF Invoke, connection, close, use, client, TypeOK, StillUsed,
         Using, go, take, give_up, At
    <3> QED  BY <3>1, <3>2, <3>3 DEF Still
  <2> QED  BY <2>1, <2>2, AllOK
<1>3. CASE PurgeEnds(c)
  <2>1. CacheOK' /\ \A u \in Transports : Kept(u)
    BY <1>1, <1>3, CacheSame DEF PurgeEnds, cache, index
  <2>2. ASSUME NEW u \in Transports
        PROVE  Still(u)
    <3>1. StillOpen(u)
      BY <1>1, <1>3 DEF PurgeEnds, connection, close, use, client, TypeOK, StillOpen,
         Fresh, go, take, give_up, At
    <3>2. StillKnown(u)
      BY <1>1, <1>3, TransportCacheAssumption DEF PurgeEnds, connection, close, use,
         client, TypeOK, StillKnown, NewPoints, OpenPoints, Using, Status, go, take,
         give_up, At
    <3>3. StillUsed(u)
      BY <1>1, <1>3 DEF PurgeEnds, connection, close, use, client, TypeOK, StillUsed,
         Using, go, take, give_up, At
    <3> QED  BY <3>1, <3>2, <3>3 DEF Still
  <2> QED  BY <2>1, <2>2, AllOK
<1>4. CASE MakeFails(c)
  <2>1. CacheOK' /\ \A u \in Transports : Kept(u)
    BY <1>1, <1>4, CacheSame DEF MakeFails, cache, index
  <2>2. ASSUME NEW u \in Transports
        PROVE  Still(u)
    <3>1. StillOpen(u)
      BY <1>1, <1>4 DEF MakeFails, connection, close, use, client, TypeOK, StillOpen,
         Fresh, go, take, give_up, At
    <3>2. StillKnown(u)
      BY <1>1, <1>4, TransportCacheAssumption DEF MakeFails, connection, close, use,
         client, TypeOK, StillKnown, NewPoints, OpenPoints, Using, Status, go, take,
         give_up, At
    <3>3. StillUsed(u)
      BY <1>1, <1>4 DEF MakeFails, connection, close, use, client, TypeOK, StillUsed,
         Using, go, take, give_up, At
    <3> QED  BY <3>1, <3>2, <3>3 DEF Still
  <2> QED  BY <2>1, <2>2, AllOK
<1> QED  BY <1>2, <1>3, <1>4

(* A client looks at the transport it has found.                           *)
LEMMA CheckOK ==
    ASSUME Inv, NEW c \in Clients, NEW t \in Transports,
           \/ CheckError(c, t) \/ CheckPasses(c, t) \/ Drop(c, t) \/ CheckConnected(c, t)
           \/ Reuse(c, t) \/ Cleanup(c, t)
    PROVE  CacheOK' /\ \A u \in Transports : TransportOK(u)'
<1>1. TypeOK /\ CacheOK /\ \A u \in Transports : Status(u) /\ Fresh(u)
  BY DEF Inv, TransportOK
<1>2. CASE CheckError(c, t)
  <2>1. CacheOK' /\ \A u \in Transports : Kept(u)
    BY <1>1, <1>2, CacheSame DEF CheckError, cache, index
  <2>2. ASSUME NEW u \in Transports
        PROVE  Still(u)
    <3>1. StillOpen(u)
      BY <1>1, <1>2 DEF CheckError, connection, close, use, client, TypeOK, StillOpen,
         Fresh, go, take, give_up, At, close_connection
    <3>2. StillKnown(u)
      BY <1>1, <1>2 DEF CheckError, connection, close, use, client, TypeOK, StillKnown,
         NewPoints, OpenPoints, Using, Status, go, take, give_up, At, close_connection
    <3>3. StillUsed(u)
      BY <1>1, <1>2 DEF CheckError, connection, close, use, client, TypeOK, StillUsed,
         Using, go, take, give_up, At, close_connection
    <3> QED  BY <3>1, <3>2, <3>3 DEF Still
  <2> QED  BY <2>1, <2>2, AllOK
<1>3. CASE CheckPasses(c, t)
  <2>1. CacheOK' /\ \A u \in Transports : Kept(u)
    BY <1>1, <1>3, CacheSame DEF CheckPasses, cache, index
  <2>2. ASSUME NEW u \in Transports
        PROVE  Still(u)
    <3>1. StillOpen(u)
      BY <1>1, <1>3 DEF CheckPasses, connection, close, use, client, TypeOK, StillOpen,
         Fresh, go, take, give_up, At
    <3>2. StillKnown(u)
      BY <1>1, <1>3 DEF CheckPasses, connection, close, use, client, TypeOK, StillKnown,
         NewPoints, OpenPoints, Using, Status, go, take, give_up, At
    <3>3. StillUsed(u)
      BY <1>1, <1>3 DEF CheckPasses, connection, close, use, client, TypeOK, StillUsed,
         Using, go, take, give_up, At
    <3> QED  BY <3>1, <3>2, <3>3 DEF Still
  <2> QED  BY <2>1, <2>2, AllOK
<1>4. CASE Drop(c, t)
  <2>1. CacheOK' /\ ~Cached(t)' /\ \A u \in Transports : Kept(u)
    BY <1>1, <1>4, EntryPurged DEF Drop
  <2>2. ASSUME NEW u \in Transports
        PROVE  Still(u)
    <3>1. StillOpen(u)
      BY <1>1, <1>4 DEF Drop, connection, close, use, client, TypeOK, StillOpen, Fresh,
         go, take, give_up, At
    <3>2. StillKnown(u)
      BY <1>1, <1>4, TransportCacheAssumption DEF Drop, connection, close, use, client,
         TypeOK, StillKnown, NewPoints, OpenPoints, Using, Status, go, take, give_up, At
    <3>3. StillUsed(u)
      BY <1>1, <2>1, <1>4 DEF Drop, connection, close, use, client, TypeOK, StillUsed,
         Using, go, take, give_up, At
    <3> QED  BY <3>1, <3>2, <3>3 DEF Still
  <2> QED  BY <2>1, <2>2, AllOK
<1>5. CASE CheckConnected(c, t)
  <2>1. CacheOK' /\ \A u \in Transports : Kept(u)
    BY <1>1, <1>5, CacheSame DEF CheckConnected, cache, index
  <2>2. ASSUME NEW u \in Transports
        PROVE  Still(u)
    <3>1. StillOpen(u)
      BY <1>1, <1>5 DEF CheckConnected, connection, close, use, client, TypeOK,
         StillOpen, Fresh, go, take, give_up, At
    <3>2. StillKnown(u)
      BY <1>1, <1>5 DEF CheckConnected, connection, close, use, client, TypeOK,
         StillKnown, NewPoints, OpenPoints, Using, Status, go, take, give_up, At
    <3>3. StillUsed(u)
      BY <1>1, <1>5 DEF CheckConnected, connection, close, use, client, TypeOK,
         StillUsed, Using, go, take, give_up, At
    <3> QED  BY <3>1, <3>2, <3>3 DEF Still
  <2> QED  BY <2>1, <2>2, AllOK
<1>6. CASE Reuse(c, t)
  <2>1. CacheOK' /\ \A u \in Transports : Kept(u)
    BY <1>1, <1>6, CacheSame DEF Reuse, cache, index
  <2>2. ASSUME NEW u \in Transports
        PROVE  Still(u)
    <3>1. StillOpen(u)
      BY <1>1, <1>6 DEF Reuse, connection, close, use, client, TypeOK, StillOpen, Fresh,
         go, take, give_up, At, open
    <3>2. StillKnown(u)
      BY <1>1, <1>6 DEF Reuse, connection, close, use, client, TypeOK, StillKnown,
         NewPoints, OpenPoints, Using, Status, go, take, give_up, At, open
    <3>3. StillUsed(u)
      BY <1>1, <1>6 DEF Reuse, connection, close, use, client, TypeOK, StillUsed, Using,
         go, take, give_up, At, open
    <3> QED  BY <3>1, <3>2, <3>3 DEF Still
  <2> QED  BY <2>1, <2>2, AllOK
<1>7. CASE Cleanup(c, t)
  <2>1. CacheOK' /\ ~Cached(t)' /\ \A u \in Transports : Kept(u)
    BY <1>1, <1>7, EntryPurged DEF Cleanup
  <2>2. ASSUME NEW u \in Transports
        PROVE  Still(u)
    <3>1. StillOpen(u)
      BY <1>1, <1>7 DEF Cleanup, connection, close, use, client, TypeOK, StillOpen,
         Fresh, go, take, give_up, At, close_connection
    <3>2. StillKnown(u)
      BY <1>1, <1>7, TransportCacheAssumption DEF Cleanup, connection, close, use,
         client, TypeOK, StillKnown, NewPoints, OpenPoints, Using, Status, go, take,
         give_up, At, close_connection
    <3>3. StillUsed(u)
      BY <1>1, <2>1, <1>7 DEF Cleanup, connection, close, use, client, TypeOK,
         StillUsed, Using, go, take, give_up, At, close_connection
    <3> QED  BY <3>1, <3>2, <3>3 DEF Still
  <2> QED  BY <2>1, <2>2, AllOK
<1> QED  BY <1>2, <1>3, <1>4, <1>5, <1>6, <1>7

(* A client waits for a transport to be connected or to become idle.       *)
LEMMA WaitOK ==
    ASSUME Inv, NEW c \in Clients, NEW t \in Transports,
           NEW point \in {"wait_shared", "wait_busy"},
           \/ WaitTimedOut(c, t, point) \/ WaitFails(c, t, point)
           \/ WaitSucceeds(c, t, point) \/ WaitBegins(c, t, point)
           \/ WaitExpires(c, t)
    PROVE  CacheOK' /\ \A u \in Transports : TransportOK(u)'
<1>1. TypeOK /\ CacheOK /\ \A u \in Transports : Status(u) /\ Fresh(u)
  BY DEF Inv, TransportOK
<1>2. CASE WaitTimedOut(c, t, point)
  <2>1. CacheOK' /\ ~Cached(t)' /\ \A u \in Transports : Kept(u)
    BY <1>1, <1>2, EntryPurged DEF WaitTimedOut
  <2>2. ASSUME NEW u \in Transports
        PROVE  Still(u)
    <3>1. StillOpen(u)
      BY <1>1, <1>2 DEF WaitTimedOut, connection, close, use, client, TypeOK, StillOpen,
         Fresh, go, take, give_up, At
    <3>2. StillKnown(u)
      BY <1>1, <1>2, TransportCacheAssumption DEF WaitTimedOut, connection, close, use,
         client, TypeOK, StillKnown, NewPoints, OpenPoints, Using, Status, go, take,
         give_up, At
    <3>3. StillUsed(u)
      BY <1>1, <2>1, <1>2 DEF WaitTimedOut, connection, close, use, client, TypeOK,
         StillUsed, Using, go, take, give_up, At
    <3> QED  BY <3>1, <3>2, <3>3 DEF Still
  <2> QED  BY <2>1, <2>2, AllOK
<1>3. CASE WaitFails(c, t, point)
  <2>1. CacheOK' /\ ~Cached(t)' /\ \A u \in Transports : Kept(u)
    BY <1>1, <1>3, EntryPurged DEF WaitFails
  <2>2. ASSUME NEW u \in Transports
        PROVE  Still(u)
    <3>1. StillOpen(u)
      BY <1>1, <1>3 DEF WaitFails, connection, close, use, client, TypeOK, StillOpen,
         Fresh, go, take, give_up, At, close_connection, WaitsFor
    <3>2. StillKnown(u)
      BY <1>1, <1>3, TransportCacheAssumption DEF WaitFails, connection, close, use,
         client, TypeOK, StillKnown, NewPoints, OpenPoints, Using, Status, go, take,
         give_up, At, close_connection, WaitsFor
    <3>3. StillUsed(u)
      BY <1>1, <2>1, <1>3 DEF WaitFails, connection, close, use, client, TypeOK,
         StillUsed, Using, go, take, give_up, At, close_connection, WaitsFor
    <3> QED  BY <3>1, <3>2, <3>3 DEF Still
  <2> QED  BY <2>1, <2>2, AllOK
<1>4. CASE WaitSucceeds(c, t, point)
  <2>1. CacheOK' /\ \A u \in Transports : Kept(u)
    BY <1>1, <1>4, CacheSame DEF WaitSucceeds, cache, index
  <2>2. ASSUME NEW u \in Transports
        PROVE  Still(u)
    <3>1. StillOpen(u)
      BY <1>1, <1>4 DEF WaitSucceeds, connection, close, use, client, TypeOK, StillOpen,
         Fresh, go, take, give_up, At, WaitsFor, register_if_necessary
    <3>2. StillKnown(u)
      BY <1>1, <1>4, TransportCacheAssumption DEF WaitSucceeds, connection, close, use,
         client, TypeOK, StillKnown, NewPoints, OpenPoints, Using, Status, go, take,
         give_up, At, WaitsFor, register_if_necessary
    <3>3. StillUsed(u)
      BY <1>1, <1>4 DEF WaitSucceeds, connection, close, use, client, TypeOK, StillUsed,
         Using, go, take, give_up, At, WaitsFor, register_if_necessary
    <3> QED  BY <3>1, <3>2, <3>3 DEF Still
  <2> QED  BY <2>1, <2>2, AllOK
<1>5. CASE WaitBegins(c, t, point)
  <2>1. CacheOK' /\ \A u \in Transports : Kept(u)
    BY <1>1, <1>5, CacheSame DEF WaitBegins, cache, index
  <2>2. ASSUME NEW u \in Transports
        PROVE  Still(u)
    <3>1. StillOpen(u)
      BY <1>1, <1>5 DEF WaitBegins, connection, close, use, client, TypeOK, StillOpen,
         Fresh, go, take, give_up, At, WaitsFor
    <3>2. StillKnown(u)
      BY <1>1, <1>5 DEF WaitBegins, connection, close, use, client, TypeOK, StillKnown,
         NewPoints, OpenPoints, Using, Status, go, take, give_up, At, WaitsFor
    <3>3. StillUsed(u)
      BY <1>1, <1>5 DEF WaitBegins, connection, close, use, client, TypeOK, StillUsed,
         Using, go, take, give_up, At, WaitsFor
    <3> QED  BY <3>1, <3>2, <3>3 DEF Still
  <2> QED  BY <2>1, <2>2, AllOK
<1>6. CASE WaitExpires(c, t)
  <2>1. CacheOK' /\ \A u \in Transports : Kept(u)
    BY <1>1, <1>6, CacheSame DEF WaitExpires, cache, index
  <2>2. ASSUME NEW u \in Transports
        PROVE  Still(u)
    <3>1. StillOpen(u)
      BY <1>1, <1>6 DEF WaitExpires, connection, close, use, client, TypeOK, StillOpen,
         Fresh, go, take, give_up, At, AfterTimeout, set_state
    <3>2. StillKnown(u)
      BY <1>1, <1>6, TransportCacheAssumption DEF WaitExpires, connection, close, use,
         client, TypeOK, StillKnown, NewPoints, OpenPoints, Using, Status, go, take,
         give_up, At, AfterTimeout, set_state
    <3>3. StillUsed(u)
      BY <1>1, <1>6 DEF WaitExpires, connection, close, use, client, TypeOK, StillUsed,
         Using, go, take, give_up, At, AfterTimeout, set_state
    <3> QED  BY <3>1, <3>2, <3>3 DEF Still
  <2> QED  BY <2>1, <2>2, AllOK
<1> QED  BY <1>2, <1>3, <1>4, <1>5, <1>6

(* A client has made a transport, or gives up.                             *)
LEMMA NewOK ==
    ASSUME Inv, NEW c \in Clients, NEW t \in Transports,
           \/ Complete(c, t) \/ WaitNewEnds(c, t) \/ Verify(c, t) \/ PurgeCloses(c, t)
    PROVE  CacheOK' /\ \A u \in Transports : TransportOK(u)'
<1>1. TypeOK /\ CacheOK /\ \A u \in Transports : Status(u) /\ Fresh(u)
  BY DEF Inv, TransportOK
<1>2. CASE Complete(c, t)
  <2>1. CacheOK' /\ \A u \in Transports : Kept(u)
    BY <1>1, <1>2, CacheSame DEF Complete, cache, index
  <2>2. ASSUME NEW u \in Transports
        PROVE  Still(u)
    <3>1. StillOpen(u)
      BY <1>1, <1>2 DEF Complete, connection, close, use, client, TypeOK, StillOpen,
         Fresh, go, take, give_up, At, open
    <3>2. StillKnown(u)
      BY <1>1, <1>2, TransportCacheAssumption DEF Complete, connection, close, use,
         client, TypeOK, StillKnown, NewPoints, OpenPoints, Using, Status, go, take,
         give_up, At, open
    <3>3. StillUsed(u)
      BY <1>1, <1>2 DEF Complete, connection, close, use, client, TypeOK, StillUsed,
         Using, go, take, give_up, At, open
    <3> QED  BY <3>1, <3>2, <3>3 DEF Still
  <2> QED  BY <2>1, <2>2, AllOK
<1>3. CASE WaitNewEnds(c, t)
  <2>1. CacheOK' /\ \A u \in Transports : Kept(u)
    BY <1>1, <1>3, CacheSame, EntryPurged DEF WaitNewEnds, cache, index
  <2>2. ASSUME NEW u \in Transports
        PROVE  Still(u)
    <3>1. StillOpen(u)
      BY <1>1, <1>3 DEF WaitNewEnds, connection, close, use, client, TypeOK, StillOpen,
         Fresh, go, take, give_up, At
    <3>2. StillKnown(u)
      BY <1>1, <1>3, TransportCacheAssumption DEF WaitNewEnds, connection, close, use,
         client, TypeOK, StillKnown, NewPoints, OpenPoints, Using, Status, go, take,
         give_up, At
    <3>3. StillUsed(u)
      BY <1>1, <2>1, <1>3 DEF WaitNewEnds, connection, close, use, client, TypeOK,
         StillUsed, Using, go, take, give_up, At
    <3> QED  BY <3>1, <3>2, <3>3 DEF Still
  <2> QED  BY <2>1, <2>2, AllOK
<1>4. CASE Verify(c, t)
  <2>1. CacheOK' /\ \A u \in Transports : Kept(u)
    BY <1>1, <1>4, CacheSame DEF Verify, cache, index
  <2>2. ASSUME NEW u \in Transports
        PROVE  Still(u)
    <3>1. StillOpen(u)
      BY <1>1, <1>4 DEF Verify, connection, close, use, client, TypeOK, StillOpen,
         Fresh, go, take, give_up, At, register_if_necessary
    <3>2. StillKnown(u)
      BY <1>1, <1>4, TransportCacheAssumption DEF Verify, connection, close, use,
         client, TypeOK, StillKnown, NewPoints, OpenPoints, Using, Status, go, take,
         give_up, At, register_if_necessary
    <3>3. StillUsed(u)
      BY <1>1, <1>4 DEF Verify, connection, close, use, client, TypeOK, StillUsed,
         Using, go, take, give_up, At, register_if_necessary
    <3> QED  BY <3>1, <3>2, <3>3 DEF Still
  <2> QED  BY <2>1, <2>2, AllOK
<1>5. CASE PurgeCloses(c, t)
  <2>1. CacheOK' /\ \A u \in Transports : Kept(u)
    BY <1>1, <1>5, CacheSame DEF PurgeCloses, cache, index
  <2>2. ASSUME NEW u \in Transports
        PROVE  Still(u)
    <3>1. StillOpen(u)
      BY <1>1, <1>5 DEF PurgeCloses, connection, close, use, client, TypeOK, StillOpen,
         Fresh, close_connection
    <3>2. StillKnown(u)
      BY <1>1, <1>5 DEF PurgeCloses, connection, close, use, client, TypeOK, StillKnown,
         NewPoints, OpenPoints, Using, Status, close_connection
    <3>3. StillUsed(u)
      BY <1>1, <1>5 DEF PurgeCloses, connection, close, use, client, TypeOK, StillUsed,
         Using, close_connection
    <3> QED  BY <3>1, <3>2, <3>3 DEF Still
  <2> QED  BY <2>1, <2>2, AllOK
<1> QED  BY <1>2, <1>3, <1>4, <1>5

(* A client sends its request and waits for the reply.                     *)
LEMMA SendOK ==
    ASSUME Inv, NEW c \in Clients, NEW t \in Transports,
           Send(c, t) \/ SendFails(c, t) \/ Returns(c, t)
    PROVE  CacheOK' /\ \A u \in Transports : TransportOK(u)'
<1>1. TypeOK /\ CacheOK /\ \A u \in Transports : Status(u) /\ Fresh(u)
  BY DEF Inv, TransportOK
<1>2. CASE Send(c, t)
  <2>1. CacheOK' /\ \A u \in Transports : Kept(u)
    BY <1>1, <1>2, CacheSame DEF Send, cache, index
  <2>2. ASSUME NEW u \in Transports
        PROVE  Still(u)
    <3>1. StillOpen(u)
      BY <1>1, <1>2 DEF Send, connection, close, use, client, TypeOK, StillOpen, Fresh,
         go, take, give_up, At
    <3>2. StillKnown(u)
      BY <1>1, <1>2 DEF Send, connection, close, use, client, TypeOK, StillKnown,
         NewPoints, OpenPoints, Using, Status, go, take, give_up, At
    <3>3. StillUsed(u)
      BY <1>1, <1>2 DEF Send, connection, close, use, client, TypeOK, StillUsed, Using,
         go, take, give_up, At
    <3> QED  BY <3>1, <3>2, <3>3 DEF Still
  <2> QED  BY <2>1, <2>2, AllOK
<1>3. CASE SendFails(c, t)
  <2>1. CacheOK' /\ \A u \in Transports : Kept(u)
    BY <1>1, <1>3, CacheSame DEF SendFails, cache, index
  <2>2. ASSUME NEW u \in Transports
        PROVE  Still(u)
    <3>1. StillOpen(u)
      BY <1>1, <1>3 DEF SendFails, connection, close, use, client, TypeOK, StillOpen,
         Fresh, go, take, give_up, At, close_connection
    <3>2. StillKnown(u)
      BY <1>1, <1>3 DEF SendFails, connection, close, use, client, TypeOK, StillKnown,
         NewPoints, OpenPoints, Using, Status, go, take, give_up, At, close_connection
    <3>3. StillUsed(u)
      BY <1>1, <1>3 DEF SendFails, connection, close, use, client, TypeOK, StillUsed,
         Using, go, take, give_up, At, close_connection
    <3> QED  BY <3>1, <3>2, <3>3 DEF Still
  <2> QED  BY <2>1, <2>2, AllOK
<1>4. CASE Returns(c, t)
  <2>1. CacheOK' /\ \A u \in Transports : Kept(u)
    BY <1>1, <1>4, CacheSame DEF Returns, cache, index
  <2>2. ASSUME NEW u \in Transports
        PROVE  Still(u)
    <3>1. StillOpen(u)
      BY <1>1, <1>4 DEF Returns, connection, close, use, client, TypeOK, StillOpen,
         Fresh, go, take, give_up, At
    <3>2. StillKnown(u)
      BY <1>1, <1>4, TransportCacheAssumption DEF Returns, connection, close, use,
         client, TypeOK, StillKnown, NewPoints, OpenPoints, Using, Status, go, take,
         give_up, At
    <3>3. StillUsed(u)
      BY <1>1, <1>4 DEF Returns, connection, close, use, client, TypeOK, StillUsed,
         Using, go, take, give_up, At
    <3> QED  BY <3>1, <3>2, <3>3 DEF Still
  <2> QED  BY <2>1, <2>2, AllOK
<1> QED  BY <1>2, <1>3, <1>4

(* close_connection_eh marks the entry ...                                 *)
LEMMA CloseMarkOK ==
    ASSUME Inv, NEW t \in Transports, CloseMark(t)
    PROVE  CacheOK' /\ \A u \in Transports : TransportOK(u)'
<1>1. TypeOK /\ CacheOK /\ TransportOK(t)
  BY DEF Inv
<1>2. /\ CacheOK' /\ \A u \in Transports : u # t => Kept(u)
      /\ Fewer(t)
      /\ Cached(t) => /\ ~EntryOf(t)'.is_connected
                      /\ EntryOf(t)'.recycle_state = EntryOf(t).recycle_state
  <2> DEFINE e == [EntryOf(t) EXCEPT !.is_connected = FALSE]
  <2>1. Cached(t) => /\ e \in Entry /\ e.transport = t
                     /\ ~e.is_connected /\ e.recycle_state = EntryOf(t).recycle_state
    <3>1. Cached(t) => EntryOf(t) \in Entry /\ EntryOf(t).transport = t
      BY <1>1, EntryFacts
    <3>2. is_connected[t] \in BOOLEAN
      BY <1>1 DEF TypeOK
    <3> QED  BY <3>1, <3>2, EntryFields
  <2>2. /\ UNCHANGED index
        /\ IF Cached(t) THEN cache_map' = [cache_map EXCEPT ![cache_map_entry[t]] = e]
                        ELSE UNCHANGED cache_map
    BY DEF CloseMark, mark_connected, EntryOf
  <2> HIDE DEF e
  <2>3. /\ CacheOK'
        /\ \A u \in Transports : u # t => Kept(u)
        /\ Fewer(t) /\ (Cached(t) => EntryOf(t)' = e)
    BY <1>1, <2>1, <2>2, EntrySet
  <2> QED  BY <2>1, <2>3
<1>3. /\ closing[t] = "mark" /\ phase'[t] = phase[t] /\ closing'[t] = "purge"
      /\ is_closed'[t] = is_closed[t] /\ is_connected'[t] = is_connected[t]
      /\ event'[t].state = event[t].state /\ is_registered'[t] = is_registered[t]
      /\ active_requests'[t] = active_requests[t] /\ idle_purged' = idle_purged
      /\ held' = held /\ pc' = pc /\ doomed' = doomed
  BY <1>1 DEF CloseMark, connection, close, use, client, TypeOK
<1>4. \A u \in Transports : u # t => Still(u)
  BY <1>1 DEF CloseMark, connection, close, use, client, TypeOK, Still, StillOpen,
     StillKnown,
              StillUsed, NewPoints, OpenPoints, Using
<1>5. TransportOK(t)'
  <2>1. Status(t)'
    BY <1>1, <1>3 DEF Status, TransportOK
  <2>2. Fresh(t)'
    BY <1>1, <1>2, <1>3 DEF Fresh, TransportOK, Kept, Fewer, Status
  <2>3. ClosedEntry(t)'
    BY <1>1, <1>2, <1>3 DEF ClosedEntry, TransportOK, Kept, Fewer, Status, Using
  <2>4. IdleEntry(t)'
    BY <1>1, <1>2, <1>3 DEF IdleEntry, TransportOK, Kept, Fewer, Status
  <2>5. OpenEntry(t)'
    BY <1>1, <1>2, <1>3 DEF OpenEntry, TransportOK, Kept, Fewer, Status
  <2>6. BusyEntry(t)'
    BY <1>1, <1>2, <1>3 DEF BusyEntry, TransportOK, Kept, Fewer, Status, Using
  <2> QED  BY <2>1, <2>2, <2>3, <2>4, <2>5, <2>6 DEF TransportOK
<1> QED  BY <1>2, <1>4, <1>5, OneOK

(* ... purges it ...                                                       *)
LEMMA ClosePurgeOK ==
    ASSUME Inv, NEW t \in Transports, ClosePurge(t)
    PROVE  CacheOK' /\ \A u \in Transports : TransportOK(u)'
<1>1. TypeOK /\ CacheOK /\ TransportOK(t)
  BY DEF Inv
<1>2. /\ CacheOK' /\ \A u \in Transports : u # t => Kept(u)
      /\ ~Cached(t)' /\ Kept(t)
  BY <1>1, EntryPurged DEF ClosePurge
<1>3. /\ closing[t] = "purge" /\ phase'[t] = phase[t] /\ closing'[t] = "notify"
      /\ is_closed'[t] = is_closed[t] /\ is_connected'[t] = is_connected[t]
      /\ event'[t].state = event[t].state /\ is_registered'[t] = is_registered[t]
      /\ active_requests'[t] = active_requests[t] /\ idle_purged' = idle_purged
      /\ held' = held /\ pc' = pc /\ doomed' = doomed
  BY <1>1 DEF ClosePurge, connection, close, use, client, TypeOK
<1>4. \A u \in Transports : u # t => Still(u)
  BY <1>1 DEF ClosePurge, connection, close, use, client, TypeOK, Still, StillOpen,
     StillKnown,
              StillUsed, NewPoints, OpenPoints, Using
<1>5. TransportOK(t)'
  <2>1. Status(t)'
    BY <1>1, <1>3 DEF Status, TransportOK
  <2>2. Fresh(t)'
    BY <1>1, <1>2, <1>3 DEF Fresh, TransportOK, Kept, Fewer, Status
  <2>3. ClosedEntry(t)'
    BY <1>1, <1>2, <1>3 DEF ClosedEntry, TransportOK, Kept, Fewer, Status, Using
  <2>4. IdleEntry(t)'
    BY <1>1, <1>2, <1>3 DEF IdleEntry, TransportOK, Kept, Fewer, Status
  <2>5. OpenEntry(t)'
    BY <1>1, <1>2, <1>3 DEF OpenEntry, TransportOK, Kept, Fewer, Status
  <2>6. BusyEntry(t)'
    BY <1>1, <1>2, <1>3 DEF BusyEntry, TransportOK, Kept, Fewer, Status, Using
  <2> QED  BY <2>1, <2>2, <2>3, <2>4, <2>5, <2>6 DEF TransportOK
<1> QED  BY <1>2, <1>4, <1>5, OneOK

(* ... and tells those who wait.                                           *)
LEMMA CloseNotifyOK ==
    ASSUME Inv, NEW t \in Transports, CloseNotify(t)
    PROVE  CacheOK' /\ \A u \in Transports : TransportOK(u)'
<1>1. TypeOK /\ CacheOK /\ TransportOK(t)
  BY DEF Inv
<1>2. /\ CacheOK' /\ \A u \in Transports : u # t => Kept(u)
      /\ Kept(t)
  BY <1>1, CacheSame DEF CloseNotify, cache, index
<1>3. /\ closing[t] = "notify" /\ phase'[t] = phase[t] /\ closing'[t] = "done"
      /\ is_closed'[t] = is_closed[t] /\ is_connected'[t] = is_connected[t]
      /\ (event'[t].state = "SUCCESS" => event[t].state = "SUCCESS")
      /\ ~is_registered'[t] /\ active_requests'[t] = active_requests[t]
      /\ idle_purged' = idle_purged /\ held' = held /\ pc' = pc /\ doomed' = doomed
  BY <1>1, EventChanged DEF CloseNotify, connection, close, use, client, TypeOK
<1>4. \A u \in Transports : u # t => Still(u)
  BY <1>1, EventChanged DEF CloseNotify, connection, close, use, client, TypeOK, Still,
     StillOpen, StillKnown,
              StillUsed, NewPoints, OpenPoints, Using
<1>5. TransportOK(t)'
  <2>1. Status(t)'
    BY <1>1, <1>3 DEF Status, TransportOK
  <2>2. Fresh(t)'
    BY <1>1, <1>2, <1>3 DEF Fresh, TransportOK, Kept, Fewer, Status
  <2>3. ClosedEntry(t)'
    BY <1>1, <1>2, <1>3 DEF ClosedEntry, TransportOK, Kept, Fewer, Status, Using
  <2>4. IdleEntry(t)'
    BY <1>1, <1>2, <1>3 DEF IdleEntry, TransportOK, Kept, Fewer, Status
  <2>5. OpenEntry(t)'
    BY <1>1, <1>2, <1>3 DEF OpenEntry, TransportOK, Kept, Fewer, Status
  <2>6. BusyEntry(t)'
    BY <1>1, <1>2, <1>3 DEF BusyEntry, TransportOK, Kept, Fewer, Status, Using
  <2> QED  BY <2>1, <2>2, <2>3, <2>4, <2>5, <2>6 DEF TransportOK
<1> QED  BY <1>2, <1>4, <1>5, OneOK

(* post_open: the transport is connected, ...                              *)
LEMMA OpenedOK ==
    ASSUME Inv, NEW t \in Transports, Opened(t)
    PROVE  CacheOK' /\ \A u \in Transports : TransportOK(u)'
<1>1. TypeOK /\ CacheOK /\ TransportOK(t)
  BY DEF Inv
<1>2. /\ CacheOK' /\ \A u \in Transports : u # t => Kept(u)
      /\ Kept(t)
  BY <1>1, CacheSame DEF Opened, cache, index
<1>3. /\ phase[t] = "pending" /\ ~is_closed[t] /\ phase'[t] = "marking"
      /\ closing'[t] = closing[t] /\ is_closed'[t] = is_closed[t]
      /\ is_connected'[t] /\ event'[t].state = event[t].state
      /\ is_registered'[t] = is_registered[t]
      /\ active_requests'[t] = active_requests[t] /\ idle_purged' = idle_purged
      /\ held' = held /\ pc' = pc /\ doomed' = doomed
  BY <1>1 DEF Opened, connection, close, use, client, TypeOK
<1>4. \A u \in Transports : u # t => Still(u)
  BY <1>1 DEF Opened, connection, close, use, client, TypeOK, Still, StillOpen,
     StillKnown,
              StillUsed, NewPoints, OpenPoints, Using
<1>5. TransportOK(t)'
  <2>1. Status(t)'
    BY <1>1, <1>3 DEF Status, TransportOK
  <2>2. Fresh(t)'
    BY <1>1, <1>2, <1>3 DEF Fresh, TransportOK, Kept, Fewer, Status
  <2>3. ClosedEntry(t)'
    BY <1>1, <1>2, <1>3 DEF ClosedEntry, TransportOK, Kept, Fewer, Status, Using
  <2>4. IdleEntry(t)'
    BY <1>1, <1>2, <1>3 DEF IdleEntry, TransportOK, Kept, Fewer, Status
  <2>5. OpenEntry(t)'
    BY <1>1, <1>2, <1>3 DEF OpenEntry, TransportOK, Kept, Fewer, Status
  <2>6. BusyEntry(t)'
    BY <1>1, <1>2, <1>3 DEF BusyEntry, TransportOK, Kept, Fewer, Status, Using
  <2> QED  BY <2>1, <2>2, <2>3, <2>4, <2>5, <2>6 DEF TransportOK
<1> QED  BY <1>2, <1>4, <1>5, OneOK

(* ... its entry says so, ...                                              *)
LEMMA OpenedMarkOK ==
    ASSUME Inv, NEW t \in Transports, OpenedMark(t)
    PROVE  CacheOK' /\ \A u \in Transports : TransportOK(u)'
<1>1. TypeOK /\ CacheOK /\ TransportOK(t)
  BY DEF Inv
<1>2. /\ CacheOK' /\ \A u \in Transports : u # t => Kept(u)
      /\ Fewer(t)
      /\ Cached(t) => /\ EntryOf(t)'.is_connected
                      /\ EntryOf(t)'.recycle_state = EntryOf(t).recycle_state
  <2> DEFINE e == [EntryOf(t) EXCEPT !.is_connected = TRUE]
  <2>1. Cached(t) => /\ e \in Entry /\ e.transport = t
                     /\ e.is_connected /\ e.recycle_state = EntryOf(t).recycle_state
    <3>1. Cached(t) => EntryOf(t) \in Entry /\ EntryOf(t).transport = t
      BY <1>1, EntryFacts
    <3>2. is_connected[t] \in BOOLEAN
      BY <1>1 DEF TypeOK
    <3> QED  BY <3>1, <3>2, EntryFields
  <2>2. /\ UNCHANGED index
        /\ IF Cached(t) THEN cache_map' = [cache_map EXCEPT ![cache_map_entry[t]] = e]
                        ELSE UNCHANGED cache_map
    BY DEF OpenedMark, mark_connected, EntryOf
  <2> HIDE DEF e
  <2>3. /\ CacheOK'
        /\ \A u \in Transports : u # t => Kept(u)
        /\ Fewer(t) /\ (Cached(t) => EntryOf(t)' = e)
    BY <1>1, <2>1, <2>2, EntrySet
  <2> QED  BY <2>1, <2>3
<1>3. /\ phase[t] = "marking" /\ phase'[t] = "idling" /\ closing'[t] = closing[t]
      /\ is_closed'[t] = is_closed[t] /\ is_connected'[t] = is_connected[t]
      /\ event'[t].state = event[t].state /\ is_registered'[t] = is_registered[t]
      /\ active_requests'[t] = active_requests[t] /\ idle_purged' = idle_purged
      /\ held' = held /\ pc' = pc /\ doomed' = doomed
  BY <1>1 DEF OpenedMark, connection, close, use, client, TypeOK
<1>4. \A u \in Transports : u # t => Still(u)
  BY <1>1 DEF OpenedMark, connection, close, use, client, TypeOK, Still, StillOpen,
     StillKnown,
              StillUsed, NewPoints, OpenPoints, Using
<1>5. TransportOK(t)'
  <2>1. Status(t)'
    BY <1>1, <1>3 DEF Status, TransportOK
  <2>2. Fresh(t)'
    BY <1>1, <1>2, <1>3 DEF Fresh, TransportOK, Kept, Fewer, Status
  <2>3. ClosedEntry(t)'
    BY <1>1, <1>2, <1>3 DEF ClosedEntry, TransportOK, Kept, Fewer, Status, Using
  <2>4. IdleEntry(t)'
    BY <1>1, <1>2, <1>3 DEF IdleEntry, TransportOK, Kept, Fewer, Status
  <2>5. OpenEntry(t)'
    BY <1>1, <1>2, <1>3 DEF OpenEntry, TransportOK, Kept, Fewer, Status
  <2>6. BusyEntry(t)'
    BY <1>1, <1>2, <1>3 DEF BusyEntry, TransportOK, Kept, Fewer, Status, Using
  <2> QED  BY <2>1, <2>2, <2>3, <2>4, <2>5, <2>6 DEF TransportOK
<1> QED  BY <1>2, <1>4, <1>5, OneOK

(* ... can be used, ...                                                    *)
LEMMA OpenedIdleOK ==
    ASSUME Inv, NEW t \in Transports, OpenedIdle(t)
    PROVE  CacheOK' /\ \A u \in Transports : TransportOK(u)'
<1>1. TypeOK /\ CacheOK /\ TransportOK(t)
  BY DEF Inv
<1>2. /\ CacheOK' /\ \A u \in Transports : u # t => Kept(u)
      /\ Fewer(t)
      /\ Cached(t) => /\ EntryOf(t)'.is_connected = is_connected[t]
                      /\ EntryOf(t)'.recycle_state = "IDLE_AND_PURGABLE"
  <2> DEFINE e == [EntryOf(t) EXCEPT !.recycle_state = "IDLE_AND_PURGABLE",
                                 !.is_connected = is_connected[t]]
  <2>1. Cached(t) => /\ e \in Entry /\ e.transport = t
                     /\ e.is_connected = is_connected[t]
                     /\ e.recycle_state = "IDLE_AND_PURGABLE"
    <3>1. Cached(t) => EntryOf(t) \in Entry /\ EntryOf(t).transport = t
      BY <1>1, EntryFacts
    <3>2. is_connected[t] \in BOOLEAN
      BY <1>1 DEF TypeOK
    <3> QED  BY <3>1, <3>2 DEF Entry
  <2>2. /\ UNCHANGED index
        /\ IF Cached(t) THEN cache_map' = [cache_map EXCEPT ![cache_map_entry[t]] = e]
                        ELSE UNCHANGED cache_map
    BY DEF OpenedIdle, set_entry_idle, EntryOf
  <2> HIDE DEF e
  <2>3. /\ CacheOK'
        /\ \A u \in Transports : u # t => Kept(u)
        /\ Fewer(t) /\ (Cached(t) => EntryOf(t)' = e)
    BY <1>1, <2>1, <2>2, EntrySet
  <2> QED  BY <2>1, <2>3
<1>3. /\ phase[t] = "idling" /\ phase'[t] = "signalling" /\ closing'[t] = closing[t]
      /\ is_closed'[t] = is_closed[t] /\ is_connected'[t] = is_connected[t]
      /\ event'[t].state = event[t].state /\ is_registered'[t] = is_registered[t]
      /\ active_requests'[t] = active_requests[t] /\ idle_purged' = idle_purged
      /\ held' = held /\ pc' = pc /\ doomed' = doomed
  BY <1>1 DEF OpenedIdle, connection, close, use, client, TypeOK
<1>4. \A u \in Transports : u # t => Still(u)
  BY <1>1 DEF OpenedIdle, connection, close, use, client, TypeOK, Still, StillOpen,
     StillKnown,
              StillUsed, NewPoints, OpenPoints, Using
<1>5. TransportOK(t)'
  <2>1. Status(t)'
    BY <1>1, <1>3 DEF Status, TransportOK
  <2>2. Fresh(t)'
    BY <1>1, <1>2, <1>3 DEF Fresh, TransportOK, Kept, Fewer, Status
  <2>3. ClosedEntry(t)'
    BY <1>1, <1>2, <1>3 DEF ClosedEntry, TransportOK, Kept, Fewer, Status, Using
  <2>4. IdleEntry(t)'
    BY <1>1, <1>2, <1>3 DEF IdleEntry, TransportOK, Kept, Fewer, Status
  <2>5. OpenEntry(t)'
    BY <1>1, <1>2, <1>3 DEF OpenEntry, TransportOK, Kept, Fewer, Status
  <2>6. BusyEntry(t)'
    BY <1>1, <1>2, <1>3 DEF BusyEntry, TransportOK, Kept, Fewer, Status, Using
  <2> QED  BY <2>1, <2>2, <2>3, <2>4, <2>5, <2>6 DEF TransportOK
<1> QED  BY <1>2, <1>4, <1>5, OneOK

(* ... and its clients are told.                                           *)
LEMMA OpenedSignalOK ==
    ASSUME Inv, NEW t \in Transports, OpenedSignal(t)
    PROVE  CacheOK' /\ \A u \in Transports : TransportOK(u)'
<1>1. TypeOK /\ CacheOK /\ TransportOK(t)
  BY DEF Inv
<1>2. /\ CacheOK' /\ \A u \in Transports : u # t => Kept(u)
      /\ Kept(t)
  BY <1>1, CacheSame DEF OpenedSignal, cache, index
<1>3. /\ phase[t] = "signalling" /\ phase'[t] = "open" /\ closing'[t] = closing[t]
      /\ is_closed'[t] = is_closed[t] /\ is_connected'[t] = is_connected[t]
      /\ is_registered'[t] = is_registered[t]
      /\ active_requests'[t] = active_requests[t] /\ idle_purged' = idle_purged
      /\ held' = held /\ pc' = pc /\ doomed' = doomed
  BY <1>1, EventChanged DEF OpenedSignal, connection, close, use, client, TypeOK
<1>4. \A u \in Transports : u # t => Still(u)
  BY <1>1, EventChanged DEF OpenedSignal, connection, close, use, client, TypeOK, Still,
     StillOpen, StillKnown,
              StillUsed, NewPoints, OpenPoints, Using
<1>5. TransportOK(t)'
  <2>1. Status(t)'
    BY <1>1, <1>3 DEF Status, TransportOK
  <2>2. Fresh(t)'
    BY <1>1, <1>2, <1>3 DEF Fresh, TransportOK, Kept, Fewer, Status
  <2>3. ClosedEntry(t)'
    BY <1>1, <1>2, <1>3 DEF ClosedEntry, TransportOK, Kept, Fewer, Status, Using
  <2>4. IdleEntry(t)'
    BY <1>1, <1>2, <1>3 DEF IdleEntry, TransportOK, Kept, Fewer, Status
  <2>5. OpenEntry(t)'
    BY <1>1, <1>2, <1>3 DEF OpenEntry, TransportOK, Kept, Fewer, Status
  <2>6. BusyEntry(t)'
    BY <1>1, <1>2, <1>3 DEF BusyEntry, TransportOK, Kept, Fewer, Status, Using
  <2> QED  BY <2>1, <2>2, <2>3, <2>4, <2>5, <2>6 DEF TransportOK
<1> QED  BY <1>2, <1>4, <1>5, OneOK

(* The connection cannot be made.                                          *)
LEMMA ConnectFailsOK ==
    ASSUME Inv, NEW t \in Transports, ConnectFails(t)
    PROVE  CacheOK' /\ \A u \in Transports : TransportOK(u)'
<1>1. TypeOK /\ CacheOK /\ TransportOK(t)
  BY DEF Inv
<1>2. /\ CacheOK' /\ \A u \in Transports : u # t => Kept(u)
      /\ Kept(t)
  BY <1>1, CacheSame DEF ConnectFails, cache, index
<1>3. /\ phase[t] = "pending" /\ ~is_closed[t] /\ phase'[t] = "failing"
      /\ closing'[t] = closing[t] /\ is_closed'[t]
      /\ is_connected'[t] = is_connected[t]
      /\ (event'[t].state = "SUCCESS" => event[t].state = "SUCCESS")
      /\ is_registered'[t] = is_registered[t]
      /\ active_requests'[t] = active_requests[t] /\ idle_purged' = idle_purged
      /\ held' = held /\ pc' = pc /\ doomed' = doomed
  BY <1>1, EventChanged DEF ConnectFails, connection, close, use, client, TypeOK
<1>4. \A u \in Transports : u # t => Still(u)
  BY <1>1, EventChanged DEF ConnectFails, connection, close, use, client, TypeOK, Still,
     StillOpen, StillKnown,
              StillUsed, NewPoints, OpenPoints, Using
<1>5. TransportOK(t)'
  <2>1. Status(t)'
    BY <1>1, <1>3 DEF Status, TransportOK
  <2>2. Fresh(t)'
    BY <1>1, <1>2, <1>3 DEF Fresh, TransportOK, Kept, Fewer, Status
  <2>3. ClosedEntry(t)'
    BY <1>1, <1>2, <1>3 DEF ClosedEntry, TransportOK, Kept, Fewer, Status, Using
  <2>4. IdleEntry(t)'
    BY <1>1, <1>2, <1>3 DEF IdleEntry, TransportOK, Kept, Fewer, Status
  <2>5. OpenEntry(t)'
    BY <1>1, <1>2, <1>3 DEF OpenEntry, TransportOK, Kept, Fewer, Status
  <2>6. BusyEntry(t)'
    BY <1>1, <1>2, <1>3 DEF BusyEntry, TransportOK, Kept, Fewer, Status, Using
  <2> QED  BY <2>1, <2>2, <2>3, <2>4, <2>5, <2>6 DEF TransportOK
<1> QED  BY <1>2, <1>4, <1>5, OneOK

(* Its entry is purged.                                                    *)
LEMMA ConnectFailsPurgeOK ==
    ASSUME Inv, NEW t \in Transports, ConnectFailsPurge(t)
    PROVE  CacheOK' /\ \A u \in Transports : TransportOK(u)'
<1>1. TypeOK /\ CacheOK /\ TransportOK(t)
  BY DEF Inv
<1>2. /\ CacheOK' /\ \A u \in Transports : u # t => Kept(u)
      /\ ~Cached(t)' /\ Kept(t)
  BY <1>1, EntryPurged DEF ConnectFailsPurge
<1>3. /\ phase[t] = "failing" /\ phase'[t] = "failed" /\ closing'[t] = closing[t]
      /\ is_closed'[t] = is_closed[t] /\ is_connected'[t] = is_connected[t]
      /\ event'[t].state = event[t].state /\ is_registered'[t] = is_registered[t]
      /\ active_requests'[t] = active_requests[t] /\ idle_purged' = idle_purged
      /\ held' = held /\ pc' = pc /\ doomed' = doomed
  BY <1>1 DEF ConnectFailsPurge, connection, close, use, client, TypeOK
<1>4. \A u \in Transports : u # t => Still(u)
  BY <1>1 DEF ConnectFailsPurge, connection, close, use, client, TypeOK, Still,
     StillOpen, StillKnown,
              StillUsed, NewPoints, OpenPoints, Using
<1>5. TransportOK(t)'
  <2>1. Status(t)'
    BY <1>1, <1>3 DEF Status, TransportOK
  <2>2. Fresh(t)'
    BY <1>1, <1>2, <1>3 DEF Fresh, TransportOK, Kept, Fewer, Status
  <2>3. ClosedEntry(t)'
    BY <1>1, <1>2, <1>3 DEF ClosedEntry, TransportOK, Kept, Fewer, Status, Using
  <2>4. IdleEntry(t)'
    BY <1>1, <1>2, <1>3 DEF IdleEntry, TransportOK, Kept, Fewer, Status
  <2>5. OpenEntry(t)'
    BY <1>1, <1>2, <1>3 DEF OpenEntry, TransportOK, Kept, Fewer, Status
  <2>6. BusyEntry(t)'
    BY <1>1, <1>2, <1>3 DEF BusyEntry, TransportOK, Kept, Fewer, Status, Using
  <2> QED  BY <2>1, <2>2, <2>3, <2>4, <2>5, <2>6 DEF TransportOK
<1> QED  BY <1>2, <1>4, <1>5, OneOK

(* A request comes in for a transport that is in the cache, ...            *)
LEMMA RequestBeginsOK ==
    ASSUME Inv, NEW t \in Transports, RequestBegins(t)
    PROVE  CacheOK' /\ \A u \in Transports : TransportOK(u)'
<1>1. TypeOK /\ CacheOK /\ TransportOK(t)
  BY DEF Inv
<1>2. /\ CacheOK' /\ \A u \in Transports : u # t => Kept(u)
      /\ Kept(t)
  BY <1>1, CacheSame DEF RequestBegins, cache, index
<1>3. /\ is_registered[t] /\ Cached(t) /\ phase'[t] = phase[t]
      /\ closing'[t] = closing[t] /\ is_closed'[t] = is_closed[t]
      /\ is_connected'[t] = is_connected[t] /\ event'[t].state = event[t].state
      /\ is_registered'[t] = is_registered[t] /\ idle_purged' = idle_purged
      /\ held' = held /\ pc' = pc /\ doomed' = doomed
  BY <1>1 DEF RequestBegins, connection, close, use, client, TypeOK,
     begin_active_request
<1>4. \A u \in Transports : u # t => Still(u)
  BY <1>1 DEF RequestBegins, connection, close, use, client, TypeOK, Still, StillOpen,
     StillKnown,
              StillUsed, NewPoints, OpenPoints, Using, begin_active_request
<1>5. TransportOK(t)'
  <2>1. Status(t)'
    BY <1>1, <1>3 DEF Status, TransportOK
  <2>2. Fresh(t)'
    BY <1>1, <1>2, <1>3 DEF Fresh, TransportOK, Kept, Fewer, Status
  <2>3. ClosedEntry(t)'
    BY <1>1, <1>2, <1>3 DEF ClosedEntry, TransportOK, Kept, Fewer, Status, Using
  <2>4. IdleEntry(t)'
    BY <1>1, <1>2, <1>3 DEF IdleEntry, TransportOK, Kept, Fewer, Status
  <2>5. OpenEntry(t)'
    BY <1>1, <1>2, <1>3 DEF OpenEntry, TransportOK, Kept, Fewer, Status
  <2>6. BusyEntry(t)'
    BY <1>1, <1>2, <1>3 DEF BusyEntry, TransportOK, Kept, Fewer, Status, Using
  <2> QED  BY <2>1, <2>2, <2>3, <2>4, <2>5, <2>6 DEF TransportOK
<1> QED  BY <1>2, <1>4, <1>5, OneOK

(* What is not in the cache has no entry.                                  *)
LEMMA AbsentFacts ==
    ASSUME CacheOK, NEW t \in Transports
    PROVE  /\ Loose(t) => has_entry(t)
           /\ ~has_entry(t) => ~Cached(t)
  BY EntryFacts DEF Loose, has_entry

(* A client makes a transport, which is connected at once, ...             *)
LEMMA MakeAtOnceOK ==
    ASSUME Inv, NEW t \in Transports, NEW c \in Clients, MakeAtOnce(c, t)
    PROVE  CacheOK' /\ \A u \in Transports : TransportOK(u)'
<1>1. /\ TypeOK /\ CacheOK /\ TransportOK(t)
      /\ (Loose(t) => has_entry(t)) /\ (~has_entry(t) => ~Cached(t))
  BY AbsentFacts DEF Inv
<1>2. /\ CacheOK' /\ \A u \in Transports : u # t => Kept(u)
      /\ Kept(t)
  BY <1>1, CacheSame DEF MakeAtOnce, cache, index
<1>3. /\ phase[t] = "unused" /\ phase'[t] = "open" /\ closing'[t] = closing[t]
      /\ is_closed'[t] = is_closed[t] /\ is_connected'[t]
      /\ is_registered'[t] = is_registered[t]
      /\ active_requests'[t] = active_requests[t] /\ idle_purged' = idle_purged
      /\ \A d \in Clients : /\ held'[d] = (IF d = c THEN t ELSE held[d])
                         /\ pc'[d] = (IF d = c THEN "cache" ELSE pc[d])
                         /\ doomed'[d] = doomed[d]
  BY <1>1, EventChanged DEF MakeAtOnce, connection, close, use, client, TypeOK, go,
     take, give_up, At, unused
<1>4. \A u \in Transports : u # t => Still(u)
  BY <1>1, EventChanged DEF MakeAtOnce, connection, close, use, client, TypeOK, Still,
     StillOpen, StillKnown,
              StillUsed, NewPoints, OpenPoints, Using, go, take, give_up, At, unused
<1>5. TransportOK(t)'
  <2>1. Status(t)'
    BY <1>1, <1>3 DEF Status, TransportOK, Fresh
  <2>2. Fresh(t)'
    BY <1>1, <1>2, <1>3 DEF Fresh, TransportOK, Kept, Fewer, Status
  <2>3. ClosedEntry(t)'
    BY <1>1, <1>2, <1>3 DEF ClosedEntry, TransportOK, Kept, Fewer, Status, Using
  <2>4. IdleEntry(t)'
    BY <1>1, <1>2, <1>3 DEF IdleEntry, TransportOK, Kept, Fewer, Status
  <2>5. OpenEntry(t)'
    BY <1>1, <1>2, <1>3 DEF OpenEntry, TransportOK, Fresh, Kept, Fewer, Status
  <2>6. BusyEntry(t)'
    BY <1>1, <1>2, <1>3 DEF BusyEntry, TransportOK, Fresh, Kept, Fewer, Status, Using
  <2> QED  BY <2>1, <2>2, <2>3, <2>4, <2>5, <2>6 DEF TransportOK
<1> QED  BY <1>2, <1>4, <1>5, OneOK

(* ... or later.                                                           *)
LEMMA MakePendingOK ==
    ASSUME Inv, NEW t \in Transports, NEW c \in Clients, MakePending(c, t)
    PROVE  CacheOK' /\ \A u \in Transports : TransportOK(u)'
<1>1. /\ TypeOK /\ CacheOK /\ TransportOK(t)
      /\ (Loose(t) => has_entry(t)) /\ (~has_entry(t) => ~Cached(t))
  BY AbsentFacts DEF Inv
<1>2. /\ CacheOK' /\ \A u \in Transports : u # t => Kept(u)
      /\ Kept(t)
  BY <1>1, CacheSame DEF MakePending, cache, index
<1>3. /\ phase[t] = "unused" /\ phase'[t] = "pending" /\ closing'[t] = closing[t]
      /\ is_closed'[t] = is_closed[t] /\ is_connected'[t] = is_connected[t]
      /\ event'[t].state = event[t].state /\ is_registered'[t] = is_registered[t]
      /\ active_requests'[t] = active_requests[t] /\ idle_purged' = idle_purged
      /\ \A d \in Clients : /\ held'[d] = (IF d = c THEN t ELSE held[d])
                         /\ pc'[d] = (IF d = c THEN "complete" ELSE pc[d])
                         /\ doomed'[d] = doomed[d]
  BY <1>1 DEF MakePending, connection, close, use, client, TypeOK, go, take, give_up,
     At, unused
<1>4. \A u \in Transports : u # t => Still(u)
  BY <1>1 DEF MakePending, connection, close, use, client, TypeOK, Still, StillOpen,
     StillKnown,
              StillUsed, NewPoints, OpenPoints, Using, go, take, give_up, At, unused
<1>5. TransportOK(t)'
  <2>1. Status(t)'
    BY <1>1, <1>3 DEF Status, TransportOK, Fresh
  <2>2. Fresh(t)'
    BY <1>1, <1>2, <1>3 DEF Fresh, TransportOK, Kept, Fewer, Status
  <2>3. ClosedEntry(t)'
    BY <1>1, <1>2, <1>3 DEF ClosedEntry, TransportOK, Kept, Fewer, Status, Using
  <2>4. IdleEntry(t)'
    BY <1>1, <1>2, <1>3 DEF IdleEntry, TransportOK, Kept, Fewer, Status
  <2>5. OpenEntry(t)'
    BY <1>1, <1>2, <1>3 DEF OpenEntry, TransportOK, Fresh, Kept, Fewer, Status
  <2>6. BusyEntry(t)'
    BY <1>1, <1>2, <1>3 DEF BusyEntry, TransportOK, Fresh, Kept, Fewer, Status, Using
  <2> QED  BY <2>1, <2>2, <2>3, <2>4, <2>5, <2>6 DEF TransportOK
<1> QED  BY <1>2, <1>4, <1>5, OneOK

(* The entry is made idle when the invocation has failed, ...              *)
LEMMA FailedOK ==
    ASSUME Inv, NEW t \in Transports, NEW c \in Clients, Failed(c, t)
    PROVE  CacheOK' /\ \A u \in Transports : TransportOK(u)'
<1>1. /\ TypeOK /\ CacheOK /\ TransportOK(t)
      /\ (Loose(t) => has_entry(t)) /\ (~has_entry(t) => ~Cached(t))
  BY AbsentFacts DEF Inv
<1>2. /\ CacheOK' /\ \A u \in Transports : u # t => Kept(u)
      /\ Fewer(t)
      /\ Cached(t) => /\ EntryOf(t)'.recycle_state = "IDLE_AND_PURGABLE"
                      /\ EntryOf(t)'.is_connected = EntryOf(t).is_connected
  <2> DEFINE e == [EntryOf(t) EXCEPT !.recycle_state = "IDLE_AND_PURGABLE"]
  <2>1. Cached(t) => /\ e \in Entry /\ e.transport = t
                     /\ e.recycle_state = "IDLE_AND_PURGABLE"
                     /\ e.is_connected = EntryOf(t).is_connected
    <3>1. Cached(t) => EntryOf(t) \in Entry /\ EntryOf(t).transport = t
      BY <1>1, EntryFacts
    <3>2. is_connected[t] \in BOOLEAN
      BY <1>1 DEF TypeOK
    <3> QED  BY <3>1, <3>2, EntryFields
  <2>2. /\ UNCHANGED index
        /\ IF Cached(t) THEN cache_map' = [cache_map EXCEPT ![cache_map_entry[t]] = e]
                        ELSE UNCHANGED cache_map
    BY DEF Failed, make_idle, set_recycle_state, EntryOf
  <2> HIDE DEF e
  <2>3. /\ CacheOK'
        /\ \A u \in Transports : u # t => Kept(u)
        /\ Fewer(t) /\ (Cached(t) => EntryOf(t)' = e)
    BY <1>1, <2>1, <2>2, EntrySet
  <2> QED  BY <2>1, <2>3
<1>3. /\ held[c] = t /\ pc[c] = "failed" /\ phase'[t] = phase[t]
      /\ closing'[t] = closing[t] /\ is_closed'[t] = is_closed[t]
      /\ is_connected'[t] = is_connected[t] /\ event'[t].state = event[t].state
      /\ is_registered'[t] = is_registered[t]
      /\ active_requests'[t] = active_requests[t] /\ idle_purged' = idle_purged
      /\ \A d \in Clients : /\ held'[d] = (IF d = c THEN Nobody ELSE held[d])
                         /\ pc'[d] = (IF d = c THEN "idle" ELSE pc[d])
                         /\ doomed'[d] = doomed[d]
  BY <1>1, TransportCacheAssumption DEF Failed, connection, close, use, client, TypeOK,
     go, take, give_up, At
<1>4. \A u \in Transports : u # t => Still(u)
  BY <1>1, TransportCacheAssumption DEF Failed, connection, close, use, client, TypeOK,
     Still, StillOpen, StillKnown,
              StillUsed, NewPoints, OpenPoints, Using, go, take, give_up, At
<1>5. TransportOK(t)'
  <2>1. Status(t)'
    BY <1>1, <1>3 DEF Status, TransportOK
  <2>2. Fresh(t)'
    BY <1>1, <1>2, <1>3 DEF Fresh, TransportOK, Kept, Fewer, Status
  <2>3. ClosedEntry(t)'
    BY <1>1, <1>2, <1>3 DEF ClosedEntry, TransportOK, Kept, Fewer, Status, Using
  <2>4. IdleEntry(t)'
    BY <1>1, <1>2, <1>3 DEF IdleEntry, TransportOK, Kept, Fewer, Status
  <2>5. OpenEntry(t)'
    BY <1>1, <1>2, <1>3 DEF OpenEntry, TransportOK, Kept, Fewer, Status
  <2>6. BusyEntry(t)'
    BY <1>1, <1>2, <1>3 DEF BusyEntry, TransportOK, Kept, Fewer, Status, Using
  <2> QED  BY <2>1, <2>2, <2>3, <2>4, <2>5, <2>6 DEF TransportOK
<1> QED  BY <1>2, <1>4, <1>5, OneOK

(* ... or the request has been sent.                                       *)
LEMMA IdleAfterSendOK ==
    ASSUME Inv, NEW t \in Transports, NEW c \in Clients, IdleAfterSend(c, t)
    PROVE  CacheOK' /\ \A u \in Transports : TransportOK(u)'
<1>1. /\ TypeOK /\ CacheOK /\ TransportOK(t)
      /\ (Loose(t) => has_entry(t)) /\ (~has_entry(t) => ~Cached(t))
  BY AbsentFacts DEF Inv
<1>2. /\ CacheOK' /\ \A u \in Transports : u # t => Kept(u)
      /\ Fewer(t)
      /\ Cached(t) => /\ EntryOf(t)'.recycle_state = "IDLE_AND_PURGABLE"
                      /\ EntryOf(t)'.is_connected = EntryOf(t).is_connected
  <2> DEFINE e == [EntryOf(t) EXCEPT !.recycle_state = "IDLE_AND_PURGABLE"]
  <2>1. Cached(t) => /\ e \in Entry /\ e.transport = t
                     /\ e.recycle_state = "IDLE_AND_PURGABLE"
                     /\ e.is_connected = EntryOf(t).is_connected
    <3>1. Cached(t) => EntryOf(t) \in Entry /\ EntryOf(t).transport = t
      BY <1>1, EntryFacts
    <3>2. is_connected[t] \in BOOLEAN
      BY <1>1 DEF TypeOK
    <3> QED  BY <3>1, <3>2, EntryFields
  <2>2. /\ UNCHANGED index
        /\ IF Cached(t) THEN cache_map' = [cache_map EXCEPT ![cache_map_entry[t]] = e]
                        ELSE UNCHANGED cache_map
    BY DEF IdleAfterSend, make_idle, set_recycle_state, EntryOf
  <2> HIDE DEF e
  <2>3. /\ CacheOK'
        /\ \A u \in Transports : u # t => Kept(u)
        /\ Fewer(t) /\ (Cached(t) => EntryOf(t)' = e)
    BY <1>1, <2>1, <2>2, EntrySet
  <2> QED  BY <2>1, <2>3
<1>3. /\ held[c] = t /\ pc[c] = "sent" /\ phase'[t] = phase[t]
      /\ closing'[t] = closing[t] /\ is_closed'[t] = is_closed[t]
      /\ is_connected'[t] = is_connected[t] /\ event'[t].state = event[t].state
      /\ is_registered'[t] = is_registered[t]
      /\ active_requests'[t] = active_requests[t] /\ idle_purged' = idle_purged
      /\ \A d \in Clients : /\ held'[d] = (IF d = c THEN held[d] ELSE held[d])
                         /\ pc'[d] = (IF d = c THEN "reply" ELSE pc[d])
                         /\ doomed'[d] = doomed[d]
  BY <1>1 DEF IdleAfterSend, connection, close, use, client, TypeOK, go, take, give_up,
     At
<1>4. \A u \in Transports : u # t => Still(u)
  BY <1>1 DEF IdleAfterSend, connection, close, use, client, TypeOK, Still, StillOpen,
     StillKnown,
              StillUsed, NewPoints, OpenPoints, Using, go, take, give_up, At
<1>5. TransportOK(t)'
  <2>1. Status(t)'
    BY <1>1, <1>3 DEF Status, TransportOK
  <2>2. Fresh(t)'
    BY <1>1, <1>2, <1>3 DEF Fresh, TransportOK, Kept, Fewer, Status
  <2>3. ClosedEntry(t)'
    BY <1>1, <1>2, <1>3 DEF ClosedEntry, TransportOK, Kept, Fewer, Status, Using
  <2>4. IdleEntry(t)'
    BY <1>1, <1>2, <1>3 DEF IdleEntry, TransportOK, Kept, Fewer, Status
  <2>5. OpenEntry(t)'
    BY <1>1, <1>2, <1>3 DEF OpenEntry, TransportOK, Kept, Fewer, Status
  <2>6. BusyEntry(t)'
    BY <1>1, <1>2, <1>3 DEF BusyEntry, TransportOK, Kept, Fewer, Status, Using
  <2> QED  BY <2>1, <2>2, <2>3, <2>4, <2>5, <2>6 DEF TransportOK
<1> QED  BY <1>2, <1>4, <1>5, OneOK

(* A client caches the transport it has made, or one that was closed.      *)
LEMMA BindOK ==
    ASSUME Inv, NEW c \in Clients, NEW t \in Transports, held[c] = t,
           pc[c] \in {"cache", "bind_open", "bind_connecting", "rebind"},
           NEW state \in {"IDLE_AND_PURGABLE", "CONNECTING"},
           state = "CONNECTING" <=> pc[c] = "bind_connecting",
           bind_i(t, state), NEW q \in {"got", "verify", "wait_new"},
           q = "got" <=> pc[c] = "rebind",
           pc' = [pc EXCEPT ![c] = q], held' = held, doomed' = doomed,
           is_closed' = is_closed, \A u \in Transports : StillOpen(u),
           closing' = closing, is_connected' = is_connected
    PROVE  CacheOK' /\ \A u \in Transports : TransportOK(u)'
<1>1. /\ TypeOK /\ CacheOK /\ TransportOK(t)
      /\ Loose(t) => has_entry(t)
      /\ pc[c] \in NewPoints => ~has_entry(t) /\ t \notin idle_purged
      /\ \A d \in Clients \ {c} : held[d] = t => pc[d] \notin NewPoints /\ pc[c] \notin NewPoints
      /\ pc[c] \in OpenPoints => phase[t] = "open"
      /\ pc[c] = "rebind" => closing[t] # "no"
  BY AbsentFacts DEF Inv, TransportOK, Fresh, NewPoints, OpenPoints
<1>2. /\ CacheOK' /\ \A u \in Transports : u # t => Kept(u)
      /\ Loose(t)' => has_entry(t) /\ (Loose(t) \/ t \in bound_twice')
      /\ t \in bound_twice => t \in bound_twice'
      /\ \/ /\ Cached(t)' /\ EntryOf(t)'.is_connected = is_connected[t]
            /\ EntryOf(t)'.recycle_state =
                  IF is_connected[t] THEN "IDLE_AND_PURGABLE" ELSE state
         \/ has_entry(t) /\ (Cached(t)' => Cached(t) /\ EntryOf(t)' = EntryOf(t))
  <2>1. /\ new_entry(t, state) \in Entry
        /\ new_entry(t, state).is_connected = is_connected[t]
        /\ new_entry(t, state).recycle_state =
              IF is_connected[t] THEN "IDLE_AND_PURGABLE" ELSE state
    BY <1>1 DEF new_entry, Entry, TypeOK
  <2> QED  BY <1>1, <2>1, EntryBound
<1>3. \A d \in Clients : pc'[d] = IF d = c THEN q ELSE pc[d]
  BY <1>1 DEF TypeOK
<1>4. ASSUME NEW u \in Transports, u # t
      PROVE  Still(u)
  BY <1>3, <1>4 DEF Still, StillKnown, StillUsed
<1>5. TransportOK(t)'
  <2> USE DEF StillOpen, NewPoints, OpenPoints
  <2>1. Status(t)'
    BY <1>1 DEF Status, TransportOK
  <2>2. Fresh(t)'
    BY <1>1, <1>2, <1>3 DEF Fresh, TransportOK, Kept, Fewer
  <2>3. ClosedEntry(t)'
    BY <1>1, <1>2, <1>3 DEF ClosedEntry, TransportOK, Status, Using
  <2>4. IdleEntry(t)'
    BY <1>1 DEF IdleEntry, TransportOK
  <2>5. OpenEntry(t)'
    BY <1>1, <1>2 DEF OpenEntry, TransportOK, Status
  <2>6. BusyEntry(t)'
    <3>1. has_entry(t) => is_closed'[t]
      BY <1>1 DEF Status, TransportOK
    <3> QED  BY <1>1, <1>2, <3>1 DEF BusyEntry
  <2> QED  BY <2>1, <2>2, <2>3, <2>4, <2>5, <2>6 DEF TransportOK
<1> QED  BY <1>2, <1>4, <1>5, OneOK

(* connect binds a transport that was open and has been closed.            *)
LEMMA RebindOK ==
    ASSUME Inv, NEW c \in Clients, NEW t \in Transports, Rebind(c, t)
    PROVE  CacheOK' /\ \A u \in Transports : TransportOK(u)'
<1>1. TypeOK /\ CacheOK /\ \A u \in Transports : Status(u) /\ Fresh(u)
  BY DEF Inv, TransportOK
<1>2. CASE cache_full
  <2>1. CacheOK' /\ \A u \in Transports : Kept(u)
    BY <1>1, <1>2, CacheSame DEF Rebind, cache, index
  <2>2. ASSUME NEW u \in Transports
        PROVE  Still(u)
    <3>1. StillOpen(u)
      BY <1>1, <1>2 DEF Rebind, connection, close, use, client, TypeOK, StillOpen,
         Fresh,
         go, take, give_up, At, register_if_necessary
    <3>2. StillKnown(u)
      BY <1>1, <1>2, TransportCacheAssumption DEF Rebind, client, TypeOK, StillKnown,
         NewPoints, OpenPoints, Using, go, take, give_up, At, register_if_necessary
    <3>3. StillUsed(u)
      BY <1>1, <1>2 DEF Rebind, client, TypeOK, StillUsed, Using, go, take, give_up, At,
         register_if_necessary
    <3> QED  BY <3>1, <3>2, <3>3 DEF Still
  <2> QED  BY <2>1, <2>2, AllOK
<1>3. CASE ~cache_full
  <2>1. \A u \in Transports : StillOpen(u)
    BY <1>1, <1>3 DEF Rebind, connection, close, use, client, TypeOK, StillOpen, Fresh,
       go, take, give_up, At, register_if_necessary
  <2>2. /\ bind_i(t, "IDLE_AND_PURGABLE") /\ held[c] = t
        /\ held' = held /\ doomed' = doomed
        /\ is_closed' = is_closed /\ closing' = closing /\ is_connected' = is_connected
    BY <1>3 DEF Rebind, connection, close, client, go, take, give_up, At,
       register_if_necessary
  <2>3. pc[c] = "rebind" /\ pc' = [pc EXCEPT ![c] = "got"]
    BY <1>3 DEF Rebind, go, At
  <2> QED  BY <2>1, <2>2, <2>3, BindOK
<1> QED  BY <1>2, <1>3

(* cache_transport of a connection that is there.                          *)
LEMMA CacheNewOK ==
    ASSUME Inv, NEW c \in Clients, NEW t \in Transports, CacheNew(c, t)
    PROVE  CacheOK' /\ \A u \in Transports : TransportOK(u)'
<1>1. TypeOK /\ CacheOK /\ \A u \in Transports : Status(u) /\ Fresh(u)
  BY DEF Inv, TransportOK
<1>2. cache_full => /\ \A u \in Transports : u # t => event'[u] = event[u]
                    /\ event'[t].state = "SUCCESS" => event[t].state = "SUCCESS"
  BY <1>1, EventChanged DEF CacheNew
<1>3. CASE cache_full
  <2>1. CacheOK' /\ \A u \in Transports : Kept(u)
    BY <1>1, <1>3, CacheSame DEF CacheNew, cache, index
  <2>2. ASSUME NEW u \in Transports
        PROVE  Still(u)
    <3>1. StillOpen(u)
      <4>1. /\ phase'[u] = phase[u] /\ closing'[u] = closing[u]
            /\ is_connected'[u] = is_connected[u] /\ is_registered' = is_registered
            /\ active_requests' = active_requests /\ idle_purged' = idle_purged
        BY <1>1, <1>3 DEF CacheNew, close, use
      <4>2. is_closed[u] => is_closed'[u]
        BY <1>1, <1>3 DEF CacheNew, TypeOK
      <4>3. event'[u].state = "SUCCESS" => event[u].state = "SUCCESS"
        BY <1>2, <1>3
      <4> QED  BY <4>1, <4>2, <4>3 DEF StillOpen
    <3>2. StillKnown(u)
      BY <1>1, <1>3, TransportCacheAssumption DEF CacheNew, client, TypeOK, StillKnown,
         NewPoints, OpenPoints, Using, go, take, give_up, At
    <3>3. StillUsed(u)
      BY <1>1, <1>3 DEF CacheNew, client, TypeOK, StillUsed, Using, go, take, give_up,
         At
    <3> QED  BY <3>1, <3>2, <3>3 DEF Still
  <2> QED  BY <2>1, <2>2, AllOK
<1>4. CASE ~cache_full
  <2>1. \A u \in Transports : StillOpen(u)
    BY <1>1, <1>4 DEF CacheNew, connection, close, use, client, TypeOK, StillOpen,
       Fresh, go, take, give_up, At
  <2>2. /\ bind_i(t, "IDLE_AND_PURGABLE") /\ held[c] = t
        /\ held' = held /\ doomed' = doomed
        /\ is_closed' = is_closed /\ closing' = closing /\ is_connected' = is_connected
    BY <1>4 DEF CacheNew, connection, close, client, go, take, give_up, At
  <2>3. pc[c] = "cache" /\ pc' = [pc EXCEPT ![c] = "verify"]
    BY <1>4 DEF CacheNew, go, At
  <2> QED  BY <2>1, <2>2, <2>3, BindOK
<1> QED  BY <1>3, <1>4

(* cache_transport of one that was or is pending.                          *)
LEMMA BindNewOK ==
    ASSUME Inv, NEW c \in Clients, NEW t \in Transports,
           NEW point \in {"bind_open", "bind_connecting"},
           BindNew(c, t, point)
    PROVE  CacheOK' /\ \A u \in Transports : TransportOK(u)'
<1>1. TypeOK /\ CacheOK /\ \A u \in Transports : Status(u) /\ Fresh(u)
  BY DEF Inv, TransportOK
<1>2. CASE cache_full
  <2>1. CacheOK' /\ \A u \in Transports : Kept(u)
    BY <1>1, <1>2, CacheSame DEF BindNew, cache, index
  <2>2. ASSUME NEW u \in Transports
        PROVE  Still(u)
    <3>1. StillOpen(u)
      BY <1>1, <1>2 DEF BindNew, connection, close, use, client, TypeOK, StillOpen,
         Fresh,
         go, take, give_up, At
    <3>2. StillKnown(u)
      BY <1>1, <1>2, TransportCacheAssumption DEF BindNew, client, TypeOK, StillKnown,
         NewPoints, OpenPoints, Using, go, take, give_up, At
    <3>3. StillUsed(u)
      BY <1>1, <1>2 DEF BindNew, client, TypeOK, StillUsed, Using, go, take, give_up, At
    <3> QED  BY <3>1, <3>2, <3>3 DEF Still
  <2> QED  BY <2>1, <2>2, AllOK
<1>3. CASE ~cache_full
  <2>1. \A u \in Transports : StillOpen(u)
    BY <1>1, <1>3 DEF BindNew, connection, close, use, client, TypeOK, StillOpen, Fresh,
       go, take, give_up, At
  <2>2. /\ bind_i(t, IF point = "bind_open" THEN "IDLE_AND_PURGABLE" ELSE "CONNECTING")
        /\ held[c] = t
        /\ held' = held /\ doomed' = doomed
        /\ is_closed' = is_closed /\ closing' = closing /\ is_connected' = is_connected
    BY <1>3 DEF BindNew, connection, close, client, go, take, give_up, At
  <2>3. CASE point = "bind_open"
    <3>1. pc[c] = "bind_open" /\ pc' = [pc EXCEPT ![c] = "verify"]
      BY <1>3, <2>3 DEF BindNew, go, At
    <3> QED  BY <2>1, <2>2, <2>3, <3>1, BindOK
  <2>4. CASE point = "bind_connecting"
    <3>1. pc[c] = "bind_connecting" /\ pc' = [pc EXCEPT ![c] = "wait_new"]
      BY <1>3, <2>4 DEF BindNew, go, At
    <3> QED  BY <2>1, <2>2, <2>4, <3>1, BindOK
  <2> QED  BY <2>3, <2>4
<1> QED  BY <1>2, <1>3

-----------------------------------------------------------------------------
(* Steps that choose among the entries.                                    *)

(* A client comes to a transport that is in the cache.                     *)
LEMMA TakeOK ==
    ASSUME Inv, NEW c \in Clients, NEW t \in Transports, has_entry(t),
           UNCHANGED <<cache, connection, close, use, idle_purged, doomed>>,
           pc[c] = "find", held' = [held EXCEPT ![c] = t],
           NEW p \in {"wait_shared", "purge"}, pc' = [pc EXCEPT ![c] = p]
    PROVE  CacheOK' /\ \A u \in Transports : TransportOK(u)'
<1>1. TypeOK /\ CacheOK /\ TransportOK(t)
  BY DEF Inv
<1>2. CacheOK' /\ \A u \in Transports : Kept(u)
  BY <1>1, CacheSame
<1>3. \A d \in Clients : /\ held'[d] = IF d = c THEN t ELSE held[d]
                         /\ pc'[d] = IF d = c THEN p ELSE pc[d]
  BY <1>1 DEF TypeOK
<1>4. ASSUME NEW u \in Transports, u # t
      PROVE  Still(u)
  BY <1>3, <1>4 DEF Still, StillOpen, StillKnown, StillUsed, connection, close, use,
     Using
<1>5. TransportOK(t)'
  <2> DEFINE u == t
  <2> USE DEF connection, close, use
  <2>1. Status(u)'
    BY <1>1, <1>2, <1>3 DEF Status, TransportOK
  <2>2. Fresh(u)'
    BY <1>1, <1>2, <1>3 DEF Fresh, TransportOK, Kept, Fewer, NewPoints, OpenPoints
  <2>3. ClosedEntry(u)'
    BY <1>1, <1>2, <1>3 DEF ClosedEntry, TransportOK, Kept, Fewer, Using
  <2>4. IdleEntry(u)'
    BY <1>1, <1>2, <1>3 DEF IdleEntry, TransportOK, Kept, Fewer
  <2>5. OpenEntry(u)'
    BY <1>1, <1>2, <1>3 DEF OpenEntry, TransportOK, Kept, Fewer
  <2>6. BusyEntry(u)'
    BY <1>1, <1>2, <1>3 DEF BusyEntry, TransportOK, Kept, Fewer, Using
  <2> QED  BY <2>1, <2>2, <2>3, <2>4, <2>5, <2>6 DEF TransportOK
<1> QED  BY <1>2, <1>4, <1>5, OneOK

(* What find_i visits.                                                     *)
LEMMA FindFacts ==
    ASSUME CacheOK
    PROVE  /\ available # {} => Min(available) \in available
           /\ connecting # {} => Min(connecting) \in connecting
           /\ busy # {} => Min(busy) \in busy
           /\ \A i \in available \cup connecting \cup busy :
                 i \in Bound /\ cache_map[i].transport \in Transports
                 /\ has_entry(cache_map[i].transport)
<1>1. \A i \in Bound : i \in Nat /\ cache_map[i].transport \in Transports
                       /\ has_entry(cache_map[i].transport)
  BY DEF CacheOK, Entry, has_entry
<1>2. available \cup connecting \cup busy \subseteq Bound
  BY DEF available, connecting, busy, visited
<1>3. /\ available \in SUBSET Nat /\ connecting \in SUBSET Nat /\ busy \in SUBSET Nat
  BY <1>1, <1>2
<1> QED  BY <1>1, <1>2, <1>3, LeastExists

(* find_i gives out an entry that is connecting.                           *)
LEMMA FindConnectingOK ==
    ASSUME Inv, NEW c \in Clients, FindConnecting(c)
    PROVE  CacheOK' /\ \A u \in Transports : TransportOK(u)'
<1> DEFINE t == cache_map[Min(connecting)].transport
<1>1. t \in Transports /\ has_entry(t)
  BY FindFacts DEF FindConnecting, Inv
<1>2. /\ UNCHANGED <<cache, connection, close, use, idle_purged, doomed>>
      /\ pc[c] = "find" /\ pc' = [pc EXCEPT ![c] = "wait_shared"]
      /\ held' = [held EXCEPT ![c] = t]
  BY DEF FindConnecting, take, go
<1> QED  BY <1>1, <1>2, TakeOK

(* It gives out a busy one, or finds none.                                 *)
LEMMA FindBusyOrNoneOK ==
    ASSUME Inv, NEW c \in Clients, FindBusyOrNone(c)
    PROVE  CacheOK' /\ \A u \in Transports : TransportOK(u)'
<1>1. /\ UNCHANGED <<cache, connection, close, use, idle_purged, doomed>>
      /\ pc[c] = "find" /\ pc' = [pc EXCEPT ![c] = "purge"]
  BY DEF FindBusyOrNone, go
<1>2. CASE busy = {}
  <2>1. TypeOK /\ CacheOK /\ held' = [held EXCEPT ![c] = Nobody]
    BY <1>2 DEF FindBusyOrNone, take, Inv
  <2>2. \A d \in Clients : /\ held'[d] = IF d = c THEN Nobody ELSE held[d]
                           /\ pc'[d] = IF d = c THEN "purge" ELSE pc[d]
    BY <1>1, <2>1 DEF TypeOK
  <2>3. CacheOK' /\ \A u \in Transports : Kept(u)
    BY <1>1, <2>1, CacheSame
  <2>4. \A u \in Transports : Still(u)
    BY <1>1, <2>2, TransportCacheAssumption DEF Still, StillOpen, StillKnown, StillUsed,
       connection, close, use, Using
  <2> QED  BY <2>3, <2>4, AllOK
<1>3. CASE busy # {}
  <2> DEFINE t == cache_map[Min(busy)].transport
  <2>1. t \in Transports /\ has_entry(t)
    BY <1>3, FindFacts DEF Inv
  <2>2. held' = [held EXCEPT ![c] = t]
    BY <1>3 DEF FindBusyOrNone, take
  <2> QED  BY <1>1, <2>1, <2>2, TakeOK
<1> QED  BY <1>2, <1>3

(* find_i marks the entry it gives out as BUSY.                            *)
LEMMA FindAvailableOK ==
    ASSUME Inv, NEW c \in Clients, FindAvailable(c)
    PROVE  CacheOK' /\ \A u \in Transports : TransportOK(u)'
<1>1. TypeOK /\ CacheOK /\ \A u \in Transports : TransportOK(u)
  BY DEF Inv
<1>2. PICK i \in Bound, t \in Transports :
         /\ i = Min(available) /\ t = cache_map[i].transport
         /\ has_entry(t) /\ is_entry_available_i(cache_map[i])
  BY <1>1, FindFacts DEF FindAvailable, available
<1>3. /\ cache_map' = [cache_map EXCEPT ![i].recycle_state = "BUSY"]
      /\ held' = [held EXCEPT ![c] = t] /\ pc[c] = "find" /\ pc' = [pc EXCEPT ![c] = "check"]
      /\ UNCHANGED <<index, connection, close, use, idle_purged, doomed>>
  BY <1>2 DEF FindAvailable, available_taken, take, go
<1>4. /\ Bound' = Bound
      /\ \A j \in Bound : IF j = i THEN /\ cache_map'[j] \in Entry
                                        /\ cache_map'[j].transport = t
                                        /\ cache_map'[j].is_connected = cache_map[i].is_connected
                                        /\ cache_map'[j].recycle_state = "BUSY"
                          ELSE cache_map'[j] = cache_map[j] /\ cache_map[j] \in Entry
  <2>1. cache_map[i] \in Entry
    BY <1>1, <1>2 DEF CacheOK
  <2> DEFINE e == [cache_map[i] EXCEPT !.recycle_state = "BUSY"]
  <2>2. /\ e \in Entry /\ e.transport = t /\ e.is_connected = cache_map[i].is_connected
        /\ e.recycle_state = "BUSY"
    BY <1>2, <2>1 DEF Entry
  <2>3. cache_map' = [cache_map EXCEPT ![i] = e]
    BY <1>3
  <2> HIDE DEF e
  <2> QED  BY <1>1, <1>2, <2>2, <2>3 DEF CacheOK, Bound
<1>5. /\ CacheOK'
      /\ \A u \in Transports :
            /\ Fewer(u) /\ (Cached(u)' <=> Cached(u))
            /\ Cached(u) => EntryOf(u)' = cache_map'[cache_map_entry[u]]
  BY <1>1, <1>3, <1>4, EntriesChanged
<1>6. \A u \in Transports : Cached(u) => /\ cache_map_entry[u] \in Bound
                                         /\ cache_map[cache_map_entry[u]] = EntryOf(u)
                                         /\ EntryOf(u).transport = u
  BY <1>1, EntryFacts DEF EntryOf
<1>7. \A d \in Clients : /\ held'[d] = IF d = c THEN t ELSE held[d]
                         /\ pc'[d] = IF d = c THEN "check" ELSE pc[d]
  BY <1>1, <1>3 DEF TypeOK
<1>8. ASSUME NEW u \in Transports, u # t
      PROVE  Kept(u) /\ Still(u)
  <2>1. Kept(u)
    BY <1>2, <1>4, <1>5, <1>6, <1>8 DEF Kept
  <2>2. Still(u)
    BY <1>3, <1>7, <1>8 DEF Still, StillOpen, StillKnown, StillUsed, connection, close,
       use, Using
  <2> QED  BY <2>1, <2>2
<1>9. TransportOK(t)'
  <2> DEFINE u == t
  <2> USE DEF connection, close, use
  <2>8. Cached(t) => EntryOf(t)' = cache_map'[cache_map_entry[t]] /\ cache_map_entry[t] \in Bound
    BY <1>5, <1>6
  <2>9. Cached(t) /\ ~Loose(t) => cache_map_entry[t] = i
    BY <1>2 DEF Loose
  <2>7. Cached(t)' => Cached(t) /\ EntryOf(t)'.is_connected = EntryOf(t).is_connected
    BY <1>2, <1>4, <1>5, <1>6, <2>8
  <2>10. Cached(t) /\ EntryOf(t)'.recycle_state # "BUSY" =>
            EntryOf(t)'.recycle_state = EntryOf(t).recycle_state
    BY <1>4, <1>5, <1>6, <2>8
  <2>11. Cached(t) /\ ~Loose(t) => EntryOf(t).recycle_state = "IDLE_AND_PURGABLE"
    BY <1>2, <1>6, <2>9 DEF is_entry_available_i
  <2>1. Status(u)'
    BY <1>1, <1>2, <1>3, <1>5, <1>7, <2>7, <2>10, <2>11 DEF Status, TransportOK
  <2>2. Fresh(u)'
    BY <1>1, <1>2, <1>3, <1>5, <1>7, <2>7, <2>10, <2>11 DEF Fresh, TransportOK, Kept,
       Fewer, NewPoints, OpenPoints
  <2>3. ClosedEntry(u)'
    BY <1>1, <1>2, <1>3, <1>5, <1>7, <2>7, <2>10, <2>11 DEF ClosedEntry, Fresh,
       TransportOK, Kept, Fewer, Using
  <2>4. IdleEntry(u)'
    BY <1>1, <1>2, <1>3, <1>5, <1>7, <2>7, <2>10, <2>11 DEF IdleEntry, TransportOK,
       Kept, Fewer
  <2>5. OpenEntry(u)'
    BY <1>1, <1>2, <1>3, <1>5, <1>7, <2>7, <2>10, <2>11 DEF OpenEntry, TransportOK,
       Kept, Fewer
  <2>6. BusyEntry(u)'
    BY <1>1, <1>2, <1>3, <1>5, <1>7, <2>7, <2>10, <2>11 DEF BusyEntry, TransportOK,
       Kept, Fewer, Using
  <2> QED  BY <2>1, <2>2, <2>3, <2>4, <2>5, <2>6 DEF TransportOK
<1> QED  BY <1>5, <1>8, <1>9, OneOK

(* purge_idle_transports, under the lock.                                  *)
LEMMA IdleScanOK ==
    ASSUME Inv, IdleScan
    PROVE  CacheOK' /\ \A u \in Transports : TransportOK(u)'
<1>1. TypeOK /\ CacheOK /\ \A u \in Transports : TransportOK(u)
  BY DEF Inv
<1>2. PICK expired \in SUBSET {i \in purgable : is_idle(cache_map[i].transport)} :
         /\ purge_entries(expired)
         /\ idle_purged' = idle_purged \cup {cache_map[i].transport : i \in expired}
         /\ UNCHANGED <<connection, close, use, client>>
  BY DEF IdleScan
<1>3. /\ expired \in SUBSET Bound
      /\ \A i \in expired : active_requests[cache_map[i].transport] = 0
  BY <1>2 DEF purgable, is_idle
<1>4. /\ CacheOK' /\ \A u \in Transports : Kept(u)
      /\ \A i \in expired : cache_map_entry'[cache_map[i].transport] = NoEntry
  BY <1>1, <1>2, <1>3, EntriesPurged
<1>5. ASSUME NEW u \in Transports
      PROVE  TransportOK(u)'
  <2>1. CASE \E i \in expired : cache_map[i].transport = u
    <3>1. has_entry(u) /\ active_requests[u] = 0 /\ ~Cached(u)'
      BY <1>3, <1>4, <2>1 DEF has_entry, Cached
    <3>2. Status(u)'
      BY <1>1, <1>2 DEF Status, TransportOK, connection, close
    <3>3. Fresh(u)'
      BY <1>1, <1>2, <1>4, <3>1 DEF Fresh, TransportOK, Kept, Fewer, connection, close,
         client
    <3>4. IdleEntry(u)'
      BY <1>2, <3>1 DEF IdleEntry, use
    <3>5. ClosedEntry(u)' /\ OpenEntry(u)' /\ BusyEntry(u)'
      BY <3>1 DEF ClosedEntry, OpenEntry, BusyEntry
    <3> QED  BY <3>2, <3>3, <3>4, <3>5 DEF TransportOK
  <2>2. CASE ~\E i \in expired : cache_map[i].transport = u
    <3>1. Still(u)
      BY <1>2, <2>2 DEF Still, StillOpen, StillKnown, StillUsed, connection, close, use,
         client
    <3> QED  BY <1>1, <1>4, <3>1, StillOK
  <2> QED  BY <2>1, <2>2
<1> QED  BY <1>4, <1>5

(* purge marks what it will close as BUSY.                                 *)
LEMMA PurgeOK ==
    ASSUME Inv, NEW c \in Clients, Purge(c)
    PROVE  CacheOK' /\ \A u \in Transports : TransportOK(u)'
<1>1. TypeOK /\ CacheOK /\ (\A u \in Transports : TransportOK(u)) /\ doomed[c] = {}
  BY DEF Inv, Purge
<1>2. PICK is \in SUBSET purgable :
         /\ cache_map' = marked_busy(is)
         /\ doomed' = [doomed EXCEPT ![c] = {cache_map[i].transport : i \in is}]
  BY DEF Purge, kSubset
<1>3. /\ is \in SUBSET Bound
      /\ \A i \in is : cache_map[i].recycle_state = "IDLE_AND_PURGABLE"
  BY <1>2 DEF purgable, is_entry_purgable_i
<1>4. /\ Bound' = Bound
      /\ \A i \in Bound :
            /\ cache_map'[i] \in Entry
            /\ cache_map'[i].transport = cache_map[i].transport
            /\ cache_map'[i].is_connected = cache_map[i].is_connected
            /\ i \notin is => cache_map'[i] = cache_map[i]
            /\ i \in is => cache_map'[i].recycle_state = "BUSY"
  <2>1. \A i \in Bound :
           cache_map'[i] = IF i \in is THEN [cache_map[i] EXCEPT !.recycle_state = "BUSY"]
                           ELSE cache_map[i]
    BY <1>2 DEF marked_busy
  <2>2. \A e \in Entry :
           LET x == [e EXCEPT !.recycle_state = "BUSY"]
           IN  /\ x \in Entry /\ x.transport = e.transport
               /\ x.is_connected = e.is_connected /\ x.recycle_state = "BUSY"
    BY DEF Entry
  <2>3. Bound' = Bound
    BY <1>2 DEF marked_busy, Bound
  <2>4. ASSUME NEW i \in Bound
        PROVE  /\ cache_map'[i] \in Entry
               /\ cache_map'[i].transport = cache_map[i].transport
               /\ cache_map'[i].is_connected = cache_map[i].is_connected
               /\ i \notin is => cache_map'[i] = cache_map[i]
               /\ i \in is => cache_map'[i].recycle_state = "BUSY"
    <3>1. cache_map[i] \in Entry
      BY <1>1 DEF CacheOK
    <3> QED  BY <2>1, <2>2, <3>1
  <2> QED  BY <2>3, <2>4
<1>5. /\ UNCHANGED <<index, connection, close, use, idle_purged, held>>
      /\ pc[c] = "purge" /\ pc' = [pc EXCEPT ![c] = "purging"]
  BY DEF Purge, go
<1>6. /\ CacheOK'
      /\ \A u \in Transports :
            /\ Fewer(u) /\ (Cached(u)' <=> Cached(u))
            /\ Cached(u) => EntryOf(u)' = cache_map'[cache_map_entry[u]]
  BY <1>1, <1>4, <1>5, EntriesChanged
<1>7. /\ \A d \in Clients : pc'[d] = IF d = c THEN "purging" ELSE pc[d]
      /\ \A d \in Clients : d # c => doomed'[d] = doomed[d]
      /\ \A u \in Transports : u \in doomed'[c] <=> \E i \in is : cache_map[i].transport = u
  BY <1>1, <1>2, <1>5 DEF TypeOK
<1>8. ASSUME NEW u \in Transports
      PROVE  TransportOK(u)'
  <2>1. u \in doomed'[c] => has_entry(u)
    BY <1>3, <1>7 DEF has_entry
  <2>2. Cached(u) => /\ EntryOf(u)'.is_connected = EntryOf(u).is_connected
                     /\ \/ EntryOf(u)' = EntryOf(u)
                        \/ /\ EntryOf(u).recycle_state = "IDLE_AND_PURGABLE"
                           /\ EntryOf(u)'.recycle_state = "BUSY"
                           /\ u \in doomed'[c]
    <3> SUFFICES ASSUME Cached(u)
                 PROVE  /\ EntryOf(u)'.is_connected = EntryOf(u).is_connected
                        /\ \/ EntryOf(u)' = EntryOf(u)
                           \/ /\ EntryOf(u).recycle_state = "IDLE_AND_PURGABLE"
                              /\ EntryOf(u)'.recycle_state = "BUSY"
                              /\ u \in doomed'[c]
      OBVIOUS
    <3>1. /\ cache_map_entry[u] \in Bound /\ EntryOf(u) = cache_map[cache_map_entry[u]]
          /\ EntryOf(u).transport = u /\ EntryOf(u)' = cache_map'[cache_map_entry[u]]
      BY <1>1, <1>6, EntryFacts DEF EntryOf
    <3>2. CASE cache_map_entry[u] \in is
      <4>1. u \in doomed'[c]
        BY <1>7, <3>1, <3>2
      <4> QED  BY <1>3, <1>4, <3>1, <3>2, <4>1
    <3>3. CASE cache_map_entry[u] \notin is
      BY <1>4, <3>1, <3>3
    <3> QED  BY <3>2, <3>3
  <2>3. Status(u)'
    BY <1>1, <1>5 DEF Status, TransportOK, connection, close
  <2>4. Fresh(u)'
    BY <1>1, <1>5, <1>6, <1>7, <2>1 DEF Fresh, TransportOK, Fewer, connection, close
  <2>5. ClosedEntry(u)'
    BY <1>1, <1>5, <1>6, <1>7, <2>2 DEF ClosedEntry, TransportOK, Using, connection,
       close
  <2>6. IdleEntry(u)'
    BY <1>1, <1>5, <1>6 DEF IdleEntry, TransportOK, close, use
  <2>7. OpenEntry(u)'
    BY <1>1, <1>5, <1>6, <2>2 DEF OpenEntry, TransportOK, connection
  <2>8. BusyEntry(u)'
    BY <1>1, <1>5, <1>6, <1>7, <2>2 DEF BusyEntry, TransportOK, Using, connection
  <2> QED  BY <2>3, <2>4, <2>5, <2>6, <2>7, <2>8 DEF TransportOK
<1> QED  BY <1>6, <1>8

-----------------------------------------------------------------------------
(* Types.                                                                  *)

(* TypeOK of all but the cache, of which CacheOK says it.                  *)
ConnectionTypes ==
    /\ is_connected \in [Transports -> BOOLEAN]
    /\ is_closed \in [Transports -> BOOLEAN]
    /\ event \in [Transports -> Events]
    /\ is_registered \in [Transports -> BOOLEAN]
    /\ phase \in [Transports -> Phases]
    /\ closing \in [Transports -> ClosingSteps]
    /\ closer \in [Transports -> Clients \cup {Reactor, Nobody}]

UseTypes ==
    /\ active_requests \in [Transports -> Nat]
    /\ dispatchers \in [Transports -> SUBSET Clients]
    /\ idle_purged \subseteq Transports

ClientTypes ==
    /\ pc \in [Clients -> Points]
    /\ held \in [Clients -> Transports \cup {Nobody}]
    /\ make_new \in [Clients -> BOOLEAN]
    /\ doomed \in [Clients -> SUBSET Transports]

RestTypes == ConnectionTypes /\ UseTypes /\ ClientTypes

(* TypeOK is what CacheOK says of the cache and RestTypes of the rest.     *)
LEMMA TypeParts ==
    /\ TypeOK => RestTypes
    /\ RestTypes /\ CacheOK => TypeOK
    /\ RestTypes' /\ CacheOK' => TypeOK'
  BY DEF TypeOK, RestTypes, ConnectionTypes, UseTypes, ClientTypes, CacheOK, Bound

(* close_connection_eh.                                                    *)
LEMMA CloseTypes ==
    ASSUME ConnectionTypes, NEW t \in Transports, NEW by \in Clients \cup {Reactor},
           close_connection(t, by), UNCHANGED <<event, is_registered, phase>>
    PROVE  ConnectionTypes'
  BY DEF ConnectionTypes, close_connection, ClosingSteps

(* Connections, requests and replies.                                      *)
LEMMA ConnectionStepTypes ==
    ASSUME Inv, NEW t \in Transports, ConnectionStep(t)
    PROVE  RestTypes'
<1>1. TypeOK /\ RestTypes /\ ConnectionTypes /\ UseTypes /\ ClientTypes
  BY TypeParts DEF Inv, RestTypes
<1>2. CASE CloseMark(t) \/ ClosePurge(t)
  <2>1. PICK s \in ClosingSteps : closing' = [closing EXCEPT ![t] = s]
    BY <1>2 DEF CloseMark, ClosePurge, ClosingSteps
  <2>2. UNCHANGED <<connection, closer, use, idle_purged, client>>
    BY <1>2 DEF CloseMark, ClosePurge
  <2>3. ConnectionTypes'
    BY <1>1, <2>1, <2>2 DEF ConnectionTypes, connection
  <2>4. UseTypes' /\ ClientTypes'
    BY <1>1, <2>2 DEF UseTypes, ClientTypes, use, client
  <2> QED  BY <2>3, <2>4 DEF RestTypes
<1>3. CASE CloseNotify(t) \/ OpenedSignal(t) \/ ConnectFails(t)
  <2>1. event' \in [Transports -> Events]
    BY <1>1, <1>3, EventChanged DEF CloseNotify, OpenedSignal, ConnectFails
  <2>2. UseTypes' /\ ClientTypes'
    BY <1>1, <1>3 DEF CloseNotify, OpenedSignal, ConnectFails, UseTypes, ClientTypes,
       use, client
  <2>3. CASE CloseNotify(t)
    BY <1>1, <2>1, <2>2, <2>3 DEF CloseNotify, RestTypes, ConnectionTypes, ClosingSteps
  <2>4. CASE OpenedSignal(t)
    BY <1>1, <2>1, <2>2, <2>4 DEF OpenedSignal, RestTypes, ConnectionTypes, close,
       Phases
  <2>5. CASE ConnectFails(t)
    BY <1>1, <2>1, <2>2, <2>5 DEF ConnectFails, RestTypes, ConnectionTypes, close,
       Phases
  <2> QED  BY <1>3, <2>3, <2>4, <2>5
<1>4. CASE Opened(t) \/ OpenedMark(t) \/ OpenedIdle(t) \/ ConnectFailsPurge(t)
  BY <1>1, <1>4 DEF Opened, OpenedMark, OpenedIdle, ConnectFailsPurge, RestTypes,
     ConnectionTypes, UseTypes, ClientTypes, close, use, client, Phases
<1>5. CASE PeerCloses(t) \/ RequestRefused(t) \/ IdleClose(t)
  <2>1. close_connection(t, Reactor) /\ UNCHANGED <<event, is_registered, phase>>
    BY <1>5 DEF PeerCloses, RequestRefused, IdleClose
  <2>2. UseTypes' /\ ClientTypes'
    BY <1>1, <1>5 DEF PeerCloses, RequestRefused, IdleClose, UseTypes, ClientTypes, use,
       client
  <2> QED  BY <1>1, <2>1, <2>2, CloseTypes DEF RestTypes
<1>6. CASE RequestBegins(t) \/ RequestEnds(t) \/ \E c \in Clients : ReplyArrives(t, c)
  <2>1. ConnectionTypes' /\ ClientTypes'
    BY <1>1, <1>6 DEF RequestBegins, RequestEnds, ReplyArrives, ConnectionTypes,
       ClientTypes,
       connection, close, client
  <2>2. UseTypes'
    BY <1>1, <1>6 DEF RequestBegins, RequestEnds, ReplyArrives, UseTypes
  <2> QED  BY <2>1, <2>2 DEF RestTypes
<1> QED  BY <1>2, <1>3, <1>4, <1>5, <1>6 DEF ConnectionStep

(* A client that looks for a transport.                                    *)
LEMMA ConnectTypes ==
    ASSUME Inv, NEW c \in Clients, Connect(c)
    PROVE  RestTypes'
<1>1. TypeOK /\ CacheOK /\ ConnectionTypes /\ UseTypes /\ ClientTypes
  BY TypeParts DEF Inv, RestTypes
<1>2. ConnectionTypes' /\ UseTypes'
  BY <1>1 DEF Connect, Invoke, FindAvailable, FindConnecting, FindBusyOrNone, Purge,
     PurgeEnds,
     MakeFails, ConnectionTypes, UseTypes, connection, close, use
<1>3. CASE Invoke(c) \/ PurgeEnds(c) \/ MakeFails(c)
  <2>1. PICK p \in {"find", "make", "wait_busy", "idle"} : pc' = [pc EXCEPT ![c] = p]
    BY <1>3 DEF Invoke, PurgeEnds, MakeFails, give_up, go
  <2>2. held' \in [Clients -> Transports \cup {Nobody}]
    BY <1>1, <1>3 DEF Invoke, PurgeEnds, MakeFails, ClientTypes, give_up, take
  <2>3. make_new' \in [Clients -> BOOLEAN] /\ doomed' = doomed
    BY <1>1, <1>3 DEF Invoke, PurgeEnds, MakeFails, ClientTypes
  <2> QED  BY <1>1, <1>2, <2>1, <2>2, <2>3 DEF ClientTypes, RestTypes, Points
<1>4. CASE FindAvailable(c) \/ FindConnecting(c) \/ FindBusyOrNone(c)
  <2>1. PICK t \in Transports \cup {Nobody} : held' = [held EXCEPT ![c] = t]
    BY <1>1, <1>4, FindFacts DEF FindAvailable, FindConnecting, FindBusyOrNone, take
  <2>2. PICK p \in {"check", "wait_shared", "purge"} : pc' = [pc EXCEPT ![c] = p]
    BY <1>4 DEF FindAvailable, FindConnecting, FindBusyOrNone, go
  <2>3. make_new' \in [Clients -> BOOLEAN] /\ doomed' = doomed
    BY <1>1, <1>4 DEF FindAvailable, FindConnecting, FindBusyOrNone, ClientTypes,
       new_connection_is_ok
  <2> QED  BY <1>1, <2>1, <2>2, <2>3, <1>2 DEF ClientTypes, RestTypes, Points
<1>5. CASE Purge(c)
  <2>1. PICK is \in SUBSET purgable :
           doomed' = [doomed EXCEPT ![c] = {cache_map[i].transport : i \in is}]
    BY <1>5 DEF Purge, kSubset
  <2>2. {cache_map[i].transport : i \in is} \subseteq Transports
    BY <1>1 DEF purgable, CacheOK, Entry
  <2> QED  BY <1>1, <1>2, <1>5, <2>1, <2>2 DEF Purge, ClientTypes, RestTypes, go, Points
<1> QED  BY <1>2, <1>3, <1>4, <1>5 DEF Connect, RestTypes


(* The client's own fields, where it goes from a point to another.         *)
LEMMA MoveTypes ==
    ASSUME ClientTypes, NEW c \in Clients, NEW t \in Transports, NEW p \in Points,
           go(c, p), UNCHANGED held \/ take(c, t) \/ take(c, Nobody),
           UNCHANGED <<make_new, doomed>>
    PROVE  ClientTypes'
  BY DEF ClientTypes, go, take

(* A client that uses a transport.                                         *)
LEMMA UseClientTypes ==
    ASSUME ClientTypes, NEW c \in Clients, NEW t \in Transports, Use(c, t)
    PROVE  ClientTypes'
<1>1. CASE PurgeCloses(c, t)
  BY <1>1 DEF PurgeCloses, ClientTypes
<1>2. CASE ~PurgeCloses(c, t)
  <2>1. \E p \in Points : go(c, p)
    BY <1>2 DEF Use, Points, go, give_up, WaitsFor, AfterTimeout, CheckError,
       CheckPasses, Drop, CheckConnected, Reuse, Rebind, Cleanup, WaitExpires,
       MakeAtOnce, MakePending, CacheNew, Complete, WaitNewEnds, Verify, Send,
       SendFails, Failed, IdleAfterSend, Returns, BindNew, WaitTimedOut, WaitFails,
       WaitSucceeds, WaitBegins
  <2>2. UNCHANGED held \/ take(c, t) \/ take(c, Nobody)
    BY <1>2 DEF Use, take, give_up, CheckError, CheckPasses, Drop, CheckConnected,
       Reuse, Rebind, Cleanup, WaitExpires, MakeAtOnce, MakePending, CacheNew,
       Complete, WaitNewEnds, Verify, Send, SendFails, Failed, IdleAfterSend,
       Returns, BindNew, WaitTimedOut, WaitFails, WaitSucceeds, WaitBegins
  <2>3. UNCHANGED <<make_new, doomed>>
    BY <1>2 DEF Use, CheckError, CheckPasses, Drop, CheckConnected, Reuse, Rebind,
       Cleanup, WaitExpires, MakeAtOnce, MakePending, CacheNew, Complete,
       WaitNewEnds, Verify, Send, SendFails, Failed, IdleAfterSend, Returns,
       BindNew, WaitTimedOut, WaitFails, WaitSucceeds, WaitBegins
  <2> QED  BY <2>1, <2>2, <2>3, MoveTypes
<1> QED  BY <1>1, <1>2

(* The same step, and all that TypeOK says but for the cache.              *)
LEMMA UseStepTypes ==
    ASSUME Inv, NEW c \in Clients, NEW t \in Transports, Use(c, t)
    PROVE  RestTypes'
<1>1. TypeOK /\ ConnectionTypes /\ UseTypes /\ ClientTypes'
  BY TypeParts, UseClientTypes DEF Inv, RestTypes
<1>2. UseTypes'
  BY <1>1 DEF Use, UseTypes, use, CheckError, CheckPasses, Drop, CheckConnected,
     Reuse, Rebind, Cleanup, WaitExpires, PurgeCloses, MakeAtOnce, MakePending,
     CacheNew, Complete, WaitNewEnds, Verify, Send, SendFails, Failed,
     IdleAfterSend, Returns, BindNew, WaitTimedOut, WaitFails, WaitSucceeds,
     WaitBegins
<1>3. CASE \/ CheckError(c, t)
           \/ Cleanup(c, t)
           \/ SendFails(c, t)
           \/ \E point \in {"wait_shared", "wait_busy"} : WaitFails(c, t, point)
           \/ PurgeCloses(c, t)
  <2>1. close_connection(t, c) /\ UNCHANGED <<event, is_registered, phase>>
    BY <1>3 DEF CheckError, Cleanup, SendFails, WaitFails, PurgeCloses
  <2> QED  BY <1>1, <1>2, <2>1, CloseTypes DEF RestTypes
<1>4. CASE \/ Rebind(c, t)
           \/ Verify(c, t)
           \/ \E point \in {"wait_shared", "wait_busy"} : WaitSucceeds(c, t, point)
  <2>1. UNCHANGED is_registered \/ register_if_necessary(t)
    BY <1>4 DEF Rebind, Verify, WaitSucceeds
  <2>2. UNCHANGED <<is_connected, is_closed, event, phase, close>>
    BY <1>4 DEF Rebind, Verify, WaitSucceeds
  <2> QED
    BY <1>1, <1>2, <2>1, <2>2 DEF RestTypes, ConnectionTypes, register_if_necessary,
       close
<1>5. CASE WaitExpires(c, t)
  BY <1>1, <1>2, <1>5 DEF WaitExpires, set_state, Events, RestTypes, ConnectionTypes,
     close
<1>6. CASE MakeAtOnce(c, t) \/ MakePending(c, t) \/ CacheNew(c, t)
  <2>1. event' \in [Transports -> Events]
    BY <1>1, <1>6, EventChanged DEF MakeAtOnce, MakePending, CacheNew, ConnectionTypes
  <2>2. is_closed' \in [Transports -> BOOLEAN] /\ is_connected' \in [Transports -> BOOLEAN]
    BY <1>1, <1>6 DEF MakeAtOnce, MakePending, CacheNew, ConnectionTypes
  <2>3. phase' \in [Transports -> Phases] /\ UNCHANGED <<is_registered, close>>
    BY <1>1, <1>6 DEF MakeAtOnce, MakePending, CacheNew, ConnectionTypes, Phases
  <2> QED  BY <1>1, <1>2, <2>1, <2>2, <2>3 DEF RestTypes, ConnectionTypes, close
<1>7. CASE \/ CheckPasses(c, t)
           \/ Drop(c, t)
           \/ CheckConnected(c, t)
           \/ Reuse(c, t)
           \/ Complete(c, t)
           \/ WaitNewEnds(c, t)
           \/ Send(c, t)
           \/ Failed(c, t)
           \/ IdleAfterSend(c, t)
           \/ Returns(c, t)
           \/ \E point \in {"bind_open", "bind_connecting"} : BindNew(c, t, point)
           \/ \E point \in {"wait_shared", "wait_busy"} : WaitTimedOut(c, t, point)
           \/ \E point \in {"wait_shared", "wait_busy"} : WaitBegins(c, t, point)
  <2>1. UNCHANGED <<connection, close>>
    BY <1>7 DEF CheckPasses, Drop, CheckConnected, Reuse, Complete, WaitNewEnds,
       Send, Failed, IdleAfterSend, Returns, BindNew, WaitTimedOut, WaitBegins
  <2> QED  BY <1>1, <1>2, <2>1 DEF RestTypes, ConnectionTypes, connection, close
<1> QED  BY <1>3, <1>4, <1>5, <1>6, <1>7 DEF Use

-----------------------------------------------------------------------------
(* The invariant.                                                          *)

Doomed == \A c \in Clients : pc[c] # "purging" => doomed[c] = {}

(* A client leaves purge when it has closed all that it had to close.      *)
LEMMA DoomedNext ==
    ASSUME Inv, Next
    PROVE  Doomed'
<1>1. TypeOK /\ Doomed
  BY DEF Inv, Doomed
<1>2. CASE IdleScan \/ \E t \in Transports : ConnectionStep(t)
  <2>1. UNCHANGED <<pc, doomed>>
    BY <1>2 DEF IdleScan, ConnectionStep, CloseMark, ClosePurge, CloseNotify, Opened,
       OpenedMark, OpenedIdle, OpenedSignal, ConnectFails, ConnectFailsPurge, PeerCloses,
       RequestBegins, RequestRefused, RequestEnds, ReplyArrives, IdleClose, client
  <2> QED  BY <1>1, <2>1 DEF Doomed
<1>3. ASSUME NEW c \in Clients, Connect(c)
      PROVE  Doomed'
  <2>1. CASE Purge(c)
    <3>1. \A d \in Clients : pc'[d] = IF d = c THEN "purging" ELSE pc[d]
      BY <1>1, <2>1 DEF Purge, go, TypeOK
    <3>2. \A d \in Clients : d # c => doomed'[d] = doomed[d]
      BY <1>1, <2>1 DEF Purge, TypeOK
    <3> QED  BY <1>1, <3>1, <3>2 DEF Doomed
  <2>2. CASE PurgeEnds(c)
    BY <1>1, <2>2 DEF PurgeEnds, go, Doomed, TypeOK
  <2>3. CASE ~Purge(c) /\ ~PurgeEnds(c)
    <3>1. doomed' = doomed /\ pc[c] # "purging" /\ \E p : pc' = [pc EXCEPT ![c] = p]
      BY <1>3, <2>3 DEF Connect, Invoke, FindAvailable, FindConnecting, FindBusyOrNone,
         MakeFails, give_up, go
    <3> QED  BY <1>1, <3>1 DEF Doomed, TypeOK
  <2> QED  BY <2>1, <2>2, <2>3
<1>4. ASSUME NEW c \in Clients, NEW t \in Transports, Use(c, t)
      PROVE  Doomed'
  <2>1. CASE PurgeCloses(c, t)
    BY <1>1, <2>1 DEF PurgeCloses, Doomed, TypeOK
  <2>2. CASE ~PurgeCloses(c, t)
    <3>1. doomed' = doomed /\ pc[c] # "purging" /\ \E p : pc' = [pc EXCEPT ![c] = p]
      BY <1>4, <2>2 DEF Use, At, go, give_up, WaitsFor, AfterTimeout, CheckError,
         CheckPasses,
         Drop, CheckConnected, Reuse, Rebind, BindNew, Cleanup, WaitTimedOut, WaitFails,
         WaitSucceeds, WaitBegins, WaitExpires, MakeAtOnce, MakePending, CacheNew, Complete,
         WaitNewEnds, Verify, Send, SendFails, Failed, IdleAfterSend, Returns
    <3> QED  BY <1>1, <3>1 DEF Doomed, TypeOK
  <2> QED  BY <2>1, <2>2
<1> QED  BY <1>2, <1>3, <1>4 DEF Next

(* Every step keeps the cache and each transport as Inv has them.          *)
LEMMA TransportsNext ==
    ASSUME Inv, Next
    PROVE  CacheOK' /\ \A u \in Transports : TransportOK(u)'
<1>1. ASSUME NEW t \in Transports, ConnectionStep(t)
      PROVE  CacheOK' /\ \A u \in Transports : TransportOK(u)'
  BY <1>1, CloseMarkOK, ClosePurgeOK, CloseNotifyOK, OpenedOK, OpenedMarkOK,
     OpenedIdleOK,
     OpenedSignalOK, ConnectFailsOK, ConnectFailsPurgeOK, RequestBeginsOK, RequestOK
     DEF ConnectionStep
<1>2. ASSUME NEW c \in Clients, Connect(c)
      PROVE  CacheOK' /\ \A u \in Transports : TransportOK(u)'
  BY <1>2, ConnectOK, FindAvailableOK, FindConnectingOK, FindBusyOrNoneOK, PurgeOK DEF
     Connect
<1>3. ASSUME NEW c \in Clients, NEW t \in Transports, Use(c, t)
      PROVE  CacheOK' /\ \A u \in Transports : TransportOK(u)'
  BY <1>3, CheckOK, WaitOK, NewOK, SendOK, RebindOK, BindNewOK, CacheNewOK,
     MakeAtOnceOK,
     MakePendingOK, FailedOK, IdleAfterSendOK DEF Use
<1> QED  BY <1>1, <1>2, <1>3, IdleScanOK DEF Next

(* Every step keeps Inv, and so does a stutter.                            *)
LEMMA InvNext == Inv /\ [Next]_vars => Inv'
<1>1. ASSUME Inv, Next
      PROVE  Inv'
  <2>1. RestTypes'
    <3>1. CASE IdleScan
      <4>1. TypeOK /\ CacheOK
        BY <1>1 DEF Inv
      <4>2. idle_purged' \subseteq Transports
        BY <3>1, <4>1 DEF IdleScan, TypeOK, CacheOK, Entry, purgable
      <4>3. UNCHANGED <<connection, close, use, client>>
        BY <3>1 DEF IdleScan
      <4> QED
        BY <4>1, <4>2, <4>3 DEF TypeOK, RestTypes, ConnectionTypes, UseTypes,
           ClientTypes,
           connection, close, use, client
    <3> QED  BY <1>1, <3>1, ConnectionStepTypes, ConnectTypes, UseStepTypes DEF Next
  <2> QED  BY <1>1, <2>1, TypeParts, DoomedNext, TransportsNext DEF Inv, Doomed
<1>2. ASSUME Inv, UNCHANGED vars
      PROVE  Inv'
  BY <1>2 DEF Inv, vars, cache, index, connection, close, use, client, TypeOK, CacheOK,
     PointersOwn,
     TransportOK, Status, Fresh, ClosedEntry, IdleEntry, OpenEntry, BusyEntry, Cached, EntryOf,
     Bound, has_entry, Loose
<1> QED  BY <1>1, <1>2

(* The cache is empty at first, and no transport is made.                  *)
LEMMA InitInv == Init => Inv
<1> SUFFICES ASSUME Init PROVE Inv
  OBVIOUS
<1>1. Bound = {}
  BY DEF Init, Bound
<1>2. \A t \in Transports : ~Cached(t) /\ ~has_entry(t) /\ ~Loose(t)
  BY <1>1 DEF Init, Cached, has_entry, Loose
<1>3. CacheOK
  BY <1>1, <1>2, FS_EmptySet DEF CacheOK, PointersOwn, Init
<1>4. RestTypes
  BY DEF Init, RestTypes, ConnectionTypes, UseTypes, ClientTypes, Events, Phases,
     ClosingSteps, Points
<1>5. ASSUME NEW t \in Transports
      PROVE  TransportOK(t)
  <2>1. Fresh(t)
    BY <1>2, TransportCacheAssumption DEF Init, Fresh
  <2> QED
    BY <1>2, <2>1 DEF Init, TransportOK, Status, ClosedEntry, IdleEntry, OpenEntry,
       BusyEntry
<1>6. \A c \in Clients : doomed[c] = {}
  BY DEF Init
<1> QED  BY <1>3, <1>4, <1>5, <1>6, TypeParts DEF Inv

(* Inv is an invariant of the cache, its clients and the reactor.          *)
THEOREM InvHolds == Spec => []Inv
  BY InitInv, InvNext, PTL DEF Spec

(* Every variable has its type.                                            *)
THEOREM TypeCorrect == Spec => []TypeOK
<1>1. Inv => TypeOK
  BY DEF Inv
<1> QED  BY <1>1, InvHolds, PTL

(* The pointer of every transport leads to its own entry: what marks,      *)
(* makes idle or purges through it touches no other's (PointersTrue).      *)
THEOREM PointersAreTrue == Spec => []PointersTrue
<1>1. Inv => PointersTrue
  <2> SUFFICES ASSUME Inv PROVE PointersTrue
    OBVIOUS
  <2>1. CacheOK /\ \A t \in Transports : Status(t) /\ Fresh(t)
    BY DEF Inv, TransportOK
  <2>2. \A i \in Bound : cache_map[i].transport \in Transports
    BY <2>1 DEF CacheOK, Entry
  <2>3. ASSUME NEW i \in Bound, ~is_closed[cache_map[i].transport]
        PROVE  cache_map_entry[cache_map[i].transport] = i
    BY <2>1, <2>2, <2>3 DEF Status, Fresh, Loose
  <2> QED  BY <2>1, <2>3 DEF CacheOK, PointersOwn, PointersTrue
<1> QED  BY <1>1, InvHolds, PTL

(* No entry stays BUSY without a client that will make it idle or purge it *)
(* (BusyHasOwner), on any path through connect and the invocation.         *)
THEOREM BusyEntriesHaveOwners == Spec => []BusyHasOwner
<1>1. Inv => BusyHasOwner
  BY DEF Inv, TransportOK, BusyEntry, BusyHasOwner
<1> QED  BY <1>1, InvHolds, PTL

(* The entry of an open connection says that it is connected, whoever of   *)
(* cache_transport and post_open came first (EntryKnowsConnection).        *)
THEOREM EntriesKnowConnections == Spec => []EntryKnowsConnection
<1>1. Inv => EntryKnowsConnection
  BY DEF Inv, TransportOK, OpenEntry, EntryKnowsConnection
<1> QED  BY <1>1, InvHolds, PTL

(* Once a transport's closing has purged its entry, no entry of it is      *)
(* available if it never had two at once, even where a client binds it     *)
(* again; if it had, the entry its pointer leads to is not available       *)
(* (ClosedNotAvailable).                                                   *)
THEOREM ClosedAreNotAvailable == Spec => []ClosedNotAvailable
<1>1. Inv => ClosedNotAvailable
  <2> SUFFICES ASSUME Inv, NEW i \in Bound, NEW t, t = cache_map[i].transport,
                      closing[t] \in {"notify", "done"},
                      cache_map_entry[t] = i \/ t \notin bound_twice
               PROVE  ~is_entry_available_i(cache_map[i])
    BY DEF ClosedNotAvailable
  <2>1. t \in Transports /\ i \in Nat
    BY DEF Inv, CacheOK, Entry
  <2>2. cache_map_entry[t] = i
    BY <2>1 DEF Inv, TransportOK, Fresh, Loose
  <2>3. Cached(t) /\ EntryOf(t) = cache_map[i]
    BY <2>1, <2>2, SMT DEF Cached, NoEntry, EntryOf
  <2> QED  BY <2>1, <2>3 DEF Inv, TransportOK, ClosedEntry, is_entry_available_i
<1> QED  BY <1>1, InvHolds, PTL

(* The idle scanner closes no connection on which a request is processed   *)
(* (IdleCloseNoRequest).                                                   *)
THEOREM IdleCloseSparesRequests == Spec => []IdleCloseNoRequest
<1>1. Inv => IdleCloseNoRequest
  BY DEF Inv, TypeOK, TransportOK, IdleEntry, IdleCloseNoRequest
<1> QED  BY <1>1, InvHolds, PTL

=============================================================================
