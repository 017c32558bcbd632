--------------------------- MODULE TransportCache ---------------------------
(***************************************************************************)
(* TAO's cache of connections (class Transport_Cache_Manager_T) and what   *)
(* reads and writes it: the client threads in TAO_Connector::connect       *)
(* (Transport_Connector.cpp) and in an invocation, the reactor's threads   *)
(* that complete, serve and close connections (Transport.cpp,              *)
(* Connection_Handler.cpp), and the timer that closes idle ones.           *)
(*                                                                         *)
(* All client threads call the same endpoint, so that a key of the cache   *)
(* is its index.  What runs under the cache lock is one action; between    *)
(* two such regions the other threads may run.  A transport and its        *)
(* connection handler are one element of Transports.                       *)
(***************************************************************************)
EXTENDS Integers, FiniteSets, FiniteSetsExt

CONSTANTS
    Clients,                \* client threads
    Transports,             \* transports, each of which is connected once
    Nobody,                 \* no transport, no thread
    Reactor,                \* a thread of the reactor, the idle timer's included
    CacheMaximum,           \* -ORBConnectionCacheMax
    PurgePercentage,        \* -ORBConnectionCachePurgePercentage
    MuxedConnectionMax      \* -ORBMuxedConnectionMax, 0 is no limit

ASSUME TransportCacheAssumption ==
    /\ IsFiniteSet(Transports)
    /\ Nobody \notin Clients \cup Transports \cup {Reactor}
    /\ Reactor \notin Clients
    /\ CacheMaximum \in Nat \ {0}
    /\ PurgePercentage \in 0 .. 100
    /\ MuxedConnectionMax \in Nat

VARIABLES
    cache_map,          \* cache_map_: from the bound indices to entries
    cache_map_entry,    \* cache_map_entry_ of each transport, or NoEntry
    bound_twice,        \* history: transports that have had two entries at once
    is_connected,       \* is_connected_ of each transport
    is_closed,          \* is_closed_ of each handler
    event,              \* state_ and prev_state_ of each handler, an LF_CH_Event
    is_registered,      \* the handler is in the reactor
    phase,              \* how far a transport is in connecting
    closing,            \* how far close_connection_eh is
    closer,             \* the thread in close_connection_eh, or Nobody
    active_requests,    \* active_requests_ of each transport
    dispatchers,        \* tms_->dispatcher_table_: clients that expect a reply
    idle_purged,        \* transports that the idle scanner has still to close
    pc,                 \* where a client is
    held,               \* the transport a client has a reference to, or Nobody
    make_new,           \* make_new_connection of a client in connect
    doomed              \* transports_to_be_closed of a client in purge

index == <<cache_map_entry, bound_twice>>
cache == <<cache_map, index>>
connection == <<is_connected, is_closed, event, is_registered, phase>>
close == <<closing, closer>>
use == <<active_requests, dispatchers>>
client == <<pc, held, make_new, doomed>>
vars == <<cache, connection, close, use, idle_purged, client>>

NoEntry == -1

Events == [state : {"WAIT", "SUCCESS", "TIMEOUT", "CLOSED"},
           prev : {"IDLE", "WAIT", "SUCCESS"}]

Phases == {"unused", "pending", "marking", "idling", "signalling", "open",
           "failing", "failed"}
ClosingSteps == {"no", "mark", "purge", "notify", "done"}

Entry == [transport : Transports, is_connected : BOOLEAN,
          recycle_state : {"IDLE_AND_PURGABLE", "BUSY", "CONNECTING"}]

Points == {"idle", "find", "check", "check_connected", "drop",
           "rebind",
           "cleanup", "wait_shared", "waiting_shared", "wait_busy",
           "waiting_busy", "purge", "purging", "make", "complete", "cache",
           "bind_open", "bind_connecting", "wait_new", "verify",
           "got", "sent", "failed", "reply"}

TypeOK ==
    /\ \A i \in DOMAIN cache_map : i \in Nat /\ cache_map[i] \in Entry
    /\ cache_map_entry \in [Transports -> Nat \cup {NoEntry}]
    /\ bound_twice \subseteq Transports
    /\ is_connected \in [Transports -> BOOLEAN]
    /\ is_closed \in [Transports -> BOOLEAN]
    /\ event \in [Transports -> Events]
    /\ is_registered \in [Transports -> BOOLEAN]
    /\ phase \in [Transports -> Phases]
    /\ closing \in [Transports -> ClosingSteps]
    /\ closer \in [Transports -> Clients \cup {Reactor, Nobody}]
    /\ active_requests \in [Transports -> Nat]
    /\ dispatchers \in [Transports -> SUBSET Clients]
    /\ idle_purged \subseteq Transports
    /\ pc \in [Clients -> Points]
    /\ held \in [Clients -> Transports \cup {Nobody}]
    /\ make_new \in [Clients -> BOOLEAN]
    /\ doomed \in [Clients -> SUBSET Transports]

Init ==
    /\ cache_map = <<>>
    /\ cache_map_entry = [t \in Transports |-> NoEntry]
    /\ bound_twice = {}
    /\ is_connected = [t \in Transports |-> FALSE]
    /\ is_closed = [t \in Transports |-> FALSE]
    /\ event = [t \in Transports |-> [state |-> "WAIT", prev |-> "IDLE"]]
    /\ is_registered = [t \in Transports |-> FALSE]
    /\ phase = [t \in Transports |-> "unused"]
    /\ closing = [t \in Transports |-> "no"]
    /\ closer = [t \in Transports |-> Nobody]
    /\ active_requests = [t \in Transports |-> 0]
    /\ dispatchers = [t \in Transports |-> {}]
    /\ idle_purged = {}
    /\ pc = [c \in Clients |-> "idle"]
    /\ held = [c \in Clients |-> Nobody]
    /\ make_new = [c \in Clients |-> FALSE]
    /\ doomed = [c \in Clients |-> {}]

-----------------------------------------------------------------------------
(* The cache, under its lock                                               *)

Bound == DOMAIN cache_map
Cached(t) == cache_map_entry[t] # NoEntry
EntryOf(t) == cache_map[cache_map_entry[t]]

(* The indices that find_i visits: it stops at the first that is unbound.  *)
visited == {i \in Bound : 0 .. i \subseteq Bound}

is_entry_available_i(e) == e.recycle_state = "IDLE_AND_PURGABLE" /\ e.is_connected

is_entry_connecting_i(e) == e.recycle_state = "CONNECTING" \/ ~e.is_connected

can_be_purged(t) == active_requests[t] = 0 /\ dispatchers[t] = {}

is_entry_purgable_i(e) ==
    e.recycle_state = "IDLE_AND_PURGABLE" /\ can_be_purged(e.transport)

purgable == {i \in Bound : is_entry_purgable_i(cache_map[i])}

(* Unbind the entries at the indices in is, and clear the pointers of      *)
(* their transports.                                                       *)
unbind(is) == cache_map' = [i \in Bound \ is |-> cache_map[i]]

pointers_left(ts) == cache_map_entry    \* a faulty variant
pointers_cleared(ts) ==
    [t \in Transports |-> IF t \in ts THEN NoEntry ELSE cache_map_entry[t]]

purge_entries(is) ==
    /\ unbind(is)
    /\ cache_map_entry' = pointers_cleared({cache_map[i].transport : i \in is})
    /\ UNCHANGED bound_twice

purge_entry(t) == IF Cached(t) THEN purge_entries({cache_map_entry[t]})
                  ELSE UNCHANGED cache

(* One field of the entry of t, if it has one.                             *)
set_recycle_state(t, state) ==
    IF Cached(t)
    THEN cache_map' = [cache_map EXCEPT ![cache_map_entry[t]].recycle_state = state]
    ELSE UNCHANGED cache_map

never_idle(t) == UNCHANGED cache_map    \* a faulty variant
make_idle(t) == set_recycle_state(t, "IDLE_AND_PURGABLE")

mark_connected(t, connected) ==
    IF Cached(t)
    THEN cache_map' = [cache_map EXCEPT ![cache_map_entry[t]].is_connected = connected]
    ELSE UNCHANGED cache_map

set_entry_idle(t) ==
    IF Cached(t)
    THEN cache_map' = [cache_map EXCEPT ![cache_map_entry[t]] =
             [@ EXCEPT !.recycle_state = "IDLE_AND_PURGABLE",
                       !.is_connected = is_connected[t]]]
    ELSE UNCHANGED cache_map

cached_as_asked(t, state) ==    \* a faulty variant
    [transport |-> t, recycle_state |-> state, is_connected |-> is_connected[t]]
taken_for_connected(t, state) ==    \* a faulty variant
    [transport |-> t, recycle_state |-> state, is_connected |-> TRUE]
new_entry(t, state) ==
    [transport |-> t, is_connected |-> is_connected[t],
     recycle_state |-> IF is_connected[t] /\ state = "CONNECTING"
                       THEN "IDLE_AND_PURGABLE" ELSE state]

cache_full == Cardinality(Bound) >= CacheMaximum

(* bind_i: the first index that is free, or that is bound to the transport *)
(* itself.  In the second case its pointer is left as it is, which may     *)
(* lead to another entry, or nowhere.                                      *)
bindable(i, t) == i \in Bound => cache_map[i].transport = t
has_entry(t) == \E i \in Bound : cache_map[i].transport = t

bind_i(t, state) ==
    \E i \in 0 .. Cardinality(Bound) :
        /\ bindable(i, t)
        /\ \A j \in 0 .. i - 1 : ~bindable(j, t)
        /\ cache_map' = [j \in Bound \cup {i} |->
                            IF j = i THEN new_entry(t, state) ELSE cache_map[j]]
        /\ IF i \in Bound THEN UNCHANGED index
           ELSE /\ cache_map_entry' = [cache_map_entry EXCEPT ![t] = i]
                /\ bound_twice' = IF has_entry(t) THEN bound_twice \cup {t}
                                  ELSE bound_twice

-----------------------------------------------------------------------------
(* Connection handlers                                                     *)

successful(t) == IF event[t].prev = "WAIT" THEN event[t].state = "SUCCESS"
                 ELSE event[t].state = "CLOSED"
error_detected(t) == IF event[t].prev = "WAIT" THEN event[t].state = "CLOSED"
                     ELSE event[t].state = "TIMEOUT"
keep_waiting(t) == ~successful(t) /\ ~error_detected(t)

timed_out(t) == event[t].state = "TIMEOUT"
closed(t) == is_closed[t] \/ event[t].state \in {"CLOSED", "TIMEOUT"}
open(t) == event[t].state = "SUCCESS"

(* state_changed: validate_state_change.                                   *)
state_changed(t, new) ==
    event' = [event EXCEPT ![t] =
        CASE @.state = "WAIT" -> [state |-> new, prev |-> "WAIT"]
          [] @.state = "SUCCESS" /\ new = "CLOSED" -> [state |-> new, prev |-> "SUCCESS"]
          [] @.state = "TIMEOUT" /\ new = "CLOSED" -> [@ EXCEPT !.state = new]
          [] OTHER -> @]

set_state(t, new) == event' = [event EXCEPT ![t].state = new]

(* close_connection_eh, called by thread by: the caller goes through the   *)
(* steps below, unless another thread has begun.                           *)
close_connection(t, by) ==
    IF is_closed[t]
    THEN UNCHANGED <<is_closed, is_connected, closing, closer>>
    ELSE /\ is_closed' = [is_closed EXCEPT ![t] = TRUE]
         /\ is_connected' = [is_connected EXCEPT ![t] = FALSE]
         /\ closing' = [closing EXCEPT ![t] = "mark"]
         /\ closer' = [closer EXCEPT ![t] = by]

(* A thread that is in close_connection_eh does nothing else.              *)
Free(c) == \A t \in Transports : closer[t] # c

CloseMark(t) ==
    /\ closing[t] = "mark"
    /\ closing' = [closing EXCEPT ![t] = "purge"]
    /\ mark_connected(t, FALSE)
    /\ UNCHANGED <<index, connection, closer, use, idle_purged, client>>

ClosePurge(t) ==
    /\ closing[t] = "purge"
    /\ closing' = [closing EXCEPT ![t] = "notify"]
    /\ purge_entry(t)
    /\ UNCHANGED <<connection, closer, use, idle_purged, client>>

(* Out of the reactor; then TMS::connection_closed and state_changed.      *)
CloseNotify(t) ==
    /\ closing[t] = "notify"
    /\ closing' = [closing EXCEPT ![t] = "done"]
    /\ closer' = [closer EXCEPT ![t] = Nobody]
    /\ is_registered' = [is_registered EXCEPT ![t] = FALSE]
    /\ dispatchers' = [dispatchers EXCEPT ![t] = {}]
    /\ state_changed(t, "CLOSED")
    /\ UNCHANGED <<cache, is_connected, is_closed, phase, active_requests,
                   idle_purged, client>>

(* A connection completes in the reactor: open and post_open.              *)
Opened(t) ==
    /\ phase[t] = "pending"
    /\ ~is_closed[t]
    /\ phase' = [phase EXCEPT ![t] = "marking"]
    /\ is_connected' = [is_connected EXCEPT ![t] = TRUE]
    /\ UNCHANGED <<cache, is_closed, event, is_registered, close, use,
                   idle_purged, client>>

OpenedMark(t) ==
    /\ phase[t] = "marking"
    /\ phase' = [phase EXCEPT ![t] = "idling"]
    /\ mark_connected(t, TRUE)
    /\ UNCHANGED <<index, is_connected, is_closed, event,
                   is_registered, close, use, idle_purged, client>>

OpenedIdle(t) ==
    /\ phase[t] = "idling"
    /\ phase' = [phase EXCEPT ![t] = "signalling"]
    /\ set_entry_idle(t)
    /\ UNCHANGED <<index, is_connected, is_closed, event,
                   is_registered, close, use, idle_purged, client>>

OpenedSignal(t) ==
    /\ phase[t] = "signalling"
    /\ phase' = [phase EXCEPT ![t] = "open"]
    /\ state_changed(t, "SUCCESS")
    /\ UNCHANGED <<cache, is_connected, is_closed, is_registered, close, use,
                   idle_purged, client>>

(* It fails instead: close_handler.                                        *)
ConnectFails(t) ==
    /\ phase[t] = "pending"
    /\ ~is_closed[t]
    /\ phase' = [phase EXCEPT ![t] = "failing"]
    /\ is_closed' = [is_closed EXCEPT ![t] = TRUE]
    /\ state_changed(t, "CLOSED")
    /\ UNCHANGED <<cache, is_connected, is_registered, close, use,
                   idle_purged, client>>

ConnectFailsPurge(t) ==
    /\ phase[t] = "failing"
    /\ phase' = [phase EXCEPT ![t] = "failed"]
    /\ purge_entry(t)
    /\ UNCHANGED <<is_connected, is_closed, event, is_registered, close, use,
                   idle_purged, client>>

-----------------------------------------------------------------------------
(* The reactor and the idle timer                                          *)

(* The peer closes the connection, or reading from it fails.               *)
PeerCloses(t) ==
    /\ Free(Reactor)    \* bound: the reactor closes one at a time
    /\ is_registered[t]
    /\ ~is_closed[t]
    /\ close_connection(t, Reactor)
    /\ UNCHANGED <<cache, event, is_registered, phase, use, idle_purged, client>>

(* process_parsed_messages: a request comes in, and is refused when the    *)
(* transport is not in the cache any more.                                 *)
begin_unchecked(t) == TRUE    \* a faulty variant
begin_active_request(t) == Cached(t)

RequestBegins(t) ==
    /\ is_registered[t]
    /\ \A u \in Transports : active_requests[u] = 0    \* bound: one at a time
    /\ begin_active_request(t)
    /\ active_requests' = [active_requests EXCEPT ![t] = @ + 1]
    /\ UNCHANGED <<cache, connection, close, dispatchers, idle_purged, client>>

RequestRefused(t) ==
    /\ Free(Reactor)    \* bound: the reactor closes one at a time
    /\ is_registered[t]
    /\ ~begin_active_request(t)
    /\ ~is_closed[t]
    /\ close_connection(t, Reactor)
    /\ UNCHANGED <<cache, event, is_registered, phase, use, idle_purged, client>>

RequestEnds(t) ==
    /\ active_requests[t] > 0
    /\ active_requests' = [active_requests EXCEPT ![t] = @ - 1]
    /\ UNCHANGED <<cache, connection, close, dispatchers, idle_purged, client>>

(* A reply comes in: the dispatcher is unbound and its client woken.       *)
ReplyArrives(t, c) ==
    /\ is_registered[t]
    /\ c \in dispatchers[t]
    /\ pc[c] \in {"sent", "reply"}
    /\ dispatchers' = [dispatchers EXCEPT ![t] = @ \ {c}]
    /\ UNCHANGED <<cache, connection, close, active_requests, idle_purged, client>>

(* is_idle, of what the model has of it.                                   *)
is_idle(t) == active_requests[t] = 0

(* purge_idle_transports, under the lock: for any of the transports the    *)
(* idle time may have passed.                                              *)
IdleScan ==
    \E expired \in SUBSET {i \in purgable : is_idle(cache_map[i].transport)} :
        /\ expired # {}
        /\ purge_entries(expired)
        /\ idle_purged' = idle_purged \cup {cache_map[i].transport : i \in expired}
        /\ UNCHANGED <<connection, close, use, client>>

(* And after it.                                                           *)
IdleClose(t) ==
    /\ t \in idle_purged
    /\ Free(Reactor)
    /\ idle_purged' = idle_purged \ {t}
    /\ close_connection(t, Reactor)
    /\ UNCHANGED <<cache, event, is_registered, phase, use, client>>

-----------------------------------------------------------------------------
(* A client in TAO_Connector::connect                                      *)

go(c, point) == pc' = [pc EXCEPT ![c] = point]
take(c, t) == held' = [held EXCEPT ![c] = t]
give_up(c) == go(c, "idle") /\ take(c, Nobody)

At(c, t, point) == pc[c] = point /\ held[c] = t /\ Free(c)

register_if_necessary(t) ==
    is_registered' = [is_registered EXCEPT ![t] = @ \/ is_connected[t]]

Invoke(c) ==
    /\ pc[c] = "idle"
    /\ Free(c)
    /\ go(c, "find")
    /\ UNCHANGED <<cache, connection, close, use, idle_purged, held, make_new, doomed>>

(* find_i, and where connect goes with what it found                       *)
available == {i \in visited : is_entry_available_i(cache_map[i])}
connecting == {i \in visited : ~is_entry_available_i(cache_map[i])
                               /\ is_entry_connecting_i(cache_map[i])}
busy == visited \ (available \cup connecting)

available_taken(i) == [cache_map EXCEPT ![i].recycle_state = "BUSY"]

FindAvailable(c) ==
    /\ pc[c] = "find" /\ Free(c)
    /\ available # {}
    /\ LET i == Min(available)
       IN  /\ cache_map' = available_taken(i)
           /\ take(c, cache_map[i].transport)
    /\ go(c, "check")
    /\ UNCHANGED <<index, connection, close, use, idle_purged, make_new, doomed>>

FindConnecting(c) ==
    /\ pc[c] = "find" /\ Free(c)
    /\ available = {} /\ connecting # {}
    /\ take(c, cache_map[Min(connecting)].transport)
    /\ go(c, "wait_shared")
    /\ UNCHANGED <<cache, connection, close, use, idle_purged, make_new, doomed>>

new_connection_is_ok(busy_count) ==
    MuxedConnectionMax = 0 \/ busy_count < MuxedConnectionMax

FindBusyOrNone(c) ==
    /\ pc[c] = "find" /\ Free(c)
    /\ available = {} /\ connecting = {}
    /\ take(c, IF busy = {} THEN Nobody ELSE cache_map[Min(busy)].transport)
    /\ make_new' = [make_new EXCEPT ![c] = \/ busy = {}
                                           \/ new_connection_is_ok(Cardinality(busy))]
    /\ go(c, "purge")
    /\ UNCHANGED <<cache, connection, close, use, idle_purged, doomed>>

(* "one last check before using the cached connection"                     *)
CheckError(c, t) ==
    /\ At(c, t, "check")
    /\ error_detected(t)
    /\ close_connection(t, c)
    /\ go(c, "drop")
    /\ UNCHANGED <<cache, event, is_registered, phase, use, idle_purged,
                   held, make_new, doomed>>

CheckPasses(c, t) ==
    /\ At(c, t, "check")
    /\ ~error_detected(t)
    /\ go(c, IF closed(t) THEN "drop" ELSE "check_connected")
    /\ UNCHANGED <<cache, connection, close, use, idle_purged, held, make_new, doomed>>

Drop(c, t) ==
    /\ At(c, t, "drop")
    /\ purge_entry(t)
    /\ go(c, "find") /\ take(c, Nobody)
    /\ UNCHANGED <<connection, close, use, idle_purged, make_new, doomed>>

CheckConnected(c, t) ==
    /\ At(c, t, "check_connected")
    /\ is_connected[t]
    /\ go(c, "got")
    /\ UNCHANGED <<cache, connection, close, use, idle_purged, held, make_new, doomed>>

(* wait_for_connection_completion of a cached transport, which binds it    *)
(* again.  It is open or closed here, as all invocations block on connect. *)
Reuse(c, t) ==
    /\ At(c, t, "check_connected")
    /\ ~is_connected[t]
    /\ go(c, IF open(t) THEN "rebind" ELSE "cleanup")
    /\ UNCHANGED <<cache, connection, close, use, idle_purged, held, make_new, doomed>>

Rebind(c, t) ==
    /\ At(c, t, "rebind")
    /\ IF cache_full
       THEN go(c, "cleanup") /\ UNCHANGED <<cache, is_registered>>
       ELSE /\ bind_i(t, "IDLE_AND_PURGABLE")
            /\ register_if_necessary(t)
            /\ go(c, "got")
    /\ UNCHANGED <<is_connected, is_closed, event, phase, close, use,
                   idle_purged, held, make_new, doomed>>

(* TransportCleanupGuard                                                   *)
Cleanup(c, t) ==
    /\ At(c, t, "cleanup")
    /\ purge_entry(t)
    /\ close_connection(t, c)
    /\ give_up(c)
    /\ UNCHANGED <<event, is_registered, phase, use, idle_purged, make_new, doomed>>

(* wait_for_transport                                                      *)
WaitsFor(point) == IF point = "wait_shared" THEN "waiting_shared" ELSE "waiting_busy"

WaitTimedOut(c, t, point) ==
    /\ At(c, t, point)
    /\ timed_out(t)
    /\ purge_entry(t)
    /\ go(c, "find") /\ take(c, Nobody)
    /\ UNCHANGED <<connection, close, use, idle_purged, make_new, doomed>>

WaitFails(c, t, point) ==
    /\ \/ At(c, t, point) /\ ~timed_out(t) /\ closed(t)
       \/ At(c, t, WaitsFor(point)) /\ error_detected(t)
    /\ purge_entry(t)
    /\ close_connection(t, c)
    /\ go(c, "find") /\ take(c, Nobody)
    /\ UNCHANGED <<event, is_registered, phase, use, idle_purged, make_new, doomed>>

WaitSucceeds(c, t, point) ==
    /\ \/ At(c, t, point) /\ ~closed(t) /\ open(t)
       \/ At(c, t, WaitsFor(point)) /\ successful(t)
    /\ IF point = "wait_shared" THEN register_if_necessary(t)
       ELSE UNCHANGED is_registered
    /\ go(c, "find") /\ take(c, Nobody)
    /\ UNCHANGED <<cache, is_connected, is_closed, event, phase, close, use,
                   idle_purged, make_new, doomed>>

WaitBegins(c, t, point) ==
    /\ At(c, t, point)
    /\ ~closed(t) /\ ~open(t)
    /\ go(c, WaitsFor(point))
    /\ UNCHANGED <<cache, connection, close, use, idle_purged, held, make_new, doomed>>

(* The time is up in Leader_Follower::wait_for_event, for any of the waits.*)
AfterTimeout == [waiting_shared |-> "find", waiting_busy |-> "find",
                 wait_new |-> "idle"]

WaitExpires(c, t) ==
    /\ pc[c] \in DOMAIN AfterTimeout
    /\ At(c, t, pc[c])
    /\ keep_waiting(t)
    /\ set_state(t, "TIMEOUT")
    /\ go(c, AfterTimeout[pc[c]]) /\ take(c, Nobody)
    /\ UNCHANGED <<cache, is_connected, is_closed, is_registered, phase, close,
                   use, idle_purged, make_new, doomed>>

-----------------------------------------------------------------------------
(* Transport_Cache_Manager_T::purge: the least recently used of the        *)
(* purgable entries, which may be any of them.                             *)
purge_amount == (Cardinality(Bound) * PurgePercentage) \div 100

marked_busy(is) == [i \in Bound |->
    IF i \in is THEN [cache_map[i] EXCEPT !.recycle_state = "BUSY"] ELSE cache_map[i]]

Purge(c) ==
    /\ pc[c] = "purge" /\ Free(c)
    /\ LET amount == IF cache_full THEN Min({purge_amount, Cardinality(purgable)}) ELSE 0
       IN  \E is \in kSubset(amount, purgable) :
              /\ cache_map' = marked_busy(is)
              /\ doomed' = [doomed EXCEPT ![c] = {cache_map[i].transport : i \in is}]
    /\ go(c, "purging")
    /\ UNCHANGED <<index, connection, close, use, idle_purged, held, make_new>>

PurgeCloses(c, t) ==
    /\ pc[c] = "purging" /\ Free(c)
    /\ t \in doomed[c]
    /\ doomed' = [doomed EXCEPT ![c] = @ \ {t}]
    /\ close_connection(t, c)
    /\ UNCHANGED <<cache, event, is_registered, phase, use, idle_purged, pc, held, make_new>>

PurgeEnds(c) ==
    /\ pc[c] = "purging" /\ Free(c)
    /\ doomed[c] = {}
    /\ make_new' = [make_new EXCEPT ![c] = FALSE]
    /\ IF make_new[c]
       THEN go(c, "make") /\ take(c, Nobody)
       ELSE go(c, "wait_busy") /\ UNCHANGED held
    /\ UNCHANGED <<cache, connection, close, use, idle_purged, doomed>>

-----------------------------------------------------------------------------
(* make_connection and complete_connection of the IIOP connector           *)

unused == {t \in Transports : phase[t] = "unused"}

MakeAtOnce(c, t) ==
    /\ pc[c] = "make" /\ Free(c)
    /\ t \in unused
    /\ phase' = [phase EXCEPT ![t] = "open"]
    /\ is_connected' = [is_connected EXCEPT ![t] = TRUE]
    /\ state_changed(t, "SUCCESS")
    /\ go(c, "cache") /\ take(c, t)
    /\ UNCHANGED <<cache, is_closed, is_registered, close, use, idle_purged,
                   make_new, doomed>>

MakePending(c, t) ==
    /\ pc[c] = "make" /\ Free(c)
    /\ t \in unused
    /\ phase' = [phase EXCEPT ![t] = "pending"]
    /\ go(c, "complete") /\ take(c, t)
    /\ UNCHANGED <<cache, is_connected, is_closed, event, is_registered, close,
                   use, idle_purged, make_new, doomed>>

MakeFails(c) ==
    /\ pc[c] = "make" /\ Free(c)
    /\ give_up(c)
    /\ UNCHANGED <<cache, connection, close, use, idle_purged, make_new, doomed>>

(* cache_transport of a connection that is there, or the end of it         *)
CacheNew(c, t) ==
    /\ At(c, t, "cache")
    /\ IF cache_full
       THEN /\ give_up(c)
            /\ is_closed' = [is_closed EXCEPT ![t] = TRUE]
            /\ IF is_closed[t] THEN UNCHANGED event ELSE state_changed(t, "CLOSED")
            /\ UNCHANGED cache
       ELSE /\ bind_i(t, "IDLE_AND_PURGABLE")
            /\ go(c, "verify")
            /\ UNCHANGED <<is_closed, event, held>>
    /\ UNCHANGED <<is_connected, is_registered, phase, close, use, idle_purged,
                   make_new, doomed>>

(* wait_for_connection_completion of a new one that is pending             *)
Complete(c, t) ==
    /\ At(c, t, "complete")
    /\ IF ~open(t) /\ closed(t) THEN give_up(c)
       ELSE /\ go(c, IF open(t) THEN "bind_open" ELSE "bind_connecting")
            /\ UNCHANGED held
    /\ UNCHANGED <<cache, connection, close, use, idle_purged, make_new, doomed>>

BindNew(c, t, point) ==
    /\ At(c, t, point)
    /\ IF cache_full THEN give_up(c) /\ UNCHANGED cache
       ELSE /\ bind_i(t, IF point = "bind_open" THEN "IDLE_AND_PURGABLE" ELSE "CONNECTING")
            /\ go(c, IF point = "bind_open" THEN "verify" ELSE "wait_new")
            /\ UNCHANGED held
    /\ UNCHANGED <<connection, close, use, idle_purged, make_new, doomed>>

WaitNewEnds(c, t) ==
    /\ At(c, t, "wait_new")
    /\ ~keep_waiting(t)
    /\ IF successful(t) THEN go(c, "verify") /\ UNCHANGED <<cache, held>>
       ELSE give_up(c) /\ purge_entry(t)
    /\ UNCHANGED <<connection, close, use, idle_purged, make_new, doomed>>

(* No error can be detected any more: the event was successful.            *)
Verify(c, t) ==
    /\ At(c, t, "verify")
    /\ register_if_necessary(t)
    /\ go(c, "find") /\ take(c, Nobody)
    /\ UNCHANGED <<cache, is_connected, is_closed, event, phase, close, use,
                   idle_purged, make_new, doomed>>

-----------------------------------------------------------------------------
(* The invocation                                                          *)

Send(c, t) ==
    /\ At(c, t, "got")
    /\ IF is_connected[t]
       THEN /\ go(c, "sent")
            /\ dispatchers' = [dispatchers EXCEPT ![t] = @ \cup {c}]
       ELSE go(c, "failed") /\ UNCHANGED dispatchers
    /\ UNCHANGED <<cache, connection, close, active_requests, idle_purged,
                   held, make_new, doomed>>

SendFails(c, t) ==
    /\ At(c, t, "got")
    /\ is_connected[t]
    /\ close_connection(t, c)
    /\ go(c, "failed")
    /\ UNCHANGED <<cache, event, is_registered, phase, use, idle_purged,
                   held, make_new, doomed>>

(* The transport resolver is destroyed.                                    *)
Failed(c, t) ==
    /\ At(c, t, "failed")
    /\ make_idle(t)
    /\ give_up(c)
    /\ UNCHANGED <<index, connection, close, use, idle_purged,
                   make_new, doomed>>

IdleAfterSend(c, t) ==
    /\ At(c, t, "sent")
    /\ make_idle(t)
    /\ go(c, "reply")
    /\ UNCHANGED <<index, connection, close, use, idle_purged, held,
                   make_new, doomed>>

(* With the reply, without it as the connection is closed, or timed out    *)
Returns(c, t) ==
    /\ At(c, t, "reply")
    /\ dispatchers' = [dispatchers EXCEPT ![t] = @ \ {c}]
    /\ give_up(c)
    /\ UNCHANGED <<cache, connection, close, active_requests, idle_purged, make_new, doomed>>

-----------------------------------------------------------------------------
ConnectionStep(t) ==
    \/ CloseMark(t) \/ ClosePurge(t) \/ CloseNotify(t)
    \/ Opened(t) \/ OpenedMark(t) \/ OpenedIdle(t) \/ OpenedSignal(t)
    \/ ConnectFails(t) \/ ConnectFailsPurge(t)
    \/ PeerCloses(t) \/ RequestBegins(t) \/ RequestRefused(t) \/ RequestEnds(t)
    \/ \E c \in Clients : ReplyArrives(t, c)
    \/ IdleClose(t)

Connect(c) ==
    \/ Invoke(c)
    \/ FindAvailable(c) \/ FindConnecting(c) \/ FindBusyOrNone(c)
    \/ Purge(c) \/ PurgeEnds(c) \/ MakeFails(c)

Use(c, t) ==
    \/ CheckError(c, t) \/ CheckPasses(c, t) \/ Drop(c, t)
    \/ CheckConnected(c, t) \/ Reuse(c, t) \/ Rebind(c, t)
    \/ \E point \in {"bind_open", "bind_connecting"} : BindNew(c, t, point)
    \/ Cleanup(c, t)
    \/ \E point \in {"wait_shared", "wait_busy"} :
          \/ WaitTimedOut(c, t, point) \/ WaitFails(c, t, point)
          \/ WaitSucceeds(c, t, point) \/ WaitBegins(c, t, point)
    \/ WaitExpires(c, t) \/ PurgeCloses(c, t)
    \/ MakeAtOnce(c, t) \/ MakePending(c, t) \/ CacheNew(c, t) \/ Complete(c, t)
    \/ WaitNewEnds(c, t) \/ Verify(c, t)
    \/ Send(c, t) \/ SendFails(c, t) \/ Failed(c, t)
    \/ IdleAfterSend(c, t) \/ Returns(c, t)

Next ==
    \/ \E t \in Transports : ConnectionStep(t)
    \/ \E c \in Clients : Connect(c) \/ \E t \in Transports : Use(c, t)
    \/ IdleScan

Spec == Init /\ [][Next]_vars

-----------------------------------------------------------------------------
(* The pointer of a transport, through which it is marked, made idle and   *)
(* purged, leads to its own entry: none is left to an entry that is gone   *)
(* or has become another transport's (purge_entry, purge_entry_if_idle_i); *)
(* and while a transport is not closed it has no other entry, which none   *)
(* of these would reach.                                                   *)
PointersTrue ==
    /\ \A t \in Transports : Cached(t) =>
          /\ cache_map_entry[t] \in Bound
          /\ EntryOf(t).transport = t
    /\ \A i \in Bound : LET t == cache_map[i].transport
                       IN  ~is_closed[t] => cache_map_entry[t] = i

(* An entry is BUSY only while a client uses its transport or is about to  *)
(* purge it: no path out of connect or of an invocation forgets to make it *)
(* idle, which would take the connection out of use for good.              *)
Using == {"check", "check_connected", "drop", "rebind", "cleanup", "got", "sent", "failed"}

BusyHasOwner ==
    \A t \in Transports :
        Cached(t) /\ EntryOf(t).recycle_state = "BUSY" /\ ~is_closed[t] =>
            \E c \in Clients : t \in doomed[c] \/ (held[c] = t /\ pc[c] \in Using)

(* Once a connection is open, its entry says so, in whatever order the     *)
(* client that caches it (cache_transport) and the thread that opens it    *)
(* (post_open) came: it is not left to be waited for.                      *)
EntryKnowsConnection ==
    \A t \in Transports :
        Cached(t) /\ phase[t] = "open" /\ ~is_closed[t] =>
            /\ EntryOf(t).is_connected
            /\ EntryOf(t).recycle_state # "CONNECTING"

(* Once close_connection_eh has purged the entry, the transport is not     *)
(* offered as available any more, even where a client that read it as open *)
(* caches it again (connect): not by the entry that its pointer leads to,  *)
(* nor by any other unless bind_i has at some time given it a second one.  *)
(* The second one outlives the close, as pre_close only knows the pointer. *)
ClosedNotAvailable ==
    \A i \in Bound :
        LET t == cache_map[i].transport
        IN  /\ closing[t] \in {"notify", "done"}
            /\ cache_map_entry[t] = i \/ t \notin bound_twice
            => ~is_entry_available_i(cache_map[i])

(* The idle scanner closes no connection on which a request is processed,  *)
(* though the request may come in after the scanner has let go of the lock *)
(* (begin_active_request, purge_idle_transports).                          *)
IdleCloseNoRequest ==
    \A t \in idle_purged : closing[t] = "no" => active_requests[t] = 0

=============================================================================
