------------------------------ MODULE TimerHeap ------------------------------
(***************************************************************************)
(* The timer queue of TAO's reactors, class ACE_Timer_Heap_T: a heap of    *)
(* timers, and beside it the table timer_ids_, which maps the id of a      *)
(* timer to its slot in the heap and whose other entries are the free ids. *)
(*                                                                         *)
(* Every operation holds the queue's mutex.  The mutex is recursive, and a *)
(* handler that is told of its cancellation may use the queue, so that     *)
(* operations nest in cancel.  During the upcall of an expired timer the   *)
(* mutex is free and the queue done with the timer.                        *)
(***************************************************************************)
EXTENDS Integers, Sequences, FiniteSetsExt

CONSTANTS
    InitialSize,    \* the size the heap is created with
    Requests,       \* what clients schedule, [type, time, interval]
    CurTimes,       \* what expire may be told the time is
    Intervals,      \* what an interval may be reset to
    MaxSchedules,   \* bound: calls of schedule, whatever the heap holds
    MaxLater,       \* bound: later calls find fewer timers than this
    MaxTime,        \* bound: the latest time a timer may be moved to
    MaxNested       \* bound: cancellations in progress

(* With one element grow_heap marks the id 1 as in limbo: its mark for a   *)
(* new free id, -(i + 1), is then -2.                                      *)
ASSUME SizeAssumption == InitialSize \in Nat /\ InitialSize >= 2

ASSUME TimeAssumption ==
    /\ \A r \in Requests : r.time \in Int /\ r.interval \in Nat
    /\ CurTimes \subseteq Int
    /\ Intervals \subseteq Nat
    /\ MaxSchedules \in Nat

VARIABLES
    queue,          \* the members of the timer heap
    cancelling,     \* the timers whose cancellation is being told, a stack
    schedules       \* calls of schedule, up to MaxSchedules, for the bounds

vars == <<queue, cancelling, schedules>>

-----------------------------------------------------------------------------
(* The heap.  heap_ is followed by unused places up to max_size_.          *)

Types == {r.type : r \in Requests}
NoNode == [id |-> -1]
Limbo == -2         \* in timer_ids_: out of the heap, but not freed

parent(slot) == IF slot = 0 THEN 0 ELSE (slot - 1) \div 2
left_child(slot) == slot + slot + 1
Slots(q) == 0 .. q.cur_size - 1

(* A node is put in a slot, and timer_ids_ kept in step. *)
copy(q, slot, node) ==
    [q EXCEPT !.heap[slot] = node, !.timer_ids[node.id] = slot]

(* The loops that look for the slot of a node move a gap through the heap: *)
(* a round of them takes and returns [queue, slot], slot the gap.  The gap *)
(* rises slot times at most, and sinks cur_size times at most.             *)
rise(r, node) ==
    LET above == r.queue.heap[parent(r.slot)]
    IN  IF r.slot > 0 /\ node.time < above.time
        THEN [queue |-> copy(r.queue, r.slot, above), slot |-> parent(r.slot)]
        ELSE r

reheap_up(q, node, slot) ==
    LET round[k \in Nat] ==
            IF k = 0 THEN [queue |-> q, slot |-> slot] ELSE rise(round[k - 1], node)
        last == round[slot]
    IN  copy(last.queue, last.slot, node)

smaller_child(q, slot) ==
    LET c == left_child(slot)
    IN  IF c + 1 < q.cur_size /\ q.heap[c + 1].time < q.heap[c].time
        THEN c + 1 ELSE c

sink(r, node) ==
    LET child == smaller_child(r.queue, r.slot)
    IN  IF left_child(r.slot) < r.queue.cur_size /\ r.queue.heap[child].time < node.time
        THEN [queue |-> copy(r.queue, r.slot, r.queue.heap[child]), slot |-> child]
        ELSE r

reheap_down(q, node, slot) ==
    LET round[k \in Nat] ==
            IF k = 0 THEN [queue |-> q, slot |-> slot] ELSE sink(round[k - 1], node)
        last == round[q.cur_size]
    IN  copy(last.queue, last.slot, node)

(* Mutant: the node that fills the gap is moved down only. *)
refill_downwards(q, slot) ==
    LET last == q.heap[q.cur_size]
    IN  reheap_down(copy(q, slot, last), last, slot)

(* The last node takes the place of the one that is taken out. *)
refill(q, slot) ==
    LET last == q.heap[q.cur_size]
        moved == copy(q, slot, last)
    IN  IF last.time >= moved.heap[parent(slot)].time
        THEN reheap_down(moved, last, slot)
        ELSE reheap_up(moved, last, slot)

remove(q, slot) ==
    LET shorter == [q EXCEPT !.cur_size = @ - 1]
        filled == IF slot < shorter.cur_size
                  THEN refill(shorter, slot) ELSE shorter
    IN  [filled EXCEPT !.heap[shorter.cur_size] = NoNode,
                       !.timer_ids[q.heap[slot].id] = Limbo,
                       !.cur_limbo = @ + 1]

(* The new ids are marked -(i + 1): any negative number but Limbo is free. *)
grow_heap(q) ==
    LET size == q.max_size * 2
    IN  [q EXCEPT
            !.max_size = size,
            !.heap = [i \in 0 .. size - 1 |->
                        IF i < q.max_size THEN q.heap[i] ELSE NoNode],
            !.timer_ids = [i \in 0 .. size - 1 |->
                        IF i < q.max_size THEN q.timer_ids[i] ELSE -(i + 1)],
            !.timer_ids_min_free = size]

insert(q, node) ==
    LET roomy == IF q.cur_size + q.cur_limbo + 2 >= q.max_size
                 THEN grow_heap(q) ELSE q
        placed == reheap_up(roomy, node, roomy.cur_size)
    IN  [placed EXCEPT !.cur_size = @ + 1]

-----------------------------------------------------------------------------
(* The ids *)

is_free(q, id) == q.timer_ids[id] < 0 /\ q.timer_ids[id] # Limbo

(* The free ids after the one that was given out last. *)
ahead(q) == {id \in q.timer_ids_curr + 1 .. q.max_size - 1 : is_free(q, id)}

(* The next id is in timer_ids_curr. *)
pop_freelist(q) ==
    IF ahead(q) # {}
    THEN [q EXCEPT !.timer_ids_curr = Min(ahead(q))]
    ELSE [q EXCEPT !.timer_ids_curr = q.timer_ids_min_free,
                   !.timer_ids_min_free = q.max_size]

(* Mutant: the id that was given out last is taken to lie ahead. *)
passed_strictly(q, id) == id < q.timer_ids_min_free /\ id < q.timer_ids_curr

(* An id behind timer_ids_curr would not be found by the search ahead. *)
passed(q, id) == id < q.timer_ids_min_free /\ id <= q.timer_ids_curr

push_freelist(q, id) ==
    LET uncounted == IF q.timer_ids[id] = Limbo
                     THEN [q EXCEPT !.cur_limbo = @ - 1]
                     ELSE [q EXCEPT !.cur_size = @ - 1]
    IN  [uncounted EXCEPT
            !.timer_ids[id] = -1,
            !.timer_ids_min_free = IF passed(q, id) THEN id ELSE @]

(* Mutant: the node stays counted as in limbo. *)
reschedule_uncounted(q, node) == insert(q, node)

reschedule(q, node) ==
    insert(IF q.timer_ids[node.id] = Limbo
           THEN [q EXCEPT !.cur_limbo = @ - 1] ELSE q, node)

-----------------------------------------------------------------------------
(* The operations *)

Init ==
    /\ queue = [max_size |-> InitialSize, cur_size |-> 0, cur_limbo |-> 0,
                heap |-> [i \in 0 .. InitialSize - 1 |-> NoNode],
                timer_ids |-> [i \in 0 .. InitialSize - 1 |-> -1],
                timer_ids_curr |-> 0, timer_ids_min_free |-> 0]
    /\ cancelling = <<>>
    /\ schedules = 0

schedule_i ==
    /\ schedules < MaxSchedules \/ queue.cur_size + queue.cur_limbo < MaxLater
    /\ queue.cur_size + queue.cur_limbo < queue.max_size
    /\ \E r \in Requests :
        LET q == pop_freelist(queue)
        IN  queue' = insert(q, [id |-> q.timer_ids_curr, type |-> r.type,
                                time |-> r.time, interval |-> r.interval])
    /\ schedules' = Min({schedules + 1, MaxSchedules})
    /\ UNCHANGED cancelling

(* The slot of a timer that cancel and reset_interval find by its id. *)
found(id) == queue.timer_ids[id] >= 0

(* cancel(timer_id): the timer is out, its handler is being told. *)
cancel(id) ==
    /\ Len(cancelling) < MaxNested
    /\ found(id)
    /\ queue' = remove(queue, queue.timer_ids[id])
    /\ cancelling' = Append(cancelling, id)
    /\ UNCHANGED schedules

cancel_returns ==
    /\ cancelling # <<>>
    /\ queue' = push_freelist(queue, cancelling[Len(cancelling)])
    /\ cancelling' = SubSeq(cancelling, 1, Len(cancelling) - 1)
    /\ UNCHANGED schedules

of_type(q, type) == {slot \in Slots(q) : q.heap[slot].type = type}

free_slot(q, slot) == push_freelist(remove(q, slot), q.heap[slot].id)

(* Mutant: the search goes on behind the slot that was refilled. *)
without_missing(q, type) ==
    LET behind(r) == {slot \in of_type(r.queue, type) : slot >= r.slot}
        round[k \in Nat] ==
            IF k = 0 THEN [queue |-> q, slot |-> 0]
            ELSE LET r == round[k - 1]
                 IN  IF behind(r) = {} THEN r
                     ELSE [queue |-> free_slot(r.queue, Min(behind(r))),
                           slot |-> Min(behind(r)) + 1]
    IN  round[q.cur_size].queue

(* The search starts anew at slot 0 whenever a timer was found. *)
without(q, type) ==
    LET round[k \in Nat] ==
            IF k = 0 THEN q
            ELSE LET rest == round[k - 1]
                     found_in == of_type(rest, type)
                 IN  IF found_in = {} THEN rest ELSE free_slot(rest, Min(found_in))
    IN  round[q.cur_size]

(* cancel(type) *)
cancel_type(type) ==
    /\ of_type(queue, type) # {}
    /\ queue' = without(queue, type)
    /\ UNCHANGED <<cancelling, schedules>>

reset_interval(id) ==
    /\ found(id)
    /\ \E i \in Intervals :
        queue' = [queue EXCEPT !.heap[queue.timer_ids[id]].interval = i]
    /\ UNCHANGED <<cancelling, schedules>>

(* The time a periodic timer that is due fires next. *)
recompute_next_abs_interval_time(node, now) ==
    now + node.interval - ((now - node.time) % node.interval)

(* expire and expire_single: the first timer, if it is due, is taken out   *)
(* and, when it is periodic, put in again.                                 *)
dispatch_info_i(now) ==
    /\ cancelling = <<>>
    /\ queue.cur_size > 0
    /\ LET expired == queue.heap[0]
           next == recompute_next_abs_interval_time(expired, now)
           q == remove(queue, 0)
       IN  /\ expired.time <= now
           /\ queue' = IF expired.interval = 0
                       THEN push_freelist(q, expired.id)
                       ELSE reschedule(q, [expired EXCEPT !.time = next])
           /\ expired.interval > 0 => next <= MaxTime
    /\ UNCHANGED <<cancelling, schedules>>

emptied(q) ==
    LET freed[n \in 0 .. q.cur_size] ==
            IF n = 0 THEN q
            ELSE [push_freelist(freed[n - 1], q.heap[n - 1].id) EXCEPT
                    !.heap[n - 1] = NoNode]
    IN  freed[q.cur_size]

(* The handlers that close tells of their deletion leave the queue alone. *)
close ==
    /\ cancelling = <<>>
    /\ queue.cur_size > 0
    /\ queue' = emptied(queue)
    /\ UNCHANGED <<cancelling, schedules>>

Next ==
    \/ schedule_i
    \/ \E id \in DOMAIN queue.timer_ids : cancel(id) \/ reset_interval(id)
    \/ cancel_returns
    \/ \E type \in Types : cancel_type(type)
    \/ \E now \in CurTimes : dispatch_info_i(now)
    \/ close

Spec == Init /\ [][Next]_vars

-----------------------------------------------------------------------------
(* Properties *)

NodesOf(size) == [id : 0 .. size - 1, type : Types, time : Int, interval : Nat]

HeapOf(size) ==
    [max_size : {size}, cur_size : 0 .. size, cur_limbo : 0 .. size,
     heap : [0 .. size - 1 -> NodesOf(size) \cup {NoNode}],
     timer_ids : [0 .. size - 1 -> Int],
     timer_ids_curr : 0 .. size - 1, timer_ids_min_free : 0 .. size]

(* The heap and the table grow together, and all ids and slots are within  *)
(* them (grow_heap, copy, pop_freelist).                                   *)
TypeOK ==
    /\ queue.max_size \in Nat
    /\ queue \in HeapOf(queue.max_size)
    /\ cancelling \in Seq(0 .. queue.max_size - 1)
    /\ schedules \in 0 .. MaxSchedules

Nodes == {queue.heap[slot] : slot \in Slots(queue)}

InLimbo == {id \in DOMAIN queue.timer_ids : queue.timer_ids[id] = Limbo}

(* timer_ids_ and the heap agree, after every sequence of insertions,      *)
(* removals from the middle, growths and nested cancellations: an id is in *)
(* use exactly when the heap has its timer, in the slot that timer_ids_    *)
(* says, or when its cancellation is being told; both counters are exact   *)
(* (copy, remove, push_freelist and reschedule).                           *)
IdsExact ==
    /\ \A slot \in Slots(queue) : queue.timer_ids[queue.heap[slot].id] = slot
    /\ \A id \in DOMAIN queue.timer_ids :
        queue.timer_ids[id] >= 0 =>
            /\ queue.timer_ids[id] \in Slots(queue)
            /\ queue.heap[queue.timer_ids[id]].id = id
    /\ InLimbo = {cancelling[i] : i \in DOMAIN cancelling}
    /\ queue.cur_limbo = Len(cancelling)

(* schedule never refuses: there is room, and the search for an id finds   *)
(* one that is free, ahead of the last one or, wrapping around, at         *)
(* timer_ids_min_free ("we are guaranteed to find a free ID",              *)
(* pop_freelist), although ids that were free when the heap grew are       *)
(* forgotten.                                                              *)
AlwaysRoom ==
    /\ queue.cur_size + queue.cur_limbo < queue.max_size
    /\ ahead(queue) # {} \/ ( /\ queue.timer_ids_min_free < queue.max_size
                              /\ is_free(queue, queue.timer_ids_min_free))

(* No timer hides behind a later one: wherever a timer was taken out, and  *)
(* whichever way the node that fills its place had to move (remove,        *)
(* reheap_up and reheap_down), heap_[0] is the first timer, which          *)
(* earliest_time reports and expire waits for.                             *)
HeapOrder ==
    \A slot \in Slots(queue) :
        queue.heap[parent(slot)].time <= queue.heap[slot].time

(* The heap is a timer queue: no two timers share an id, no timer is lost  *)
(* or kept when others are cancelled, a cancellation by type leaves none   *)
(* of the type, timers come out in the order of their times, and a         *)
(* periodic timer is put in again at the first of its times to come.       *)
Queue == INSTANCE TimerQueue WITH
    timers <- Nodes,
    held <- InLimbo

ImplementsTimerQueue == Queue!TQSpec

=============================================================================
