--------------------------- MODULE MCMessageQueue ---------------------------
(***************************************************************************)
(* Instances of MessageQueue for TLC: the message blocks are numbers, so   *)
(* that sizes and priorities can be given by position.                     *)
(***************************************************************************)
EXTENDS MessageQueue, TLC

(* Three blocks, the last of which alone fills a queue of high water       *)
(* mark 2; the first two have one priority.                                *)
ThreeSizes == <<1, 1, 2>>
ThreePriorities == <<0, 0, 1>>

ThreadSymmetry == Permutations(Suppliers) \cup Permutations(Consumers)
=============================================================================
