-------------------------- MODULE MCTransportCache --------------------------
(* Instances of the transport cache for TLC.                               *)
EXTENDS TransportCache, TLC

Symmetry == Permutations(Transports) \cup Permutations(Clients)

=============================================================================
