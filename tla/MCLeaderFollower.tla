-------------------------- MODULE MCLeaderFollower --------------------------
(* LeaderFollower for TLC.                                                 *)
EXTENDS LeaderFollower

=============================================================================
