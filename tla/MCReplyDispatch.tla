--------------------------- MODULE MCReplyDispatch ---------------------------
(* ReplyDispatch for TLC.                                                  *)
EXTENDS ReplyDispatch

=============================================================================
