--------------------------- MODULE MCTimelineFeed ---------------------------
(***************************************************************************)
(* Instances of TimelineFeed for TLC.                                      *)
(***************************************************************************)
EXTENDS TimelineFeed
=============================================================================
