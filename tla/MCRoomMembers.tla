--------------------------- MODULE MCRoomMembers ---------------------------
(***************************************************************************)
(* Instances of RoomMembers for TLC.                                       *)
(***************************************************************************)
EXTENDS RoomMembers
=============================================================================
