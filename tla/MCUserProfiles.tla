--------------------------- MODULE MCUserProfiles ---------------------------
(***************************************************************************)
(* Instances of UserProfiles for TLC.                                      *)
(***************************************************************************)
EXTENDS UserProfiles
=============================================================================
