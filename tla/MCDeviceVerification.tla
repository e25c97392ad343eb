------------------------ MODULE MCDeviceVerification ------------------------
(***************************************************************************)
(* Instances of DeviceVerification for TLC.                                *)
(***************************************************************************)
EXTENDS DeviceVerification
=============================================================================
