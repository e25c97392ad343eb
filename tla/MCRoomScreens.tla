--------------------------- MODULE MCRoomScreens ---------------------------
(* Instances of RoomScreens for TLC.                                       *)
EXTENDS RoomScreens

CONSTANTS r1, r2, t1, t2

NoThreads == [t \in {} |-> r1]
OneThread == [t \in {t1} |-> r1]
TwoThreads == [t \in {t1, t2} |-> r1]
============================================================================
