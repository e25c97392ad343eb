------------------------- MODULE MCRoomListPipeline ------------------------
(* Instances of RoomListPipeline for TLC.                                  *)
EXTENDS RoomListPipeline

CONSTANTS r1, r2, n1, n2, a1, a2

(* Memberships coalesced in any way, and direct flags; the data is fixed.  *)
Memberships == [state: {"Joined", "Invited", "Left", "Knocked"}, direct: BOOLEAN,
                name: {n1}, avatar: {None}]

(* Joined rooms, direct or not, that may be left.                          *)
JoinedOrLeft ==
    [state: {"Joined"}, direct: BOOLEAN, name: {n1}, avatar: {None}]
    \cup [state: {"Left"}, direct: {FALSE}, name: {n1}, avatar: {None}]

(* Besides, the data of a joined or invited room changes.                 *)
MembershipsAndData ==
    Memberships \cup [state: {"Joined", "Invited"}, direct: {FALSE}, name: {n1, n2},
                     avatar: {None, a1, a2}]

(* Rooms that are invited or joined.                                       *)
InvitedOrJoined == [state: {"Joined", "Invited"}, direct: {FALSE}, name: {n1}, avatar: {None}]

RoomSymmetry == Permutations(Room)
============================================================================
