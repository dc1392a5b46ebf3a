---------------------------- MODULE MCRoomList ----------------------------
(* Instances of RoomList for TLC. *)
EXTENDS RoomList, TLC

CONSTANTS r1, r2, phone, tablet

MaxEvents == 4    \* bound on appearances, calls and faults together

Affordable == appears + calls + faults <= MaxEvents
AffordableSpec == Init /\ [][Next /\ Affordable']_vars

Alike == Permutations(Devices) \cup Permutations(Rooms)
=============================================================================
