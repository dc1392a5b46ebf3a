--------------------------- MODULE MCRoomScreen ---------------------------
(* Instances of RoomScreen for TLC. *)
EXTENDS RoomScreen

CONSTANTS alice, bob

OwnNames == [u \in Users |-> u]

\* Two registrations checked the name before either took it.
OneName == [u \in Users |-> "studybuddy"]
=============================================================================
