----------------------------- MODULE MCRoomList -----------------------------
(* Instances of RoomList for TLC: groups with messages, which are alike, and one without. *)
EXTENDS RoomList, TLC

CONSTANTS g1, g2, g3, g4

Alike == Permutations(Groups \ Silent)
=============================================================================
