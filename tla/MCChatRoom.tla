---------------------------- MODULE MCChatRoom -----------------------------
(* Instances of ChatRoom for TLC: a group and a direct chat. *)
EXTENDS ChatRoom

CONSTANTS r1, r2

MCEmpty == [r \in Rooms |-> IF r = r1 THEN 3 ELSE 0]
MCLong  == [r \in Rooms |-> IF r = r1 THEN 3 ELSE 2]
=============================================================================
