---------------------------- MODULE MCLeaveGroup ----------------------------
(* Instances of LeaveGroup for TLC.                                        *)
EXTENDS LeaveGroup

CONSTANTS u1, u2, u3
=============================================================================
