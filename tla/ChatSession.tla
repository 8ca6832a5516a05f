---------------------------- MODULE ChatSession ----------------------------
(***************************************************************************)
(* What the chat session promises, without its frames and callbacks: the   *)
(* account the server knows on a connection was asked for on that          *)
(* connection, after the server had accepted it and while the user had not *)
(* asked to leave, and the account the client takes itself for is one the  *)
(* server has admitted.  WsSession implements it.                          *)
(***************************************************************************)
CONSTANTS Users, NoUser

VARIABLES
  link,        (* "down", "open", or "accepted" by the server              *)
  permitted,   (* logins may be sent: no logout has forbidden them         *)
  asked,       (* accounts whose login is on its way to the server         *)
  who,         (* the account of this connection, for the server           *)
  told,        (* accounts whose admission is on its way to the client     *)
  account      (* the account the client takes itself for                  *)

vars == <<link, permitted, asked, who, told, account>>

Init ==
  /\ link = "down" /\ permitted = TRUE
  /\ asked = {} /\ who = NoUser /\ told = {} /\ account = NoUser

Open ==
  /\ link = "down" /\ link' = "open"
  /\ UNCHANGED <<permitted, asked, who, told, account>>

Accept ==
  /\ link = "open" /\ link' = "accepted"
  /\ UNCHANGED <<permitted, asked, who, told, account>>

(* The connection is gone, and with it some of what the server had said.   *)
Lose ==
  /\ link # "down" /\ link' = "down"
  /\ asked' = {} /\ who' = NoUser /\ told' \in SUBSET told
  /\ UNCHANGED <<permitted, account>>

Ask(u) ==
  /\ permitted /\ link = "accepted"
  /\ asked' = asked \cup {u}
  /\ UNCHANGED <<link, permitted, who, told, account>>

(* The same account may have been asked for again meanwhile.               *)
Admit(u) ==
  /\ u \in asked /\ asked' \in {asked, asked \ {u}}
  /\ who' = u /\ told' = told \cup {u}
  /\ UNCHANGED <<link, permitted, account>>

Refuse(u) ==
  /\ u \in asked /\ asked' = asked \ {u}
  /\ UNCHANGED <<link, permitted, who, told, account>>

Learn(u) ==
  /\ u \in told /\ told' \in {told, told \ {u}}
  /\ account' = u
  /\ UNCHANGED <<link, permitted, asked, who>>

(* An answer the client no longer waits for.                               *)
Miss(u) ==
  /\ u \in told /\ told' = told \ {u}
  /\ UNCHANGED <<link, permitted, asked, who, account>>

Forbid ==
  /\ permitted' = FALSE
  /\ UNCHANGED <<link, asked, who, told, account>>

Permit ==
  /\ permitted' = TRUE
  /\ UNCHANGED <<link, asked, who, told, account>>

(* The caches of the account are cleared after the logout.                 *)
Forget ==
  /\ account' = NoUser
  /\ UNCHANGED <<link, permitted, asked, who, told>>

Next ==
  \/ Open \/ Accept \/ Lose \/ Forbid \/ Permit \/ Forget
  \/ \E u \in Users : Ask(u) \/ Admit(u) \/ Refuse(u) \/ Learn(u) \/ Miss(u)

Spec == Init /\ [][Next]_vars

-----------------------------------------------------------------------------
(* An account is asked for, or known to the server, only on a connection   *)
(* the server has accepted: nothing of it survives a reconnection          *)
(* (WebSocketHelper.reconnect).                                            *)
OnAcceptedLink == asked # {} \/ who # NoUser => link = "accepted"

=============================================================================
