----------------------------- MODULE LeaveGroup -----------------------------
(***************************************************************************)
(* Leaving a group from its information screen (RoomInfoLayoutBloc), on    *)
(* the phones of several members at once: the list of members is loaded    *)
(* when the screen opens; "leave" asks for the roles, makes another member *)
(* an owner if the first owner is the user, and then leaves, or deletes    *)
(* the group.  Each step is a request over HTTP; what follows it runs in   *)
(* its callbacks, also after the screen was closed.                        *)
(*                                                                         *)
(* A screen shows a barrier while it loads, so it has one request under    *)
(* way; the user may go back and open the screen again, which is another.  *)
(* The error of a request that has timed out lowers the barrier under a    *)
(* later one; what he could then press on that screen is left to his other *)
(* screen.                                                                 *)
(***************************************************************************)
EXTENDS Integers

CONSTANTS
  Users,       (* members of the group and those who may join              *)
  Creator,     (* roomModel.skAccountModel                                 *)
  First,       (* members at the start                                     *)
  None,        (* no user                                                  *)
  MaxScreens,  (* bound: screens opened, on all phones                     *)
  MaxFaults    (* bound: requests given up, replies broken                 *)

ASSUME ConstantsAssumption ==
  /\ Creator \in First /\ First \subseteq Users /\ None \notin Users
  /\ MaxScreens \in Nat /\ MaxFaults \in Nat

Screens == 1..MaxScreens

VARIABLES
  (* chat server: the group exists, its members and its owners             *)
  alive, members, owners,
  (* RoomInfoLayoutBloc of each screen, the user on whose phone it is, and *)
  (* its request                                                           *)
  user, listUserGroup, loading, call,
  (* MainChatBloc.listGroups: the users whose phone lists the group        *)
  listed,
  (* requests given up by their screen, not yet with the server; screens   *)
  (* with a request that timed out and may still fail                      *)
  late, timedOut,
  (* history: who left or was removed; members who lost the group when it  *)
  (* was deleted, and those the deleting screen had been told of; the      *)
  (* members a screen last loaded, and whom it knows to be an owner when   *)
  (* its user asks to leave                                                *)
  gone, evicted, known, told, heir,
  (* bounds *)
  faults

serverVars  == <<alive, members, owners, gone, evicted, known>>
lateVars    == <<late, timedOut>>
historyVars == <<told, heir>>
vars == <<serverVars, user, listUserGroup, loading, call, listed, lateVars, historyVars,
          faults>>

Ops       == {"members", "roles", "swap", "leave", "delete", "kick"}
Answers   == {"none", "ok", "refused", "already", "notInRoom"}
MaybeUser == Users \cup {None}

(* A request with its answer, once there is one: the members, or the first *)
(* owner in the list of roles, if any has that role first.                 *)
Calls    == [op : Ops \cup {"none"}, by : MaybeUser, to : MaybeUser,
             seen : SUBSET Users, answer : Answers, users : SUBSET Users]
Requests == [op : Ops, by : Users, to : MaybeUser, seen : SUBSET Users]

Request(op, u, to, seen) ==
  [op |-> op, by |-> u, to |-> to, seen |-> seen, answer |-> "none", users |-> {}]

NoCall == Request("none", None, None, {})

TypeOK ==
  /\ alive \in BOOLEAN /\ members \subseteq Users /\ owners \subseteq Users
  /\ user \in [Screens -> MaybeUser]
  /\ listUserGroup \in [Screens -> SUBSET Users]
  /\ loading \in [Screens -> BOOLEAN]
  /\ call \in [Screens -> Calls]
  /\ \A s \in Screens : call[s].op \in Ops => call[s].by \in Users
  /\ \A s \in Screens : call[s].op \in {"swap", "kick"} => call[s].to \in Users
  /\ listed \subseteq Users /\ late \subseteq Requests /\ timedOut \subseteq Screens
  /\ gone \subseteq Users /\ evicted \subseteq Users /\ known \subseteq Users
  /\ told \in [Screens -> SUBSET Users] /\ heir \in [Screens -> MaybeUser]
  /\ faults \in 0..MaxFaults

Init ==
  /\ alive = TRUE /\ members = First /\ owners = {Creator}
  /\ user = [s \in Screens |-> None]
  /\ listUserGroup = [s \in Screens |-> {}]
  /\ loading = [s \in Screens |-> FALSE]
  /\ call = [s \in Screens |-> NoCall]
  /\ listed = First /\ late = {} /\ timedOut = {}
  /\ gone = {} /\ evicted = {} /\ known = {}
  /\ told = [s \in Screens |-> {}] /\ heir = [s \in Screens |-> None] /\ faults = 0

-----------------------------------------------------------------------------
(* The screen                                                              *)

(* The user's topmost screen, not covered by the barrier.                  *)
OnTop(s) ==
  /\ user[s] \in listed /\ ~loading[s] /\ call[s].op = "none"
  /\ \A t \in Screens : t > s => user[t] # user[s]

Ask(s, u, op, to) ==
  /\ call' = [call EXCEPT ![s] = Request(op, u, to, IF op = "delete" THEN told[s] ELSE {})]
  /\ loading' = [loading EXCEPT ![s] = TRUE]

EndLoading(s) ==
  /\ call' = [call EXCEPT ![s] = NoCall]
  /\ loading' = [loading EXCEPT ![s] = FALSE]
  /\ heir' = [heir EXCEPT ![s] = None]

(* initState; screens are numbered as they are opened.                     *)
OpenScreen(s, u) ==
  /\ user[s] = None /\ \A t \in Screens : t < s => user[t] # None
  /\ u \in listed
  /\ user' = [user EXCEPT ![s] = u]
  /\ Ask(s, u, "members", None)
  /\ UNCHANGED <<serverVars, listUserGroup, listed, lateVars, historyVars, faults>>

(* Members were added from the screen: the list is loaded again.           *)
getAllUserOnGroup(s) ==
  /\ OnTop(s)
  /\ Ask(s, user[s], "members", None)
  /\ UNCHANGED <<serverVars, user, listUserGroup, listed, lateVars, historyVars, faults>>

(* The user has confirmed that he leaves the group.                        *)
getUserRoles(s) ==
  /\ OnTop(s)
  /\ Ask(s, user[s], "roles", None)
  /\ UNCHANGED <<serverVars, user, listUserGroup, listed, lateVars, historyVars, faults>>

(* The creator's screen alone offers it, and not for himself.              *)
kickMember(s, v) ==
  /\ OnTop(s) /\ user[s] = Creator
  /\ v \in listUserGroup[s] \ {Creator}
  /\ Ask(s, Creator, "kick", v)
  /\ UNCHANGED <<serverVars, user, listUserGroup, listed, lateVars, historyVars, faults>>

-----------------------------------------------------------------------------
(* Callbacks                                                               *)

Answered(s, op, answer) == call[s].op = op /\ call[s].answer = answer

MembersReply(s) ==
  /\ \/ /\ Answered(s, "members", "ok")
        /\ listUserGroup' = [listUserGroup EXCEPT ![s] = call[s].users]
        /\ told' = [told EXCEPT ![s] = call[s].users]
     \/ /\ Answered(s, "members", "refused")
        /\ UNCHANGED <<listUserGroup, told>>
  /\ EndLoading(s)
  /\ UNCHANGED <<serverVars, user, listed, lateVars, faults>>

leaveRoom(s, owner) ==
  /\ Ask(s, user[s], "leave", None)
  /\ heir' = [heir EXCEPT ![s] = owner]

deleteGroup(s) == Ask(s, user[s], "delete", None) /\ UNCHANGED heir

(* Faulty variant: that there may be no candidate is forgotten.            *)
swapOwnerAlways(s, list) ==
  LET candidates == list \ {user[s], Creator}
  IN /\ \/ \E v \in candidates : Ask(s, user[s], "swap", v)
        \/ candidates = {} /\ Ask(s, user[s], "swap", None)
     /\ UNCHANGED heir

(* The first member of the list who is neither the user nor the creator    *)
(* becomes an owner; with nobody left, the group is deleted.               *)
swapOwner(s, list) ==
  LET candidates == list \ {user[s], Creator}
  IN \/ \E v \in candidates : Ask(s, user[s], "swap", v) /\ UNCHANGED heir
     \/ candidates = {} /\ deleteGroup(s)

MoreThanOne(list) == \E u, v \in list : u # v

RolesAnswered(s, owner) ==
  \/ MoreThanOne(listUserGroup[s]) /\ owner # user[s] /\ leaveRoom(s, owner)
  \/ MoreThanOne(listUserGroup[s]) /\ owner = user[s] /\ swapOwner(s, listUserGroup[s])
  \/ ~MoreThanOne(listUserGroup[s]) /\ deleteGroup(s)

(* Without an entry whose first role is "owner" the user just leaves.      *)
NoOwnerListed(s) == call[s].users = {} /\ leaveRoom(s, None)

(* Faulty variant: an owner leaves without handing over.                   *)
RolesReplyLeave(s) ==
  /\ \/ Answered(s, "roles", "ok") /\ \E o \in call[s].users : leaveRoom(s, o)
     \/ Answered(s, "roles", "ok") /\ NoOwnerListed(s)
     \/ Answered(s, "roles", "refused") /\ EndLoading(s)
  /\ UNCHANGED <<serverVars, user, listUserGroup, listed, lateVars, told, faults>>

RolesReply(s) ==
  /\ \/ Answered(s, "roles", "ok") /\ \E o \in call[s].users : RolesAnswered(s, o)
     \/ Answered(s, "roles", "ok") /\ NoOwnerListed(s)
     \/ Answered(s, "roles", "refused") /\ EndLoading(s)
  /\ UNCHANGED <<serverVars, user, listUserGroup, listed, lateVars, told, faults>>

NextCandidate(s) ==
  LET rest == listUserGroup[s] \ {call[s].to}
  IN listUserGroup' = [listUserGroup EXCEPT ![s] = rest] /\ swapOwner(s, rest)

(* Faulty variant: who left is not taken off the list.                     *)
SwapReplySameList(s) ==
  /\ \/ /\ \E answer \in {"ok", "already"} : Answered(s, "swap", answer)
        /\ leaveRoom(s, call[s].to)
     \/ Answered(s, "swap", "notInRoom") /\ swapOwner(s, listUserGroup[s])
     \/ Answered(s, "swap", "refused") /\ EndLoading(s)
  /\ UNCHANGED <<serverVars, user, listUserGroup, listed, lateVars, told, faults>>

(* Faulty variant: whoever cannot be made an owner is passed over.         *)
SwapReplyNext(s) ==
  /\ \/ Answered(s, "swap", "ok") /\ leaveRoom(s, call[s].to) /\ UNCHANGED listUserGroup
     \/ /\ \E answer \in {"already", "notInRoom"} : Answered(s, "swap", answer)
        /\ NextCandidate(s)
     \/ Answered(s, "swap", "refused") /\ EndLoading(s) /\ UNCHANGED listUserGroup
  /\ UNCHANGED <<serverVars, user, listed, lateVars, told, faults>>

SwapReply(s) ==
  /\ \/ /\ \E answer \in {"ok", "already"} : Answered(s, "swap", answer)
        /\ leaveRoom(s, call[s].to) /\ UNCHANGED listUserGroup
     \/ Answered(s, "swap", "notInRoom") /\ NextCandidate(s)
     \/ Answered(s, "swap", "refused") /\ EndLoading(s) /\ UNCHANGED listUserGroup
  /\ UNCHANGED <<serverVars, user, listed, lateVars, told, faults>>

(* Leaving or deleting: MainChatBloc.removeGroup on success.               *)
LeaveReply(s) ==
  /\ \E op \in {"leave", "delete"} :
       \/ Answered(s, op, "ok") /\ listed' = listed \ {user[s]}
       \/ Answered(s, op, "refused") /\ UNCHANGED listed
  /\ EndLoading(s)
  /\ UNCHANGED <<serverVars, user, listUserGroup, lateVars, told, faults>>

KickReply(s) ==
  /\ \/ /\ Answered(s, "kick", "ok")
        /\ listUserGroup' = [listUserGroup EXCEPT ![s] = @ \ {call[s].to}]
     \/ Answered(s, "kick", "refused") /\ UNCHANGED listUserGroup
  /\ EndLoading(s)
  /\ UNCHANGED <<serverVars, user, listed, lateVars, told, faults>>

Fault == faults < MaxFaults /\ faults' = faults + 1

(* What becomes of a request nobody waits for: nothing, the server carries *)
(* it out later, or it fails later and calls onErrorApiCallback again.     *)
MayArrive(s) ==
  \/ UNCHANGED late
  \/ /\ call[s].answer = "none" /\ call[s].op \in {"swap", "leave", "delete", "kick"}
     /\ late' = late \cup {[op |-> call[s].op, by |-> call[s].by,
                            to |-> call[s].to, seen |-> call[s].seen]}

MayFail(s) == UNCHANGED late /\ call[s].op # "members" /\ timedOut' = timedOut \cup {s}

(* Faulty variant: the group is taken off the phone also on an error.      *)
NoAnswerRemoves(s) ==
  /\ call[s].op # "none" /\ Fault
  /\ EndLoading(s)
  /\ \/ MayFail(s)
     \/ MayArrive(s) /\ UNCHANGED timedOut
  /\ listed' = IF call[s].op = "leave" THEN listed \ {user[s]} ELSE listed
  /\ UNCHANGED <<serverVars, user, listUserGroup, told>>

(* No connection, or the timeout: onErrorApiCallback.                      *)
NoAnswer(s) ==
  /\ call[s].op # "none" /\ Fault
  /\ EndLoading(s)
  /\ \/ MayFail(s)
     \/ MayArrive(s) /\ UNCHANGED timedOut
  /\ UNCHANGED <<serverVars, user, listUserGroup, listed, told>>

(* onErrorApiCallback again, of a request that had timed out before.       *)
LateError(s) ==
  /\ s \in timedOut /\ timedOut' = timedOut \ {s}
  /\ loading' = [loading EXCEPT ![s] = FALSE]
  /\ UNCHANGED <<serverVars, user, listUserGroup, call, listed, late, historyVars, faults>>

(* A body that is not JSON, one without roles, or for kickMember an error  *)
(* that is not a SocketException: nothing follows, and the barrier stays.  *)
BrokenReply(s) ==
  /\ call[s].op # "none" /\ Fault
  /\ call' = [call EXCEPT ![s] = NoCall] /\ MayArrive(s)
  /\ heir' = [heir EXCEPT ![s] = None]
  /\ UNCHANGED <<serverVars, user, listUserGroup, loading, listed, timedOut, told>>

-----------------------------------------------------------------------------
(* The chat server (external): owners alone appoint owners, remove members *)
(* and delete the group; the last owner may not leave.                     *)

Allowed(r) ==
  /\ alive /\ r.by \in members
  /\ r.op \in {"swap", "delete", "kick"} => r.by \in owners
  /\ r.op = "swap"  => r.to \in members \ owners
  /\ r.op = "kick"  => r.to \in members \ {r.by}
  /\ r.op = "leave" => owners # {r.by}

Refusal(r) ==
  IF r.op = "swap" /\ alive /\ r.by \in members \cap owners
  THEN IF r.to \in owners THEN "already" ELSE "notInRoom"
  ELSE "refused"

RemoveMember(u) ==
  /\ members' = members \ {u} /\ owners' = owners \ {u} /\ gone' = gone \cup {u}
  /\ UNCHANGED <<alive, evicted, known>>

Carry(r) ==
  \/ r.op \in {"members", "roles"} /\ UNCHANGED serverVars
  \/ /\ r.op = "swap" /\ owners' = owners \cup {r.to}
     /\ UNCHANGED <<alive, members, gone, evicted, known>>
  \/ r.op = "leave" /\ RemoveMember(r.by)
  \/ r.op = "kick" /\ RemoveMember(r.to)
  \/ /\ r.op = "delete" /\ alive' = FALSE
     /\ evicted' = members \ {r.by} /\ known' = r.seen
     /\ UNCHANGED <<members, owners, gone>>

Payload(r) ==
  CASE r.op = "members" -> {members}
    [] r.op = "roles"   -> {{o} : o \in owners} \cup {{}}
    [] OTHER            -> {{}}

Serve(s) ==
  LET c == call[s]
      reply(answer, users) == call' = [call EXCEPT ![s] =
        [op |-> c.op, by |-> c.by, to |-> c.to, seen |-> c.seen,
         answer |-> answer, users |-> users]]
  IN /\ c.op # "none" /\ c.answer = "none"
     /\ \/ Allowed(c) /\ Carry(c) /\ \E users \in Payload(c) : reply("ok", users)
        \/ ~Allowed(c) /\ reply(Refusal(c), {}) /\ UNCHANGED serverVars
     /\ UNCHANGED <<user, listUserGroup, loading, listed, lateVars, historyVars, faults>>

ServeLate(r) ==
  /\ r \in late /\ late' = late \ {r} /\ UNCHANGED timedOut
  /\ \/ Allowed(r) /\ Carry(r)
     \/ ~Allowed(r) /\ UNCHANGED serverVars
  /\ UNCHANGED <<user, listUserGroup, loading, call, listed, historyVars, faults>>

(* Somebody is added by a member, and told by rooms-changed.               *)
Join(v) ==
  /\ alive /\ v \notin members \cup gone
  /\ members' = members \cup {v} /\ listed' = listed \cup {v}
  /\ UNCHANGED <<alive, owners, gone, evicted, known, user, listUserGroup, loading, call,
                 lateVars, historyVars, faults>>

-----------------------------------------------------------------------------
Pressed(s) ==
  \/ \E u \in Users : OpenScreen(s, u)
  \/ getAllUserOnGroup(s) \/ getUserRoles(s)
  \/ \E v \in Users : kickMember(s, v)

Reply(s) ==
  \/ MembersReply(s) \/ RolesReply(s) \/ SwapReply(s) \/ LeaveReply(s) \/ KickReply(s)
  \/ NoAnswer(s) \/ BrokenReply(s)

Next ==
  \/ \E s \in Screens : Pressed(s) \/ Reply(s) \/ Serve(s) \/ LateError(s)
  \/ \E r \in late : ServeLate(r)
  \/ \E v \in Users : Join(v)

(* The server answers what it is asked, or the request is given up after   *)
(* 60 seconds at the latest, and the event loop runs the callback.         *)
Fairness == \A s \in Screens : WF_vars(Serve(s) \/ Reply(s))

Spec == Init /\ [][Next]_vars /\ Fairness

-----------------------------------------------------------------------------
(* Safety                                                                  *)

(* A phone takes the group off its list only when its user is out of it,   *)
(* though requests fail, time out and arrive late.                         *)
RemovedIsOut == \A u \in Users : u \notin listed => ~alive \/ u \notin members

(* Handing over and leaving are requests of their own, between which other *)
(* members act.  Who has handed over, or has met another owner in the      *)
(* roles, is refused to leave only if the group is deleted, he is out of   *)
(* it, or the owner he relied on has gone in between (getUserRoles,        *)
(* swapOwner); without an owner in the roles (heir is None) nothing is     *)
(* promised to him.                                                        *)
HandedOverMayLeave ==
  \A s \in Screens : Answered(s, "leave", "refused") /\ heir[s] # None =>
    ~alive \/ {user[s], heir[s]} \cap gone # {}

(* Whoever loses the group because another member deletes it was not on    *)
(* the list that member's screen had loaded, but for the creator.          *)
ListedKeepGroup == evicted \cap known \subseteq {Creator}

(* The group is deleted only when its last member leaves it: the user      *)
(* was asked whether to leave it, and an owner hands over (comments B2,    *)
(* B3 of getUserRoles).                                                    *)
LeavingKeepsGroup == evicted = {}

-----------------------------------------------------------------------------
(* Liveness                                                                *)

(* Leaving comes to an end: however many of those on the list have gone    *)
(* meanwhile, a screen runs out of requests to make.                       *)
LeaveEnds == \A s \in Screens : call[s].op # "none" ~> call[s].op = "none"

=============================================================================
