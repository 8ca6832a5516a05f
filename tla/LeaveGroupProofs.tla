-------------------------- MODULE LeaveGroupProofs --------------------------
(***************************************************************************)
(* What LeaveGroup promises, proved for every group, every number of       *)
(* screens and faults.                                                     *)
(*                                                                         *)
(* What a screen knows of the server stays true in a weaker form: a member *)
(* stays a member or is gone, an owner stays an owner or is gone, and      *)
(* nobody comes back.  The invariant says of each screen what it knows in  *)
(* these terms (ScreenOK), so that no step of another screen, of the       *)
(* server or of a request that arrives late can disturb it (Kept).         *)
(***************************************************************************)
EXTENDS LeaveGroup, TLAPS

USE DEF lateVars

-----------------------------------------------------------------------------
(* Types                                                                   *)

(* The request of a screen is its user's.                                  *)
Own(s) == call[s].op # "none" => user[s] \in Users /\ call[s].by = user[s]

Typed == TypeOK /\ \A s \in Screens : Own(s)

LEMMA RequestType ==
  ASSUME NEW op \in Ops \cup {"none"}, NEW u \in MaybeUser, NEW v \in MaybeUser,
         NEW seen \in SUBSET Users
  PROVE  /\ Request(op, u, v, seen) \in Calls
         /\ Request(op, u, v, seen).op = op /\ Request(op, u, v, seen).by = u
         /\ Request(op, u, v, seen).to = v /\ Request(op, u, v, seen).seen = seen
         /\ Request(op, u, v, seen).answer = "none"
BY DEF Request, Calls, Answers

LEMMA NoCallType == NoCall \in Calls /\ NoCall.op = "none" /\ NoCall.answer = "none"
BY RequestType DEF NoCall, MaybeUser

(* What the types of a screen's request are, and that they hold when it    *)
(* has sent another or none.                                               *)
CallType(c) ==
  /\ c \in Calls
  /\ c.op \in Ops => c.by \in Users
  /\ c.op \in {"swap", "kick"} => c.to \in Users

LEMMA CallTypes ==
  ASSUME TypeOK, NEW s \in Screens
  PROVE  CallType(call[s])
BY DEF TypeOK, CallType

LEMMA OneCall ==
  ASSUME TypeOK, NEW s \in Screens, NEW c, CallType(c),
         call' = [call EXCEPT ![s] = c]
  PROVE  /\ call' \in [Screens -> Calls]
         /\ \A t \in Screens : CallType(call'[t])
BY DEF TypeOK, CallType

LEMMA AskType ==
  ASSUME TypeOK, NEW s \in Screens, NEW u \in Users, NEW op \in Ops,
         NEW v \in MaybeUser, op \in {"swap", "kick"} => v \in Users,
         Ask(s, u, op, v)
  PROVE  /\ call' \in [Screens -> Calls]
         /\ \A t \in Screens : CallType(call'[t])
         /\ loading' \in [Screens -> BOOLEAN]
<1> DEFINE seen == IF op = "delete" THEN told[s] ELSE {}
<1>1. seen \in SUBSET Users
  BY DEF TypeOK
<1>2. CallType(Request(op, u, v, seen))
  BY <1>1, RequestType DEF CallType, MaybeUser
<1> QED
  BY <1>2, OneCall DEF Ask, TypeOK

LEMMA EndType ==
  ASSUME TypeOK, NEW s \in Screens, EndLoading(s)
  PROVE  /\ call' \in [Screens -> Calls]
         /\ \A t \in Screens : CallType(call'[t])
         /\ loading' \in [Screens -> BOOLEAN]
         /\ heir' \in [Screens -> MaybeUser]
<1>1. CallType(NoCall)
  BY NoCallType DEF CallType, Ops
<1> QED
  BY <1>1, OneCall DEF EndLoading, TypeOK, MaybeUser

LEMMA TypeInit == Init => TypeOK
BY NoCallType, ConstantsAssumption DEF Init, TypeOK, MaybeUser, Ops, Requests

LEMMA TypePressed ==
  ASSUME TypeOK, NEW s \in Screens, Pressed(s)
  PROVE  TypeOK'
<1>1. ASSUME NEW u \in Users, OpenScreen(s, u) PROVE TypeOK'
  <2>1. u \in Users /\ None \in MaybeUser /\ user' \in [Screens -> MaybeUser]
    BY <1>1 DEF OpenScreen, TypeOK, MaybeUser
  <2> QED
    BY <1>1, <2>1, AskType DEF OpenScreen, TypeOK, CallType, serverVars, historyVars, Ops
<1>2. CASE getAllUserOnGroup(s)
  <2>1. user[s] \in Users /\ None \in MaybeUser
    BY <1>2 DEF getAllUserOnGroup, OnTop, TypeOK, MaybeUser
  <2> QED
    BY <1>2, <2>1, AskType DEF getAllUserOnGroup, TypeOK, CallType, serverVars, historyVars, Ops
<1>3. CASE getUserRoles(s)
  <2>1. user[s] \in Users /\ None \in MaybeUser
    BY <1>3 DEF getUserRoles, OnTop, TypeOK, MaybeUser
  <2> QED
    BY <1>3, <2>1, AskType DEF getUserRoles, TypeOK, CallType, serverVars, historyVars, Ops
<1>4. ASSUME NEW v \in Users, kickMember(s, v) PROVE TypeOK'
  <2>1. Creator \in Users /\ v \in MaybeUser
    BY ConstantsAssumption DEF MaybeUser
  <2> QED
    BY <1>4, <2>1, AskType DEF kickMember, TypeOK, CallType, serverVars, historyVars, Ops
<1> QED
  BY <1>1, <1>2, <1>3, <1>4 DEF Pressed

LEMMA SwapType ==
  ASSUME TypeOK, NEW s \in Screens, user[s] \in Users, NEW list \in SUBSET Users,
         swapOwner(s, list)
  PROVE  /\ call' \in [Screens -> Calls]
         /\ \A t \in Screens : CallType(call'[t])
         /\ loading' \in [Screens -> BOOLEAN]
         /\ heir' \in [Screens -> MaybeUser]
<1>1. CASE \E v \in list \ {user[s], Creator} : Ask(s, user[s], "swap", v) /\ UNCHANGED heir
  BY <1>1, AskType DEF Ops, MaybeUser, TypeOK
<1>2. CASE deleteGroup(s)
  BY <1>2, AskType DEF deleteGroup, Ops, MaybeUser, TypeOK
<1> QED
  BY <1>1, <1>2 DEF swapOwner

LEMMA LeaveType ==
  ASSUME TypeOK, NEW s \in Screens, user[s] \in Users, NEW o \in MaybeUser,
         leaveRoom(s, o)
  PROVE  /\ call' \in [Screens -> Calls]
         /\ \A t \in Screens : CallType(call'[t])
         /\ loading' \in [Screens -> BOOLEAN]
         /\ heir' \in [Screens -> MaybeUser]
BY AskType DEF leaveRoom, Ops, MaybeUser, TypeOK

LEMMA DeleteType ==
  ASSUME TypeOK, NEW s \in Screens, user[s] \in Users, deleteGroup(s)
  PROVE  /\ call' \in [Screens -> Calls]
         /\ \A t \in Screens : CallType(call'[t])
         /\ loading' \in [Screens -> BOOLEAN]
         /\ heir' \in [Screens -> MaybeUser]
BY AskType DEF deleteGroup, Ops, MaybeUser, TypeOK

LEMMA LateType ==
  ASSUME TypeOK, NEW s \in Screens, MayArrive(s)
  PROVE  late' \subseteq Requests
BY CallTypes DEF MayArrive, TypeOK, CallType, Calls, Requests, Ops

LEMMA GivenUpType ==
  ASSUME TypeOK, NEW s \in Screens,
         MayFail(s) \/ (MayArrive(s) /\ UNCHANGED timedOut)
  PROVE  late' \subseteq Requests /\ timedOut' \subseteq Screens
<1>1. CASE MayFail(s)
  BY <1>1 DEF MayFail, TypeOK
<1>2. CASE MayArrive(s) /\ UNCHANGED timedOut
  BY <1>2, LateType DEF TypeOK
<1> QED
  BY <1>1, <1>2

LEMMA TypeReply ==
  ASSUME Typed, NEW s \in Screens, Reply(s)
  PROVE  TypeOK'
<1> USE DEF Typed
<1>0. /\ CallType(call[s]) /\ call[s].users \subseteq Users /\ call[s].to \in MaybeUser
      /\ listUserGroup[s] \subseteq Users
  BY CallTypes DEF CallType, Calls, TypeOK
<1>1. CASE MembersReply(s)
  BY <1>0, <1>1, EndType DEF MembersReply, TypeOK, CallType, serverVars, historyVars
<1>2. CASE RolesReply(s)
  <2>1. user[s] \in Users
    BY <1>2 DEF RolesReply, Answered, Own
  <2>2. CASE Answered(s, "roles", "ok") /\ \E o \in call[s].users : RolesAnswered(s, o)
    <3>1. PICK o \in call[s].users : RolesAnswered(s, o)
      BY <2>2
    <3>2. o \in MaybeUser
      BY <1>0 DEF MaybeUser
    <3> QED
      BY <1>0, <1>2, <2>1, <3>1, <3>2, LeaveType, SwapType, DeleteType
      DEF RolesReply, RolesAnswered, TypeOK, CallType, serverVars, historyVars
  <2>3. CASE EndLoading(s)
    BY <1>2, <2>3, EndType DEF RolesReply, TypeOK, CallType, serverVars, historyVars
  <2>4. CASE leaveRoom(s, None)
    <3>1. None \in MaybeUser
      BY DEF MaybeUser
    <3> QED
      BY <1>2, <2>1, <2>4, <3>1, LeaveType
      DEF RolesReply, TypeOK, CallType, serverVars, historyVars
  <2> QED
    BY <1>2, <2>2, <2>3, <2>4 DEF RolesReply, NoOwnerListed
<1>3. CASE SwapReply(s)
  <2>1. user[s] \in Users
    BY <1>3 DEF SwapReply, Answered, Own
  <2>2. CASE leaveRoom(s, call[s].to) /\ UNCHANGED listUserGroup
    BY <1>0, <1>3, <2>1, <2>2, LeaveType
    DEF SwapReply, TypeOK, CallType, serverVars, historyVars
  <2>3. CASE NextCandidate(s)
    <3>1. listUserGroup[s] \ {call[s].to} \in SUBSET Users
      BY <1>0
    <3> QED
      BY <1>0, <1>3, <2>1, <2>3, <3>1, SwapType
      DEF SwapReply, NextCandidate, TypeOK, CallType, serverVars, historyVars
  <2>4. CASE EndLoading(s) /\ UNCHANGED listUserGroup
    BY <1>3, <2>4, EndType DEF SwapReply, TypeOK, CallType, serverVars, historyVars
  <2> QED
    BY <1>3, <2>2, <2>3, <2>4 DEF SwapReply
<1>4. CASE LeaveReply(s)
  BY <1>4, EndType DEF LeaveReply, TypeOK, CallType, serverVars, historyVars
<1>5. CASE KickReply(s)
  BY <1>0, <1>5, EndType DEF KickReply, TypeOK, CallType, serverVars, historyVars
<1>6. CASE NoAnswer(s)
  BY <1>6, EndType, GivenUpType, ConstantsAssumption
  DEF NoAnswer, Fault, TypeOK, CallType, serverVars, historyVars
<1>7. CASE BrokenReply(s)
  <2>1. CallType(NoCall)
    BY NoCallType DEF CallType, Ops
  <2> QED
    BY <1>7, <2>1, OneCall, LateType, ConstantsAssumption
    DEF BrokenReply, Fault, TypeOK, CallType, serverVars, historyVars, MaybeUser
<1> QED
  BY <1>1, <1>2, <1>3, <1>4, <1>5, <1>6, <1>7 DEF Reply

LEMMA CarryType ==
  ASSUME TypeOK, NEW r, r.by \in Users, r.to \in MaybeUser, r.seen \subseteq Users,
         Allowed(r), Carry(r)
  PROVE  /\ alive' \in BOOLEAN /\ members' \subseteq Users /\ owners' \subseteq Users
         /\ gone' \subseteq Users /\ evicted' \subseteq Users /\ known' \subseteq Users
BY DEF TypeOK, Allowed, Carry, RemoveMember, serverVars

LEMMA TypeServe ==
  ASSUME TypeOK, NEW s \in Screens, Serve(s)
  PROVE  TypeOK'
<1> DEFINE c == call[s]
<1>1. /\ CallType(c) /\ c.op \in Ops /\ c.by \in Users /\ c.to \in MaybeUser
      /\ c.seen \subseteq Users
  BY CallTypes DEF CallType, Calls, Serve, Ops
<1>2. PICK answer \in Answers, users \in SUBSET Users :
        /\ call' = [call EXCEPT ![s] = [op |-> c.op, by |-> c.by, to |-> c.to,
              seen |-> c.seen, answer |-> answer, users |-> users]]
        /\ (Allowed(c) /\ Carry(c)) \/ UNCHANGED serverVars
  BY DEF Serve, Payload, Refusal, Answers, TypeOK
<1>3. CallType([op |-> c.op, by |-> c.by, to |-> c.to,
                seen |-> c.seen, answer |-> answer, users |-> users])
  BY <1>1, <1>2 DEF CallType, Calls, Ops
<1>4. /\ call' \in [Screens -> Calls]
      /\ \A t \in Screens : CallType(call'[t])
  BY <1>2, <1>3, OneCall
<1>5. /\ alive' \in BOOLEAN /\ members' \subseteq Users /\ owners' \subseteq Users
      /\ gone' \subseteq Users /\ evicted' \subseteq Users /\ known' \subseteq Users
  BY <1>1, <1>2, CarryType DEF TypeOK, serverVars
<1> QED
  BY <1>4, <1>5 DEF Serve, TypeOK, CallType, historyVars

LEMMA TypeLate ==
  ASSUME TypeOK, NEW r \in late, ServeLate(r)
  PROVE  TypeOK'
<1>1. r.by \in Users /\ r.to \in MaybeUser /\ r.seen \subseteq Users
  BY DEF TypeOK, Requests
<1>2. /\ alive' \in BOOLEAN /\ members' \subseteq Users /\ owners' \subseteq Users
      /\ gone' \subseteq Users /\ evicted' \subseteq Users /\ known' \subseteq Users
  BY <1>1, CarryType DEF ServeLate, TypeOK, serverVars
<1> QED
  BY <1>2 DEF ServeLate, TypeOK, historyVars

LEMMA TypeLateError ==
  ASSUME TypeOK, NEW s \in Screens, LateError(s)
  PROVE  TypeOK'
BY DEF LateError, TypeOK, serverVars, historyVars

LEMMA TypeJoin ==
  ASSUME TypeOK, NEW v \in Users, Join(v)
  PROVE  TypeOK'
BY DEF Join, TypeOK, historyVars

-----------------------------------------------------------------------------
(* The invariant                                                           *)

(* What the server knows only grows.                                       *)
Grow ==
  /\ gone \subseteq gone'
  /\ owners \subseteq owners' \cup gone'
  /\ members \subseteq members' \cup gone'
  /\ ~alive => ~alive'

Same(s) ==
  /\ call'[s] = call[s] /\ user'[s] = user[s]
  /\ listUserGroup'[s] = listUserGroup[s]
  /\ told'[s] = told[s] /\ heir'[s] = heir[s]

(* Who was told that he has left is gone, or the group is.                 *)
Out(s) ==
  /\ Answered(s, "leave", "ok") => user[s] \in gone
  /\ Answered(s, "delete", "ok") => ~alive

(* The owner a screen relies on, or is about to.                           *)
Heir(s) ==
  /\ call[s].op = "leave" => heir[s] # user[s] /\ heir[s] \in owners \cup gone \cup {None}
  /\ Answered(s, "roles", "ok") => call[s].users \subseteq owners \cup gone
  /\ call[s].op = "swap" => call[s].to # user[s] /\ call[s].to \in listUserGroup[s]
  /\ Answered(s, "swap", "ok") \/ Answered(s, "swap", "already") =>
       call[s].to \in owners \cup gone
  /\ Answered(s, "swap", "notInRoom") => call[s].to \in gone

(* Its user is a member or has been one.  Whoever is refused to leave with *)
(* an owner to rely on has lost that owner, or the group.                  *)
Belongs(s) ==
  /\ user[s] \in Users => user[s] \in members \cup gone
  /\ Answered(s, "leave", "refused") /\ heir[s] # None =>
       ~alive \/ {user[s], heir[s]} \cap gone # {}

(* The list is what was loaded without those who have gone, and holds the  *)
(* user once it is loaded.                                                 *)
Loaded(s) ==
  /\ told[s] \subseteq listUserGroup[s] \cup gone
  /\ listUserGroup[s] \subseteq members \cup gone
  /\ listUserGroup[s] # {} => user[s] \in listUserGroup[s]

List(s) ==
  /\ Loaded(s)
  /\ call[s].op = "kick" => call[s].to # user[s]
  /\ Answered(s, "kick", "ok") => call[s].to \in gone
  /\ Answered(s, "members", "ok") =>
       user[s] \in call[s].users /\ call[s].users \subseteq members \cup gone

(* A request to delete the group hits nobody on the list it was decided    *)
(* from, but for the creator.                                              *)
Spares(r) == r.op = "delete" => r.seen \subseteq gone \cup {r.by, Creator}

ScreenOK(s) ==
  Own(s) /\ Out(s) /\ Heir(s) /\ Belongs(s) /\ List(s) /\ Spares(call[s])

ServerOK ==
  /\ members \cap gone = {} /\ listed \subseteq members \cup gone
  /\ \A r \in late : Spares(r)
  /\ ~alive \/ evicted = {}
  /\ evicted \cap known \subseteq {Creator}
  /\ RemovedIsOut

Inv == TypeOK /\ ServerOK /\ \A s \in Screens : ScreenOK(s)

LEMMA InitInv == Init => Inv
<1> SUFFICES ASSUME Init PROVE Inv
  OBVIOUS
<1>1. TypeOK
  BY TypeInit
<1>2. ServerOK
  BY ConstantsAssumption DEF Init, ServerOK, Spares, RemovedIsOut
<1>3. ASSUME NEW s \in Screens PROVE ScreenOK(s)
  <2>1. /\ call[s].op = "none" /\ listUserGroup[s] = {} /\ told[s] = {}
        /\ user[s] \notin Users
    BY NoCallType, ConstantsAssumption DEF Init
  <2> QED
    BY <2>1 DEF ScreenOK, Own, Out, Heir, Belongs, List, Loaded, Spares, Answered
<1> QED
  BY <1>1, <1>2, <1>3 DEF Inv

(* What a screen knows stays true while the screen does nothing.           *)
LEMMA Kept ==
  ASSUME NEW s \in Screens, ScreenOK(s), Grow, Same(s)
  PROVE  ScreenOK(s)'
<1>1. Own(s)'
  BY DEF ScreenOK, Own, Same
<1>2. Out(s)'
  BY DEF ScreenOK, Out, Answered, Same, Grow
<1>3. Heir(s)'
  BY DEF ScreenOK, Heir, Answered, Same, Grow
<1>4. List(s)'
  BY DEF ScreenOK, List, Loaded, Answered, Same, Grow
<1>5. Spares(call[s])'
  BY DEF ScreenOK, Spares, Same, Grow
<1>6. Belongs(s)'
  BY DEF ScreenOK, Belongs, Answered, Same, Grow
<1> QED
  BY <1>1, <1>2, <1>3, <1>4, <1>5, <1>6 DEF ScreenOK

LEMMA OneScreen ==
  ASSUME Inv, NEW s \in Screens, ScreenOK(s)', Grow,
         \A t \in Screens \ {s} : Same(t)
  PROVE  \A t \in Screens : ScreenOK(t)'
BY Kept DEF Inv

-----------------------------------------------------------------------------
(* The server                                                              *)

(* A request that is carried out only adds to what the server knows, takes *)
(* the group from nobody who has it listed, and, if it deletes the group,  *)
(* hits those it may.                                                      *)
LEMMA CarryOK ==
  ASSUME TypeOK, ServerOK, NEW r, Allowed(r), Carry(r), Spares(r),
         late' \subseteq late, UNCHANGED listed
  PROVE  Grow /\ ServerOK'
<1>1. Grow
  BY DEF Grow, Carry, RemoveMember, serverVars, Allowed
<1>2. (\A q \in late : Spares(q))'
  BY <1>1 DEF ServerOK, Spares, Grow
<1>3. (members \cap gone = {})' /\ (listed \subseteq members \cup gone)'
  BY DEF ServerOK, Carry, RemoveMember, serverVars
<1>4. (~alive \/ evicted = {})' /\ (evicted \cap known \subseteq {Creator})'
  BY DEF ServerOK, Carry, RemoveMember, serverVars, Allowed, Spares
<1>5. RemovedIsOut'
  BY DEF ServerOK, Carry, RemoveMember, serverVars, RemovedIsOut
<1> QED
  BY <1>1, <1>2, <1>3, <1>4, <1>5 DEF ServerOK

(* A step that leaves the server alone.                                    *)
LEMMA NoCarry ==
  ASSUME ServerOK, UNCHANGED serverVars, RemovedIsOut', \A r \in late' : Spares(r),
         listed' \subseteq listed
  PROVE  Grow /\ ServerOK'
BY DEF ServerOK, Grow, serverVars, Spares, RemovedIsOut

-----------------------------------------------------------------------------
(* The screen: a request just sent, and a screen that waits for none       *)

LEMMA AskedOK ==
  ASSUME TypeOK, NEW s \in Screens, NEW op \in Ops, NEW u \in Users, NEW v \in MaybeUser,
         Ask(s, u, op, v), user'[s] = u, Loaded(s)', u \in members' \cup gone',
         op = "leave"  => heir'[s] # u /\ heir'[s] \in owners' \cup gone' \cup {None},
         op = "swap"   => v # u /\ v \in listUserGroup'[s],
         op = "kick"   => v # u,
         op = "delete" => told[s] \subseteq gone' \cup {u, Creator}
  PROVE  ScreenOK(s)' /\ \A t \in Screens \ {s} : call'[t] = call[t]
<1> DEFINE seen == IF op = "delete" THEN told[s] ELSE {}
           r    == Request(op, u, v, seen)
<1>1. seen \in SUBSET Users
  BY DEF TypeOK
<1>2. r.op = op /\ r.by = u /\ r.to = v /\ r.seen = seen /\ r.answer = "none"
  BY <1>1, RequestType DEF MaybeUser
<1>3. call'[s] = r /\ \A t \in Screens \ {s} : call'[t] = call[t]
  BY DEF Ask, TypeOK
<1>4. Own(s)' /\ Out(s)' /\ Heir(s)' /\ List(s)'
  BY <1>2, <1>3 DEF Own, Out, Heir, List, Answered
<1>6. Belongs(s)'
  BY <1>2, <1>3 DEF Belongs, Answered
<1>5. Spares(call[s])'
  BY <1>2, <1>3 DEF Spares
<1> QED
  BY <1>3, <1>4, <1>5, <1>6 DEF ScreenOK

LEMMA EndedOK ==
  ASSUME TypeOK, NEW s \in Screens, call' = [call EXCEPT ![s] = NoCall], Loaded(s)',
         user'[s] \in Users => user'[s] \in members' \cup gone'
  PROVE  ScreenOK(s)' /\ \A t \in Screens \ {s} : call'[t] = call[t]
<1>1. call'[s] = NoCall /\ \A t \in Screens \ {s} : call'[t] = call[t]
  BY DEF TypeOK
<1> QED
  BY <1>1, NoCallType DEF ScreenOK, Own, Out, Heir, Belongs, List, Spares, Answered

LEMMA PressedOK ==
  ASSUME Inv, NEW s \in Screens, Pressed(s)
  PROVE  ServerOK' /\ \A t \in Screens : ScreenOK(t)'
<1>1. /\ UNCHANGED <<serverVars, listUserGroup, listed, late, timedOut, historyVars>>
      /\ ServerOK /\ TypeOK /\ ScreenOK(s) /\ Loaded(s)
  BY DEF Inv, ScreenOK, List, Pressed, OpenScreen, getAllUserOnGroup, getUserRoles, kickMember
<1>2. Grow /\ ServerOK'
  BY <1>1, NoCarry DEF ServerOK, RemovedIsOut, serverVars
<1>3. Loaded(s)' /\ \A t \in Screens \ {s} : user'[t] = user[t]
  <2>1. ASSUME NEW u \in Users, OpenScreen(s, u)
        PROVE  Loaded(s)' /\ \A t \in Screens \ {s} : user'[t] = user[t]
    <3>1. listUserGroup[s] = {}
      BY <1>1, <2>1, ConstantsAssumption DEF OpenScreen, Loaded, TypeOK
    <3> QED
      BY <1>1, <2>1, <3>1 DEF OpenScreen, Loaded, TypeOK, serverVars, historyVars
  <2>2. CASE UNCHANGED user
    BY <1>1, <2>2 DEF Loaded, serverVars, historyVars
  <2> QED
    BY <2>1, <2>2 DEF Pressed, getAllUserOnGroup, getUserRoles, kickMember
<1>4. ScreenOK(s)' /\ \A t \in Screens \ {s} : call'[t] = call[t]
  <2>0. None \in MaybeUser /\ Users \subseteq MaybeUser /\ Creator \in Users
    BY ConstantsAssumption DEF MaybeUser
  <2>1. ASSUME NEW u \in Users, OpenScreen(s, u)
        PROVE  ScreenOK(s)' /\ \A t \in Screens \ {s} : call'[t] = call[t]
    <3>1. user'[s] = u /\ Ask(s, u, "members", None) /\ u \in members' \cup gone'
      BY <1>1, <2>1 DEF OpenScreen, TypeOK, ServerOK, serverVars
    <3> QED
      BY <1>1, <1>3, <2>0, <3>1, AskedOK DEF Ops
  <2>2. CASE getAllUserOnGroup(s) \/ getUserRoles(s)
    <3>1. /\ user'[s] = user[s] /\ user[s] \in Users
          /\ user[s] \in members' \cup gone'
      BY <1>1, <2>2
      DEF getAllUserOnGroup, getUserRoles, OnTop, TypeOK, ScreenOK, Belongs, serverVars
    <3> QED
      BY <1>1, <1>3, <2>0, <2>2, <3>1, AskedOK DEF getAllUserOnGroup, getUserRoles, Ops
  <2>3. ASSUME NEW v \in Users, kickMember(s, v)
        PROVE  ScreenOK(s)' /\ \A t \in Screens \ {s} : call'[t] = call[t]
    <3>1. user'[s] = Creator /\ Creator \in members' \cup gone'
      BY <1>1, <2>0, <2>3 DEF kickMember, ScreenOK, Belongs, serverVars
    <3> QED
      BY <1>1, <1>3, <2>0, <2>3, <3>1, AskedOK DEF kickMember, Ops
  <2> QED
    BY <2>1, <2>2, <2>3 DEF Pressed
<1> QED
  BY <1>1, <1>2, <1>3, <1>4, OneScreen DEF Same, historyVars

-----------------------------------------------------------------------------
(* The screen: what its callbacks do                                       *)

(* The next candidate, or none left: whom the deletion may hit.            *)
LEMMA SwapOwnerOK ==
  ASSUME TypeOK, NEW s \in Screens, user[s] \in Users, UNCHANGED user, Loaded(s)',
         user[s] \in members' \cup gone',
         told[s] \subseteq listUserGroup'[s] \cup gone',
         swapOwner(s, listUserGroup'[s]), listUserGroup'[s] \subseteq Users
  PROVE  ScreenOK(s)' /\ \A t \in Screens \ {s} : call'[t] = call[t] /\ heir'[t] = heir[t]
<1>0. None \in MaybeUser /\ Users \subseteq MaybeUser
  BY DEF MaybeUser
<1>1. ASSUME NEW v \in listUserGroup'[s] \ {user[s], Creator}, Ask(s, user[s], "swap", v)
      PROVE  ScreenOK(s)' /\ \A t \in Screens \ {s} : call'[t] = call[t]
  BY <1>0, <1>1, AskedOK DEF Ops
<1>2. ASSUME listUserGroup'[s] \ {user[s], Creator} = {}, deleteGroup(s)
      PROVE  ScreenOK(s)' /\ \A t \in Screens \ {s} : call'[t] = call[t]
  BY <1>0, <1>2, AskedOK DEF deleteGroup, Ops
<1>3. UNCHANGED heir
  BY DEF swapOwner, deleteGroup
<1> QED
  BY <1>1, <1>2, <1>3 DEF swapOwner

LEMMA LeaveRoomOK ==
  ASSUME TypeOK, NEW s \in Screens, user[s] \in Users, UNCHANGED user, Loaded(s)',
         user[s] \in members' \cup gone',
         NEW o, leaveRoom(s, o), o # user[s], o \in owners' \cup gone' \cup {None}
  PROVE  ScreenOK(s)' /\ \A t \in Screens \ {s} : call'[t] = call[t] /\ heir'[t] = heir[t]
<1>1. heir'[s] = o /\ \A t \in Screens \ {s} : heir'[t] = heir[t]
  BY DEF leaveRoom, TypeOK
<1> QED
  BY <1>1, AskedOK DEF leaveRoom, Ops, MaybeUser

LEMMA DeleteGroupOK ==
  ASSUME TypeOK, NEW s \in Screens, user[s] \in Users, UNCHANGED user, Loaded(s)',
         user[s] \in members' \cup gone',
         deleteGroup(s), told[s] \subseteq gone' \cup {user[s], Creator}
  PROVE  ScreenOK(s)' /\ \A t \in Screens \ {s} : call'[t] = call[t] /\ heir'[t] = heir[t]
BY AskedOK DEF deleteGroup, Ops, MaybeUser

LEMMA EndLoadingOK ==
  ASSUME TypeOK, NEW s \in Screens, EndLoading(s), Loaded(s)',
         user'[s] \in Users => user'[s] \in members' \cup gone'
  PROVE  ScreenOK(s)' /\ \A t \in Screens \ {s} : call'[t] = call[t] /\ heir'[t] = heir[t]
BY EndedOK DEF EndLoading, TypeOK

(* A reply changes its own screen, and nothing the server knows.           *)
LEMMA ReplyScreen ==
  ASSUME Inv, NEW s \in Screens, Reply(s)
  PROVE  /\ ScreenOK(s)'
         /\ \A t \in Screens \ {s} : Same(t)
<1>0. /\ UNCHANGED <<serverVars, user>> /\ TypeOK /\ ScreenOK(s) /\ Own(s) /\ Loaded(s)
      /\ listUserGroup[s] \subseteq Users
      /\ user'[s] \in Users => user'[s] \in members' \cup gone'
  BY DEF Inv, ScreenOK, Belongs, List, serverVars, Reply, MembersReply, RolesReply, SwapReply, LeaveReply,
         KickReply, NoAnswer, BrokenReply, TypeOK
<1> DEFINE Done == /\ ScreenOK(s)'
                   /\ \A t \in Screens \ {s} : call'[t] = call[t] /\ heir'[t] = heir[t]
<1>1. UNCHANGED <<listUserGroup, told>> => Loaded(s)'
  BY <1>0 DEF Loaded, serverVars
<1>2. CASE MembersReply(s)
  <2>1. CASE Answered(s, "members", "ok")
    <3>1. listUserGroup'[s] = call[s].users /\ told'[s] = call[s].users
      BY <1>2, <2>1, <1>0 DEF MembersReply, Answered, TypeOK
    <3>2. Loaded(s)'
      BY <1>0, <2>1, <3>1 DEF Loaded, ScreenOK, List, serverVars
    <3> QED
      BY <1>0, <1>2, <3>2, EndLoadingOK DEF MembersReply, Same, TypeOK
  <2>2. CASE UNCHANGED <<listUserGroup, told>>
    BY <1>0, <1>1, <1>2, <2>2, EndLoadingOK DEF MembersReply, Same
  <2> QED
    BY <1>2, <2>1, <2>2 DEF MembersReply
<1>3. CASE RolesReply(s)
  <2>0. user[s] \in Users /\ UNCHANGED <<listUserGroup, told>>
    BY <1>0, <1>3 DEF RolesReply, Answered, Own
  <2>1. ASSUME Answered(s, "roles", "ok"), NEW o \in call[s].users, RolesAnswered(s, o)
        PROVE  Done
    <3>1. o \in owners' \cup gone'
      BY <1>0, <2>1 DEF ScreenOK, Heir, serverVars
    <3>2. CASE o # user[s] /\ leaveRoom(s, o)
      BY <1>0, <1>1, <2>0, <3>1, <3>2, LeaveRoomOK
    <3>3. CASE swapOwner(s, listUserGroup[s])
      BY <1>0, <1>1, <2>0, <3>3, SwapOwnerOK DEF Loaded, serverVars
    <3>4. CASE ~MoreThanOne(listUserGroup[s]) /\ deleteGroup(s)
      <4>1. told[s] \subseteq gone' \cup {user[s], Creator}
        BY <1>0, <3>4 DEF MoreThanOne, Loaded, serverVars
      <4> QED
        BY <1>0, <1>1, <2>0, <3>4, <4>1, DeleteGroupOK
    <3> QED
      BY <2>1, <3>2, <3>3, <3>4 DEF RolesAnswered
  <2>2. ASSUME EndLoading(s) PROVE Done
    BY <1>0, <1>1, <2>0, <2>2, EndLoadingOK
  <2>4. ASSUME leaveRoom(s, None) PROVE Done
    <3>1. None # user[s]
      BY <2>0, ConstantsAssumption
    <3> QED
      BY <1>0, <1>1, <2>0, <2>4, <3>1, LeaveRoomOK
  <2>3. Done
    BY <1>3, <2>1, <2>2, <2>4 DEF RolesReply, NoOwnerListed
  <2> QED
    BY <1>0, <2>0, <2>3 DEF Same
<1>4. CASE SwapReply(s)
  <2>0. user[s] \in Users /\ UNCHANGED told /\ call[s].to # user[s]
    BY <1>0, <1>4 DEF SwapReply, Answered, Own, ScreenOK, Heir
  <2>1. CASE /\ Answered(s, "swap", "ok") \/ Answered(s, "swap", "already")
             /\ leaveRoom(s, call[s].to) /\ UNCHANGED listUserGroup
    <3>1. call[s].to \in owners' \cup gone'
      BY <1>0, <2>1 DEF ScreenOK, Heir, serverVars
    <3>2. Done
      BY <1>0, <1>1, <2>0, <2>1, <3>1, LeaveRoomOK
    <3> QED
      BY <1>0, <2>0, <2>1, <3>2 DEF Same
  <2>2. CASE Answered(s, "swap", "notInRoom") /\ NextCandidate(s)
    <3>1. /\ listUserGroup'[s] = listUserGroup[s] \ {call[s].to}
          /\ \A t \in Screens \ {s} : listUserGroup'[t] = listUserGroup[t]
      BY <1>0, <2>2 DEF NextCandidate, TypeOK
    <3>2. call[s].to \in gone
      BY <1>0, <2>2 DEF ScreenOK, Heir
    <3>3. Loaded(s)'
      BY <1>0, <2>0, <3>1, <3>2 DEF Loaded, serverVars
    <3>4. Done
      <4>1. told[s] \subseteq listUserGroup'[s] \cup gone'
        BY <1>0, <3>1, <3>2 DEF Loaded, serverVars
      <4>2. swapOwner(s, listUserGroup'[s]) /\ listUserGroup'[s] \subseteq Users
        BY <1>0, <2>2, <3>1 DEF NextCandidate
      <4> QED
        BY <1>0, <2>0, <3>3, <4>1, <4>2, SwapOwnerOK
    <3> QED
      BY <1>0, <2>0, <3>1, <3>4 DEF Same
  <2>3. CASE EndLoading(s) /\ UNCHANGED listUserGroup
    BY <1>0, <1>1, <2>0, <2>3, EndLoadingOK DEF Same
  <2> QED
    BY <1>4, <2>1, <2>2, <2>3 DEF SwapReply
<1>5. CASE LeaveReply(s)
  BY <1>0, <1>1, <1>5, EndLoadingOK DEF LeaveReply, Same
<1>6. CASE KickReply(s)
  <2>1. CASE Answered(s, "kick", "ok")
    <3>1. /\ listUserGroup'[s] = listUserGroup[s] \ {call[s].to}
          /\ \A t \in Screens \ {s} : listUserGroup'[t] = listUserGroup[t]
          /\ UNCHANGED told
      BY <1>0, <1>6, <2>1 DEF KickReply, Answered, TypeOK
    <3>2. call[s].to \in gone /\ call[s].to # user[s]
      BY <1>0, <2>1 DEF ScreenOK, List, Answered
    <3>3. Loaded(s)'
      BY <1>0, <3>1, <3>2 DEF Loaded, serverVars
    <3> QED
      BY <1>0, <1>6, <3>1, <3>3, EndLoadingOK DEF KickReply, Same
  <2>2. CASE UNCHANGED listUserGroup
    BY <1>0, <1>1, <1>6, <2>2, EndLoadingOK DEF KickReply, Same
  <2> QED
    BY <1>6, <2>1, <2>2 DEF KickReply
<1>7. CASE NoAnswer(s)
  BY <1>0, <1>1, <1>7, EndLoadingOK DEF NoAnswer, Same
<1>8. CASE BrokenReply(s)
  BY <1>0, <1>1, <1>8, EndedOK DEF BrokenReply, Same, TypeOK
<1> QED
  BY <1>2, <1>3, <1>4, <1>5, <1>6, <1>7, <1>8 DEF Reply

LEMMA ReplyOK ==
  ASSUME Inv, NEW s \in Screens, Reply(s)
  PROVE  ServerOK' /\ \A t \in Screens : ScreenOK(t)'
<1>0. /\ UNCHANGED serverVars /\ TypeOK /\ ServerOK /\ ScreenOK(s)
      /\ \A r \in late : Spares(r)
  BY DEF Inv, ServerOK, Reply, MembersReply, RolesReply, SwapReply, LeaveReply,
         KickReply, NoAnswer, BrokenReply
<1>1. \A r \in late' : Spares(r)
  <2>1. CASE UNCHANGED late
    BY <1>0, <2>1
  <2>2. CASE MayArrive(s)
    BY <1>0, <2>2 DEF MayArrive, ScreenOK, Spares
  <2> QED
    BY <2>1, <2>2 DEF MayFail, Reply, MembersReply, RolesReply, SwapReply, LeaveReply,
         KickReply, NoAnswer, BrokenReply
<1>2. RemovedIsOut'
  <2>1. CASE UNCHANGED listed
    BY <1>0, <2>1 DEF ServerOK, RemovedIsOut, serverVars
  <2>2. CASE /\ \E op \in {"leave", "delete"} : Answered(s, op, "ok")
             /\ listed' = listed \ {user[s]}
    <3>1. ~alive \/ user[s] \in gone
      BY <1>0, <2>2 DEF ScreenOK, Out
    <3> QED
      BY <1>0, <2>2, <3>1 DEF ServerOK, RemovedIsOut, serverVars
  <2> QED
    BY <2>1, <2>2 DEF Reply, MembersReply, RolesReply, SwapReply, LeaveReply,
         KickReply, NoAnswer, BrokenReply
<1>3. listed' \subseteq listed
  BY DEF Reply, MembersReply, RolesReply, SwapReply, LeaveReply, KickReply, NoAnswer,
         BrokenReply
<1> QED
  BY <1>0, <1>1, <1>2, <1>3, NoCarry, ReplyScreen, OneScreen

LEMMA ServeOK ==
  ASSUME Inv, NEW s \in Screens, Serve(s)
  PROVE  ServerOK' /\ \A t \in Screens : ScreenOK(t)'
<1> DEFINE c == call[s]
           d == call'[s]
<1>0. /\ TypeOK /\ ServerOK /\ ScreenOK(s) /\ c \in Calls /\ c.op \in Ops /\ c.answer = "none"
      /\ UNCHANGED <<user, listUserGroup, loading, listed, late, historyVars>>
  BY DEF Inv, TypeOK, Serve, Calls
<1>1. /\ d.op = c.op /\ d.by = c.by /\ d.to = c.to /\ d.seen = c.seen
      /\ \A t \in Screens \ {s} : call'[t] = call[t]
      /\ \/ Allowed(c) /\ Carry(c) /\ d.answer = "ok" /\ d.users \in Payload(c)
         \/ ~Allowed(c) /\ UNCHANGED serverVars /\ d.answer = Refusal(c)
  BY <1>0 DEF Serve, TypeOK
<1>2. Grow /\ ServerOK'
  <2>1. CASE Allowed(c) /\ Carry(c)
    BY <1>0, <2>1, CarryOK DEF ScreenOK
  <2>2. CASE UNCHANGED serverVars
    BY <1>0, <2>2, NoCarry DEF ServerOK, RemovedIsOut, serverVars
  <2> QED
    BY <1>1, <2>1, <2>2
<1>3. Own(s)'
  BY <1>0, <1>1 DEF ScreenOK, Own
<1>4. Loaded(s)'
  BY <1>0, <1>2 DEF ScreenOK, List, Loaded, Grow, historyVars
<1>5. Spares(call[s])'
  BY <1>0, <1>1, <1>2 DEF ScreenOK, Spares, Grow
<1>6. c.by = user[s]
  BY <1>0 DEF ScreenOK, Own, Ops
<1>7. Out(s)' /\ Heir(s)' /\ List(s)'
  <2>1. CASE Allowed(c) /\ Carry(c) /\ d.answer = "ok" /\ d.users \in Payload(c)
    <3>1. Out(s)'
      BY <1>0, <1>1, <1>6, <2>1 DEF Out, Answered, Carry, RemoveMember
    <3>2. Heir(s)'
      BY <1>0, <1>1, <1>2, <2>1
      DEF ScreenOK, Heir, Answered, Carry, Payload, Grow, serverVars, historyVars
    <3>3. List(s)'
      <4>1. c.op = "kick" => c.to # user[s] /\ c.to \in gone'
        BY <1>0, <2>1 DEF ScreenOK, List, Carry, RemoveMember
      <4>2. c.op = "members" => user[s] \in d.users /\ d.users \subseteq members'
        BY <1>6, <2>1 DEF Allowed, Carry, Payload, serverVars
      <4> QED
        BY <1>0, <1>1, <1>4, <4>1, <4>2 DEF List, Answered
    <3> QED
      BY <3>1, <3>2, <3>3
  <2>2. CASE ~Allowed(c) /\ UNCHANGED serverVars /\ d.answer = Refusal(c)
    <3>1. d.answer # "ok"
      BY <2>2 DEF Refusal
    <3>2. Out(s)'
      BY <3>1 DEF Out, Answered
    <3>3. d.answer = "already" => c.to \in owners'
      BY <2>2 DEF Refusal, serverVars
    <3>4. d.answer = "notInRoom" => c.to \in gone'
      BY <1>0, <2>2 DEF Refusal, Allowed, ScreenOK, Heir, List, Loaded, serverVars
    <3>5. Heir(s)'
      BY <1>0, <1>1, <1>2, <3>1, <3>3, <3>4 DEF ScreenOK, Heir, Answered, Grow, historyVars
    <3>6. List(s)'
      BY <1>0, <1>1, <1>4, <3>1 DEF ScreenOK, List, Answered
    <3> QED
      BY <3>2, <3>5, <3>6
  <2> QED
    BY <1>1, <2>1, <2>2
<1>9. Belongs(s)'
  <2>1. user'[s] \in Users => user'[s] \in members' \cup gone'
    BY <1>0, <1>2 DEF ScreenOK, Belongs, Grow
  <2>2. ASSUME Answered(s, "leave", "refused")', heir'[s] # None
        PROVE  ~alive' \/ {user'[s], heir'[s]} \cap gone' # {}
    <3>1. c.op = "leave" /\ d.answer = "refused"
      BY <1>1, <2>2 DEF Answered
    <3>2. ~Allowed(c) /\ UNCHANGED serverVars
      BY <1>1, <3>1
    <3>3. ~alive \/ user[s] \notin members \/ owners = {user[s]}
      BY <1>6, <3>1, <3>2 DEF Allowed
    <3>4. /\ user[s] \in members \cup gone
          /\ heir[s] # user[s] /\ heir[s] \in owners \cup gone \cup {None}
          /\ UNCHANGED <<user, heir, alive, gone>>
      BY <1>0, <1>6, <3>1, <3>2
      DEF ScreenOK, Own, Belongs, Heir, serverVars, historyVars
    <3> QED
      BY <2>2, <3>3, <3>4
  <2> QED
    BY <2>1, <2>2 DEF Belongs
<1>8. ScreenOK(s)'
  BY <1>3, <1>5, <1>7, <1>9 DEF ScreenOK
<1> QED
  BY <1>0, <1>1, <1>2, <1>8, OneScreen DEF Inv, Same, historyVars

LEMMA LateOK ==
  ASSUME Inv, NEW r \in late, ServeLate(r)
  PROVE  ServerOK' /\ \A t \in Screens : ScreenOK(t)'
<1>0. /\ TypeOK /\ ServerOK /\ Spares(r) /\ late' \subseteq late
      /\ UNCHANGED <<user, listUserGroup, call, listed, historyVars>>
  BY DEF Inv, ServerOK, ServeLate
<1>1. Grow /\ ServerOK'
  <2>1. CASE Allowed(r) /\ Carry(r)
    BY <1>0, <2>1, CarryOK
  <2>2. CASE UNCHANGED serverVars
    BY <1>0, <2>2, NoCarry DEF ServerOK, RemovedIsOut, serverVars
  <2> QED
    BY <2>1, <2>2 DEF ServeLate
<1> QED
  BY <1>0, <1>1, Kept DEF Inv, Same, historyVars

LEMMA LateErrorOK ==
  ASSUME Inv, NEW s \in Screens, LateError(s)
  PROVE  ServerOK' /\ \A t \in Screens : ScreenOK(t)'
<1>1. Grow /\ ServerOK'
  BY NoCarry DEF Inv, ServerOK, LateError, RemovedIsOut, serverVars
<1>2. \A t \in Screens : Same(t)
  BY DEF LateError, Same, historyVars
<1> QED
  BY <1>1, <1>2, Kept DEF Inv

LEMMA JoinOK ==
  ASSUME Inv, NEW v \in Users, Join(v)
  PROVE  ServerOK' /\ \A t \in Screens : ScreenOK(t)'
<1>1. Grow /\ \A t \in Screens : Same(t)
  BY DEF Join, Grow, Same, historyVars
<1>2. ServerOK'
  BY DEF Inv, Join, ServerOK, RemovedIsOut, Spares
<1> QED
  BY <1>1, <1>2, Kept DEF Inv

-----------------------------------------------------------------------------
(* The theorems                                                            *)

LEMMA Step == Inv /\ [Next]_vars => Inv'
<1> SUFFICES ASSUME Inv, [Next]_vars PROVE Inv'
  OBVIOUS
<1>0. TypeOK /\ Typed
  BY DEF Inv, Typed, ScreenOK
<1>1. ASSUME NEW s \in Screens, Pressed(s) PROVE Inv'
  BY <1>0, <1>1, TypePressed, PressedOK DEF Inv
<1>2. ASSUME NEW s \in Screens, Reply(s) PROVE Inv'
  BY <1>0, <1>2, TypeReply, ReplyOK DEF Inv
<1>3. ASSUME NEW s \in Screens, Serve(s) PROVE Inv'
  BY <1>0, <1>3, TypeServe, ServeOK DEF Inv
<1>4. ASSUME NEW r \in late, ServeLate(r) PROVE Inv'
  BY <1>0, <1>4, TypeLate, LateOK DEF Inv
<1>5. ASSUME NEW v \in Users, Join(v) PROVE Inv'
  BY <1>0, <1>5, TypeJoin, JoinOK DEF Inv
<1>7. ASSUME NEW s \in Screens, LateError(s) PROVE Inv'
  BY <1>0, <1>7, TypeLateError, LateErrorOK DEF Inv
<1>6. CASE UNCHANGED vars
  <2>1. UNCHANGED <<serverVars, user, listUserGroup, loading, call, listed, lateVars, historyVars, faults>>
    BY <1>6 DEF vars
  <2>2. TypeOK'
    BY <1>0, <2>1 DEF TypeOK, serverVars, historyVars
  <2>3. Grow /\ ServerOK'
    BY <2>1, NoCarry DEF Inv, ServerOK, RemovedIsOut, serverVars
  <2>4. \A t \in Screens : Same(t)
    BY <2>1 DEF Same, historyVars
  <2> QED
    BY <2>2, <2>3, <2>4, Kept DEF Inv
<1> QED
  BY <1>1, <1>2, <1>3, <1>4, <1>5, <1>6, <1>7 DEF Next

LEMMA Always == Spec => []Inv
BY InitInv, Step, PTL DEF Spec

(* The variables have their types; a request for a new owner or for the    *)
(* removal of a member names one.                                          *)
THEOREM TypeCorrect == Spec => []TypeOK
<1>1. Inv => TypeOK
  BY DEF Inv
<1> QED
  BY <1>1, Always, PTL

(* removeGroup takes the group off a phone only when its user is out of    *)
(* the group or the group is deleted, whatever requests were lost, given   *)
(* up and carried out late.                                                *)
THEOREM RemovedIsOutCorrect == Spec => []RemovedIsOut
<1>1. Inv => RemovedIsOut
  BY DEF Inv, ServerOK
<1> QED
  BY <1>1, Always, PTL

(* Between handing over and leaving any member may act; the one who handed *)
(* over is refused only when the group, his membership or his heir has     *)
(* gone, in every group and for any number of screens and faults.          *)
THEOREM HandedOverMayLeaveCorrect == Spec => []HandedOverMayLeave
<1>1. Inv => HandedOverMayLeave
  BY DEF Inv, ScreenOK, Belongs, HandedOverMayLeave
<1> QED
  BY <1>1, Always, PTL

(* deleteGroup takes the group from nobody who was on the list that the    *)
(* screen had loaded, but for the creator.                                 *)
THEOREM ListedKeepGroupCorrect == Spec => []ListedKeepGroup
<1>1. Inv => ListedKeepGroup
  BY DEF Inv, ServerOK, ListedKeepGroup
<1> QED
  BY <1>1, Always, PTL

=============================================================================
