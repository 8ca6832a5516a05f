-------------------------- MODULE WsSessionProofs --------------------------
(***************************************************************************)
(* Theorems about WsSession for every set of users and every bound: the    *)
(* types, the DDP order (a login only on a connection the server has       *)
(* accepted) and that a logout ends the automatic logins.                  *)
(***************************************************************************)
EXTENDS WsSession, SequenceTheorems, TLAPS

-----------------------------------------------------------------------------
(* Elements of a sequence after a frame is appended or taken off.          *)

LEMMA AppendElements ==
  ASSUME NEW S, NEW s \in Seq(S), NEW e \in S
  PROVE  /\ Append(s, e) \in Seq(S)
         /\ Len(Append(s, e)) = Len(s) + 1
         /\ \A i \in 1..Len(s) : Append(s, e)[i] = s[i]
         /\ Append(s, e)[Len(s) + 1] = e
  OBVIOUS

LEMMA TailElements ==
  ASSUME NEW S, NEW s \in Seq(S), s # <<>>
  PROVE  /\ Head(s) \in S
         /\ Head(s) = s[1] /\ 1 \in 1..Len(s)
         /\ Tail(s) \in Seq(S)
         /\ Len(Tail(s)) = Len(s) - 1
         /\ \A i \in 1..Len(Tail(s)) : Tail(s)[i] = s[i + 1] /\ i + 1 \in 1..Len(s)
  OBVIOUS

LEMMA PrefixElements ==
  ASSUME NEW S, NEW s \in Seq(S), NEW n \in 0..Len(s)
  PROVE  /\ SubSeq(s, 1, n) \in Seq(S)
         /\ Len(SubSeq(s, 1, n)) = n
         /\ \A i \in 1..n : SubSeq(s, 1, n)[i] = s[i]
  OBVIOUS

-----------------------------------------------------------------------------
(* Type correctness                                                        *)

LEMMA FrameTypes ==
  /\ \A t \in {"connect", "method", "sub"} : Frame(t) \in OutFrames
  /\ \A u \in Users : Login(u) \in OutFrames
  /\ \A t \in {"server_id", "connected", "already", "ok", "err"} : Frame(t) \in InFrames
BY DEF Frame, Login, OutFrames, InFrames

(* Sending keeps the type of the queue to the server.                      *)
LEMMA SendType ==
  ASSUME TypeOK, NEW f \in OutFrames, Send(f)
  PROVE  outq' \in Seq(OutFrames)
BY AppendElements DEF Send, TypeOK, WireTypes, ClientTypes, TaskTypes

LEMMA AuthType ==
  ASSUME TypeOK, authWithUserNameAndPass
  PROVE  /\ dataRequest' \in MaybeUser \cup {Blank}
         /\ actionState' \in {"NONE", "WS_LOGIN"}
         /\ outq' \in Seq(OutFrames)
<1>1. loginName \in MaybeUser
  BY ConstantsAssumption DEF TypeOK, WireTypes, ClientTypes, TaskTypes, MaybeUser, loginName
<1>2. CASE ~isAutoLogin
  BY <1>2 DEF authWithUserNameAndPass, TypeOK, WireTypes, ClientTypes, TaskTypes
<1>3. CASE isAutoLogin /\ loginName = NoUser
  BY <1>3 DEF authWithUserNameAndPass, TypeOK, WireTypes, ClientTypes, TaskTypes
<1>4. CASE isAutoLogin /\ loginName # NoUser
  <2>1. dataRequest' = loginName /\ actionState' = "WS_LOGIN" /\ Send(Login(loginName))
    BY <1>4 DEF authWithUserNameAndPass
  <2>2. loginName \in Users
    BY <1>1, <1>4 DEF MaybeUser
  <2> QED
    BY <2>1, <2>2, FrameTypes, SendType DEF MaybeUser
<1> QED
  BY <1>2, <1>3, <1>4

LEMMA OneElement == ASSUME NEW S, NEW e \in S PROVE <<e>> \in Seq(S)
OBVIOUS

LEMMA NoFrames == <<>> \in Seq(OutFrames) /\ <<>> \in Seq(InFrames)
OBVIOUS

LEMMA TypeInit == Init => TypeOK
<1> SUFFICES ASSUME Init PROVE TypeOK
  OBVIOUS
<1>1. outq \in Seq(OutFrames) /\ inq \in Seq(InFrames)
  BY NoFrames DEF Init
<1>2. /\ drops \in 0..MaxDrops /\ attempts \in 0..MaxLogins
      /\ logouts \in Nat /\ clearing \in Nat /\ logouts + clearing <= MaxLogouts
      /\ lateLogins \in Nat /\ lateLogouts \in Nat /\ lateLogins + lateLogouts <= MaxLate
  BY ConstantsAssumption DEF Init
<1> QED
  BY <1>1, <1>2 DEF Init, TypeOK, WireTypes, ClientTypes, TaskTypes, MaybeUser

LEMMA TypeNetwork == TypeOK /\ Network => TypeOK'
<1> SUFFICES ASSUME TypeOK, Network PROVE TypeOK'
  OBVIOUS
<1> USE DEF wireVars, wsVars, prefVars, authVars, taskVars, lateVars, boundVars, histVars
<1>1. CASE ConnectOpens
  <2>1. inq' \in Seq(InFrames)
    <3>1. Frame("server_id") \in InFrames
      BY FrameTypes
    <3>2. inq' = <<Frame("server_id")>>
      BY <1>1 DEF ConnectOpens
    <3> QED
      BY <3>1, <3>2, OneElement
  <2> QED
    BY <1>1, <2>1 DEF ConnectOpens, TypeOK, WireTypes, ClientTypes, TaskTypes
<1>2. CASE Drop
  <2>1. /\ inq' \in Seq(InFrames) /\ outq' \in Seq(OutFrames)
        /\ drops' \in 0..MaxDrops
    <3>1. PICK n \in 0..Len(inq) : inq' = SubSeq(inq, 1, n)
      BY <1>2 DEF Drop
    <3>2. inq \in Seq(InFrames)
      BY DEF TypeOK, WireTypes, ClientTypes, TaskTypes
    <3>3. inq' \in Seq(InFrames)
      BY <3>1, <3>2, PrefixElements
    <3>4. outq' = <<>>
      BY <1>2 DEF Drop
    <3>5. drops' \in 0..MaxDrops
      BY <1>2, ConstantsAssumption DEF Drop, TypeOK, WireTypes, ClientTypes, TaskTypes
    <3> QED
      BY <3>3, <3>4, <3>5, NoFrames
  <2>2. /\ conn' = "lost" /\ srvOpen' = FALSE /\ srvSub' = FALSE
        /\ srvUser' \in MaybeUser
        /\ UNCHANGED <<wsVars, prefVars, authVars, taskVars, attempts, histVars>>
    BY <1>2 DEF Drop, MaybeUser
  <2>3. WireTypes' /\ ClientTypes'
    BY <2>1, <2>2 DEF TypeOK, WireTypes, ClientTypes
  <2>4. TaskTypes'
    BY <2>1, <2>2 DEF TypeOK, TaskTypes
  <2> QED
    BY <2>3, <2>4 DEF TypeOK
<1>3. CASE ConnectFails
  <2>1. /\ outq' \in Seq(OutFrames) /\ inq' \in Seq(InFrames)
        /\ conn' = "connecting" /\ isConnected' = FALSE /\ isAutoReconnect' = TRUE
    BY <1>3, NoFrames DEF ConnectFails, reconnect
  <2>2. drops' \in 0..MaxDrops
    BY <1>3, ConstantsAssumption DEF ConnectFails, TypeOK, WireTypes, ClientTypes, TaskTypes
  <2> QED
    <3>1. WireTypes' /\ ClientTypes'
      BY <1>3, <2>1 DEF ConnectFails, reconnect, TypeOK, WireTypes, ClientTypes
    <3>2. TaskTypes'
      BY <1>3, <2>2 DEF ConnectFails, TypeOK, TaskTypes
    <3> QED
      BY <3>1, <3>2 DEF TypeOK
<1>4. CASE ServerStep
  <2>1. /\ Head(outq) \in OutFrames
        /\ outq' \in Seq(OutFrames)
    BY <1>4, TailElements DEF ServerStep, TypeOK, WireTypes, ClientTypes, TaskTypes
  <2>2. /\ srvUser' \in MaybeUser /\ srvOpen' \in BOOLEAN /\ srvSub' \in BOOLEAN
        /\ inq' \in Seq(InFrames)
    <3>0. /\ inq \in Seq(InFrames)
          /\ \A f \in InFrames : Append(inq, f) \in Seq(InFrames)
      BY AppendElements DEF TypeOK, WireTypes, ClientTypes, TaskTypes
    <3>1. CASE ServeConnect
      BY <3>1, <3>0, FrameTypes DEF ServeConnect, Reply, TypeOK, WireTypes, ClientTypes,
         TaskTypes
    <3>2. CASE ServeLogin
      <4>1. Head(outq).user \in Users
        BY <3>2, <2>1 DEF ServeLogin, OutFrames
      <4>2. [type |-> "loginOk", user |-> Head(outq).user] \in InFrames
        BY <4>1 DEF InFrames
      <4> QED
        BY <3>2, <3>0, <4>1, <4>2, FrameTypes
        DEF ServeLogin, Reply, TypeOK, WireTypes, ClientTypes, TaskTypes, MaybeUser
    <3>3. CASE ServeMethod
      BY <3>3, <3>0, FrameTypes DEF ServeMethod, Reply, TypeOK, WireTypes, ClientTypes,
         TaskTypes
    <3>4. CASE ServeSub
      BY <3>4 DEF ServeSub, TypeOK, WireTypes, ClientTypes, TaskTypes
    <3> QED
      BY <1>4, <3>1, <3>2, <3>3, <3>4 DEF ServerStep
  <2> QED
    BY <1>4, <2>1, <2>2 DEF ServerStep, TypeOK, WireTypes, ClientTypes, TaskTypes
<1> QED
  BY <1>1, <1>2, <1>3, <1>4 DEF Network

LEMMA TypeSocket == TypeOK /\ Socket => TypeOK'
<1> SUFFICES ASSUME TypeOK, Socket PROVE TypeOK'
  OBVIOUS
<1> USE DEF wireVars, wsVars, prefVars, authVars, taskVars, lateVars, boundVars, histVars
<1>1. CASE OnDone
  <2>1. WireTypes' /\ ClientTypes'
    BY <1>1, NoFrames DEF OnDone, reconnect, TypeOK, WireTypes, ClientTypes
  <2>2. TaskTypes'
    BY <1>1 DEF OnDone, TypeOK, TaskTypes
  <2> QED
    BY <2>1, <2>2 DEF TypeOK
<1>2. CASE handlerData
  <2>1. /\ Head(inq) \in InFrames
        /\ inq' \in Seq(InFrames)
    BY <1>2, TailElements DEF handlerData, TypeOK, WireTypes, ClientTypes, TaskTypes
  <2>2. CASE HandleServerId
    <3>1. outq' \in Seq(OutFrames)
      BY <2>2, FrameTypes, SendType DEF HandleServerId, connectWithAction
    <3> QED
      BY <1>2, <2>1, <2>2, <3>1 DEF handlerData, HandleServerId, connectWithAction, TypeOK,
         WireTypes, ClientTypes, TaskTypes, MaybeUser
  <2>3. CASE HandleConnected
    <3>1. CASE authWithUserNameAndPass /\ isAutoReconnect' \in BOOLEAN /\ UNCHANGED checks
      BY <1>2, <2>1, <2>3, <3>1, AuthType DEF handlerData, HandleConnected, TypeOK,
         WireTypes, ClientTypes, TaskTypes
    <3>2. CASE UNCHANGED <<isAutoReconnect, dataRequest, actionState, outq>> /\ checks' \subseteq Checks
      BY <1>2, <2>1, <2>3, <3>2 DEF handlerData, HandleConnected, TypeOK, WireTypes,
         ClientTypes, TaskTypes
    <3>3. [stage |-> "data", user |-> NoUser] \in Checks
      BY DEF Checks
    <3> QED
      BY <2>3, <3>1, <3>2, <3>3 DEF HandleConnected, onHandlerAction, TypeOK, WireTypes,
         ClientTypes, TaskTypes
  <2>4. CASE HandleResultIgnored
    BY <1>2, <2>1, <2>4 DEF handlerData, HandleResultIgnored, TypeOK, WireTypes, ClientTypes,
       TaskTypes
  <2>5. CASE HandleLoginError
    BY <1>2, <2>1, <2>5 DEF handlerData, HandleLoginError, resetActionState, TypeOK,
       WireTypes, ClientTypes, TaskTypes, MaybeUser
  <2>6. CASE HandleLoginOk
    <3>1. outq' \in Seq(OutFrames)
      BY <2>6, FrameTypes, SendType DEF HandleLoginOk
    <3>2. Head(inq).user \in Users
      BY <2>1, <2>6 DEF HandleLoginOk, InFrames
    <3> QED
      BY <1>2, <2>1, <2>6, <3>1, <3>2
      DEF handlerData, HandleLoginOk, resetActionState, TypeOK, WireTypes, ClientTypes,
      TaskTypes, MaybeUser, InFrames
  <2> QED
    BY <1>2, <2>2, <2>3, <2>4, <2>5, <2>6 DEF handlerData
<1> QED
  BY <1>1, <1>2 DEF Socket

LEMMA LoginChatType ==
  ASSUME TypeOK, NEW u \in MaybeUser, loginChat(u)
  PROVE  /\ screen' \in {"SPLASH", "LOGIN", "HOME"}
         /\ isAutoLogin' \in BOOLEAN /\ allowGotoHome' \in BOOLEAN
         /\ dataRequest' \in MaybeUser \cup {Blank}
         /\ actionState' \in {"NONE", "WS_LOGIN"}
         /\ outq' \in Seq(OutFrames)
<1>1. CASE isConnected
  <2>1. Send(Frame("connect")) /\ dataRequest' = u /\ actionState' = "WS_LOGIN"
        /\ isAutoLogin' = TRUE /\ allowGotoHome' = TRUE
        /\ screen' = screen
    BY <1>1 DEF loginChat, connectWithAction
  <2>2. outq' \in Seq(OutFrames)
    BY <2>1, FrameTypes, SendType
  <2> QED
    BY <2>1, <2>2 DEF TypeOK, WireTypes, ClientTypes, TaskTypes
<1>2. CASE ~isConnected
  BY <1>2 DEF loginChat, requestLogin, TypeOK, WireTypes, ClientTypes, TaskTypes
<1> QED
  BY <1>1, <1>2

LEMMA TypeResume == TypeOK /\ Resume => TypeOK'
<1> SUFFICES ASSUME TypeOK, Resume PROVE TypeOK'
  OBVIOUS
<1> USE DEF wireVars, wsVars, prefVars, authVars, taskVars, lateVars, boundVars, histVars
<1>0. Users \subseteq MaybeUser
  BY DEF MaybeUser
<1>1. ASSUME NEW c \in RestCalls, LoginAnswered(c) PROVE TypeOK'
  <2>1. c.user \in MaybeUser
    BY <1>0 DEF RestCalls
  <2> QED
    BY <1>1, <2>1 DEF LoginAnswered, TypeOK, WireTypes, ClientTypes, TaskTypes
<1>2. ASSUME NEW c \in RestCalls, LoginFailed(c) PROVE TypeOK'
  BY <1>2 DEF LoginFailed, requestLogin, TypeOK, WireTypes, ClientTypes, TaskTypes
<1>3. ASSUME NEW c \in RestCalls, LoginUnanswered(c) PROVE TypeOK'
  BY <1>3 DEF LoginUnanswered, TypeOK, WireTypes, ClientTypes, TaskTypes
<1>4. ASSUME NEW c \in RestCalls, LoginSaved(c) PROVE TypeOK'
  <2>1. c.user \in MaybeUser
    BY <1>0 DEF RestCalls
  <2>2. loginChat(c.user)
    BY <1>4 DEF LoginSaved
  <2> QED
    BY <1>4, <2>1, <2>2, LoginChatType DEF LoginSaved, TypeOK, WireTypes, ClientTypes,
       TaskTypes
<1>5. ASSUME NEW u \in Users, UserInfoFound(u) \/ UserInfoMissing(u) PROVE TypeOK'
  <2>0. info' \subseteq Users
    BY <1>5 DEF UserInfoFound, UserInfoMissing, TypeOK, WireTypes, ClientTypes, TaskTypes
  <2>1. CASE UserInfoFound(u)
    <3>1. /\ allowGotoHome' \in BOOLEAN
          /\ screen' = "HOME"
          /\ UNCHANGED <<wireVars, wsVars, prefVars, checks, rest, saving, logouts,
                         clearing, lateVars, boundVars, histVars>>
      BY <2>1 DEF UserInfoFound
    <3> QED
      BY <2>0, <3>1 DEF TypeOK, WireTypes, ClientTypes, TaskTypes
  <2>2. CASE UserInfoMissing(u)
    BY <2>0, <2>2 DEF UserInfoMissing, TypeOK, WireTypes, ClientTypes, TaskTypes
  <2> QED
    BY <1>5, <2>1, <2>2
<1>6. ASSUME NEW c \in Checks, CheckAuthDecide(c) PROVE TypeOK'
  <2>1. checks' \subseteq Checks /\ screen' \in {"SPLASH", "LOGIN", "HOME"}
    <3>1. [stage |-> "delay", user |-> NoUser] \in Checks
      BY DEF Checks
    <3>2. cachedUser # NoUser => [stage |-> "userInfo", user |-> cachedUser] \in Checks
      BY DEF Checks, TypeOK, WireTypes, ClientTypes, TaskTypes, MaybeUser
    <3>3. \/ checks' \subseteq checks \cup {[stage |-> "delay", user |-> NoUser]}
          \/ /\ cachedUser # NoUser
             /\ checks' \subseteq checks \cup {[stage |-> "userInfo", user |-> cachedUser]}
      BY <1>6 DEF CheckAuthDecide
    <3>4. checks \subseteq Checks
      BY DEF TypeOK, WireTypes, ClientTypes, TaskTypes
    <3>5. screen' \in {"SPLASH", "LOGIN", "HOME"}
      BY <1>6 DEF CheckAuthDecide, requestLogin, TypeOK, WireTypes, ClientTypes, TaskTypes
    <3> QED
      BY <3>1, <3>2, <3>3, <3>4, <3>5
  <2>2. UNCHANGED <<wireVars, wsVars, prefVars, allowGotoHome, rest, saving,
                    info, logouts, clearing, lateVars, boundVars, histVars>>
    BY <1>6 DEF CheckAuthDecide
  <2> QED
    BY <2>1, <2>2 DEF TypeOK, WireTypes, ClientTypes, TaskTypes
<1>7. ASSUME NEW c \in Checks, CheckAuthDelayed(c) PROVE TypeOK'
  BY <1>7 DEF CheckAuthDelayed, TypeOK, WireTypes, ClientTypes, TaskTypes
<1>8. ASSUME NEW c \in Checks, CheckAuthFinish(c) PROVE TypeOK'
  <2>1. c.user \in Users /\ c.user \in MaybeUser
    BY <1>0, <1>8 DEF CheckAuthFinish, Checks
  <2>2. /\ checks' \subseteq Checks
        /\ UNCHANGED <<conn, inq, srvOpen, srvUser, srvSub, isConnected, isAutoReconnect,
                       isLoginChat, account, prefVars, saving, info, logouts, clearing,
                       lateVars, boundVars, histVars>>
    BY <1>8 DEF CheckAuthFinish, TypeOK, WireTypes, ClientTypes, TaskTypes
  <2>3. CASE loginChat(c.user) /\ UNCHANGED rest
    BY <2>1, <2>2, <2>3, LoginChatType DEF TypeOK, WireTypes, ClientTypes, TaskTypes
  <2>4. CASE /\ UNCHANGED <<isAutoLogin, allowGotoHome, dataRequest, actionState, outq>>
             /\ screen' \in {"SPLASH", "LOGIN", "HOME"} /\ rest' \subseteq RestCalls
    BY <2>2, <2>4 DEF TypeOK, WireTypes, ClientTypes, TaskTypes
  <2>5. CASE ~hiveUser
    BY <1>8, <2>4, <2>5 DEF CheckAuthFinish, requestLogin, TypeOK, WireTypes, ClientTypes,
       TaskTypes
  <2>6. CASE hiveUser /\ ~(loginChat(c.user) /\ UNCHANGED rest)
    <3>1. [kind |-> "reLoginASGL", user |-> c.user] \in RestCalls
      BY <2>1 DEF RestCalls
    <3> QED
      BY <1>8, <2>4, <2>6, <3>1 DEF CheckAuthFinish, TypeOK, WireTypes, ClientTypes, TaskTypes
  <2> QED
    BY <2>3, <2>5, <2>6
<1>9. CASE LogOutFailed \/ LogOutTimesOut \/ LateLogOutError
  <2>1. /\ logouts' \in Nat /\ logouts' + clearing <= MaxLogouts
        /\ lateLogouts' \in Nat /\ lateLogins + lateLogouts' <= MaxLate
    BY <1>9, ConstantsAssumption
    DEF LogOutFailed, LogOutTimesOut, LateLogOutError, TypeOK, WireTypes, ClientTypes,
    TaskTypes
  <2>2. /\ isAutoLogin' \in BOOLEAN
        /\ UNCHANGED <<wireVars, isConnected, isAutoReconnect, isLoginChat, actionState,
                       dataRequest, account, prefVars, authVars, checks, rest, saving, info,
                       clearing, lateLogins, boundVars, histVars>>
    BY <1>9 DEF LogOutFailed, LogOutTimesOut, LateLogOutError, logOutError
  <2> QED
    BY <2>1, <2>2 DEF TypeOK, WireTypes, ClientTypes, TaskTypes
<1>11. CASE LateLogOutDropped \/ LateLoginDropped \/ LateLoginError
  <2>1. /\ lateLogins' \in Nat /\ lateLogouts' \in Nat /\ lateLogins' + lateLogouts' <= MaxLate
        /\ screen' \in {"SPLASH", "LOGIN", "HOME"}
    BY <1>11, ConstantsAssumption
    DEF LateLogOutDropped, LateLoginDropped, LateLoginError, requestLogin, TypeOK, WireTypes,
    ClientTypes, TaskTypes
  <2>2. UNCHANGED <<wireVars, wsVars, prefVars, allowGotoHome, checks, rest, saving, info,
                    logouts, clearing, boundVars, histVars>>
    BY <1>11 DEF LateLogOutDropped, LateLoginDropped, LateLoginError
  <2> QED
    BY <2>1, <2>2 DEF TypeOK, WireTypes, ClientTypes, TaskTypes
<1>12. ASSUME NEW c \in RestCalls, LoginTimesOut(c) PROVE TypeOK'
  <2>1. lateLogins' \in Nat /\ lateLogins' + lateLogouts <= MaxLate
    BY <1>12, ConstantsAssumption DEF LoginTimesOut, TypeOK, WireTypes, ClientTypes, TaskTypes
  <2> QED
    BY <1>12, <2>1 DEF LoginTimesOut, requestLogin, TypeOK, WireTypes, ClientTypes, TaskTypes
<1>13. CASE LogOutUnanswered \/ LogOutAnswered
  <2>1. /\ logouts' \in Nat /\ clearing' \in Nat /\ logouts' + clearing' <= MaxLogouts
        /\ leave' \in {"no", "asked", "ended"}
    BY <1>13, ConstantsAssumption DEF LogOutUnanswered, LogOutAnswered, TypeOK, WireTypes,
       ClientTypes, TaskTypes
  <2>2. UNCHANGED <<wireVars, wsVars, prefVars, authVars, checks, rest, saving, info,
                    lateVars, boundVars, unanswered>>
    BY <1>13 DEF LogOutUnanswered, LogOutAnswered
  <2> QED
    BY <2>1, <2>2 DEF TypeOK, WireTypes, ClientTypes, TaskTypes
<1>10. CASE LogOutCleared
  <2>1. /\ logouts' \in Nat /\ clearing' \in Nat /\ logouts' + clearing' <= MaxLogouts
    BY <1>10, ConstantsAssumption DEF LogOutCleared, TypeOK, WireTypes, ClientTypes, TaskTypes
  <2>2. NoUser \in MaybeUser
    BY DEF MaybeUser
  <2> QED
    <3>1. /\ account' = NoUser /\ dataRequest' = NoUser /\ isLoginChat' = FALSE
          /\ screen' = "LOGIN"
          /\ UNCHANGED <<wireVars, isConnected, isAutoReconnect, isAutoLogin, actionState,
                         prefVars, allowGotoHome, checks, rest, saving,
                         info, lateVars, boundVars, histVars>>
      BY <1>10 DEF LogOutCleared, requestLogin
    <3>2. WireTypes' /\ ClientTypes'
      BY <2>2, <3>1 DEF TypeOK, WireTypes, ClientTypes
    <3>3. TaskTypes'
      BY <2>1, <3>1 DEF TypeOK, TaskTypes
    <3> QED
      BY <3>2, <3>3 DEF TypeOK
<1> QED
  BY <1>1, <1>2, <1>3, <1>4, <1>5, <1>6, <1>7, <1>8, <1>9, <1>10, <1>11, <1>12, <1>13
  DEF Resume

LEMMA TypeUser == TypeOK /\ User => TypeOK'
<1> SUFFICES ASSUME TypeOK, User PROVE TypeOK'
  OBVIOUS
<1> USE DEF wireVars, wsVars, prefVars, authVars, taskVars, lateVars, boundVars, histVars
<1>1. ASSUME NEW u \in Users, PressLogin(u) PROVE TypeOK'
  <2>1. [kind |-> "loginWith", user |-> u] \in RestCalls
    BY DEF RestCalls
  <2>2. attempts' \in 0..MaxLogins
    BY <1>1, ConstantsAssumption DEF PressLogin, TypeOK, WireTypes, ClientTypes, TaskTypes
  <2> QED
    BY <1>1, <2>1, <2>2 DEF PressLogin, TypeOK, WireTypes, ClientTypes, TaskTypes
<1>2. CASE PressFingerPrint
  <2>1. [stage |-> "fingerprint", user |-> NoUser] \in Checks
    BY DEF Checks
  <2>2. attempts' \in 0..MaxLogins
    BY <1>2, ConstantsAssumption DEF PressFingerPrint, TypeOK, WireTypes, ClientTypes,
       TaskTypes
  <2> QED
    BY <1>2, <2>1, <2>2 DEF PressFingerPrint, TypeOK, WireTypes, ClientTypes, TaskTypes
<1>3. CASE LogOut
  <2>1. /\ logouts' \in Nat /\ clearing' \in Nat /\ logouts' + clearing' <= MaxLogouts
    BY <1>3, ConstantsAssumption DEF LogOut, TypeOK, WireTypes, ClientTypes, TaskTypes
  <2> QED
    BY <1>3, <2>1 DEF LogOut, TypeOK, WireTypes, ClientTypes, TaskTypes
<1>4. CASE OpenChatTab
  <2>1. outq' \in Seq(OutFrames) /\ dataRequest' = Blank /\ actionState' = "WS_LOGIN"
    BY <1>4, FrameTypes, SendType DEF OpenChatTab, connectWithAction
  <2> QED
    BY <1>4, <2>1 DEF OpenChatTab, TypeOK, WireTypes, ClientTypes, TaskTypes
<1>5. CASE SendMethod
  <2>1. outq' \in Seq(OutFrames)
    BY <1>5, FrameTypes, SendType DEF SendMethod
  <2> QED
    BY <1>5, <2>1 DEF SendMethod, TypeOK, WireTypes, ClientTypes, TaskTypes
<1> QED
  BY <1>1, <1>2, <1>3, <1>4, <1>5 DEF User

(* Every state of the session has the types of TypeOK: in particular a     *)
(* login frame always names an account (never null or a missing key), and  *)
(* a task that waits for the server was given one.                         *)
THEOREM TypeCorrect == Spec => []TypeOK
<1>1. Init => TypeOK
  BY TypeInit
<1>2. TypeOK /\ [Next]_vars => TypeOK'
  <2>1. TypeOK /\ UNCHANGED vars => TypeOK'
    BY DEF vars, wireVars, wsVars, prefVars, authVars, taskVars, lateVars, boundVars,
       histVars,
           TypeOK, WireTypes, ClientTypes, TaskTypes
  <2> QED
    BY <2>1, TypeNetwork, TypeSocket, TypeResume, TypeUser DEF Next
<1> QED
  BY <1>1, <1>2, PTL DEF Spec

-----------------------------------------------------------------------------
(* The order of DDP: no login before the server has accepted "connect".    *)

LoginQueued(q)  == \E i \in 1..Len(q) : q[i].type = "login"
AcceptQueued(q) == \E i \in 1..Len(q) : q[i].type \in {"connected", "already"}

(* What is true of a connection in every state: a socket being opened has  *)
(* nothing from the server, a lost one takes nothing any more, and what    *)
(* the server has said or been asked for on an open one agrees with it.    *)
Opening   == conn = "connecting" => inq = <<>> /\ ~isConnected /\ ~srvOpen
Lost      == conn = "lost" => outq = <<>> /\ ~srvOpen
Accepted  == conn = "open" /\ AcceptQueued(inq) => srvOpen
Connected == conn = "open" /\ isConnected => srvOpen
Ordered   == LoginQueued(outq) => srvOpen

Order == TypeOK /\ Opening /\ Lost /\ Accepted /\ Connected /\ Ordered

LEMMA QueueEmpty == ~LoginQueued(<<>>) /\ ~AcceptQueued(<<>>)
BY DEF LoginQueued, AcceptQueued

LEMMA QueueAppend ==
  ASSUME NEW S, NEW q \in Seq(S), NEW e \in S
  PROVE  /\ LoginQueued(Append(q, e)) => LoginQueued(q) \/ e.type = "login"
         /\ AcceptQueued(Append(q, e)) => AcceptQueued(q) \/ e.type \in {"connected", "already"}
<1>1. /\ Len(Append(q, e)) = Len(q) + 1
      /\ \A i \in 1..Len(q) : Append(q, e)[i] = q[i]
      /\ Append(q, e)[Len(q) + 1] = e
      /\ Len(q) \in Nat
  BY AppendElements
<1>2. \A i \in 1..(Len(q) + 1) : i \in 1..Len(q) \/ i = Len(q) + 1
  BY <1>1
<1> QED
  BY <1>1, <1>2 DEF LoginQueued, AcceptQueued

LEMMA QueueTail ==
  ASSUME NEW S, NEW q \in Seq(S), q # <<>>
  PROVE  /\ LoginQueued(Tail(q)) => LoginQueued(q)
         /\ AcceptQueued(Tail(q)) => AcceptQueued(q)
         /\ Head(q).type = "login" => LoginQueued(q)
         /\ Head(q).type \in {"connected", "already"} => AcceptQueued(q)
BY TailElements DEF LoginQueued, AcceptQueued

LEMMA QueuePrefix ==
  ASSUME NEW S, NEW q \in Seq(S), NEW n \in 0..Len(q)
  PROVE  /\ AcceptQueued(SubSeq(q, 1, n)) => AcceptQueued(q)
         /\ LoginQueued(SubSeq(q, 1, n)) => LoginQueued(q)
<1>1. /\ Len(SubSeq(q, 1, n)) = n
      /\ \A i \in 1..n : SubSeq(q, 1, n)[i] = q[i]
      /\ \A i \in 1..n : i \in 1..Len(q)
  BY PrefixElements
<1> QED
  BY <1>1 DEF LoginQueued, AcceptQueued

(* A frame that is no login leaves the order as it is.                     *)
LEMMA SendOrder ==
  ASSUME TypeOK, NEW f \in OutFrames, Send(f), Lost
  PROVE  /\ LoginQueued(outq') => LoginQueued(outq) \/ (f.type = "login" /\ conn # "lost")
         /\ conn = "lost" => outq' = <<>>
<1>1. outq \in Seq(OutFrames)
  BY DEF TypeOK, WireTypes, ClientTypes, TaskTypes
<1> QED
  BY <1>1, QueueAppend DEF Send, Lost

LEMMA OrderInit == Init => Order
BY TypeInit, QueueEmpty DEF Init, Order, Opening, Lost, Accepted, Connected, Ordered

LEMMA OrderNetwork == Order /\ Network => Order'
<1> SUFFICES ASSUME Order, Network PROVE (Opening /\ Lost /\ Accepted /\ Connected /\ Ordered)'
  BY TypeNetwork DEF Order
<1> USE DEF Order, wireVars, wsVars, Opening, Lost, Accepted, Connected, Ordered
<1>1. CASE ConnectOpens
  <2>1. ~AcceptQueued(<<Frame("server_id")>>)
    <3>1. Len(<<Frame("server_id")>>) = 1 /\ <<Frame("server_id")>>[1].type = "server_id"
      BY DEF Frame
    <3> QED
      BY <3>1 DEF AcceptQueued
  <2> QED
    BY <1>1, <2>1 DEF ConnectOpens
<1>2. CASE Drop
  BY <1>2, QueueEmpty DEF Drop
<1>3. CASE ConnectFails
  BY <1>3, QueueEmpty DEF ConnectFails, reconnect
<1>4. CASE ServerStep
  <2>1. conn = "open" /\ UNCHANGED <<conn, isConnected>> /\ outq' = Tail(outq) /\ outq # <<>>
    BY <1>4 DEF ServerStep
  <2>2. LoginQueued(outq') => LoginQueued(outq)
    BY <2>1, QueueTail DEF TypeOK, WireTypes, ClientTypes, TaskTypes
  <2>3. /\ srvOpen => srvOpen'
        /\ AcceptQueued(inq') => AcceptQueued(inq) \/ srvOpen'
    <3>0. inq \in Seq(InFrames) /\ Head(outq) \in OutFrames
      BY <2>1, TailElements DEF TypeOK, WireTypes, ClientTypes, TaskTypes
    <3>1. CASE ServeConnect
      BY <3>1 DEF ServeConnect
    <3>2. CASE ServeLogin
      <4>1. srvOpen' = srvOpen
        BY <3>2 DEF ServeLogin
      <4>2. srvOpen \/ inq' = inq
        BY <3>2 DEF ServeLogin
      <4> QED
        BY <4>1, <4>2
    <3>3. CASE ServeMethod
      BY <3>3 DEF ServeMethod
    <3>4. CASE ServeSub
      BY <3>4 DEF ServeSub
    <3> QED
      BY <1>4, <3>1, <3>2, <3>3, <3>4 DEF ServerStep
  <2> QED
    BY <2>1, <2>2, <2>3
<1> QED
  BY <1>1, <1>2, <1>3, <1>4 DEF Network

LEMMA OrderSocket == Order /\ Socket => Order'
<1> SUFFICES ASSUME Order, Socket PROVE (Opening /\ Lost /\ Accepted /\ Connected /\ Ordered)'
  BY TypeSocket DEF Order
<1> USE DEF Order, Opening, Lost, Accepted, Connected, Ordered
<1>1. CASE OnDone
  BY <1>1, QueueEmpty DEF OnDone, reconnect
<1>2. CASE handlerData
  <2>1. /\ inq # <<>> /\ inq' = Tail(inq) /\ UNCHANGED <<conn, srvOpen>>
        /\ conn # "connecting"
    BY <1>2 DEF handlerData
  <2>2. /\ AcceptQueued(inq') => AcceptQueued(inq)
        /\ Head(inq).type \in {"connected", "already"} => AcceptQueued(inq)
    BY <2>1, QueueTail DEF TypeOK, WireTypes, ClientTypes, TaskTypes
  <2> SUFFICES /\ conn = "lost" => outq' = <<>>
               /\ LoginQueued(outq') => LoginQueued(outq) \/ (srvOpen /\ conn # "lost")
               /\ conn = "open" /\ isConnected' => srvOpen
    BY <2>1, <2>2, QueueEmpty
  <2>3. CASE HandleServerId
    <3>1. Send(Frame("connect")) /\ isConnected' = isConnected
      BY <2>3 DEF HandleServerId, connectWithAction
    <3> QED
      BY <3>1, FrameTypes, SendOrder DEF Frame
  <2>4. CASE HandleConnected
    <3>1. conn = "open" => srvOpen
      BY <2>2, <2>4 DEF HandleConnected
    <3>2. CASE UNCHANGED outq
      BY <3>1, <3>2
    <3>3. CASE isAutoLogin /\ loginName # NoUser /\ Send(Login(loginName))
      <4>1. loginName \in Users
        BY <3>3, ConstantsAssumption DEF TypeOK, WireTypes, ClientTypes, TaskTypes,
           MaybeUser, loginName
      <4>2. Login(loginName) \in OutFrames
        BY <4>1, FrameTypes
      <4> QED
        BY <2>1, <3>1, <3>3, <4>2, SendOrder DEF TypeOK, WireTypes, ClientTypes, TaskTypes
    <3> QED
      BY <2>4, <3>2, <3>3 DEF HandleConnected, onHandlerAction, authWithUserNameAndPass
  <2>5. CASE HandleResultIgnored \/ HandleLoginError
    BY <2>5 DEF HandleResultIgnored, HandleLoginError, wsVars
  <2>6. CASE HandleLoginOk
    <3>1. Send(Frame("sub")) /\ isConnected' = isConnected
      BY <2>6 DEF HandleLoginOk
    <3> QED
      BY <3>1, FrameTypes, SendOrder DEF Frame
  <2> QED
    BY <1>2, <2>3, <2>4, <2>5, <2>6 DEF handlerData
<1> QED
  BY <1>1, <1>2 DEF Socket

LEMMA LoginChatOrder ==
  ASSUME Order, NEW u \in MaybeUser, loginChat(u), UNCHANGED <<conn, inq, srvOpen, isConnected>>
  PROVE  (Opening /\ Lost /\ Accepted /\ Connected /\ Ordered)'
<1> USE DEF Order, Opening, Lost, Accepted, Connected, Ordered
<1>1. CASE UNCHANGED outq
  BY <1>1
<1>2. CASE Send(Frame("connect"))
  BY <1>2, FrameTypes, SendOrder DEF Frame
<1> QED
  BY <1>1, <1>2 DEF loginChat, connectWithAction

LEMMA OrderResume == Order /\ Resume => Order'
<1> SUFFICES ASSUME Order, Resume PROVE (Opening /\ Lost /\ Accepted /\ Connected /\ Ordered)'
  BY TypeResume DEF Order
<1>1. CASE UNCHANGED <<conn, inq, srvOpen, isConnected, outq>>
  BY <1>1 DEF Order, Opening, Lost, Accepted, Connected, Ordered
<1>2. CASE \E u \in Users : loginChat(u) /\ UNCHANGED <<conn, inq, srvOpen, isConnected>>
  BY <1>2, LoginChatOrder DEF MaybeUser
<1> USE DEF wireVars, wsVars
<1>3. ASSUME NEW c \in RestCalls,
             \/ LoginAnswered(c) \/ LoginFailed(c) \/ LoginTimesOut(c)
             \/ LoginUnanswered(c)
      PROVE  UNCHANGED <<conn, inq, srvOpen, isConnected, outq>>
  BY <1>3 DEF LoginAnswered, LoginFailed, LoginTimesOut, LoginUnanswered
<1>4. ASSUME NEW c \in RestCalls, LoginSaved(c)
      PROVE  c.user \in Users /\ loginChat(c.user) /\ UNCHANGED <<conn, inq, srvOpen, isConnected>>
  BY <1>4 DEF LoginSaved, RestCalls
<1>5. ASSUME NEW u \in Users, UserInfoFound(u) \/ UserInfoMissing(u)
      PROVE  UNCHANGED <<conn, inq, srvOpen, isConnected, outq>>
  BY <1>5 DEF UserInfoFound, UserInfoMissing
<1>6. ASSUME NEW c \in Checks, CheckAuthDecide(c) \/ CheckAuthDelayed(c)
      PROVE  UNCHANGED <<conn, inq, srvOpen, isConnected, outq>>
  BY <1>6 DEF CheckAuthDecide, CheckAuthDelayed
<1>7. ASSUME NEW c \in Checks, CheckAuthFinish(c)
      PROVE  /\ UNCHANGED <<conn, inq, srvOpen, isConnected>>
             /\ UNCHANGED outq \/ (c.user \in Users /\ loginChat(c.user))
  BY <1>7 DEF CheckAuthFinish, Checks
<1>8. ASSUME \/ LogOutFailed \/ LogOutTimesOut \/ LateLogOutError \/ LateLogOutDropped
             \/ LogOutUnanswered \/ LogOutAnswered \/ LogOutCleared
             \/ LateLoginError \/ LateLoginDropped
      PROVE  UNCHANGED <<conn, inq, srvOpen, isConnected, outq>>
  BY <1>8 DEF LogOutFailed, LogOutTimesOut, LateLogOutError, LateLogOutDropped, logOutError,
              LogOutUnanswered, LogOutAnswered, LogOutCleared, LateLoginError,
              LateLoginDropped
<1> QED
  BY <1>1, <1>2, <1>3, <1>4, <1>5, <1>6, <1>7, <1>8 DEF Resume

LEMMA OrderUser == Order /\ User => Order'
<1> SUFFICES ASSUME Order, User PROVE (Opening /\ Lost /\ Accepted /\ Connected /\ Ordered)'
  BY TypeUser DEF Order
<1> USE DEF wireVars, wsVars
<1>1. CASE UNCHANGED <<conn, inq, srvOpen, isConnected, outq>>
  BY <1>1 DEF Order, Opening, Lost, Accepted, Connected, Ordered
<1>2. CASE OpenChatTab \/ SendMethod
  <2>1. /\ UNCHANGED <<conn, inq, srvOpen, isConnected>>
        /\ Send(Frame("connect")) \/ Send(Frame("method"))
    BY <1>2 DEF OpenChatTab, SendMethod, connectWithAction
  <2> QED
    BY <2>1, FrameTypes, SendOrder
    DEF Frame, Order, Opening, Lost, Accepted, Connected, Ordered
<1>3. CASE PressFingerPrint \/ LogOut \/ \E u \in Users : PressLogin(u)
  BY <1>1, <1>3 DEF PressFingerPrint, LogOut, PressLogin
<1> QED
  BY <1>2, <1>3 DEF User

(* Order is inductive, and gives both invariants.                          *)
THEOREM OrderCorrect == Spec => []Order
<1>1. Order /\ [Next]_vars => Order'
  <2>1. Order /\ UNCHANGED vars => Order'
    <3> SUFFICES ASSUME Order, UNCHANGED vars
                 PROVE (TypeOK /\ Opening /\ Lost /\ Accepted /\ Connected /\ Ordered)'
      BY DEF Order
    <3>1. TypeOK'
      BY DEF Order, vars, wireVars, wsVars, prefVars, authVars, taskVars, lateVars, boundVars,
             histVars, TypeOK, WireTypes, ClientTypes, TaskTypes
    <3> QED
      BY <3>1 DEF Order, vars, wireVars, wsVars, Opening, Lost, Accepted, Connected, Ordered
  <2> QED
    BY <2>1, OrderNetwork, OrderSocket, OrderResume, OrderUser DEF Next
<1> QED
  BY <1>1, OrderInit, PTL DEF Spec

(* No login is ever on its way to a server that has not accepted the       *)
(* connection, whatever drops, reconnections and logins happen             *)
(* (WebSocketHelper.handlerData sends it on "connected" only).             *)
THEOREM LoginAfterConnectCorrect == Spec => []LoginAfterConnect
<1>1. Order => LoginAfterConnect
  BY DEF Order, Ordered, LoginQueued, LoginAfterConnect
<1> QED
  BY <1>1, OrderCorrect, PTL

(* isConnected, the guard of every chat login, is never the leftover of an *)
(* earlier socket once a new one is being opened.                          *)
THEOREM ConnectedIsCurrentCorrect == Spec => []ConnectedIsCurrent
<1>1. Order => ConnectedIsCurrent
  BY DEF Order, Opening, Connected, ConnectedIsCurrent
<1> QED
  BY <1>1, OrderCorrect, PTL

-----------------------------------------------------------------------------
(* A logout ends the automatic logins.                                     *)

(* While a logout asked for on its own is under way, and after it, no      *)
(* dialogue that could allow logins again is under way, nor a request that *)
(* could still fail.                                                       *)
Leaving ==
  /\ leave # "no" => screen # "SPLASH" /\ checks = {} /\ rest = {} /\ saving = {}
  /\ leave = "asked" => logouts <= 1 /\ (logouts = 1 => lateLogouts = 0 /\ ~isAutoLogin)
  /\ leave = "ended" => logouts = 0 /\ lateLogouts = 0 /\ ~isAutoLogin

LEMMA LeavingStep == TypeOK /\ Leaving /\ [Next]_vars => Leaving'
<1> USE DEF wireVars, wsVars, prefVars, authVars, taskVars, lateVars, boundVars, histVars
<1> SUFFICES ASSUME TypeOK, Leaving, [Next]_vars PROVE Leaving'
  OBVIOUS
<1>0. /\ logouts \in Nat /\ lateLogouts \in Nat
      /\ leave \in {"no", "asked", "ended"}
  BY DEF TypeOK, WireTypes, ClientTypes, TaskTypes
<1>1. ASSUME UNCHANGED <<leave, isAutoLogin, checks, rest, saving, logouts, lateLogouts>>,
             screen' = screen \/ screen' # "SPLASH"
      PROVE  Leaving'
  BY <1>1 DEF Leaving
<1>2. ASSUME leave' = "no" PROVE Leaving'
  BY <1>2 DEF Leaving
<1>3. CASE Network \/ UNCHANGED vars
  BY <1>1, <1>3 DEF vars, Network, ConnectOpens, Drop, ConnectFails, reconnect, ServerStep
<1>4. CASE OnDone
  BY <1>1, <1>4 DEF OnDone, reconnect
<1>5. CASE handlerData
  <2>1. UNCHANGED <<leave, isAutoLogin, rest, saving, logouts, lateLogouts>>
    BY <1>5 DEF handlerData
  <2>2. checks' = checks \/ screen = "SPLASH"
    BY <1>5 DEF handlerData, HandleServerId, HandleConnected, onHandlerAction,
                HandleResultIgnored, HandleLoginError, HandleLoginOk
  <2>3. screen' = screen \/ screen' # "SPLASH"
    BY <1>5 DEF handlerData, HandleServerId, HandleConnected,
                HandleResultIgnored, HandleLoginError, HandleLoginOk
  <2> QED
    BY <2>1, <2>2, <2>3 DEF Leaving
<1>6. CASE User
  <2>1. ASSUME NEW u \in Users, PressLogin(u) PROVE Leaving'
    BY <1>2, <2>1 DEF PressLogin
  <2>2. CASE PressFingerPrint
    BY <1>2, <2>2 DEF PressFingerPrint
  <2>3. CASE LogOut
    <3>1. CASE NothingUnderWay
      BY <1>0, <2>3, <3>1 DEF LogOut, NothingUnderWay, Leaving
    <3>2. CASE ~NothingUnderWay
      BY <1>2, <2>3, <3>2 DEF LogOut
    <3> QED
      BY <3>1, <3>2
  <2>4. CASE OpenChatTab \/ SendMethod
    BY <1>1, <2>4 DEF OpenChatTab, SendMethod
  <2> QED
    BY <1>6, <2>1, <2>2, <2>3, <2>4 DEF User
<1>7. CASE Resume
  <2>1. ASSUME NEW c \in RestCalls, c \in rest \/ c \in saving, UNCHANGED leave
        PROVE  Leaving'
    BY <2>1 DEF Leaving
  <2>2. ASSUME NEW c \in Checks, c \in checks, UNCHANGED leave PROVE Leaving'
    BY <2>2 DEF Leaving
  <2>3. ASSUME NEW c \in RestCalls,
               \/ LoginAnswered(c) \/ LoginFailed(c) \/ LoginTimesOut(c)
               \/ LoginUnanswered(c) \/ LoginSaved(c)
        PROVE  Leaving'
    BY <2>1, <2>3 DEF LoginAnswered, LoginFailed, LoginTimesOut, LoginUnanswered, LoginSaved
  <2>4. ASSUME NEW u \in Users, UserInfoFound(u) \/ UserInfoMissing(u) PROVE Leaving'
    BY <1>1, <2>4 DEF UserInfoFound, UserInfoMissing
  <2>5. ASSUME NEW c \in Checks,
               CheckAuthDecide(c) \/ CheckAuthDelayed(c) \/ CheckAuthFinish(c)
        PROVE  Leaving'
    BY <2>2, <2>5 DEF CheckAuthDecide, CheckAuthDelayed, CheckAuthFinish
  <2>6. CASE LogOutFailed \/ LogOutTimesOut
    <3>1. /\ logouts > 0 /\ logouts' = logouts - 1
          /\ UNCHANGED <<leave, checks, rest, saving, screen>>
      BY <2>6 DEF LogOutFailed, LogOutTimesOut, logOutError
    <3> QED
      BY <1>0, <3>1 DEF Leaving
  <2>7. CASE LateLogOutError
    <3>1. lateLogouts > 0 /\ UNCHANGED <<leave, logouts, checks, rest, saving, screen>>
      BY <2>7 DEF LateLogOutError, logOutError
    <3> QED
      BY <1>0, <3>1 DEF Leaving
  <2>8. CASE LateLogOutDropped
    <3>1. /\ lateLogouts > 0 /\ UNCHANGED <<leave, logouts, checks, rest, saving, screen>>
      BY <2>8 DEF LateLogOutDropped
    <3> QED
      BY <1>0, <3>1 DEF Leaving
  <2>9. CASE LateLoginError \/ LateLoginDropped \/ LogOutCleared
    BY <1>1, <2>9 DEF LateLoginError, LateLoginDropped, LogOutCleared, requestLogin
  <2>10. CASE LogOutUnanswered
    <3>1. /\ logouts > 0 /\ logouts' = logouts - 1
          /\ UNCHANGED <<leave, checks, rest, saving, screen>>
      BY <2>10 DEF LogOutUnanswered
    <3> QED
      BY <1>0, <3>1 DEF Leaving
  <2>11. CASE LogOutAnswered
    <3>1. /\ logouts > 0 /\ logouts' = logouts - 1
          /\ leave' = IF leave = "asked" THEN "ended" ELSE leave
          /\ UNCHANGED <<lateLogouts, isAutoLogin, checks, rest, saving, screen>>
      BY <2>11 DEF LogOutAnswered
    <3> QED
      BY <1>0, <3>1 DEF Leaving
  <2> QED
    BY <1>7, <2>3, <2>4, <2>5, <2>6, <2>7, <2>8, <2>9, <2>10, <2>11 DEF Resume
<1> QED
  BY <1>3, <1>4, <1>5, <1>6, <1>7 DEF Next, Socket

(* Only authWithUserNameAndPass adds a login, and it looks at isAutoLogin. *)
LEMMA NoLoginSent ==
  ASSUME TypeOK,
         \/ UNCHANGED outq
         \/ outq' = <<>>
         \/ outq # <<>> /\ outq' = Tail(outq)
         \/ \E t \in {"connect", "method", "sub"} : Send(Frame(t))
  PROVE  ~SendsLogin
<1>0. outq \in Seq(OutFrames) /\ Len(outq) \in Nat
  BY DEF TypeOK, WireTypes, ClientTypes, TaskTypes
<1>1. CASE UNCHANGED outq
  BY <1>0, <1>1 DEF SendsLogin
<1>2. CASE outq' = <<>>
  BY <1>0, <1>2 DEF SendsLogin
<1>3. CASE outq # <<>> /\ outq' = Tail(outq)
  BY <1>0, <1>3, TailElements DEF SendsLogin
<1>4. CASE \E t \in {"connect", "method", "sub"} : Send(Frame(t))
  <2>1. PICK t \in {"connect", "method", "sub"} : Send(Frame(t))
    BY <1>4
  <2>2. Frame(t) \in OutFrames /\ Frame(t).type # "login"
    BY FrameTypes DEF Frame
  <2>3. CASE outq' = Append(outq, Frame(t))
    <3>1. Len(outq') = Len(outq) + 1 /\ outq'[Len(outq) + 1] = Frame(t)
      BY <1>0, <2>2, <2>3, AppendElements
    <3> QED
      BY <2>2, <3>1 DEF SendsLogin
  <2> QED
    BY <1>1, <2>1, <2>3 DEF Send
<1> QED
  BY <1>1, <1>2, <1>3, <1>4

LEMMA LoginNeedsAuth ==
  ASSUME TypeOK, [Next]_vars, ~isAutoLogin
  PROVE  ~SendsLogin
<1> USE DEF wireVars, wsVars
<1>1. CASE Network
  BY <1>1, NoLoginSent DEF Network, ConnectOpens, Drop, ConnectFails, reconnect, ServerStep
<1>2. CASE OnDone
  BY <1>2, NoLoginSent DEF OnDone, reconnect
<1>3. CASE handlerData
  <2>1. ASSUME HandleServerId PROVE Send(Frame("connect"))
    BY <2>1 DEF HandleServerId, connectWithAction
  <2>2. ASSUME HandleConnected PROVE UNCHANGED outq
    BY <2>2 DEF HandleConnected, onHandlerAction, authWithUserNameAndPass
  <2>3. ASSUME HandleResultIgnored \/ HandleLoginError PROVE UNCHANGED outq
    BY <2>3 DEF HandleResultIgnored, HandleLoginError
  <2>4. ASSUME HandleLoginOk PROVE Send(Frame("sub"))
    BY <2>4 DEF HandleLoginOk
  <2> QED
    BY <1>3, <2>1, <2>2, <2>3, <2>4, NoLoginSent DEF handlerData
<1>4. CASE Resume
  <2>1. ASSUME NEW c \in RestCalls,
               \/ LoginAnswered(c) \/ LoginFailed(c) \/ LoginTimesOut(c)
               \/ LoginUnanswered(c) \/ LoginSaved(c)
        PROVE  UNCHANGED outq \/ Send(Frame("connect"))
    BY <2>1 DEF LoginAnswered, LoginFailed, LoginTimesOut, LoginUnanswered, LoginSaved,
                loginChat, connectWithAction
  <2>2. ASSUME NEW u \in Users, UserInfoFound(u) \/ UserInfoMissing(u) PROVE UNCHANGED outq
    BY <2>2 DEF UserInfoFound, UserInfoMissing
  <2>3. ASSUME NEW c \in Checks,
               CheckAuthDecide(c) \/ CheckAuthDelayed(c) \/ CheckAuthFinish(c)
        PROVE  UNCHANGED outq \/ Send(Frame("connect"))
    BY <2>3 DEF CheckAuthDecide, CheckAuthDelayed, CheckAuthFinish, loginChat,
                connectWithAction
  <2>4. ASSUME \/ LogOutFailed \/ LogOutTimesOut \/ LateLogOutError \/ LateLogOutDropped
               \/ LogOutUnanswered \/ LogOutAnswered \/ LogOutCleared
               \/ LateLoginError \/ LateLoginDropped
        PROVE  UNCHANGED outq
    BY <2>4 DEF LogOutFailed, LogOutTimesOut, LateLogOutError, LateLogOutDropped,
                logOutError, LogOutUnanswered, LogOutAnswered, LogOutCleared,
                LateLoginError, LateLoginDropped
  <2> QED
    BY <1>4, <2>1, <2>2, <2>3, <2>4, NoLoginSent DEF Resume
<1>5. CASE User
  <2>1. UNCHANGED outq \/ Send(Frame("connect")) \/ Send(Frame("method"))
    BY <1>5 DEF User, PressLogin, PressFingerPrint, LogOut, OpenChatTab, SendMethod,
                connectWithAction
  <2> QED
    BY <2>1, NoLoginSent
<1>6. CASE UNCHANGED vars
  BY <1>6, NoLoginSent DEF vars
<1> QED
  BY <1>1, <1>2, <1>3, <1>4, <1>5, <1>6 DEF Next, Socket

(* A logout that is alone is final (AuthBloc.logOut): the argument is that *)
(* every callback that allows logins again, the error of a logout and      *)
(* loginChat, belongs to a request, and Leaving says that none is left.    *)
THEOREM StaysLoggedOutCorrect == Spec => StaysLoggedOut
<1>1. Init => Leaving
  BY DEF Init, Leaving
<1>2. Leaving /\ TypeOK /\ [Next]_vars => [LoggedOut /\ LoggedOut' => ~SendsLogin]_vars
  <2> SUFFICES ASSUME Leaving, TypeOK, [Next]_vars, LoggedOut PROVE ~SendsLogin
    OBVIOUS
  <2>1. ~isAutoLogin
    BY DEF Leaving, LoggedOut, TypeOK, WireTypes, ClientTypes, TaskTypes
  <2> QED
    BY <2>1, LoginNeedsAuth
<1> QED
  BY <1>1, <1>2, LeavingStep, TypeCorrect, PTL DEF Spec, StaysLoggedOut

-----------------------------------------------------------------------------
(* WsSession implements ChatSession.                                       *)

Asked == NamedBy(outq, "login")
Told  == NamedBy(inq, "loginOk")

LEMMA NamedEmpty == ASSUME NEW t PROVE NamedBy(<<>>, t) = {}
BY DEF NamedBy

LEMMA NamedOne == ASSUME NEW e, NEW t, e.type # t PROVE NamedBy(<<e>>, t) = {}
BY DEF NamedBy

LEMMA NamedAppend ==
  ASSUME NEW S, NEW q \in Seq(S), NEW e \in S, NEW t
  PROVE  /\ e.type = t => NamedBy(Append(q, e), t) = NamedBy(q, t) \cup {e.user}
         /\ e.type # t => NamedBy(Append(q, e), t) = NamedBy(q, t)
<1>1. /\ Len(Append(q, e)) = Len(q) + 1 /\ Len(q) \in Nat
      /\ \A i \in 1..Len(q) : Append(q, e)[i] = q[i]
      /\ Append(q, e)[Len(q) + 1] = e
  BY AppendElements
<1>2. 1..(Len(q) + 1) = (1..Len(q)) \cup {Len(q) + 1}
  BY <1>1
<1> QED
  BY <1>1, <1>2 DEF NamedBy

LEMMA NamedTail ==
  ASSUME NEW S, NEW q \in Seq(S), q # <<>>, NEW t
  PROVE  /\ Head(q).type = t => NamedBy(q, t) = NamedBy(Tail(q), t) \cup {Head(q).user}
         /\ Head(q).type # t => NamedBy(q, t) = NamedBy(Tail(q), t)
<1>1. /\ Head(q) = q[1] /\ 1 \in 1..Len(q)
      /\ Len(Tail(q)) = Len(q) - 1 /\ Len(q) \in Nat /\ Tail(q) \in Seq(S)
      /\ \A i \in 1..Len(Tail(q)) : Tail(q)[i] = q[i + 1] /\ i + 1 \in 1..Len(q)
  BY TailElements
<1>2. \A j \in 1..Len(q) : j = 1 \/ (j - 1 \in 1..Len(Tail(q)) /\ Tail(q)[j - 1] = q[j])
  BY <1>1
<1>3. NamedBy(Tail(q), t) \subseteq NamedBy(q, t)
  BY <1>1 DEF NamedBy
<1>4. \A j \in 1..Len(q) : q[j].type = t /\ j # 1 => q[j].user \in NamedBy(Tail(q), t)
  BY <1>2 DEF NamedBy
<1>5. Head(q).type = t => Head(q).user \in NamedBy(q, t)
  BY <1>1 DEF NamedBy
<1>6. NamedBy(q, t) \subseteq NamedBy(Tail(q), t) \cup {q[j].user : j \in {1}}
  BY <1>4 DEF NamedBy
<1>7. Head(q).type # t => NamedBy(q, t) \subseteq NamedBy(Tail(q), t)
  BY <1>1, <1>4 DEF NamedBy
<1> QED
  BY <1>1, <1>3, <1>5, <1>6, <1>7

LEMMA NamedPrefix ==
  ASSUME NEW S, NEW q \in Seq(S), NEW n \in 0..Len(q), NEW t
  PROVE  NamedBy(SubSeq(q, 1, n), t) \subseteq NamedBy(q, t)
<1>1. /\ Len(SubSeq(q, 1, n)) = n
      /\ \A i \in 1..n : SubSeq(q, 1, n)[i] = q[i] /\ i \in 1..Len(q)
  BY PrefixElements
<1> QED
  BY <1>1 DEF NamedBy

(* Nothing ChatSession sees of the connection changes.                     *)
Quiet == linkState' = linkState /\ Asked' = Asked /\ srvUser' = srvUser /\ Told' = Told

LEMMA QuietStep ==
  ASSUME Quiet,
         \/ UNCHANGED <<isAutoLogin, account>>
         \/ isAutoLogin' \in BOOLEAN /\ UNCHANGED account
         \/ account' = NoUser /\ UNCHANGED isAutoLogin
  PROVE  [Session!Next]_(Session!vars)
<1>1. CASE UNCHANGED <<isAutoLogin, account>>
  BY <1>1 DEF Quiet, Asked, Told, Session!vars
<1>2. CASE isAutoLogin' = FALSE /\ UNCHANGED account
  <2>1. Session!Forbid
    BY <1>2 DEF Quiet, Asked, Told, Session!Forbid
  <2> QED
    BY <2>1 DEF Session!Next
<1>3. CASE isAutoLogin' = TRUE /\ UNCHANGED account
  <2>1. Session!Permit
    BY <1>3 DEF Quiet, Asked, Told, Session!Permit
  <2> QED
    BY <2>1 DEF Session!Next
<1>4. CASE account' = NoUser /\ UNCHANGED isAutoLogin
  <2>1. Session!Forget
    BY <1>4 DEF Quiet, Asked, Told, Session!Forget
  <2> QED
    BY <2>1 DEF Session!Next
<1> QED
  BY <1>1, <1>2, <1>3, <1>4

(* Sending anything but a login is not seen.                               *)
LEMMA SendQuiet ==
  ASSUME TypeOK, NEW t \in {"connect", "method", "sub"}, Send(Frame(t))
  PROVE  Asked' = Asked
<1>1. outq \in Seq(OutFrames) /\ Frame(t) \in OutFrames /\ Frame(t).type # "login"
  BY FrameTypes DEF TypeOK, WireTypes, ClientTypes, TaskTypes, Frame
<1>2. NamedBy(Append(outq, Frame(t)), "login") = NamedBy(outq, "login")
  BY <1>1, NamedAppend
<1> QED
  BY <1>2 DEF Send, Asked

LEMMA ImplementsInit == Init => Session!Init
BY NamedEmpty DEF Init, Session!Init, linkState

(* The connection is opened, or lost with what was on it.                  *)
LEMMA ImplementsConnection ==
  ASSUME Order, ConnectOpens \/ Drop \/ ConnectFails \/ OnDone
  PROVE  [Session!Next]_(Session!vars)
<1> USE DEF Order, wireVars, wsVars, histVars
<1>0. outq \in Seq(OutFrames) /\ inq \in Seq(InFrames)
  BY DEF TypeOK, WireTypes, ClientTypes, TaskTypes
<1>1. CASE ConnectOpens
  <2>1. conn = "connecting" /\ conn' = "open" /\ ~srvOpen /\ ~srvOpen' /\ inq = <<>>
        /\ UNCHANGED <<outq, srvUser, isAutoLogin, account>>
    BY <1>1 DEF ConnectOpens, Opening
  <2>2. Told = {} /\ Told' = {}
    <3>1. inq' = <<Frame("server_id")>> /\ Frame("server_id").type # "loginOk"
      BY <1>1 DEF ConnectOpens, Frame
    <3> QED
      BY <2>1, <3>1, NamedEmpty, NamedOne DEF Told
  <2>3. Session!Open
    BY <2>1, <2>2 DEF Session!Open, Told, linkState, NamedBy
  <2> QED
    BY <2>3 DEF Session!Next
<1>2. CASE Drop
  <2>1. conn = "open" /\ conn' = "lost" /\ outq' = <<>> /\ srvUser' = NoUser
        /\ UNCHANGED <<isAutoLogin, account>>
    BY <1>2 DEF Drop
  <2>2. Told' \in SUBSET Told
    <3>1. PICK n \in 0..Len(inq) : inq' = SubSeq(inq, 1, n)
      BY <1>2 DEF Drop
    <3>2. NamedBy(SubSeq(inq, 1, n), "loginOk") \subseteq NamedBy(inq, "loginOk")
      BY <1>0, NamedPrefix
    <3> QED
      BY <3>1, <3>2 DEF Told
  <2>3. Asked' = {}
    BY <2>1, NamedEmpty DEF Asked
  <2>4. linkState # "down" /\ linkState' = "down"
    BY <2>1 DEF linkState
  <2>5. Session!Lose
    BY <2>1, <2>2, <2>3, <2>4 DEF Session!Lose, Asked, Told
  <2> QED
    BY <2>5 DEF Session!Next
<1>3. CASE ConnectFails \/ OnDone
  <2>1. /\ conn # "open" /\ conn' = "connecting" /\ inq = <<>> /\ inq' = <<>>
        /\ outq' = <<>> /\ ~srvOpen
        /\ UNCHANGED <<srvUser, isAutoLogin, account>>
    BY <1>3 DEF ConnectFails, OnDone, reconnect, Opening, Lost
  <2>2. Asked = {}
    BY <2>1 DEF Ordered, LoginQueued, Asked, NamedBy
  <2>3. Asked' = {} /\ Told' = Told
    BY <2>1, NamedEmpty DEF Asked, Told
  <2>4. Quiet
    BY <2>1, <2>2, <2>3 DEF Quiet, linkState
  <2> QED
    BY <2>1, <2>4, QuietStep
<1> QED
  BY <1>1, <1>2, <1>3

(* The server takes a frame.                                               *)
LEMMA ImplementsServer ==
  ASSUME Order, ServerStep
  PROVE  [Session!Next]_(Session!vars)
<1> USE DEF Order, wsVars, histVars
<1> DEFINE f == Head(outq)
<1>1. /\ outq \in Seq(OutFrames) /\ inq \in Seq(InFrames) /\ outq # <<>>
      /\ outq' = Tail(outq) /\ conn = "open" /\ f \in OutFrames
      /\ UNCHANGED <<conn, isAutoLogin, account>>
  BY TailElements DEF ServerStep, TypeOK, WireTypes, ClientTypes, TaskTypes
<1>2. /\ f.type = "login" => Asked = Asked' \cup {f.user}
      /\ f.type # "login" => Asked' = Asked
  BY <1>1, NamedTail DEF Asked
<1>3. ASSUME NEW g \in InFrames, Reply(g)
      PROVE  /\ g.type = "loginOk" => Told' = Told \cup {g.user}
             /\ g.type # "loginOk" => Told' = Told
  <2>1. inq' = Append(inq, g)
    BY <1>3 DEF Reply
  <2>2. /\ g.type = "loginOk" => NamedBy(Append(inq, g), "loginOk")
                                  = NamedBy(inq, "loginOk") \cup {g.user}
        /\ g.type # "loginOk" => NamedBy(Append(inq, g), "loginOk")
                                  = NamedBy(inq, "loginOk")
    <3>1. inq \in Seq(InFrames) /\ g \in InFrames
      BY <1>1
    <3> QED
      BY <3>1, NamedAppend
  <2> QED
    BY <2>1, <2>2 DEF Told
<1>4. CASE ServeConnect
  <2>1. f.type = "connect" /\ srvOpen' = TRUE /\ srvUser' = srvUser /\ Asked' = Asked
    BY <1>2, <1>4 DEF ServeConnect
  <2>2. Told' = Told
    <3>1. PICK t \in {"connected", "already"} : Reply(Frame(t))
      BY <1>4 DEF ServeConnect
    <3>2. Frame(t) \in InFrames /\ Frame(t).type # "loginOk"
      BY FrameTypes DEF Frame
    <3> QED
      BY <1>3, <3>1, <3>2
  <2>3. CASE srvOpen
    <3>1. Quiet
      BY <1>1, <2>1, <2>2, <2>3 DEF Quiet, linkState
    <3> QED
      BY <1>1, <3>1, QuietStep
  <2>4. CASE ~srvOpen
    <3>1. linkState = "open" /\ linkState' = "accepted"
      BY <1>1, <2>1, <2>4 DEF linkState
    <3>2. Session!Accept
      BY <1>1, <2>1, <2>2, <3>1 DEF Session!Accept, Asked, Told
    <3> QED
      BY <3>2 DEF Session!Next
  <2> QED
    BY <2>3, <2>4
<1>5. CASE ServeLogin
  <2>1. /\ f.type = "login" /\ f.user \in Users /\ f.user \in Asked
        /\ Asked' \in {Asked, Asked \ {f.user}}
    <3>1. f.type = "login"
      BY <1>5 DEF ServeLogin
    <3>2. f.user \in Users
      BY <1>1, <3>1 DEF OutFrames
    <3>3. Asked = Asked' \cup {f.user}
      BY <1>2, <3>1
    <3> QED
      BY <3>1, <3>2, <3>3, Zenon
  <2>2. srvOpen /\ linkState' = linkState
    <3>1. LoginQueued(outq)
      BY <1>1, <2>1, QueueTail
    <3> QED
      BY <1>1, <1>5, <3>1 DEF Ordered, ServeLogin, linkState
  <2>3. CASE Reply([type |-> "loginOk", user |-> f.user]) /\ srvUser' = f.user
    <3>1. [type |-> "loginOk", user |-> f.user] \in InFrames
      BY <2>1 DEF InFrames
    <3>2. Told' = Told \cup {f.user}
      BY <1>3, <2>3, <3>1
    <3>3. Session!Admit(f.user)
      BY <1>1, <2>1, <2>2, <2>3, <3>2 DEF Session!Admit, Asked, Told
    <3> QED
      BY <2>1, <3>3 DEF Session!Next
  <2>4. CASE Reply(Frame("err")) /\ srvUser' = srvUser
    <3>1. Told' = Told
      BY <1>3, <2>4, FrameTypes DEF Frame
    <3>2. CASE Asked' = Asked
      <4>1. Quiet
        BY <2>2, <2>4, <3>1, <3>2 DEF Quiet
      <4> QED
        BY <1>1, <4>1, QuietStep
    <3>3. CASE Asked' = Asked \ {f.user}
      <4>1. Session!Refuse(f.user)
        BY <1>1, <2>1, <2>2, <2>4, <3>1, <3>3 DEF Session!Refuse, Asked, Told
      <4> QED
        BY <2>1, <4>1 DEF Session!Next
    <3> QED
      BY <2>1, <3>2, <3>3
  <2> QED
    BY <1>5, <2>2, <2>3, <2>4 DEF ServeLogin
<1>6. CASE ServeMethod \/ ServeSub
  <2>1. Asked' = Asked /\ UNCHANGED <<srvOpen, srvUser>>
    BY <1>2, <1>6 DEF ServeMethod, ServeSub
  <2>2. Told' = Told
    <3>1. CASE inq' = inq
      BY <3>1 DEF Told
    <3>2. ASSUME NEW t \in {"ok", "err"}, Reply(Frame(t)) PROVE Told' = Told
      BY <1>3, <3>2, FrameTypes DEF Frame
    <3> QED
      BY <1>6, <3>1, <3>2 DEF ServeMethod, ServeSub
  <2>3. Quiet
    BY <1>1, <2>1, <2>2 DEF Quiet, linkState
  <2> QED
    BY <1>1, <2>3, QuietStep
<1> QED
  BY <1>4, <1>5, <1>6 DEF ServerStep

(* The client handles a frame.                                             *)
LEMMA ImplementsHandler ==
  ASSUME Order, handlerData
  PROVE  [Session!Next]_(Session!vars)
<1> USE DEF Order, wsVars, histVars
<1> DEFINE f == Head(inq)
<1>1. /\ inq \in Seq(InFrames) /\ inq # <<>> /\ inq' = Tail(inq) /\ f \in InFrames
      /\ outq \in Seq(OutFrames)
      /\ UNCHANGED <<conn, srvOpen, srvUser, isAutoLogin>>
  BY TailElements DEF handlerData, TypeOK, WireTypes, ClientTypes, TaskTypes
<1>2. linkState' = linkState
  BY <1>1 DEF linkState
<1>3. /\ f.type = "loginOk" => Told = Told' \cup {f.user}
      /\ f.type # "loginOk" => Told' = Told
  BY <1>1, NamedTail DEF Told
<1>4. CASE HandleServerId
  <2>1. f.type = "server_id" /\ UNCHANGED account /\ Send(Frame("connect"))
    BY <1>4 DEF HandleServerId, connectWithAction
  <2>2. Quiet
    BY <1>1, <1>2, <1>3, <2>1, SendQuiet DEF Quiet
  <2> QED
    BY <1>1, <2>1, <2>2, QuietStep
<1>5. CASE HandleConnected
  <2>1. f.type \in {"connected", "already"} /\ Told' = Told /\ UNCHANGED account
    BY <1>3, <1>5 DEF HandleConnected
  <2>2. CASE UNCHANGED outq
    <3>1. Quiet
      BY <1>1, <1>2, <2>1, <2>2 DEF Quiet, Asked
    <3> QED
      BY <1>1, <2>1, <3>1, QuietStep
  <2>3. CASE isAutoLogin /\ loginName # NoUser /\ Send(Login(loginName)) /\ outq' # outq
    <3>1. conn = "open" /\ outq' = Append(outq, Login(loginName))
      <4>1. conn # "lost" /\ outq' = Append(outq, Login(loginName))
        BY <2>3 DEF Send
      <4> QED
        BY <1>1, <4>1 DEF Opening, TypeOK, WireTypes, ClientTypes, TaskTypes
    <3>2. srvOpen
      BY <1>1, <2>1, <3>1, QueueTail DEF Accepted
    <3>3. linkState = "accepted"
      BY <3>1, <3>2 DEF linkState
    <3>4. loginName \in Users
      BY <2>3, ConstantsAssumption DEF loginName, TypeOK, WireTypes, ClientTypes, TaskTypes,
         MaybeUser
    <3>5. Asked' = Asked \cup {loginName}
      <4>1. Login(loginName) \in OutFrames /\ Login(loginName).type = "login"
            /\ Login(loginName).user = loginName
        BY <3>4, FrameTypes DEF Login
      <4>2. NamedBy(Append(outq, Login(loginName)), "login")
              = NamedBy(outq, "login") \cup {Login(loginName).user}
        <5>1. outq \in Seq(OutFrames)
          BY <1>1
        <5> QED
          BY <4>1, <5>1, NamedAppend
      <4> QED
        BY <3>1, <4>1, <4>2 DEF Asked
    <3>6. isAutoLogin = TRUE /\ UNCHANGED isAutoLogin
      BY <1>1, <2>3 DEF TypeOK, WireTypes, ClientTypes, TaskTypes
    <3>7. Session!Ask(loginName)
      BY <1>1, <1>2, <2>1, <3>3, <3>5, <3>6 DEF Session!Ask, Asked, Told
    <3> QED
      BY <3>4, <3>7 DEF Session!Next
  <2> QED
    BY <1>5, <2>2, <2>3 DEF HandleConnected, onHandlerAction, authWithUserNameAndPass
<1>6. CASE HandleResultIgnored \/ HandleLoginError
  <2>1. Asked' = Asked /\ UNCHANGED account
    BY <1>6 DEF HandleResultIgnored, HandleLoginError, Asked
  <2>2. CASE Told' = Told
    <3>1. Quiet
      BY <1>1, <1>2, <2>1, <2>2 DEF Quiet
    <3> QED
      BY <1>1, <2>1, <3>1, QuietStep
  <2>3. CASE Told' # Told
    <3>1. f.type = "loginOk" /\ f.user \in Told /\ Told' = Told \ {f.user}
      <4>1. f.type = "loginOk" /\ Told = Told' \cup {f.user}
        BY <1>3, <2>3
      <4> QED
        BY <2>3, <4>1, Zenon
    <3>2. f.user \in Users
      BY <1>1, <3>1 DEF InFrames
    <3>3. Session!Miss(f.user)
      BY <1>1, <1>2, <2>1, <3>1 DEF Session!Miss, Asked, Told
    <3> QED
      BY <3>2, <3>3 DEF Session!Next
  <2> QED
    BY <2>2, <2>3
<1>7. CASE HandleLoginOk
  <2>1. f.type = "loginOk" /\ account' = f.user /\ Send(Frame("sub"))
    BY <1>7 DEF HandleLoginOk
  <2>2. Asked' = Asked
    BY <2>1, SendQuiet
  <2>3. f.user \in Told /\ Told' \in {Told, Told \ {f.user}}
    <3>1. Told = Told' \cup {f.user}
      BY <1>3, <2>1
    <3> QED
      BY <3>1, Zenon
  <2>4. f.user \in Users
    BY <1>1, <2>1 DEF InFrames
  <2>5. Session!Learn(f.user)
    BY <1>1, <1>2, <2>1, <2>2, <2>3 DEF Session!Learn, Asked, Told
  <2> QED
    BY <2>4, <2>5 DEF Session!Next
<1> QED
  BY <1>4, <1>5, <1>6, <1>7 DEF handlerData

(* What AuthBloc and the user do sends at most a "connect" or a method.    *)
LEMMA ImplementsDialogue ==
  ASSUME Order, Resume \/ User
  PROVE  [Session!Next]_(Session!vars)
<1> USE DEF Order, wireVars, wsVars, histVars
<1>1. UNCHANGED <<conn, inq, srvOpen, srvUser>>
  BY DEF Resume, User, LoginAnswered, LoginFailed, LoginTimesOut, LoginUnanswered, LoginSaved,
         LateLoginError, LateLoginDropped, LogOutTimesOut, LateLogOutError, LateLogOutDropped,
         logOutError, UserInfoFound, UserInfoMissing, CheckAuthDecide, CheckAuthDelayed,
         CheckAuthFinish,
         LogOutFailed, LogOutUnanswered, LogOutAnswered, LogOutCleared, PressLogin,
         PressFingerPrint, LogOut, OpenChatTab, SendMethod
<1>2. UNCHANGED outq \/ Send(Frame("connect")) \/ Send(Frame("method"))
  BY DEF Resume, User, LoginAnswered, LoginFailed, LoginTimesOut, LoginUnanswered, LoginSaved,
         LateLoginError, LateLoginDropped, LogOutTimesOut, LateLogOutError, LateLogOutDropped,
         logOutError, UserInfoFound, UserInfoMissing, CheckAuthDecide, CheckAuthDelayed,
         CheckAuthFinish,
         LogOutFailed, LogOutUnanswered, LogOutAnswered, LogOutCleared, PressLogin,
         PressFingerPrint, LogOut, OpenChatTab, SendMethod, loginChat, connectWithAction
<1>3. Quiet
  <2>1. Asked' = Asked
    BY <1>2, SendQuiet DEF Asked
  <2> QED
    BY <1>1, <2>1 DEF Quiet, linkState, Told
<1>4. \/ isAutoLogin' \in BOOLEAN /\ UNCHANGED account
      \/ account' = NoUser /\ UNCHANGED isAutoLogin
  BY DEF TypeOK, WireTypes, ClientTypes, TaskTypes, Resume, User, LoginAnswered, LoginFailed,
     LoginTimesOut, LoginUnanswered, LoginSaved,
         LateLoginError, LateLoginDropped, LogOutTimesOut, LateLogOutError, LateLogOutDropped,
         logOutError, UserInfoFound, UserInfoMissing, CheckAuthDecide, CheckAuthDelayed,
         CheckAuthFinish,
         LogOutFailed, LogOutUnanswered, LogOutAnswered, LogOutCleared, PressLogin,
         PressFingerPrint, LogOut, OpenChatTab, SendMethod, loginChat
<1> QED
  BY <1>3, <1>4, QuietStep

(* The session as the connection, the frames and the callbacks make it     *)
(* (WebSocketHelper, AuthBloc) keeps the promise of ChatSession: each step *)
(* is one of its steps or none it can see.                                 *)
THEOREM KeepsSessionCorrect == Spec => KeepsSession
<1>1. Order /\ [Next]_vars => [Session!Next]_(Session!vars)
  <2>1. CASE UNCHANGED vars
    <3>1. Quiet /\ UNCHANGED <<isAutoLogin, account>>
      BY <2>1 DEF vars, wireVars, wsVars, histVars, Quiet, linkState, Asked, Told
    <3> QED
      BY <3>1, QuietStep
  <2>2. Network <=> ConnectOpens \/ Drop \/ ConnectFails \/ ServerStep
    BY DEF Network
  <2>3. Socket <=> OnDone \/ handlerData
    BY DEF Socket
  <2> QED
    BY <2>1, <2>2, <2>3, ImplementsConnection, ImplementsServer, ImplementsHandler,
       ImplementsDialogue DEF Next
<1> QED
  BY <1>1, ImplementsInit, OrderCorrect, PTL
     DEF Spec, KeepsSession, Session!Spec

(* In the session ChatSession describes no account outlives the connection  *)
(* it was asked for on (WebSocketHelper.reconnect).                        *)
THEOREM OnAcceptedLinkCorrect == Session!Spec => []Session!OnAcceptedLink
<1>1. Session!Init => Session!OnAcceptedLink
  BY DEF Session!Init, Session!OnAcceptedLink
<1>2. Session!OnAcceptedLink /\ [Session!Next]_(Session!vars) => Session!OnAcceptedLink'
  <2> SUFFICES ASSUME Session!OnAcceptedLink, Session!Next PROVE Session!OnAcceptedLink'
    BY DEF Session!OnAcceptedLink, Session!vars
  <2>1. CASE Session!Open \/ Session!Accept \/ Session!Lose
    BY <2>1 DEF Session!OnAcceptedLink, Session!Open, Session!Accept, Session!Lose
  <2>2. CASE Session!Forbid \/ Session!Permit \/ Session!Forget
    BY <2>2 DEF Session!OnAcceptedLink, Session!Forbid, Session!Permit, Session!Forget
  <2>3. ASSUME NEW u \in Users,
               \/ Session!Ask(u) \/ Session!Admit(u) \/ Session!Refuse(u)
               \/ Session!Learn(u) \/ Session!Miss(u)
        PROVE  Session!OnAcceptedLink'
    BY <2>3 DEF Session!OnAcceptedLink, Session!Ask, Session!Admit, Session!Refuse,
                Session!Learn, Session!Miss
  <2> QED
    BY <2>1, <2>2, <2>3 DEF Session!Next
<1> QED
  BY <1>1, <1>2, PTL DEF Session!Spec

(* So the server knows no account, and is asked for none, on a connection  *)
(* that has not been accepted: what holds of ChatSession holds here.       *)
THEOREM AccountOfConnection == Spec => []Session!OnAcceptedLink
  BY OnAcceptedLinkCorrect, KeepsSessionCorrect, PTL DEF KeepsSession

=============================================================================
