----------------------------- MODULE WsSession -----------------------------
(***************************************************************************)
(* The chat session of the application: WebSocketHelper (the DDP socket to *)
(* the chat server, its automatic reconnection and its login) together     *)
(* with AuthBloc (the login and logout dialogues that drive it).           *)
(*                                                                         *)
(* Dart runs every callback to completion, so an action is one callback or *)
(* the stretch of an async method between two awaits.  Reads and writes of *)
(* CacheHelper (shared preferences, held in memory) do not suspend for     *)
(* longer than a microtask and are part of the action around them; HTTP    *)
(* calls and Hive boxes do suspend, and what runs after them is a task:    *)
(* an element of checks, rest, saving, info, or one of the logouts.        *)
(* A timeout (60 s) calls the error callback and gives the request up, but *)
(* a later error of the same request calls it again: those requests are    *)
(* counted in lateLogins and lateLogouts.                                  *)
(*                                                                         *)
(* The chat server and the transport are external.                         *)
(***************************************************************************)
EXTENDS Integers, Sequences

CONSTANTS
  Users,       (* employee accounts; the password goes with the account    *)
  NoUser,      (* null                                                     *)
  Blank,       (* a request body without the key 'username'                *)
  MaxFrames,   (* bound: frames queued when the UI sends one more          *)
  MaxDrops,    (* bound: transport failures                                *)
  MaxLogins,   (* bound: presses of the login or fingerprint button        *)
  MaxLogouts,  (* bound: calls of logOut that are not over                 *)
  MaxLate      (* bound: timed-out requests whose answer may still come    *)

ASSUME ConstantsAssumption ==
  /\ NoUser \notin Users
  /\ Blank \notin Users
  /\ Blank # NoUser
  /\ MaxFrames \in Nat /\ MaxDrops \in Nat
  /\ MaxLogins \in Nat /\ MaxLogouts \in Nat /\ MaxLate \in Nat

VARIABLES
  (* transport and chat server *)
  conn,            (* "connecting", "open", "lost": gone, onDone not yet run *)
  outq, inq,       (* frames to the server, frames to the client             *)
  srvOpen,         (* this connection's "connect" was accepted               *)
  srvUser,         (* the user this connection is logged in as               *)
  srvSub,          (* rooms-changed is subscribed on this connection         *)
  (* WebSocketHelper *)
  isConnected, isAutoReconnect, isAutoLogin, isLoginChat,
  actionState, dataRequest, account,
  (* AuthBloc and the preferences *)
  screen, allowGotoHome, cachedUser, hiveUser,
  (* suspended continuations *)
  checks, rest, saving, info, logouts, clearing, lateLogins, lateLogouts,
  (* history and bounds *)
  leave,           (* "asked" with nothing else under way, then "ended"     *)
  unanswered, drops, attempts

wireVars  == <<conn, outq, inq, srvOpen, srvUser, srvSub>>
wsVars    == <<isConnected, isAutoReconnect, isAutoLogin, isLoginChat,
               actionState, dataRequest, account>>
prefVars  == <<cachedUser, hiveUser>>
authVars  == <<screen, allowGotoHome>>
lateVars  == <<lateLogins, lateLogouts>>
taskVars  == <<checks, rest, saving, info, logouts, clearing, lateLogins, lateLogouts>>
boundVars == <<drops, attempts>>
histVars  == <<leave, unanswered>>
vars == <<wireVars, wsVars, prefVars, authVars, taskVars, boundVars, histVars>>

MaybeUser == Users \cup {NoUser}

OutFrames == [type: {"connect", "method", "sub"}, user: {NoUser}]
               \cup [type: {"login"}, user: Users]
InFrames  == [type: {"server_id", "connected", "already", "ok", "err"}, user: {NoUser}]
               \cup [type: {"loginOk"}, user: Users]

Frame(t)  == [type |-> t, user |-> NoUser]
Login(u)  == [type |-> "login", user |-> u]

RestCalls == [kind: {"loginWith", "reLoginASGL"}, user: Users]
Checks    == [stage: {"data", "fingerprint", "delay"}, user: {NoUser}]
               \cup [stage: {"userInfo"}, user: Users]

WireTypes ==
  /\ conn \in {"connecting", "open", "lost"}
  /\ outq \in Seq(OutFrames) /\ inq \in Seq(InFrames)
  /\ srvOpen \in BOOLEAN /\ srvUser \in MaybeUser /\ srvSub \in BOOLEAN

ClientTypes ==
  /\ isConnected \in BOOLEAN /\ isAutoReconnect \in BOOLEAN
  /\ isAutoLogin \in BOOLEAN /\ isLoginChat \in BOOLEAN
  /\ actionState \in {"NONE", "WS_LOGIN"}
  /\ dataRequest \in MaybeUser \cup {Blank}
  /\ account \in MaybeUser
  /\ screen \in {"SPLASH", "LOGIN", "HOME"}
  /\ allowGotoHome \in BOOLEAN
  /\ cachedUser \in MaybeUser /\ hiveUser \in BOOLEAN

TaskTypes ==
  /\ checks \subseteq Checks
  /\ rest \subseteq RestCalls /\ saving \subseteq RestCalls
  /\ info \subseteq Users
  /\ logouts \in Nat /\ clearing \in Nat /\ logouts + clearing <= MaxLogouts
  /\ lateLogins \in Nat /\ lateLogouts \in Nat /\ lateLogins + lateLogouts <= MaxLate
  /\ leave \in {"no", "asked", "ended"} /\ unanswered \in BOOLEAN
  /\ drops \in 0..MaxDrops /\ attempts \in 0..MaxLogins

TypeOK == WireTypes /\ ClientTypes /\ TaskTypes

-----------------------------------------------------------------------------
(* The application starts with what the preferences and Hive hold of an    *)
(* earlier run; the socket is being opened.                                *)
Init ==
  /\ conn = "connecting" /\ outq = <<>> /\ inq = <<>>
  /\ srvOpen = FALSE /\ srvUser = NoUser /\ srvSub = FALSE
  /\ isConnected = FALSE /\ isAutoReconnect = FALSE
  /\ isAutoLogin = TRUE /\ isLoginChat = FALSE
  /\ actionState = "NONE" /\ dataRequest = NoUser /\ account = NoUser
  /\ screen = "SPLASH" /\ allowGotoHome = FALSE
  /\ cachedUser \in MaybeUser /\ hiveUser \in {FALSE, cachedUser # NoUser}
  /\ checks = {} /\ rest = {} /\ saving = {} /\ info = {}
  /\ logouts = 0 /\ clearing = 0 /\ lateLogins = 0 /\ lateLogouts = 0
  /\ leave = "no" /\ unanswered = FALSE
  /\ drops = 0 /\ attempts = 0

-----------------------------------------------------------------------------
(* Transport and chat server (external).                                   *)

ConnectOpens ==
  /\ conn = "connecting"
  /\ conn' = "open"
  /\ inq' = <<Frame("server_id")>>
  /\ UNCHANGED <<outq, srvOpen, srvUser, srvSub, wsVars, prefVars, authVars,
                 taskVars, boundVars, histVars>>

(* The transport breaks; what the server had sent may be lost in part.     *)
Drop ==
  /\ conn = "open" /\ drops < MaxDrops
  /\ conn' = "lost"
  /\ outq' = <<>>
  /\ \E n \in 0..Len(inq) : inq' = SubSeq(inq, 1, n)
  /\ srvOpen' = FALSE /\ srvUser' = NoUser /\ srvSub' = FALSE
  /\ drops' = drops + 1
  /\ UNCHANGED <<wsVars, prefVars, authVars, taskVars, attempts, histVars>>

Reply(f) == inq' = Append(inq, f)

ServeConnect ==
  /\ Head(outq).type = "connect"
  /\ Reply(Frame(IF srvOpen THEN "already" ELSE "connected"))
  /\ srvOpen' = TRUE
  /\ UNCHANGED <<srvUser, srvSub>>

ServeLogin ==
  /\ Head(outq).type = "login"
  /\ UNCHANGED <<srvOpen, srvSub>>
  /\ \/ /\ srvOpen
        /\ Reply([type |-> "loginOk", user |-> Head(outq).user])
        /\ srvUser' = Head(outq).user
     \/ srvOpen /\ Reply(Frame("err")) /\ UNCHANGED srvUser
     \/ ~srvOpen /\ UNCHANGED <<inq, srvUser>>

(* typing, setReaction, eraseRoom: any other method call *)
ServeMethod ==
  /\ Head(outq).type = "method"
  /\ UNCHANGED <<srvOpen, srvUser, srvSub>>
  /\ \/ srvOpen /\ srvUser # NoUser /\ Reply(Frame("ok"))
     \/ srvOpen /\ Reply(Frame("err"))
     \/ ~srvOpen /\ UNCHANGED inq

ServeSub ==
  /\ Head(outq).type = "sub"
  /\ srvSub' = (srvSub \/ srvUser # NoUser)
  /\ UNCHANGED <<inq, srvOpen, srvUser>>

ServerStep ==
  /\ conn = "open" /\ outq # <<>>
  /\ outq' = Tail(outq)
  /\ ServeConnect \/ ServeLogin \/ ServeMethod \/ ServeSub
  /\ UNCHANGED <<conn, wsVars, prefVars, authVars, taskVars, boundVars, histVars>>

-----------------------------------------------------------------------------
(* WebSocketHelper                                                         *)

(* sink.add: buffered while connecting, dropped once the socket is closed  *)
Send(f) == outq' = IF conn = "lost" THEN outq ELSE Append(outq, f)

connectWithAction(state, data) ==
  /\ dataRequest' = data
  /\ actionState' = state
  /\ Send(Frame("connect"))

(* Faulty variant: isConnected survives the loss of the socket.            *)
reconnectStillConnected ==
  /\ isAutoReconnect' = TRUE
  /\ conn' = "connecting"
  /\ outq' = <<>> /\ inq' = <<>>
  /\ UNCHANGED <<isConnected, isAutoLogin, isLoginChat, actionState, dataRequest, account>>

(* onDone after a broken or refused connection: the new channel is opened  *)
(* at once.                                                                *)
reconnect ==
  /\ isConnected' = FALSE
  /\ isAutoReconnect' = TRUE
  /\ conn' = "connecting"
  /\ outq' = <<>> /\ inq' = <<>>
  /\ UNCHANGED <<isAutoLogin, isLoginChat, actionState, dataRequest, account>>

OnDone ==
  /\ conn = "lost" /\ inq = <<>>
  /\ reconnect
  /\ UNCHANGED <<srvOpen, srvUser, srvSub, prefVars, authVars, taskVars,
                 boundVars, histVars>>

ConnectFails ==
  /\ conn = "connecting" /\ drops < MaxDrops
  /\ reconnect
  /\ drops' = drops + 1
  /\ UNCHANGED <<srvOpen, srvUser, srvSub, prefVars, authVars, taskVars,
                 attempts, histVars>>

(* The user of the login frame: dataRequest['username'], or the cached     *)
(* account when there is no request (the catch branch).                    *)
loginName == CASE dataRequest = Blank  -> NoUser
               [] dataRequest = NoUser -> cachedUser
               [] OTHER                -> dataRequest

(* Faulty variant: the login is sent without a name.                       *)
authWithoutName ==
  \/ ~isAutoLogin /\ UNCHANGED <<dataRequest, actionState, outq>>
  \/ /\ isAutoLogin
     /\ dataRequest' = loginName
     /\ actionState' = "WS_LOGIN"
     /\ Send(Login(loginName))

(* The catch branch stores the request anew; without a name no frame.      *)
authWithUserNameAndPass ==
  \/ ~isAutoLogin /\ UNCHANGED <<dataRequest, actionState, outq>>
  \/ /\ isAutoLogin /\ loginName # NoUser
     /\ dataRequest' = loginName
     /\ actionState' = "WS_LOGIN"
     /\ Send(Login(loginName))
  \/ /\ isAutoLogin /\ loginName = NoUser
     /\ dataRequest' = Blank
     /\ UNCHANGED <<actionState, outq>>

(* Faulty variant: the first connection does not start checkAuth.          *)
onHandlerActionNoCheck ==
  /\ UNCHANGED checks
  /\ \/ /\ isAutoReconnect
        /\ authWithUserNameAndPass
        /\ isAutoReconnect' = FALSE
     \/ /\ ~isAutoReconnect /\ actionState = "NONE"
        /\ UNCHANGED <<isAutoReconnect, dataRequest, actionState, outq>>
     \/ /\ ~isAutoReconnect /\ actionState = "WS_LOGIN"
        /\ authWithUserNameAndPass
        /\ UNCHANGED isAutoReconnect

onHandlerAction ==
  \/ /\ isAutoReconnect
     /\ authWithUserNameAndPass
     /\ isAutoReconnect' = FALSE
     /\ UNCHANGED checks
  \/ /\ ~isAutoReconnect /\ actionState = "NONE"
     /\ checks' = IF screen = "SPLASH"
                    THEN checks \cup {[stage |-> "data", user |-> NoUser]}
                    ELSE checks
     /\ UNCHANGED <<isAutoReconnect, dataRequest, actionState, outq>>
  \/ /\ ~isAutoReconnect /\ actionState = "WS_LOGIN"
     /\ authWithUserNameAndPass
     /\ UNCHANGED <<isAutoReconnect, checks>>

(* Faulty variant: a reconnection logs in without waiting for "connected". *)
HandleServerIdPipelined ==
  /\ Head(inq).type = "server_id"
  /\ IF isAutoReconnect /\ isAutoLogin /\ loginName # NoUser
       THEN /\ outq' = Append(Append(outq, Frame("connect")), Login(loginName))
            /\ dataRequest' = loginName /\ actionState' = "WS_LOGIN"
       ELSE connectWithAction("NONE", NoUser)
  /\ UNCHANGED <<isConnected, isAutoReconnect, isLoginChat, account, screen, info, checks>>

HandleServerId ==
  /\ Head(inq).type = "server_id"
  /\ connectWithAction("NONE", NoUser)
  /\ UNCHANGED <<isConnected, isAutoReconnect, isLoginChat, account, screen, info, checks>>

HandleConnected ==
  /\ Head(inq).type \in {"connected", "already"}
  /\ isConnected' = TRUE
  /\ onHandlerAction
  /\ UNCHANGED <<isLoginChat, account, screen, info>>

resetActionState == actionState' = "NONE" /\ dataRequest' = NoUser

(* _handlerResult looks at _actionState only, never at the result's id:    *)
(* while a login is outstanding every result is taken as its answer.  The  *)
(* result of another method has no token, and parsing it throws before     *)
(* anything has changed.                                                   *)
HandleResultIgnored ==
  /\ \/ actionState = "NONE" /\ Head(inq).type \in {"loginOk", "ok", "err"}
     \/ actionState = "WS_LOGIN" /\ Head(inq).type = "ok"
  /\ UNCHANGED <<wsVars, outq, screen, info, checks>>

(* Faulty variant: a refused login leaves the action state behind.         *)
HandleLoginErrorNoReset ==
  /\ actionState = "WS_LOGIN" /\ Head(inq).type = "err"
  /\ screen' = "LOGIN"
  /\ UNCHANGED <<wsVars, outq, info, checks>>

HandleLoginError ==
  /\ actionState = "WS_LOGIN" /\ Head(inq).type = "err"
  /\ screen' = "LOGIN"
  /\ resetActionState
  /\ UNCHANGED <<isConnected, isAutoReconnect, isLoginChat, account, outq, info, checks>>

(* Faulty variant: the events of the user are not subscribed again.        *)
HandleLoginOkNoSub ==
  /\ actionState = "WS_LOGIN" /\ Head(inq).type = "loginOk"
  /\ account' = Head(inq).user
  /\ isLoginChat' = TRUE
  /\ info' = IF allowGotoHome THEN info \cup {Head(inq).user} ELSE info
  /\ resetActionState
  /\ UNCHANGED <<outq, isConnected, isAutoReconnect, screen, checks>>

(* Faulty variant: the account is the one last asked for, not the answer's *)
HandleLoginOkAsAsked ==
  /\ actionState = "WS_LOGIN" /\ Head(inq).type = "loginOk"
  /\ account' = IF dataRequest \in Users THEN dataRequest ELSE cachedUser
  /\ Send(Frame("sub"))
  /\ isLoginChat' = TRUE
  /\ info' = IF allowGotoHome THEN info \cup {Head(inq).user} ELSE info
  /\ resetActionState
  /\ UNCHANGED <<isConnected, isAutoReconnect, screen, checks>>

(* subUserEventAction, loginSuccess up to its HTTP call, _resetActionState *)
HandleLoginOk ==
  /\ actionState = "WS_LOGIN" /\ Head(inq).type = "loginOk"
  /\ account' = Head(inq).user
  /\ Send(Frame("sub"))
  /\ isLoginChat' = TRUE
  /\ info' = IF allowGotoHome THEN info \cup {Head(inq).user} ELSE info
  /\ resetActionState
  /\ UNCHANGED <<isConnected, isAutoReconnect, screen, checks>>

handlerData ==
  /\ inq # <<>>
  /\ inq' = Tail(inq)
  /\ \/ HandleServerId \/ HandleConnected
     \/ HandleResultIgnored \/ HandleLoginError \/ HandleLoginOk
  /\ UNCHANGED <<conn, srvOpen, srvUser, srvSub, isAutoLogin, prefVars,
                 allowGotoHome, rest, saving, logouts, clearing, lateVars,
                 boundVars, histVars>>

(* Typing notices and the other method calls of an open chat.              *)
SendMethod ==
  /\ screen = "HOME"
  /\ Len(outq) < MaxFrames /\ Len(inq) < MaxFrames
  /\ conn # "lost"
  /\ Send(Frame("method"))
  /\ UNCHANGED <<conn, inq, srvOpen, srvUser, srvSub, wsVars, prefVars, authVars,
                 taskVars, boundVars, histVars>>

-----------------------------------------------------------------------------
(* AuthBloc                                                                *)

requestLogin == screen' = "LOGIN"

(* loginChat and loginChatNoContext *)
loginChat(u) ==
  \/ /\ isConnected
     /\ isAutoLogin' = TRUE /\ allowGotoHome' = TRUE
     /\ connectWithAction("WS_LOGIN", u)
     /\ UNCHANGED screen
  \/ /\ ~isConnected
     /\ requestLogin
     /\ UNCHANGED <<isAutoLogin, allowGotoHome, dataRequest, actionState, outq>>

(* loginWith with the fields filled in: the press of the login button.     *)
PressLogin(u) ==
  /\ screen = "LOGIN" /\ isConnected
  /\ attempts < MaxLogins
  /\ attempts' = attempts + 1
  /\ rest' = rest \cup {[kind |-> "loginWith", user |-> u]}
  /\ leave' = "no"
  /\ UNCHANGED <<wireVars, wsVars, prefVars, authVars, checks, saving, info, logouts,
                 clearing, lateVars, drops, unanswered>>

(* loginASGL answered with success: the preferences and the portal user    *)
(* change, then the answer handler waits for HiveHelper.saveUserInfo.      *)
LoginAnswered(c) ==
  /\ c \in rest
  /\ rest' = rest \ {c} /\ saving' = saving \cup {c}
  /\ cachedUser' = c.user
  /\ UNCHANGED <<wireVars, wsVars, screen, allowGotoHome, hiveUser, checks,
                 info, logouts, clearing, lateVars, boundVars, histVars>>

LoginFailed(c) ==
  /\ c \in rest
  /\ rest' = rest \ {c}
  /\ requestLogin
  /\ UNCHANGED <<wireVars, wsVars, prefVars, allowGotoHome, checks, saving,
                 info, logouts, clearing, lateVars, boundVars, histVars>>

LoginTimesOut(c) ==
  /\ c \in rest /\ lateLogins + lateLogouts < MaxLate
  /\ rest' = rest \ {c}
  /\ lateLogins' = lateLogins + 1
  /\ requestLogin
  /\ UNCHANGED <<wireVars, wsVars, prefVars, allowGotoHome, checks, saving,
                 info, logouts, clearing, lateLogouts, boundVars, histVars>>

(* The error of a login given up calls onErrorApiCallback once more,       *)
(* whatever the user does by then; its success is thrown away.             *)
LateLoginError ==
  /\ lateLogins > 0
  /\ lateLogins' = lateLogins - 1
  /\ requestLogin
  /\ UNCHANGED <<wireVars, wsVars, prefVars, allowGotoHome, checks, rest, saving,
                 info, logouts, clearing, lateLogouts, boundVars, histVars>>

LateLoginDropped ==
  /\ lateLogins > 0
  /\ lateLogins' = lateLogins - 1
  /\ UNCHANGED <<wireVars, wsVars, prefVars, authVars, checks, rest, saving, info,
                 logouts, clearing, lateLogouts, boundVars, histVars>>

(* loginASGL runs neither callback: the request failed with something else *)
(* than a SocketException, or the body does not say success.               *)
LoginUnanswered(c) ==
  /\ c \in rest
  /\ rest' = rest \ {c}
  /\ unanswered' = (unanswered \/ screen = "SPLASH")
  /\ UNCHANGED <<wireVars, wsVars, prefVars, authVars, checks, saving, info, logouts,
                 clearing, lateVars, boundVars, leave>>

(* saveUserInfo has completed; the chat login follows.                     *)
LoginSaved(c) ==
  /\ c \in saving
  /\ saving' = saving \ {c}
  /\ hiveUser' = TRUE
  /\ loginChat(c.user)
  /\ UNCHANGED <<conn, inq, srvOpen, srvUser, srvSub, isConnected, isAutoReconnect,
                 isLoginChat, account, cachedUser, checks,
                 rest, info, logouts, clearing, lateVars, boundVars, histVars>>

(* getChatUserInfo inside loginSuccess: the user name was found, or not.   *)
UserInfoFound(u) ==
  /\ u \in info
  /\ info' = info \ {u}
  /\ allowGotoHome' = FALSE
  /\ screen' = "HOME"
  /\ UNCHANGED <<wireVars, wsVars, prefVars, checks, rest, saving, logouts,
                 clearing, lateVars, boundVars, histVars>>

UserInfoMissing(u) ==
  /\ u \in info
  /\ info' = info \ {u}
  /\ screen' = "LOGIN"
  /\ UNCHANGED <<wireVars, wsVars, prefVars, allowGotoHome, checks, rest,
                 saving, logouts, clearing, lateVars, boundVars, histVars>>

PressFingerPrint ==
  /\ screen = "LOGIN"
  /\ attempts < MaxLogins
  /\ attempts' = attempts + 1
  /\ checks' = checks \cup {[stage |-> "fingerprint", user |-> NoUser]}
  /\ leave' = "no"
  /\ UNCHANGED <<wireVars, wsVars, prefVars, authVars, rest, saving, info, logouts,
                 clearing, lateVars, drops, unanswered>>

(* checkAuth after getDataOpenApp returned nothing.  Whether the password  *)
(* is to be remembered was chosen in an earlier run of the application.    *)
CheckAuthDecide(c) ==
  /\ c \in checks
  /\ \/ /\ c.stage = "data"
        /\ checks' = (checks \ {c}) \cup {[stage |-> "delay", user |-> NoUser]}
        /\ UNCHANGED screen
     \/ /\ c.stage \in {"data", "fingerprint"} /\ cachedUser # NoUser /\ isConnected
        /\ checks' = (checks \ {c}) \cup {[stage |-> "userInfo", user |-> cachedUser]}
        /\ UNCHANGED screen
     \/ /\ c.stage \in {"data", "fingerprint"} /\ (cachedUser = NoUser \/ ~isConnected)
        /\ checks' = checks \ {c}
        /\ requestLogin
  /\ UNCHANGED <<wireVars, wsVars, prefVars, allowGotoHome, rest, saving,
                 info, logouts, clearing, lateVars, boundVars, histVars>>

(* Future.delayed of two seconds, then the login screen.                   *)
CheckAuthDelayed(c) ==
  /\ c \in checks /\ c.stage = "delay"
  /\ checks' = checks \ {c}
  /\ screen' = "LOGIN"
  /\ UNCHANGED <<wireVars, wsVars, prefVars, allowGotoHome, rest, saving,
                 info, logouts, clearing, lateVars, boundVars, histVars>>

(* getCurrentUserInfo has answered: no user; a token younger than 60 days  *)
(* (chat login at once); an older one (reLoginASGL first).                 *)
CheckAuthFinish(c) ==
  /\ c \in checks /\ c.stage = "userInfo"
  /\ checks' = checks \ {c}
  /\ \/ /\ ~hiveUser
        /\ requestLogin
        /\ UNCHANGED <<isAutoLogin, allowGotoHome, dataRequest, actionState, outq, rest>>
     \/ /\ hiveUser
        /\ loginChat(c.user)
        /\ UNCHANGED rest
     \/ /\ hiveUser
        /\ rest' = rest \cup {[kind |-> "reLoginASGL", user |-> c.user]}
        /\ UNCHANGED <<isAutoLogin, allowGotoHome, dataRequest, actionState, outq,
                       screen>>
  /\ UNCHANGED <<conn, inq, srvOpen, srvUser, srvSub, isConnected, isAutoReconnect,
                 isLoginChat, account, prefVars, saving, info, logouts, clearing,
                 lateVars, boundVars, histVars>>

(* No logout that could still fail, and no login dialogue.                 *)
NothingUnderWay ==
  logouts = 0 /\ lateLogouts = 0 /\ checks = {} /\ rest = {} /\ saving = {}

(* logOut: the drawer's button, and every REST call answered with 401.     *)
(* Without an account logOutChat throws before it sends anything.          *)
LogOut ==
  /\ screen = "HOME" /\ logouts + clearing < MaxLogouts
  /\ isAutoLogin' = FALSE
  /\ logouts' = IF account = NoUser THEN logouts ELSE logouts + 1
  /\ leave' = IF NothingUnderWay THEN "asked" ELSE "no"
  /\ UNCHANGED <<wireVars, isConnected, isAutoReconnect, isLoginChat, actionState,
                 dataRequest, account, prefVars, authVars, checks, rest, saving, info,
                 clearing, lateVars, boundVars, unanswered>>

logOutError ==
  /\ isAutoLogin' = TRUE
  /\ UNCHANGED <<wireVars, isConnected, isAutoReconnect, isLoginChat, actionState,
                 dataRequest, account, prefVars, authVars, checks, rest, saving, info,
                 clearing, lateLogins, boundVars, histVars>>

LogOutFailed ==
  /\ logouts > 0
  /\ logouts' = logouts - 1
  /\ logOutError
  /\ UNCHANGED lateLogouts

LogOutTimesOut ==
  /\ logouts > 0 /\ lateLogins + lateLogouts < MaxLate
  /\ logouts' = logouts - 1
  /\ lateLogouts' = lateLogouts + 1
  /\ logOutError

(* The error of a logout given up calls onErrorApiCallback once more.      *)
LateLogOutError ==
  /\ lateLogouts > 0
  /\ lateLogouts' = lateLogouts - 1
  /\ logOutError
  /\ UNCHANGED logouts

LateLogOutDropped ==
  /\ lateLogouts > 0
  /\ lateLogouts' = lateLogouts - 1
  /\ UNCHANGED <<wireVars, wsVars, prefVars, authVars, checks, rest, saving, info,
                 logouts, clearing, lateLogins, boundVars, histVars>>

LogOutUnanswered ==
  /\ logouts > 0
  /\ logouts' = logouts - 1
  /\ UNCHANGED <<wireVars, wsVars, prefVars, authVars, checks, rest, saving, info,
                 clearing, lateVars, boundVars, histVars>>

(* The server has ended the chat token; Hive and the push token are next.  *)
LogOutAnswered ==
  /\ logouts > 0
  /\ logouts' = logouts - 1
  /\ clearing' = clearing + 1
  /\ leave' = IF leave = "asked" THEN "ended" ELSE leave
  /\ UNCHANGED <<wireVars, wsVars, prefVars, authVars, checks, rest, saving, info,
                 lateVars, boundVars, unanswered>>

(* Faulty variant: the last step allows the automatic login again.         *)
LogOutClearedForNext ==
  /\ clearing > 0
  /\ clearing' = clearing - 1
  /\ account' = NoUser /\ dataRequest' = NoUser /\ isLoginChat' = FALSE
  /\ isAutoLogin' = TRUE
  /\ requestLogin
  /\ UNCHANGED <<wireVars, isConnected, isAutoReconnect, actionState,
                 prefVars, allowGotoHome, checks, rest, saving,
                 info, logouts, lateVars, boundVars, histVars>>

(* ... and the rest of the answer handler: removeCachedWhenLogOut,         *)
(* clearCacheWhenLogOut, requestLogin.                                     *)
LogOutCleared ==
  /\ clearing > 0
  /\ clearing' = clearing - 1
  /\ account' = NoUser /\ dataRequest' = NoUser /\ isLoginChat' = FALSE
  /\ requestLogin
  /\ UNCHANGED <<wireVars, isConnected, isAutoReconnect, isAutoLogin, actionState,
                 prefVars, allowGotoHome, checks, rest, saving,
                 info, logouts, lateVars, boundVars, histVars>>

(* MainChatScreen opened while isLoginChat is false: its own loginChat     *)
(* passes the account under the key 'email'.                               *)
OpenChatTab ==
  /\ screen = "HOME" /\ ~isLoginChat
  /\ Len(outq) < MaxFrames /\ Len(inq) < MaxFrames
  /\ allowGotoHome' = FALSE
  /\ connectWithAction("WS_LOGIN", Blank)
  /\ UNCHANGED <<conn, inq, srvOpen, srvUser, srvSub, isConnected, isAutoReconnect,
                 isAutoLogin, isLoginChat, account, prefVars, screen,
                 taskVars, boundVars, histVars>>

-----------------------------------------------------------------------------
Network == ConnectOpens \/ Drop \/ ConnectFails \/ ServerStep

Socket == OnDone \/ handlerData

Resume ==
  \/ \E c \in RestCalls : LoginAnswered(c) \/ LoginFailed(c) \/ LoginTimesOut(c)
                            \/ LoginUnanswered(c) \/ LoginSaved(c)
  \/ LateLoginError \/ LateLoginDropped
  \/ \E u \in Users : UserInfoFound(u) \/ UserInfoMissing(u)
  \/ \E c \in Checks : CheckAuthDecide(c) \/ CheckAuthDelayed(c) \/ CheckAuthFinish(c)
  \/ LogOutFailed \/ LogOutTimesOut \/ LateLogOutError \/ LateLogOutDropped
  \/ LogOutUnanswered \/ LogOutAnswered \/ LogOutCleared

User ==
  \/ \E u \in Users : PressLogin(u)
  \/ PressFingerPrint \/ LogOut \/ OpenChatTab \/ SendMethod

Next == Network \/ Socket \/ Resume \/ User

(* The event loop runs every callback whose event has occurred, the server *)
(* reads its socket, a connection attempt eventually succeeds (MaxDrops    *)
(* bounds the failures) and a request is eventually over.                  *)
Fairness ==
  /\ WF_vars(ConnectOpens) /\ WF_vars(ServerStep)
  /\ WF_vars(OnDone) /\ WF_vars(handlerData)
  /\ \A c \in RestCalls :
       /\ WF_vars(LoginAnswered(c) \/ LoginFailed(c) \/ LoginTimesOut(c) \/ LoginUnanswered(c))
       /\ WF_vars(LoginSaved(c))
  /\ \A u \in Users : WF_vars(UserInfoFound(u) \/ UserInfoMissing(u))
  /\ \A c \in Checks :
       WF_vars(CheckAuthDecide(c) \/ CheckAuthDelayed(c) \/ CheckAuthFinish(c))

Spec == Init /\ [][Next]_vars /\ Fairness

-----------------------------------------------------------------------------
(* Safety                                                                  *)

(* The client takes itself for connected only on a socket whose server has *)
(* accepted "connect", never on the remains of the previous one: a socket  *)
(* being opened again is not usable for a login (loginChat's guard).       *)
ConnectedIsCurrent ==
  isConnected => conn # "connecting" /\ (conn = "open" => srvOpen)

(* DDP order across reconnections: no login waits for a server that has    *)
(* not accepted the connection, which would throw it away unanswered.      *)
LoginAfterConnect ==
  \A i \in 1..Len(outq) : outq[i].type = "login" => srvOpen

(* A logout asked for with no other logout and no login dialogue under     *)
(* way: from its press, and for good once the server has confirmed it, no  *)
(* handler puts a login frame on the wire until the user asks for a login  *)
(* or logs out again: not the clearing of the caches, not a reconnection,  *)
(* not the connect answer of a WS_LOGIN left over.                         *)
SendsLogin == Len(outq') > Len(outq) /\ outq'[Len(outq')].type = "login"
LoggedOut == leave = "ended" \/ (leave = "asked" /\ logouts > 0)
StaysLoggedOut == [][LoggedOut /\ LoggedOut' => ~SendsLogin]_vars

(* The session in the terms of ChatSession: the frames on the wire are the *)
(* accounts their logins and admissions name.                              *)
linkState == CASE conn # "open" -> "down"
               [] conn = "open" /\ ~srvOpen -> "open"
               [] conn = "open" /\ srvOpen  -> "accepted"

NamedBy(q, t) == {q[i].user : i \in {j \in 1..Len(q) : q[j].type = t}}

Session == INSTANCE ChatSession WITH
  link <- linkState, permitted <- isAutoLogin,
  asked <- NamedBy(outq, "login"), who <- srvUser, told <- NamedBy(inq, "loginOk")

(* Whatever drops, reconnects, is answered late or is pressed, each step   *)
(* is one ChatSession allows: who the server and the client take the user  *)
(* for follows from a login asked for on this connection, and asked for    *)
(* while automatic logins were allowed.                                    *)
KeepsSession == Session!Spec

-----------------------------------------------------------------------------
(* Liveness                                                                *)

(* A login on the wire does not leave WebSocketHelper waiting: its answer, *)
(* or the loss of the connection, ends the WS_LOGIN state, in which every  *)
(* other result would be taken for the answer.                             *)
LoginIsAnswered ==
  (actionState = "WS_LOGIN" /\ \E i \in 1..Len(outq) : outq[i].type = "login")
    ~> actionState = "NONE"

(* A chat that loses its connection while logged in is subscribed to       *)
(* rooms-changed again on a later connection, or the user is sent to the   *)
(* login screen, or has logged out.  (MaxDrops makes the last one stay.)   *)
SessionHeals ==
  (conn = "lost" /\ isLoginChat /\ isAutoLogin) ~>
    (srvSub \/ ~isAutoLogin \/ ~isLoginChat \/ screen = "LOGIN")

(* A start on a stable network leaves the splash screen, unless the portal *)
(* login ends without either callback.                                     *)
SplashLeft == <>(screen # "SPLASH" \/ drops > 0 \/ unanswered)

=============================================================================
