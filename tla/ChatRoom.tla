------------------------------ MODULE ChatRoom ------------------------------
(***************************************************************************)
(* The message list of the open room: ChatBloc, the page requests it sends *)
(* over HTTP, the events of the chat socket that change the list, and the  *)
(* cache of every room (HiveHelper).                                       *)
(*                                                                         *)
(* A request, a cache access or the sending of a message suspends; what    *)
(* follows it is an element of requests, reads, saves or sending, and runs *)
(* whatever room is open by then.  The events of the socket arrive in      *)
(* order, replies over HTTP in any order; the error of a request that has  *)
(* timed out may still come, and is handled a second time.                 *)
(*                                                                         *)
(* A message is its room and its time; the texts, the reactions and the    *)
(* filter on system messages in the announcement rooms are left out.       *)
(***************************************************************************)
EXTENDS Integers, Sequences, FiniteSets

CONSTANTS
  Rooms,       (* rooms the user is a member of                            *)
  Direct,      (* the direct chats among them (RoomType.d)                 *)
  NoRoom,      (* null: no ChatLayout is open                              *)
  None,        (* null, for totalHistory and offsetHistory                 *)
  Page,        (* messages of a page and of the cache; 50 in the code      *)
  FirstPosts,  (* messages in each room at the start                       *)
  LastPost,    (* bound: messages in a room                                *)
  Busy,        (* bound: rooms in which the other members write            *)
  MaxOpens,    (* bound: rooms opened                                      *)
  MaxLoads,    (* bound: presses of sync and pages loaded by scrolling     *)
  MaxSends,    (* bound: messages written by the user                      *)
  MaxEdits,    (* bound: messages edited or revoked                        *)
  MaxDrops,    (* bound: losses of the socket                              *)
  MaxLate      (* bound: second callbacks of requests under way at once    *)

ASSUME ConstantsAssumption ==
  /\ NoRoom \notin Rooms /\ Direct \subseteq Rooms
  /\ Page \in Nat \ {0} /\ None \notin Nat
  /\ FirstPosts \in [Rooms -> 0..LastPost] /\ LastPost \in Nat /\ Busy \subseteq Rooms
  /\ MaxOpens \in Nat /\ MaxLoads \in Nat /\ MaxSends \in Nat
  /\ MaxEdits \in Nat /\ MaxDrops \in Nat /\ MaxLate \in Nat

VARIABLES
  (* ChatBloc *)
  roomModel, listWsMessage, offsetHistory, totalHistory,
  isLoadMore, isLoadingLatestMsg, shown,
  (* MainChatBloc: the groups listed                                       *)
  listGroups,
  (* suspended continuations *)
  requests, reads, saves, sending, leaving,
  (* Hive; chat server and socket *)
  cache, posted, events,
  (* history: what the list was built from, replies that left a flag set,  *)
  (* groups left                                                           *)
  mixed, broken, left,
  (* bounds *)
  opens, loads, sends, edits, drops

listVars   == <<roomModel, listWsMessage, shown, mixed>>
pageVars   == <<offsetHistory, totalHistory>>
flagVars   == <<isLoadMore, isLoadingLatestMsg, broken>>
taskVars   == <<requests, reads>>
hiveVars   == <<saves, cache>>
serverVars == <<posted, events, sending>>
groupVars  == <<listGroups, leaving, left>>
boundVars  == <<opens, loads, sends, edits, drops>>
vars == <<listVars, pageVars, flagVars, taskVars, hiveVars, serverVars, groupVars,
          boundVars>>

(* A message on the server is identified by its room and time; a message   *)
(* being sent carries the clock of the phone, behind or ahead of all.      *)
PhoneTimes == {0, LastPost + 1}

Posted(r, k) == [rid |-> r, ts |-> k, isSending |-> FALSE]

(* Faulty variant: the message is not marked as being sent.                *)
PlaceholderUnmarked(r, t) == [rid |-> r, ts |-> t, isSending |-> FALSE]

Placeholder(r, t) == [rid |-> r, ts |-> t, isSending |-> TRUE]

Groups == Rooms \ Direct

Messages == [rid : Rooms, ts : 1..LastPost, isSending : {FALSE}]
              \cup [rid : Rooms, ts : PhoneTimes, isSending : {TRUE}]
Requests == [kind : {"latest", "more", "late"}, room : Rooms, offset : Nat, from : Nat,
             id : Nat]
Reads    == [kind : {"cache", "error"}, room : Rooms, call : 1..2]
Saves    == [kind : {"live", "copy", "only", "delete"}, data : Seq(Messages),
             notify : BOOLEAN]
Sendings == [msg : Messages, posted : BOOLEAN]
Events   == [kind : {"changed", "stream", "edited", "revoked"}, msg : Messages]

TypeOK ==
  /\ roomModel \in Rooms \cup {NoRoom}
  /\ listWsMessage \in Seq(Messages)
  /\ offsetHistory \in Nat \cup {None} /\ totalHistory \in Nat \cup {None}
  /\ isLoadMore \in BOOLEAN /\ isLoadingLatestMsg \in BOOLEAN
  /\ shown \in {"NONE", "LOADING", "NO_DATA", "SHOW"}
  /\ requests \subseteq Requests /\ reads \subseteq Reads
  /\ saves \in [Rooms -> Seq(Saves)]
  /\ sending \subseteq Sendings
  /\ cache \in [Rooms -> Seq(Messages)]
  /\ posted \in [Rooms -> Nat] /\ events \in Seq(Events)
  /\ listGroups \subseteq Groups /\ leaving \subseteq Groups /\ left \subseteq Groups
  /\ mixed \in BOOLEAN /\ broken \subseteq {"latest", "more"}
  /\ opens \in 0..MaxOpens /\ loads \in 0..MaxLoads /\ sends \in 0..MaxSends
  /\ edits \in 0..MaxEdits /\ drops \in 0..MaxDrops

Init ==
  /\ roomModel = NoRoom /\ listWsMessage = <<>> /\ shown = "NONE"
  /\ offsetHistory = None /\ totalHistory = None
  /\ isLoadMore = FALSE /\ isLoadingLatestMsg = FALSE
  /\ requests = {} /\ reads = {} /\ saves = [r \in Rooms |-> <<>>]
  /\ sending = {} /\ cache = [r \in Rooms |-> <<>>]
  /\ posted = FirstPosts /\ events = <<>>
  /\ listGroups = Groups /\ leaving = {} /\ left = {}
  /\ mixed = FALSE /\ broken = {}
  /\ opens = 0 /\ loads = 0 /\ sends = 0 /\ edits = 0 /\ drops = 0

-----------------------------------------------------------------------------
(* Lists                                                                   *)

Elements(s) == {s[i] : i \in 1..Len(s)}

(* The finite set I in the order R, a set of pairs.                        *)
InOrder(I, R) ==
  [n \in 1..Cardinality(I) |->
     CHOOSE i \in I : Cardinality({j \in I : <<j, i>> \in R}) = n - 1]

(* The messages of s at the positions in I, in the order R of positions.   *)
Arranged(s, I, R) ==
  LET order == InOrder(I, R) IN [n \in 1..Cardinality(I) |-> s[order[n]]]

Newer(s) ==
  {p \in (1..Len(s)) \X (1..Len(s)) :
     \/ s[p[1]].ts > s[p[2]].ts
     \/ s[p[1]].ts = s[p[2]].ts /\ p[1] < p[2]}

Descending(s) == \A i, j \in 1..Len(s) : i < j => s[i].ts >= s[j].ts

(* Newest first; messages of the same time stay in their order.            *)
Sort(s) == IF Descending(s) THEN s ELSE Arranged(s, 1..Len(s), Newer(s))

(* The messages of s at the positions in I, in the order they have in s.   *)
Only(s, I) == IF I = 1..Len(s) THEN s ELSE Arranged(s, I, {p \in I \X I : p[1] < p[2]})

Take(s, n) == SubSeq(s, 1, IF Len(s) < n THEN Len(s) ELSE n)

(* The page at an offset of a room that holds n messages, newest first.    *)
PageOf(r, n, offset) ==
  [i \in 1..(IF n - offset < Page THEN n - offset ELSE Page) |-> Posted(r, n - offset + 1 - i)]

-----------------------------------------------------------------------------
(* HiveHelper: the accesses wait for the room's box, one after the other   *)

(* notify: the caller waits for the access to end, and then announces SHOW *)
Save(r, kind, s, notify) ==
  saves' = [saves EXCEPT ![r] = Append(@, [kind |-> kind, data |-> s, notify |-> notify])]

(* The list itself is handed over: what is stored is its content by then.  *)
SaveLive(r, notify)    == Save(r, "live", <<>>, notify)
SaveCopy(r, s, notify) == Save(r, "copy", Take(s, Page), notify)

(* saveOnlyMessageWithRoomID, given what the box holds.                    *)
WithNewest(old, m) ==
  CASE old = <<>>       -> <<>>
    [] Len(old) \in 1..Page -> <<m>> \o SubSeq(old, 1, Len(old) - 1)
    [] OTHER            -> <<m>> \o Take(old, Page - 1)

Put(r) ==
  /\ saves[r] # <<>>
  /\ saves' = [saves EXCEPT ![r] = Tail(@)]
  /\ LET s == Head(saves[r])
     IN /\ cache' = [cache EXCEPT ![r] =
                    CASE s.kind = "live"   -> listWsMessage
                      [] s.kind = "copy"   -> s.data
                      [] s.kind = "only"   -> WithNewest(@, s.data[1])
                      [] s.kind = "delete" -> <<>>]
        /\ shown' = IF s.notify THEN "SHOW" ELSE shown
  /\ UNCHANGED <<roomModel, listWsMessage, mixed, pageVars, flagVars, taskVars, serverVars,
                 groupVars, boundVars>>

-----------------------------------------------------------------------------
(* ChatBloc: opening a room and loading its messages                       *)

changeListMessageData(state, messages) ==
  /\ listWsMessage' = Sort(messages)
  /\ shown' = state
  /\ CASE Len(messages) > Page -> SaveCopy(listWsMessage'[1].rid, listWsMessage', FALSE)
       [] Len(messages) \in 1..Page -> SaveLive(listWsMessage'[1].rid, FALSE)
       [] OTHER -> UNCHANGED saves

(* The paging starts behind the cached page when nothing is known yet.     *)
assumeOnePage ==
  IF totalHistory = None /\ offsetHistory = None
    THEN offsetHistory' = Page /\ totalHistory' = Page + 1
    ELSE UNCHANGED pageVars

NewRequest(kind, r, offset) ==
  [kind |-> kind, room |-> r, offset |-> offset, from |-> posted[r], id |-> opens + loads]

(* getListMessageGroupPrivate and getListMessageDirectChat up to the reply *)
getListMessage(r, isGetCache) ==
  /\ roomModel' = r
  /\ isLoadingLatestMsg' = TRUE /\ broken' = broken \ {"latest"}
  /\ requests' = requests \cup {NewRequest("latest", r, 0)}
  /\ reads' = IF isGetCache THEN reads \cup {[kind |-> "cache", room |-> r, call |-> 1]} ELSE reads

Listed(r) == r \in Direct \cup listGroups

(* ChatLayout.initState: the list and the paging stay as they are.  (Once  *)
(* a room is closed isLoadingLatestMsg is false: LoadingFlags.)            *)
OpenRoom(r) ==
  /\ roomModel = NoRoom /\ Listed(r) /\ ~isLoadingLatestMsg
  /\ opens < MaxOpens /\ opens' = opens + 1
  /\ shown' = "LOADING"
  /\ getListMessage(r, TRUE)
  /\ UNCHANGED <<listWsMessage, mixed, pageVars, isLoadMore, hiveVars, serverVars, groupVars,
                 loads, sends, edits, drops>>

(* resetData: a room is opened from a notification or a member's profile.  *)
SwitchRoom(r) ==
  /\ Listed(r)
  /\ opens < MaxOpens /\ opens' = opens + 1
  /\ listWsMessage' = <<>> /\ mixed' = FALSE
  /\ shown' = "LOADING"
  /\ isLoadMore' = FALSE
  /\ getListMessage(r, r \notin Direct)
  /\ UNCHANGED <<pageVars, hiveVars, serverVars, groupVars, loads, sends, edits, drops>>

(* ChatLayout.dispose                                                      *)
resetVariable ==
  /\ roomModel' = NoRoom
  /\ listWsMessage' = <<>> /\ mixed' = FALSE
  /\ isLoadMore' = FALSE /\ isLoadingLatestMsg' = FALSE /\ broken' = {}
  /\ UNCHANGED shown

CloseRoom ==
  /\ roomModel # NoRoom
  /\ resetVariable
  /\ UNCHANGED <<pageVars, taskVars, hiveVars, serverVars, groupVars, boundVars>>

(* The sync button.                                                        *)
Sync ==
  /\ roomModel # NoRoom /\ ~isLoadingLatestMsg
  /\ loads < MaxLoads /\ loads' = loads + 1
  /\ changeListMessageData("LOADING", <<>>) /\ mixed' = FALSE
  /\ getListMessage(roomModel, FALSE)
  /\ UNCHANGED <<pageVars, isLoadMore, cache, serverVars, groupVars, opens, sends, edits,
                 drops>>

(* checkAmountMessageRemain, when the list is scrolled to its end.         *)
LoadMore ==
  /\ roomModel # NoRoom
  /\ totalHistory # None /\ totalHistory > offsetHistory
  /\ ~isLoadMore /\ ~isLoadingLatestMsg
  /\ loads < MaxLoads /\ loads' = loads + 1
  /\ isLoadMore' = TRUE /\ broken' = broken \ {"more"}
  /\ offsetHistory' = offsetHistory + Page
  /\ requests' = requests \cup {NewRequest("more", roomModel, offsetHistory + Page)}
  /\ UNCHANGED <<listVars, totalHistory, isLoadingLatestMsg, reads, hiveVars, serverVars,
                 groupVars, opens, sends, edits, drops>>

(* _handleErrorWhenGetListMessage up to its cache access, for the first or *)
(* the second of the callbacks of one request                              *)
handleErrorWhenGetListMessage(r, calls) ==
  reads' = reads \cup {[kind |-> "error", room |-> r, call |-> c] : c \in calls}

SecondCalls == Cardinality({q \in requests : q.kind = "late"})
                 + Cardinality({t \in reads : t.call = 2})

(* A request fails, or is answered with what the room held at some moment  *)
(* since it was sent.                                                      *)
LatestAnswered(q) ==
  \E n \in q.from..posted[q.room] :
    LET page == PageOf(q.room, n, 0)
    IN \/ /\ page # <<>>
          /\ changeListMessageData("SHOW", page)
          /\ totalHistory' = n /\ offsetHistory' = q.offset
          /\ mixed' = (q.room # roomModel)
          /\ UNCHANGED reads
       \/ /\ page = <<>>
          /\ handleErrorWhenGetListMessage(q.room, {1})
          /\ UNCHANGED <<listWsMessage, shown, mixed, pageVars, saves>>

(* An error status is an error, and its body, without messages, another.   *)
LatestFailed(q) ==
  /\ \/ handleErrorWhenGetListMessage(q.room, {1})
     \/ SecondCalls < MaxLate /\ handleErrorWhenGetListMessage(q.room, 1..2)
  /\ UNCHANGED <<listWsMessage, shown, mixed, pageVars, saves>>

(* A request that has timed out, whose error may still come.               *)
Late(q) == [kind |-> "late", room |-> q.room, offset |-> 0, from |-> 0, id |-> 0]

(* Faulty variant: the flag is taken down only when the request succeeds.  *)
LatestReplyFlagged(q) ==
  /\ q \in requests /\ q.kind = "latest"
  /\ requests' = requests \ {q}
  /\ \/ LatestAnswered(q) /\ isLoadingLatestMsg' = FALSE
     \/ LatestFailed(q) /\ UNCHANGED isLoadingLatestMsg
  /\ broken' = broken \ {"latest"}
  /\ UNCHANGED <<roomModel, isLoadMore, cache, serverVars, groupVars, boundVars>>

LatestReply(q) ==
  /\ q \in requests /\ q.kind = "latest"
  /\ \/ requests' = requests \ {q} /\ (LatestAnswered(q) \/ LatestFailed(q))
     \/ /\ SecondCalls < MaxLate
        /\ requests' = (requests \ {q}) \cup {Late(q)}
        /\ LatestFailed(q)
  /\ isLoadingLatestMsg' = FALSE /\ broken' = broken \ {"latest"}
  /\ UNCHANGED <<roomModel, isLoadMore, cache, serverVars, groupVars, boundVars>>

(* After the time limit an error calls its callback again; a late answer   *)
(* is ignored, as is an error of the next page, which has no callback.     *)
LateError(q) ==
  /\ q \in requests /\ q.kind = "late"
  /\ requests' = requests \ {q}
  /\ handleErrorWhenGetListMessage(q.room, {2})
  /\ UNCHANGED <<listVars, pageVars, flagVars, hiveVars, serverVars, groupVars, boundVars>>

MoreAnswered(q) ==
  \E n \in q.from..posted[q.room] :
    LET page == PageOf(q.room, n, q.offset)
    IN \/ /\ page # <<>>
          /\ changeListMessageData("SHOW", listWsMessage \o page)
          /\ totalHistory' = n /\ offsetHistory' = q.offset
          /\ mixed' = TRUE
       \/ /\ page = <<>>
          /\ UNCHANGED <<listWsMessage, shown, mixed, pageVars, saves>>

MoreReply(q) ==
  /\ q \in requests /\ q.kind = "more"
  /\ requests' = requests \ {q}
  /\ \/ MoreAnswered(q)
     \/ UNCHANGED <<listWsMessage, shown, mixed, pageVars, saves>>
  /\ isLoadMore' = FALSE /\ broken' = broken \ {"more"}
  /\ UNCHANGED <<roomModel, isLoadingLatestMsg, reads, cache, serverVars, groupVars,
                 boundVars>>

(* A body that is not JSON: createGetWithAuthHeader throws, after the      *)
(* error callback when the status was an error too, and the method that    *)
(* sent the request never resets its flag.                                 *)
BrokenReply(q) ==
  /\ q \in requests /\ q.kind # "late"
  /\ requests' = requests \ {q}
  /\ broken' = broken \cup {q.kind}
  /\ \/ UNCHANGED reads
     \/ q.kind = "latest" /\ handleErrorWhenGetListMessage(q.room, {1})
  /\ UNCHANGED <<listVars, pageVars, isLoadMore, isLoadingLatestMsg, hiveVars, serverVars,
                 groupVars, boundVars>>

(* Faulty variant: nothing is shown when the cache is empty too.           *)
CacheReadSilent(t) ==
  /\ t \in reads
  /\ reads' = reads \ {t}
  /\ \/ /\ cache[t.room] # <<>>
        /\ changeListMessageData("SHOW", cache[t.room])
        /\ assumeOnePage
        /\ mixed' = TRUE
     \/ /\ cache[t.room] = <<>>
        /\ UNCHANGED <<listWsMessage, shown, mixed, pageVars, saves>>
  /\ UNCHANGED <<roomModel, flagVars, requests, cache, serverVars, groupVars, boundVars>>

(* getListMessageByRoomID has answered _getCacheMessage or the error path. *)
CacheRead(t) ==
  /\ t \in reads
  /\ reads' = reads \ {t}
  /\ \/ /\ cache[t.room] # <<>>
        /\ changeListMessageData("SHOW", cache[t.room])
        /\ assumeOnePage
        /\ mixed' = TRUE
     \/ /\ cache[t.room] = <<>> /\ t.kind = "error"
        /\ changeListMessageData("NO_DATA", <<>>)
        /\ mixed' = FALSE
        /\ UNCHANGED pageVars
     \/ /\ cache[t.room] = <<>> /\ t.kind = "cache"
        /\ UNCHANGED <<listWsMessage, shown, mixed, pageVars, saves>>
  /\ UNCHANGED <<roomModel, flagVars, requests, cache, serverVars, groupVars, boundVars>>

-----------------------------------------------------------------------------
(* ChatBloc: messages that arrive over the socket, messages sent           *)

Settled == Only(listWsMessage, {i \in 1..Len(listWsMessage) : ~listWsMessage[i].isSending})

(* Faulty variants: the message of any room is listed; it is not sorted in *)
addItemAnyRoom(m) ==
  /\ listWsMessage' = IF m \in Elements(Settled) THEN Settled ELSE Sort(<<m>> \o Settled)
  /\ shown' = "SHOW"
  /\ UNCHANGED saves

addItemUnsorted(m) ==
  \/ /\ m.rid = roomModel
     /\ listWsMessage' = IF m \in Elements(Settled) THEN Settled ELSE <<m>> \o Settled
     /\ shown' = "SHOW"
     /\ UNCHANGED saves
  \/ /\ m.rid # roomModel
     /\ Save(m.rid, "only", <<m>>, FALSE)
     /\ UNCHANGED <<listWsMessage, shown>>

(* Faulty variant: SHOW is announced only when there is nothing to store.  *)
addItemQuiet(m) ==
  /\ m.rid = roomModel
  /\ listWsMessage' = IF m \in Elements(Settled) THEN Settled ELSE Sort(<<m>> \o Settled)
  /\ IF ~m.isSending /\ Len(Settled) < Page - 1
       THEN SaveLive(listWsMessage'[1].rid, FALSE) /\ UNCHANGED shown
       ELSE shown' = "SHOW" /\ UNCHANGED saves

(* The list changes at once; when it is also stored, SHOW is announced     *)
(* only after the access, whatever room is open by then.                   *)
addItem(m) ==
  \/ /\ m.rid = roomModel /\ m \in Elements(Settled)
     /\ listWsMessage' = Settled
     /\ UNCHANGED <<shown, saves>>
  \/ /\ m.rid = roomModel /\ m \notin Elements(Settled)
     /\ listWsMessage' = Sort(<<m>> \o Settled)
     /\ \/ /\ ~m.isSending /\ Len(Settled) >= Page
           /\ SaveCopy(listWsMessage'[1].rid, listWsMessage', TRUE)
           /\ UNCHANGED shown
        \/ /\ ~m.isSending /\ Len(Settled) < Page - 1
           /\ SaveLive(listWsMessage'[1].rid, TRUE)
           /\ UNCHANGED shown
        \/ /\ m.isSending \/ Len(Settled) = Page - 1
           /\ shown' = "SHOW"
           /\ UNCHANGED saves
  \/ /\ m.rid # roomModel
     /\ Save(m.rid, "only", <<m>>, FALSE)
     /\ UNCHANGED <<listWsMessage, shown>>

(* An empty list takes the message of any room; a message that is listed   *)
(* is replaced by its new form in its place.                               *)
updateMessageNormal(m) ==
  \/ /\ listWsMessage = <<>>
     /\ listWsMessage' = <<m>>
     /\ shown' = "SHOW"
     /\ SaveLive(m.rid, FALSE)
  \/ /\ m \in Elements(listWsMessage)
     /\ shown' = "SHOW"
     /\ SaveLive(m.rid, FALSE)
     /\ UNCHANGED listWsMessage
  \/ /\ listWsMessage # <<>> /\ m \notin Elements(listWsMessage)
     /\ UNCHANGED <<listWsMessage, shown, saves>>

updateMessageWhenEdited(m) ==
  /\ SaveLive(m.rid, FALSE)
  /\ shown' = "SHOW"
  /\ UNCHANGED listWsMessage

updateMessageWhenRevoke(m) ==
  /\ \/ m \in Elements(listWsMessage) /\ SaveLive(m.rid, FALSE) /\ shown' = "SHOW"
     \/ m \notin Elements(listWsMessage) /\ UNCHANGED <<shown, saves>>
  /\ UNCHANGED listWsMessage

(* _handlerValueChange.  A group that is not listed is added again.        *)
HandleEvent ==
  /\ events # <<>>
  /\ events' = Tail(events)
  /\ LET e == Head(events)
     IN /\ \/ e.kind = "changed" /\ addItem(e.msg)
           \/ e.kind = "stream"  /\ updateMessageNormal(e.msg)
           \/ e.kind = "edited"  /\ updateMessageWhenEdited(e.msg)
           \/ e.kind = "revoked" /\ updateMessageWhenRevoke(e.msg)
        /\ listGroups' = IF e.kind = "changed" THEN listGroups \cup ({e.msg.rid} \ Direct)
                                               ELSE listGroups
        /\ mixed' = (mixed \/ (e.kind = "stream" /\ listWsMessage = <<>>
                                 /\ e.msg.rid # roomModel))
  /\ UNCHANGED <<roomModel, pageVars, flagVars, taskVars, cache, posted, sending, leaving,
                 left, boundVars>>

(* sendMessage: the placeholder is listed and the request goes out.        *)
SendMessage(t) ==
  /\ roomModel # NoRoom
  /\ sends < MaxSends /\ sends' = sends + 1
  /\ addItem(Placeholder(roomModel, t))
  /\ sending' = sending \cup {[msg |-> Placeholder(roomModel, t), posted |-> FALSE]}
  /\ UNCHANGED <<roomModel, mixed, pageVars, flagVars, taskVars, cache, posted, events,
                 groupVars, opens, loads, edits, drops>>

(* The request was answered, or ended without either callback.             *)
SendOver(c) ==
  /\ c \in sending
  /\ sending' = sending \ {c}
  /\ UNCHANGED <<listVars, pageVars, flagVars, taskVars, hiveVars, posted, events, groupVars,
                 boundVars>>

removeGroup(r) ==
  /\ listGroups' = listGroups \ {r}
  /\ Save(r, "delete", <<>>, FALSE)

(* The request failed or timed out.  A plain message is taken from the     *)
(* list, a quote or a mention is not; then _handleErrorToRemoveGroup, on   *)
(* whatever room is open.                                                  *)
SendFailed(c) ==
  /\ c \in sending
  /\ sending' = sending \ {c}
  /\ \/ /\ listWsMessage' = Only(listWsMessage, {i \in 1..Len(listWsMessage) : listWsMessage[i] # c.msg})
        /\ shown' = IF listWsMessage' = <<>> THEN "NO_DATA" ELSE "SHOW"
     \/ UNCHANGED <<listWsMessage, shown>>
  /\ IF roomModel = NoRoom THEN UNCHANGED <<listGroups, saves>> ELSE removeGroup(roomModel)
  /\ UNCHANGED <<roomModel, mixed, pageVars, flagVars, taskVars, cache, posted, events,
                 leaving, left, boundVars>>

(* RoomInfoLayoutBloc.leaveRoom, from the screen of the open group; when   *)
(* it succeeds, the layout of whatever room is open is closed.             *)
LeaveRoom ==
  /\ roomModel \in Groups \ leaving
  /\ leaving' = leaving \cup {roomModel}
  /\ UNCHANGED <<listVars, pageVars, flagVars, taskVars, hiveVars, serverVars, listGroups,
                 left, boundVars>>

LeaveAnswered(r) ==
  /\ r \in leaving
  /\ leaving' = leaving \ {r} /\ left' = left \cup {r}
  /\ removeGroup(r)
  /\ IF roomModel = NoRoom THEN UNCHANGED <<listVars, flagVars>> ELSE resetVariable
  /\ UNCHANGED <<pageVars, taskVars, cache, serverVars, boundVars>>

LeaveFailed(r) ==
  /\ r \in leaving
  /\ leaving' = leaving \ {r}
  /\ UNCHANGED <<listVars, pageVars, flagVars, taskVars, hiveVars, serverVars, listGroups,
                 left, boundVars>>

-----------------------------------------------------------------------------
(* Chat server and socket (external)                                       *)

(* rooms-changed goes to every member, stream-room-messages to the clients *)
(* whose subscription has reached the server, in either order.             *)
Notify(kind, m) ==
  LET changed == [kind |-> "changed", msg |-> m]
      stream  == [kind |-> kind, msg |-> m]
  IN \/ events' = Append(events, changed)
     \/ /\ m.rid = roomModel
        /\ events' \in {events \o <<changed, stream>>, events \o <<stream, changed>>}

PostIn(r) ==
  /\ r \notin left /\ posted[r] < LastPost
  /\ posted' = [posted EXCEPT ![r] = @ + 1]
  /\ Notify("stream", Posted(r, posted[r] + 1))

Post(r) ==
  /\ r \in Busy
  /\ PostIn(r)
  /\ UNCHANGED <<listVars, pageVars, flagVars, taskVars, hiveVars, sending, groupVars,
                 boundVars>>

SendAccepted(c) ==
  /\ c \in sending /\ ~c.posted
  /\ sending' = (sending \ {c}) \cup {[c EXCEPT !.posted = TRUE]}
  /\ PostIn(c.msg.rid)
  /\ UNCHANGED <<listVars, pageVars, flagVars, taskVars, hiveVars, groupVars, boundVars>>

(* The last message of a room is edited or revoked.                        *)
Edit(r) ==
  /\ edits < MaxEdits /\ edits' = edits + 1
  /\ r \notin left /\ posted[r] > 0
  /\ \E kind \in {"edited", "revoked"} : Notify(kind, Posted(r, posted[r]))
  /\ UNCHANGED <<listVars, pageVars, flagVars, taskVars, hiveVars, posted, sending,
                 groupVars, opens, loads, sends, drops>>

(* The socket is lost with the events under way.                           *)
LoseEvents ==
  /\ drops < MaxDrops /\ drops' = drops + 1
  /\ events # <<>> /\ events' = <<>>
  /\ UNCHANGED <<listVars, pageVars, flagVars, taskVars, hiveVars, posted, sending,
                 groupVars, opens, loads, sends, edits>>

-----------------------------------------------------------------------------
Screen == \/ \E r \in Rooms : OpenRoom(r) \/ SwitchRoom(r)
          \/ CloseRoom \/ Sync \/ LoadMore \/ LeaveRoom
          \/ \E t \in PhoneTimes : SendMessage(t)

LateErrors == \E q \in requests : LateError(q)

PageReplies == \E q \in requests : LatestReply(q) \/ MoreReply(q) \/ BrokenReply(q)

SendReplies == \E c \in sending : SendOver(c) \/ SendFailed(c)

LeaveReplies == \E r \in Groups : LeaveAnswered(r) \/ LeaveFailed(r)

CacheReads == \E t \in reads : CacheRead(t)

Puts == \E r \in Rooms : Put(r)

Server == \/ \E r \in Rooms : Post(r) \/ Edit(r)
          \/ \E c \in sending : SendAccepted(c)
          \/ LoseEvents

Next == \/ Screen \/ Server
        \/ PageReplies \/ LateErrors \/ SendReplies \/ LeaveReplies
        \/ CacheReads \/ Puts \/ HandleEvent

(* A chat request is over after 20 seconds at the latest, and the event    *)
(* loop runs what has completed.                                           *)
Fairness == /\ WF_vars(PageReplies) /\ WF_vars(CacheReads)

Spec == Init /\ [][Next]_vars /\ Fairness

-----------------------------------------------------------------------------
(* Safety                                                                  *)

(* The list is newest first, whatever order the page replies, the cache,   *)
(* the events and the phone's clock bring the messages in.                 *)
NewestFirst == Descending(listWsMessage)

(* A list made only of the open room's newest page and of the events since *)
(* holds that room's messages, each once, though a message may come in the *)
(* page, in rooms-changed and in stream-room-messages, in any order.       *)
OwnMessagesOnce ==
  ~mixed => /\ \A m \in Elements(listWsMessage) : m.rid = roomModel
            /\ \A i, j \in 1..Len(listWsMessage) :
                 listWsMessage[i] = listWsMessage[j] => i = j

(* A SHOW of addItem is still to come, after an access to the room's box.  *)
Announcing(r) == \E i \in 1..Len(saves[r]) : saves[r][i].notify

(* Over a list of the open room's own messages the spinner and the "no     *)
(* data" page stay only while the message that ends them is being stored:  *)
(* its SHOW is still to come, whatever is opened, synchronised, sent or    *)
(* stored meanwhile.                                                       *)
ScreenMatchesList ==
  roomModel # NoRoom /\ shown \in {"LOADING", "NO_DATA"} =>
    listWsMessage = <<>> \/ mixed \/ Announcing(roomModel)

(* A flag that keeps a room from being loaded again is up only while a     *)
(* request that will take it down is under way, and down when no room is   *)
(* open - unless a reply that is not JSON has left it up.                  *)
LoadingFlags ==
  /\ isLoadingLatestMsg /\ "latest" \notin broken => \E q \in requests : q.kind = "latest"
  /\ isLoadMore /\ "more" \notin broken => \E q \in requests : q.kind = "more"
  /\ roomModel = NoRoom => ~isLoadingLatestMsg /\ ~isLoadMore

(* What is cached for a room are messages of that room: the promise of     *)
(* saveListMessageWithRoomID.                                              *)
CacheOfRoom == \A r \in Rooms : \A m \in Elements(cache[r]) : m.rid = r

-----------------------------------------------------------------------------
(* Liveness                                                                *)

(* The spinner of a room that stays open goes away: messages, the cache or *)
(* "no data", unless the reply was not JSON.                               *)
LoadingEnds ==
  (roomModel # NoRoom /\ shown = "LOADING") ~>
    (shown # "LOADING" \/ roomModel = NoRoom \/ "latest" \in broken)

=============================================================================
