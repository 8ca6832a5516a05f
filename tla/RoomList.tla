------------------------------ MODULE RoomList ------------------------------
(***************************************************************************)
(* The list of groups: MainChatBloc.listGroups, loaded over HTTP when the    *)
(* chat tab opens, changed by the rooms-changed events WebSocketHelper        *)
(* receives and by leaving a group, and saved in a Hive box the application   *)
(* falls back on.                                                          *)
(*                                                                         *)
(* An entry is a WsRoomModel reduced to its id and the time it is sorted by   *)
(* (lastMessage.ts or updatedAt).  Every handler sorts the list before it     *)
(* shows it, so the list is the set of its entries.  Hive keeps its boxes in  *)
(* memory: a get sees what was put or deleted at once, and a put keeps the    *)
(* list object itself, which later changes of listGroups reach.             *)
(***************************************************************************)
EXTENDS Naturals, FiniteSets, Sequences

CONSTANTS Groups,
          Silent,       \* groups in which nothing was ever written: no lastMessage
          Nothing,      \* the box has no list
          Live,         \* the object listGroups refers to
          Out,          \* told: not a member
          Unsure,       \* told: the list was taken from the box, or could not be changed
          MaxTime,      \* changes on the server (bound)
          MaxEvents,    \* events on their way (bound)
          MaxRequests,  \* requests for the list under way (bound)
          MaxOpens,     \* openings of the chat tab (bound)
          MaxSaves      \* saves the disk is behind (bound)

ASSUME ConstantsAssumption ==
  /\ Silent \subseteq Groups
  /\ {MaxTime, MaxEvents, MaxRequests, MaxOpens, MaxSaves} \subseteq Nat
  /\ Nothing # Live /\ Out # Unsure
  /\ {Out, Unsure} \cap Nat = {}

VARIABLES
  member, at,    \* server: the user's groups; time of each one's last change
  clock,
  events,        \* rooms-changed, in the order the socket delivers them
  asked, pages,  \* requests not yet carried out; answers on their way
  late,          \* requests that timed out here, answered later
  left,          \* groups left, the answer on its way
  listGroups,    \* entries [id, at]
  shown,         \* the state last notified
  box, saves,    \* LIST_ROOM_PRIVATE; calls of saveAllPrivateRoom after their delete
  opens,
  told           \* history: what the list was last told of each group

serverVars == <<member, at, clock>>
netVars    == <<events, asked, pages, late, left>>
listVars   == <<listGroups, shown, box, saves>>
vars       == <<serverVars, netVars, listVars, opens, told>>

Times == 0..MaxTime
Entry == [id : Groups, at : Times]

Ids(l) == {e.id : e \in l}

(* A list object: the one listGroups refers to, or the ids of one it has let go. *)
Lists == {Live} \cup SUBSET Groups

Pages == UNION {[S -> Times] : S \in SUBSET Groups}

TypeOK ==
  /\ member \subseteq Groups /\ at \in [Groups -> Times] /\ clock \in Times
  /\ events \in Seq(Entry) /\ asked \in Nat /\ late \in Nat
  /\ pages \subseteq Pages /\ left \subseteq Groups
  /\ listGroups \subseteq Entry /\ shown \in {"SHOW", "NO_DATA"}
  /\ box = Nothing \/ box \in Lists
  /\ saves \in Seq(Lists) /\ opens \in 0..MaxOpens
  /\ told \in [Groups -> Times \cup {Out, Unsure}]

(* The application starts with the list an earlier run has saved. *)
Init ==
  /\ member \in SUBSET Groups /\ at = [g \in Groups |-> 0] /\ clock = 0
  /\ events = << >> /\ asked = 0 /\ pages = {} /\ late = 0 /\ left = {}
  /\ listGroups = {} /\ shown = "NO_DATA"
  /\ box \in {Nothing} \cup (SUBSET Groups \ {{}}) /\ saves = << >>
  /\ opens = 0
  /\ told = [g \in Groups |-> Unsure]

-----------------------------------------------------------------------------
(* The chat server (external).  Something happens in a group of the user: a message, a
   further member, an invitation of the user.  A removal by others is not announced in
   a way the application reads. *)

Change(g) ==
  /\ clock < MaxTime
  /\ clock' = clock + 1
  /\ at' = [at EXCEPT ![g] = clock + 1]

Notify(g) ==
  /\ member' = member \cup {g}
  /\ Len(events) < MaxEvents
  /\ Change(g)
  /\ events' = Append(events, [id |-> g, at |-> clock + 1])
  /\ UNCHANGED <<asked, pages, late, left, listVars, opens, told>>

RemovedByOthers(g) ==
  /\ g \in member
  /\ member' = member \ {g}
  /\ Change(g)
  /\ UNCHANGED <<netVars, listVars, opens, told>>

MakePage ==
  /\ asked > 0
  /\ asked' = asked - 1
  /\ pages' = pages \cup {[g \in member |-> at[g]]}
  /\ UNCHANGED <<serverVars, events, late, left, listVars, opens, told>>

(* The socket is lost with what was on its way. *)
LoseEvents ==
  /\ events # << >>
  /\ events' = << >>
  /\ UNCHANGED <<serverVars, asked, pages, late, left, listVars, opens, told>>

-----------------------------------------------------------------------------
(* The box *)

(* The ids in the list object o, where listGroups is l. *)
Content(o, l) == IF o = Live THEN Ids(l) ELSE o

(* getListPrivateRoom *)
Stored(l) == IF box = Nothing THEN {} ELSE Content(box, l)

(* saveAllPrivateRoom(o), up to the await of its delete; b and s are box and saves, l what
   listGroups is by then. *)
Save(b, s, o, l) ==
  CASE b # Nothing                        -> [box |-> Nothing, saves |-> Append(s, o)]
    [] b = Nothing /\ Content(o, l) # {} -> [box |-> o, saves |-> s]
    [] OTHER                              -> [box |-> b, saves |-> s]

Saved(b, s, o, l) ==
  LET r == Save(b, s, o, l)
  IN Len(r.saves) <= MaxSaves /\ box' = r.box /\ saves' = r.saves

(* listGroups takes a new object: who holds the old one, with ids, keeps it. *)
FrozenBox(ids)   == IF box = Live THEN ids ELSE box
FrozenSaves(ids) == [i \in 1..Len(saves) |-> IF saves[i] = Live THEN ids ELSE saves[i]]

(* The delete is done: the list is put, unless it has become empty. *)
ResumeSave ==
  /\ saves # << >>
  /\ saves' = Tail(saves)
  /\ box' = IF Content(Head(saves), listGroups) # {} THEN Head(saves) ELSE box
  /\ UNCHANGED <<serverVars, netVars, listGroups, shown, opens, told>>

(* changeRoomPrivate, after listGroups has become l *)
changeRoomPrivate(l) ==
  /\ listGroups' = l
  /\ shown' = "SHOW"
  /\ Saved(box, saves, Live, l)

-----------------------------------------------------------------------------
(* Loading the list *)

(* An entry of the box has the time it was saved with, or that of a later change of the
   same room object. *)
Restored(ids) == {[id |-> g, at |-> 0] : g \in ids}

(* getAllPrivateRoom with isGetCacheFirst: the list of the box, then the request. *)
OpenTab ==
  /\ opens < MaxOpens /\ asked + Cardinality(pages) < MaxRequests
  /\ opens' = opens + 1
  /\ asked' = asked + 1
  /\ listGroups' = Restored(Stored(listGroups))
  /\ shown' = IF Stored(listGroups) # {} THEN "SHOW" ELSE shown
  /\ box' = FrozenBox(Ids(listGroups))
  /\ saves' = FrozenSaves(Ids(listGroups))
  /\ told' = [g \in Groups |-> Unsure]
  /\ UNCHANGED <<serverVars, events, pages, late, left>>

(* No groups in the answer, or none came: the list of the box, or no list. *)
Fallback ==
  /\ told' = [g \in Groups |-> Unsure]
  /\ IF Stored(listGroups) # {}
     THEN changeRoomPrivate(Restored(Stored(listGroups)))
     ELSE /\ listGroups' = {} /\ shown' = "NO_DATA"
          /\ box' = FrozenBox(Ids(listGroups)) /\ saves' = FrozenSaves(Ids(listGroups))

(* Faulty variant: the answer is added to the list. *)
PageReplyAdded(p) ==
  /\ pages' = pages \ {p}
  /\ IF DOMAIN p # {}
     THEN /\ told' = [g \in Groups |-> IF g \in DOMAIN p THEN p[g] ELSE Out]
          /\ changeRoomPrivate(listGroups \cup {[id |-> g, at |-> p[g]] : g \in DOMAIN p})
     ELSE Fallback
  /\ UNCHANGED <<serverVars, events, asked, late, left, opens>>

(* getAllGroup answers: listGroups is cleared, and replaced. *)
PageReply(p) ==
  /\ pages' = pages \ {p}
  /\ IF DOMAIN p # {}
     THEN /\ told' = [g \in Groups |-> IF g \in DOMAIN p THEN p[g] ELSE Out]
          /\ listGroups' = {[id |-> g, at |-> p[g]] : g \in DOMAIN p}
          /\ shown' = "SHOW"
          /\ Saved(FrozenBox({}), FrozenSaves({}), Live, listGroups')
     ELSE Fallback
  /\ UNCHANGED <<serverVars, events, asked, late, left, opens>>

(* Faulty variant: the error callback runs with no request under way. *)
PageFailedAlways ==
  /\ asked' = asked - 1
  /\ Fallback
  /\ UNCHANGED <<serverVars, events, pages, late, left, opens>>

(* An error status, or no connection. *)
PageFailed ==
  /\ asked > 0 /\ asked' = asked - 1
  /\ Fallback
  /\ UNCHANGED <<serverVars, events, pages, late, left, opens>>

(* The time is over: what the answer holds is not looked at, but for an error status. *)
PageTimedOut ==
  /\ asked > 0 /\ asked' = asked - 1 /\ late' = late + 1
  /\ Fallback
  /\ UNCHANGED <<serverVars, events, pages, left, opens>>

PageLate ==
  /\ late > 0 /\ late' = late - 1
  /\ \/ Fallback
     \/ UNCHANGED <<listVars, told>>
  /\ UNCHANGED <<serverVars, events, asked, pages, left, opens>>

(* Neither callback runs: another failure, or a body without success. *)
PageUnanswered ==
  /\ asked > 0 /\ asked' = asked - 1
  /\ UNCHANGED <<serverVars, events, pages, late, left, listVars, opens, told>>

-----------------------------------------------------------------------------
(* rooms-changed: _handlerValueChange *)

Others(g) == {e \in listGroups : e.id # g}

(* The room has a last message: its entry is changed, or added. *)
ChangedWithMessage(e) ==
  /\ changeRoomPrivate(IF e.id \in Ids(listGroups)
                       THEN {IF f.id = e.id THEN e ELSE f : f \in listGroups}
                       ELSE listGroups \cup {e})
  /\ told' = [told EXCEPT ![e.id] = e.at]

(* It has none: its entry is removed and insert(3, roomModel) puts it behind three others.
   Where there are fewer, insert throws, and nothing that follows runs. *)
ChangedWithoutMessage(e) ==
  \/ /\ Cardinality(Others(e.id)) >= 3
     /\ changeRoomPrivate(Others(e.id) \cup {e})
     /\ told' = [told EXCEPT ![e.id] = e.at]
  \/ /\ Cardinality(Others(e.id)) < 3
     /\ listGroups' = Others(e.id)
     /\ told' = [told EXCEPT ![e.id] = Unsure]
     /\ UNCHANGED <<shown, box, saves>>

HandleRoomsChanged ==
  /\ events # << >>
  /\ events' = Tail(events)
  /\ IF Head(events).id \in Silent THEN ChangedWithoutMessage(Head(events))
                                   ELSE ChangedWithMessage(Head(events))
  /\ UNCHANGED <<serverVars, asked, pages, late, left, opens>>

-----------------------------------------------------------------------------
(* Leaving a group *)

LeaveGroup(g) ==
  /\ g \in member /\ g \in Ids(listGroups)
  /\ member' = member \ {g}
  /\ Change(g)
  /\ left' = left \cup {g}
  /\ UNCHANGED <<events, asked, pages, late, listVars, opens, told>>

(* Faulty variant: the group stays in the list. *)
removeGroupFromBox(g) ==
  LET l == listGroups
  IN /\ listGroups' = l
     /\ shown' = IF l = {} THEN "NO_DATA" ELSE "SHOW"
     /\ Saved(box, saves, Stored(l) \ {g}, l)

(* Faulty variant: the last group that stays is not counted. *)
removeGroupEarly(g) ==
  LET l == Others(g)
  IN /\ listGroups' = l
     /\ shown' = IF Cardinality(l) <= 1 THEN "NO_DATA" ELSE "SHOW"
     /\ Saved(box, saves, Stored(l) \ {g}, l)

(* removeGroup, with removeRomByRoomID: the box gets a copy without the group. *)
removeGroup(g) ==
  LET l == Others(g)
  IN /\ listGroups' = l
     /\ shown' = IF l = {} THEN "NO_DATA" ELSE "SHOW"
     /\ Saved(box, saves, Stored(l) \ {g}, l)

LeaveAnswered(g) ==
  /\ g \in left
  /\ left' = left \ {g}
  /\ removeGroup(g)
  /\ told' = [told EXCEPT ![g] = Out]
  /\ UNCHANGED <<serverVars, events, asked, pages, late, opens>>

(* A message could not be sent: _handleErrorToRemoveGroup drops the group of the open room. *)
SendFailed(g) ==
  /\ removeGroup(g)
  /\ told' = [told EXCEPT ![g] = Out]
  /\ UNCHANGED <<serverVars, netVars, opens>>

-----------------------------------------------------------------------------
Next ==
  \/ \E g \in Groups : Notify(g) \/ RemovedByOthers(g)
                         \/ LeaveGroup(g) \/ LeaveAnswered(g) \/ SendFailed(g)
  \/ MakePage \/ LoseEvents
  \/ OpenTab \/ (\E p \in pages : PageReply(p))
  \/ PageFailed \/ PageTimedOut \/ PageLate \/ PageUnanswered
  \/ HandleRoomsChanged \/ ResumeSave

Spec == Init /\ [][Next]_vars

-----------------------------------------------------------------------------
(* Properties *)

(* A group has one entry, over loading it, hearing of it, leaving it and restoring it. *)
GroupsOnce == \A e, f \in listGroups : e.id = f.id => e = f

(* The list agrees with the last it was told of each group: by a page, an event or
   the answer to leaving. *)
ListFollowsNews ==
  \A g \in Groups :
    /\ told[g] \in Times => [id |-> g, at |-> told[g]] \in listGroups
    /\ told[g] = Out => g \notin Ids(listGroups)

(* The screen says that there are no groups only when the list has none. *)
NoDataIsEmpty == shown = "NO_DATA" => listGroups = {}

=============================================================================
