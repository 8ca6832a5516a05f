--------------------------- MODULE RoomListProofs ---------------------------
(***************************************************************************)
(* What RoomList promises, proved for every set of groups and every bound. *)
(*                                                                         *)
(* The list and what it was told change together: Agree says what they     *)
(* have to do with each other, in terms of a list and a history, so that    *)
(* each of the five ways in which a handler changes the list is a lemma     *)
(* about values, and the step lemma only has to name the way.               *)
(***************************************************************************)
EXTENDS RoomList, TLAPS

Once(l) == \A e, f \in l : e.id = f.id => e = f

Follows(l, t) ==
  \A g \in Groups : /\ t[g] \in Times => [id |-> g, at |-> t[g]] \in l
                    /\ t[g] = Out => g \notin Ids(l)

Agree(l, t) ==
  /\ l \subseteq Entry /\ t \in [Groups -> Times \cup {Out, Unsure}]
  /\ Once(l) /\ Follows(l, t)

Boxes == {Nothing} \cup Lists

-----------------------------------------------------------------------------
(* Types of the server, the network and the box                             *)

LEMMA TimeFacts ==
  /\ Times \subseteq Nat /\ 0 \in Times
  /\ Out \notin Times /\ Unsure \notin Times /\ Out # Unsure
BY ConstantsAssumption DEF Times

LEMMA IdsType ==
  ASSUME NEW l \in SUBSET Entry
  PROVE  Ids(l) \subseteq Groups
BY DEF Ids, Entry

LEMMA StoredType ==
  ASSUME TypeOK
  PROVE  Stored(listGroups) \in SUBSET Groups /\ Ids(listGroups) \in SUBSET Groups
<1>1. Ids(listGroups) \in SUBSET Groups
  BY IdsType DEF TypeOK
<1> QED
  BY <1>1 DEF TypeOK, Stored, Content, Lists

LEMMA SavedType ==
  ASSUME NEW b \in Boxes, NEW s \in Seq(Lists), NEW o \in Lists, NEW l, Saved(b, s, o, l)
  PROVE  box' \in Boxes /\ saves' \in Seq(Lists)
<1>1. CASE b # Nothing
  BY <1>1 DEF Saved, Save, Boxes
<1>2. CASE b = Nothing /\ Content(o, l) # {}
  BY <1>2 DEF Saved, Save, Boxes
<1>3. CASE b = Nothing /\ Content(o, l) = {}
  BY <1>3 DEF Saved, Save, Boxes
<1> QED
  BY <1>1, <1>2, <1>3

LEMMA FrozenType ==
  ASSUME TypeOK, NEW ids \in SUBSET Groups
  PROVE  FrozenBox(ids) \in Boxes /\ FrozenSaves(ids) \in Seq(Lists)
<1>1. saves \in Seq(Lists) /\ box \in Boxes
  BY DEF TypeOK, Boxes
<1>2. FrozenBox(ids) \in Boxes
  BY <1>1 DEF FrozenBox, Boxes, Lists
<1>3. \A i \in 1..Len(saves) : saves[i] \in Lists
  BY <1>1
<1>4. \A i \in 1..Len(saves) :
        (IF saves[i] = Live THEN ids ELSE saves[i]) \in Lists
  BY <1>3 DEF Lists
<1>5. Len(saves) \in Nat
  BY <1>1
<1>6. FrozenSaves(ids) \in [1..Len(saves) -> Lists]
  BY <1>4 DEF FrozenSaves
<1>7. FrozenSaves(ids) \in Seq(Lists)
  BY <1>5, <1>6
<1> QED
  BY <1>2, <1>7

-----------------------------------------------------------------------------
(* The ways in which the list and its history change                         *)

LEMMA Restoring ==
  ASSUME NEW ids \in SUBSET Groups
  PROVE  Agree(Restored(ids), [g \in Groups |-> Unsure])
<1>1. Restored(ids) \subseteq Entry
  BY TimeFacts DEF Restored, Entry
<1>2. Once(Restored(ids))
  BY DEF Once, Restored
<1>3. Follows(Restored(ids), [g \in Groups |-> Unsure])
  BY TimeFacts DEF Follows
<1> QED
  BY <1>1, <1>2, <1>3 DEF Agree

LEMMA NoList == Agree({}, [g \in Groups |-> Unsure])
<1>1. Restored({}) = {}
  BY DEF Restored
<1> QED
  BY <1>1, Restoring

LEMMA Paging ==
  ASSUME NEW p \in Pages
  PROVE  Agree({[id |-> g, at |-> p[g]] : g \in DOMAIN p},
               [g \in Groups |-> IF g \in DOMAIN p THEN p[g] ELSE Out])
<1> DEFINE l == {[id |-> g, at |-> p[g]] : g \in DOMAIN p}
           t == [g \in Groups |-> IF g \in DOMAIN p THEN p[g] ELSE Out]
<1>1. PICK S \in SUBSET Groups : p \in [S -> Times]
  BY DEF Pages
<1>2. l \subseteq Entry
  BY <1>1 DEF Entry
<1>3. t \in [Groups -> Times \cup {Out, Unsure}]
  BY <1>1
<1>4. Once(l)
  BY DEF Once
<1>5. Follows(l, t)
  <2> SUFFICES ASSUME NEW g \in Groups
               PROVE  /\ t[g] \in Times => [id |-> g, at |-> t[g]] \in l
                      /\ t[g] = Out => g \notin Ids(l)
    BY DEF Follows
  <2>1. CASE g \in DOMAIN p
    <3>1. t[g] = p[g] /\ p[g] \in Times
      BY <1>1, <2>1
    <3> QED
      BY <2>1, <3>1, TimeFacts
  <2>2. CASE g \notin DOMAIN p
    <3>1. t[g] = Out /\ g \notin Ids(l)
      BY <2>2 DEF Ids
    <3> QED
      BY <3>1, TimeFacts
  <2> QED
    BY <2>1, <2>2
<1> QED
  BY <1>2, <1>3, <1>4, <1>5 DEF Agree

(* Every entry of another group is as it was, and e is the one of its group. *)
LEMMA Putting ==
  ASSUME NEW l, NEW t, Agree(l, t), NEW e \in Entry, NEW k,
         \A f : f \in k <=> f = e \/ (f \in l /\ f.id # e.id)
  PROVE  Agree(k, [t EXCEPT ![e.id] = e.at])
<1> DEFINE u == [t EXCEPT ![e.id] = e.at]
<1>1. e.id \in Groups /\ e.at \in Times /\ e = [id |-> e.id, at |-> e.at]
  BY DEF Entry
<1>2. k \subseteq Entry
  BY DEF Agree
<1>3. u \in [Groups -> Times \cup {Out, Unsure}]
  BY <1>1 DEF Agree
<1>4. Once(k)
  BY DEF Agree, Once
<1>5. Follows(k, u)
  <2> SUFFICES ASSUME NEW g \in Groups
               PROVE  /\ u[g] \in Times => [id |-> g, at |-> u[g]] \in k
                      /\ u[g] = Out => g \notin Ids(k)
    BY DEF Follows
  <2>1. CASE g = e.id
    <3>1. u[g] = e.at
      BY <1>1, <2>1 DEF Agree
    <3>2. [id |-> g, at |-> u[g]] = e
      BY <1>1, <2>1, <3>1
    <3> QED
      BY <1>1, <3>1, <3>2, TimeFacts
  <2>2. CASE g # e.id
    <3>1. u[g] = t[g]
      BY <2>2 DEF Agree
    <3>2. t[g] \in Times => [id |-> g, at |-> t[g]] \in l
      BY DEF Agree, Follows
    <3>3. t[g] = Out => g \notin Ids(l)
      BY DEF Agree, Follows
    <3>4. g \in Ids(k) => g \in Ids(l)
      BY <2>2 DEF Ids
    <3>5. [id |-> g, at |-> t[g]].id # e.id
      BY <2>2
    <3> QED
      BY <3>1, <3>2, <3>3, <3>4, <3>5
  <2> QED
    BY <2>1, <2>2
<1> QED
  BY <1>2, <1>3, <1>4, <1>5 DEF Agree

(* The group h goes; what is told of it is x. *)
LEMMA Removing ==
  ASSUME NEW l, NEW t, Agree(l, t), NEW h \in Groups, NEW x \in {Out, Unsure}
  PROVE  Agree({e \in l : e.id # h}, [t EXCEPT ![h] = x])
<1> DEFINE k == {e \in l : e.id # h}
           u == [t EXCEPT ![h] = x]
<1>1. k \subseteq Entry /\ Once(k)
  BY DEF Agree, Once
<1>2. u \in [Groups -> Times \cup {Out, Unsure}]
  BY DEF Agree
<1>3. Follows(k, u)
  <2> SUFFICES ASSUME NEW g \in Groups
               PROVE  /\ u[g] \in Times => [id |-> g, at |-> u[g]] \in k
                      /\ u[g] = Out => g \notin Ids(k)
    BY DEF Follows
  <2>1. CASE g = h
    <3>1. u[g] = x
      BY <2>1 DEF Agree
    <3>2. g \notin Ids(k)
      BY <2>1 DEF Ids
    <3> QED
      BY <3>1, <3>2, TimeFacts
  <2>2. CASE g # h
    <3>1. u[g] = t[g]
      BY <2>2 DEF Agree
    <3>2. t[g] \in Times => [id |-> g, at |-> t[g]] \in l
      BY DEF Agree, Follows
    <3>3. t[g] = Out => g \notin Ids(l)
      BY DEF Agree, Follows
    <3>4. g \in Ids(k) => g \in Ids(l)
      BY DEF Ids
    <3>5. [id |-> g, at |-> t[g]].id # h
      BY <2>2
    <3> QED
      BY <3>1, <3>2, <3>3, <3>4, <3>5
  <2> QED
    BY <2>1, <2>2
<1> QED
  BY <1>1, <1>2, <1>3 DEF Agree

-----------------------------------------------------------------------------
(* The invariant, split into what the list is and what is left of the types  *)

RestOK ==
  /\ member \subseteq Groups /\ at \in [Groups -> Times] /\ clock \in Times
  /\ events \in Seq(Entry) /\ asked \in Nat /\ late \in Nat
  /\ pages \subseteq Pages /\ left \subseteq Groups /\ opens \in 0..MaxOpens

ListOK ==
  /\ Agree(listGroups, told)
  /\ shown \in {"SHOW", "NO_DATA"} /\ NoDataIsEmpty
  /\ box \in Boxes /\ saves \in Seq(Lists)

Inv == TypeOK /\ GroupsOnce /\ ListFollowsNews /\ NoDataIsEmpty

LEMMA Split == Inv <=> RestOK /\ ListOK
BY DEF Inv, RestOK, ListOK, TypeOK, Agree, Once, Follows, GroupsOnce, ListFollowsNews, Boxes

LEMMA SplitNext == Inv' <=> RestOK' /\ ListOK'
BY DEF Inv, RestOK, ListOK, TypeOK, Agree, Once, Follows, GroupsOnce, ListFollowsNews, Boxes,
       NoDataIsEmpty, Ids

LEMMA SameList ==
  ASSUME ListOK, UNCHANGED <<listVars, told>>
  PROVE  ListOK'
BY DEF ListOK, listVars, NoDataIsEmpty

LEMMA Changing ==
  ASSUME Inv, NEW l, Agree(l, told'), changeRoomPrivate(l)
  PROVE  ListOK'
<1>1. box \in Boxes /\ saves \in Seq(Lists) /\ Live \in Lists
  BY Split DEF ListOK, Lists
<1>2. box' \in Boxes /\ saves' \in Seq(Lists)
  BY <1>1, SavedType DEF changeRoomPrivate
<1> QED
  BY <1>2 DEF ListOK, NoDataIsEmpty, changeRoomPrivate

LEMMA FallingBack ==
  ASSUME Inv, Fallback
  PROVE  ListOK'
<1>1. TypeOK
  BY DEF Inv
<1>2. Stored(listGroups) \in SUBSET Groups /\ Ids(listGroups) \in SUBSET Groups
  BY <1>1, StoredType
<1>3. CASE Stored(listGroups) # {}
  <2>1. Agree(Restored(Stored(listGroups)), told')
    BY <1>2, Restoring DEF Fallback
  <2>2. changeRoomPrivate(Restored(Stored(listGroups)))
    BY <1>3 DEF Fallback
  <2> QED
    BY <2>1, <2>2, Changing
<1>4. CASE Stored(listGroups) = {}
  <2>1. Agree(listGroups', told')
    BY <1>4, NoList DEF Fallback
  <2>2. box' \in Boxes /\ saves' \in Seq(Lists)
    BY <1>1, <1>2, <1>4, FrozenType DEF Fallback
  <2> QED
    BY <1>4, <2>1, <2>2 DEF ListOK, NoDataIsEmpty, Fallback
<1> QED
  BY <1>3, <1>4

LEMMA GroupRemoved ==
  ASSUME Inv, NEW g \in Groups, removeGroup(g), told' = [told EXCEPT ![g] = Out]
  PROVE  ListOK'
<1>1. Agree(listGroups, told) /\ box \in Boxes /\ saves \in Seq(Lists) /\ TypeOK
  BY Split DEF ListOK, Inv
<1>2. Agree(listGroups', told')
  <2>1. Agree(Others(g), [told EXCEPT ![g] = Out])
    BY <1>1, Removing DEF Others
  <2> QED
    BY <2>1 DEF removeGroup
<1>3. box' \in Boxes /\ saves' \in Seq(Lists)
  <2>1. Stored(listGroups') \in SUBSET Groups
    <3>1. Ids(listGroups') \in SUBSET Groups
      BY <1>2, IdsType DEF Agree
    <3> QED
      BY <1>1, <3>1 DEF Stored, Content, Boxes, Lists
  <2>2. Stored(listGroups') \ {g} \in Lists
    BY <2>1 DEF Lists
  <2> QED
    BY <1>1, <2>2, SavedType DEF removeGroup
<1> QED
  BY <1>2, <1>3 DEF ListOK, NoDataIsEmpty, removeGroup

-----------------------------------------------------------------------------
(* The initial states and the steps                                          *)

LEMMA InitInv == Init => Inv
<1> SUFFICES ASSUME Init PROVE RestOK /\ ListOK
  BY Split
<1>1. RestOK
  BY TimeFacts, ConstantsAssumption DEF Init, RestOK
<1>2. Agree(listGroups, told)
  BY NoList DEF Init
<1>3. box \in Boxes /\ saves \in Seq(Lists)
  BY DEF Init, Boxes, Lists
<1> QED
  BY <1>1, <1>2, <1>3 DEF Init, ListOK, NoDataIsEmpty

LEMMA ChangeType ==
  ASSUME RestOK, NEW g \in Groups, Change(g)
  PROVE  clock' \in Times /\ at' \in [Groups -> Times] /\ clock' = clock + 1
BY ConstantsAssumption DEF RestOK, Change, Times

LEMMA ServerStep ==
  ASSUME Inv, NEW g \in Groups, Notify(g) \/ RemovedByOthers(g) \/ LeaveGroup(g)
  PROVE  Inv'
<1>1. RestOK /\ ListOK
  BY Split
<1>2. clock' \in Times /\ at' \in [Groups -> Times] /\ clock' = clock + 1
  BY <1>1, ChangeType DEF Notify, RemovedByOthers, LeaveGroup
<1>3. ListOK'
  BY <1>1, SameList DEF Notify, RemovedByOthers, LeaveGroup
<1>4. CASE Notify(g)
  <2>1. events' \in Seq(Entry)
    BY <1>1, <1>2, <1>4 DEF Notify, RestOK, Entry
  <2> QED
    BY <1>1, <1>2, <1>3, <1>4, <2>1, SplitNext DEF Notify, RestOK
<1>5. CASE RemovedByOthers(g)
  BY <1>1, <1>2, <1>3, <1>5, SplitNext DEF RemovedByOthers, RestOK, netVars
<1>6. CASE LeaveGroup(g)
  BY <1>1, <1>2, <1>3, <1>6, SplitNext DEF LeaveGroup, RestOK
<1> QED
  BY <1>4, <1>5, <1>6

LEMMA NetStep ==
  ASSUME Inv, MakePage \/ LoseEvents \/ PageUnanswered
  PROVE  Inv'
<1>1. RestOK /\ ListOK
  BY Split
<1>2. ListOK'
  BY <1>1, SameList DEF MakePage, LoseEvents, PageUnanswered
<1>3. CASE MakePage
  <2>1. [g \in member |-> at[g]] \in Pages
    BY <1>1 DEF RestOK, Pages
  <2>2. asked' \in Nat
    BY <1>1, <1>3 DEF MakePage, RestOK
  <2> QED
    BY <1>1, <1>2, <1>3, <2>1, <2>2, SplitNext DEF MakePage, RestOK, serverVars
<1>4. CASE LoseEvents
  BY <1>1, <1>2, <1>4, SplitNext DEF LoseEvents, RestOK, serverVars
<1>5. CASE PageUnanswered
  <2>1. asked' \in Nat
    BY <1>1, <1>5 DEF PageUnanswered, RestOK
  <2> QED
    BY <1>1, <1>2, <1>5, <2>1, SplitNext DEF PageUnanswered, RestOK, serverVars
<1> QED
  BY <1>3, <1>4, <1>5

LEMMA LoadStep ==
  ASSUME Inv, OpenTab \/ (\E p \in pages : PageReply(p))
  PROVE  Inv'
<1>1. RestOK /\ ListOK /\ TypeOK
  BY Split DEF Inv
<1>2. Stored(listGroups) \in SUBSET Groups /\ Ids(listGroups) \in SUBSET Groups
  BY <1>1, StoredType
<1>3. CASE OpenTab
  <2>1. RestOK'
    BY <1>1, <1>3, ConstantsAssumption DEF OpenTab, RestOK, serverVars
  <2>2. Agree(listGroups', told')
    BY <1>2, <1>3, Restoring DEF OpenTab
  <2>3. box' \in Boxes /\ saves' \in Seq(Lists)
    BY <1>1, <1>2, <1>3, FrozenType DEF OpenTab
  <2>4. listGroups' # {} => Stored(listGroups) # {}
    BY <1>3 DEF OpenTab, Restored
  <2>5. shown' \in {"SHOW", "NO_DATA"} /\ (shown' = "NO_DATA" => listGroups' = {})
    BY <1>1, <1>3, <2>4 DEF OpenTab, ListOK
  <2> QED
    BY <2>1, <2>2, <2>3, <2>5, SplitNext DEF ListOK, NoDataIsEmpty
<1>4. CASE \E p \in pages : PageReply(p)
  <2>1. PICK p \in pages : PageReply(p)
    BY <1>4
  <2>2. RestOK' /\ p \in Pages
    BY <1>1, <2>1 DEF PageReply, RestOK, serverVars
  <2>3. CASE DOMAIN p # {}
    <3>1. Agree(listGroups', told')
      BY <2>1, <2>2, <2>3, Paging DEF PageReply
    <3>2. FrozenBox({}) \in Boxes /\ FrozenSaves({}) \in Seq(Lists) /\ Live \in Lists
      BY <1>1, FrozenType DEF Lists
    <3>3. Saved(FrozenBox({}), FrozenSaves({}), Live, listGroups')
      BY <2>1, <2>3 DEF PageReply
    <3>4. box' \in Boxes /\ saves' \in Seq(Lists)
      BY <3>2, <3>3, SavedType
    <3>5. shown' = "SHOW"
      BY <2>1, <2>3 DEF PageReply
    <3> QED
      BY <2>2, <3>1, <3>4, <3>5, SplitNext DEF ListOK, NoDataIsEmpty
  <2>4. CASE DOMAIN p = {}
    <3>1. Fallback
      BY <2>1, <2>4 DEF PageReply
    <3> QED
      BY <2>2, <3>1, FallingBack, SplitNext
  <2> QED
    BY <2>3, <2>4
<1> QED
  BY <1>3, <1>4

LEMMA FailStep ==
  ASSUME Inv, PageFailed \/ PageTimedOut \/ PageLate
  PROVE  Inv'
<1>1. RestOK /\ ListOK
  BY Split
<1>2. RestOK'
  <2>1. asked' \in Nat /\ late' \in Nat
    BY <1>1 DEF PageFailed, PageTimedOut, PageLate, RestOK
  <2> QED
    BY <1>1, <2>1 DEF PageFailed, PageTimedOut, PageLate, RestOK, serverVars
<1>3. Fallback \/ UNCHANGED <<listVars, told>>
  BY DEF PageFailed, PageTimedOut, PageLate
<1> QED
  BY <1>1, <1>2, <1>3, FallingBack, SameList, SplitNext

LEMMA EventStep ==
  ASSUME Inv, HandleRoomsChanged
  PROVE  Inv'
<1>1. RestOK /\ ListOK /\ Agree(listGroups, told)
  BY Split DEF ListOK
<1>2. PICK e \in Entry : e = Head(events)
  BY <1>1 DEF HandleRoomsChanged, RestOK
<1>3. RestOK'
  <2>1. events' \in Seq(Entry)
    BY <1>1 DEF HandleRoomsChanged, RestOK
  <2> QED
    BY <1>1, <2>1 DEF HandleRoomsChanged, RestOK, serverVars
<1>4. e.id \in Groups /\ listGroups \subseteq Entry
  BY <1>1 DEF Entry, Agree
<1>5. CASE ChangedWithMessage(e)
  <2>1. PICK l : /\ l = IF e.id \in Ids(listGroups)
                        THEN {IF f.id = e.id THEN e ELSE f : f \in listGroups}
                        ELSE listGroups \cup {e}
                 /\ changeRoomPrivate(l)
    BY <1>5 DEF ChangedWithMessage
  <2>2. \A f : f \in l <=> f = e \/ (f \in listGroups /\ f.id # e.id)
    BY <2>1 DEF Ids
  <2>3. Agree(l, told')
    BY <1>1, <1>5, <2>2, Putting DEF ChangedWithMessage
  <2> QED
    BY <1>3, <2>1, <2>3, Changing, SplitNext
<1>6. CASE ChangedWithoutMessage(e)
  <2>1. CASE /\ changeRoomPrivate(Others(e.id) \cup {e})
             /\ told' = [told EXCEPT ![e.id] = e.at]
    <3>1. \A f : f \in Others(e.id) \cup {e} <=> f = e \/ (f \in listGroups /\ f.id # e.id)
      BY DEF Others
    <3>2. Agree(Others(e.id) \cup {e}, told')
      BY <1>1, <2>1, <3>1, Putting
    <3> QED
      BY <1>3, <2>1, <3>2, Changing, SplitNext
  <2>2. CASE /\ listGroups' = Others(e.id)
             /\ told' = [told EXCEPT ![e.id] = Unsure]
             /\ UNCHANGED <<shown, box, saves>>
    <3>1. Agree(listGroups', told')
      BY <1>1, <1>4, <2>2, Removing DEF Others
    <3>2. shown' = "NO_DATA" => listGroups' = {}
      BY <1>1, <2>2 DEF ListOK, NoDataIsEmpty, Others
    <3> QED
      BY <1>1, <1>3, <2>2, <3>1, <3>2, SplitNext DEF ListOK, NoDataIsEmpty
  <2> QED
    BY <1>6, <2>1, <2>2 DEF ChangedWithoutMessage
<1> QED
  BY <1>2, <1>5, <1>6 DEF HandleRoomsChanged

LEMMA LeaveStep ==
  ASSUME Inv, NEW g \in Groups, LeaveAnswered(g) \/ SendFailed(g)
  PROVE  Inv'
<1>1. RestOK /\ ListOK
  BY Split
<1>2. RestOK'
  BY <1>1 DEF LeaveAnswered, SendFailed, RestOK, serverVars, netVars
<1>3. ListOK'
  BY GroupRemoved DEF LeaveAnswered, SendFailed
<1> QED
  BY <1>2, <1>3, SplitNext

LEMMA SaveStep ==
  ASSUME Inv, ResumeSave
  PROVE  Inv'
<1>1. RestOK /\ ListOK
  BY Split
<1>2. RestOK'
  BY <1>1 DEF ResumeSave, RestOK, serverVars, netVars
<1>3. box' \in Boxes /\ saves' \in Seq(Lists)
  <2>1. saves \in Seq(Lists) /\ box \in Boxes /\ saves # << >>
    BY <1>1 DEF ListOK, ResumeSave
  <2>2. Head(saves) \in Lists /\ Tail(saves) \in Seq(Lists)
    BY <2>1
  <2> QED
    BY <2>1, <2>2 DEF ResumeSave, Boxes
<1>4. ListOK'
  BY <1>1, <1>3 DEF ListOK, ResumeSave, NoDataIsEmpty
<1> QED
  BY <1>2, <1>4, SplitNext

LEMMA Step == Inv /\ [Next]_vars => Inv'
<1> SUFFICES ASSUME Inv, [Next]_vars PROVE Inv'
  OBVIOUS
<1>1. CASE \E g \in Groups : \/ Notify(g) \/ RemovedByOthers(g) \/ LeaveGroup(g)
                             \/ LeaveAnswered(g) \/ SendFailed(g)
  BY <1>1, ServerStep, LeaveStep
<1>2. CASE MakePage \/ LoseEvents \/ PageUnanswered
  BY <1>2, NetStep
<1>3. CASE OpenTab \/ (\E p \in pages : PageReply(p))
  BY <1>3, LoadStep
<1>4. CASE PageFailed \/ PageTimedOut \/ PageLate
  BY <1>4, FailStep
<1>5. CASE HandleRoomsChanged
  BY <1>5, EventStep
<1>6. CASE ResumeSave
  BY <1>6, SaveStep
<1>7. CASE UNCHANGED vars
  <2>1. RestOK' /\ ListOK'
    BY <1>7, Split, SameList DEF vars, serverVars, netVars, RestOK
  <2> QED
    BY <2>1, SplitNext
<1> QED
  BY <1>1, <1>2, <1>3, <1>4, <1>5, <1>6, <1>7 DEF Next

(* The list, the box, the requests and the events have their types.        *)
THEOREM TypeCorrect == Spec => []TypeOK
<1>1. Inv => TypeOK
  BY DEF Inv
<1> QED
  BY <1>1, InitInv, Step, PTL DEF Spec

(* No order of pages, events, saves and departures lists a group twice.    *)
THEOREM OneEntryEach == Spec => []GroupsOnce
<1>1. Inv => GroupsOnce
  BY DEF Inv
<1> QED
  BY <1>1, InitInv, Step, PTL DEF Spec

(* What the list was last told of a group is what it shows of it.          *)
THEOREM ListIsCurrent == Spec => []ListFollowsNews
<1>1. Inv => ListFollowsNews
  BY DEF Inv
<1> QED
  BY <1>1, InitInv, Step, PTL DEF Spec

(* "No groups" is never on the screen over a list that has some.           *)
THEOREM NoDataIsTrue == Spec => []NoDataIsEmpty
<1>1. Inv => NoDataIsEmpty
  BY DEF Inv
<1> QED
  BY <1>1, InitInv, Step, PTL DEF Spec
=============================================================================
