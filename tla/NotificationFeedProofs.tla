----------------------- MODULE NotificationFeedProofs -----------------------
(***************************************************************************)
(* Theorems about NotificationFeed for every page size and every bound:    *)
(* the types, and that the pages listed are the first pages of the feed.   *)
(***************************************************************************)
EXTENDS NotificationFeed, FiniteSetTheorems, SequenceTheorems, TLAPS

-----------------------------------------------------------------------------
(* Pages                                                                   *)

LEMMA PageStart ==
  ASSUME NEW p \in Nat \ {0}
  PROVE  /\ (p - 1) * PerPage \in Nat
         /\ p * PerPage = (p - 1) * PerPage + PerPage
BY ConstantsAssumption

LEMMA SeqOfMore ==
  ASSUME NEW S, NEW T, S \subseteq T, NEW s \in Seq(S)
  PROVE  s \in Seq(T)
OBVIOUS

LEMMA ConcatElements ==
  ASSUME NEW S, NEW s \in Seq(S), NEW t \in Seq(S)
  PROVE  /\ Len(s \o t) = Len(s) + Len(t)
         /\ \A i \in 1..Len(s \o t) :
              (s \o t)[i] = IF i <= Len(s) THEN s[i] ELSE t[i - Len(s)]
OBVIOUS

(* A page: how long it is and what it holds.                               *)
LEMMA PageElements ==
  ASSUME NEW n \in Nat, NEW p \in Nat \ {0}
  PROVE  /\ PageOf(n, p) \in Seq(1..n)
         /\ n - (p - 1) * PerPage <= 0 => PageOf(n, p) = <<>>
         /\ n - (p - 1) * PerPage > 0 =>
              Len(PageOf(n, p)) = IF n - (p - 1) * PerPage < PerPage
                                    THEN n - (p - 1) * PerPage ELSE PerPage
         /\ \A i \in 1..Len(PageOf(n, p)) : PageOf(n, p)[i] = n - (p - 1) * PerPage + 1 - i
<1> DEFINE first == n - (p - 1) * PerPage
           last  == IF first < PerPage THEN first ELSE PerPage
<1>1. first \in Int /\ first <= n /\ PerPage \in Nat \ {0} /\ last \in Int
  BY PageStart, ConstantsAssumption
<1>2. PageOf(n, p) = [i \in 1..last |-> first + 1 - i]
  BY DEF PageOf
<1> HIDE DEF first
<1>3. last = IF first < PerPage THEN first ELSE PerPage
  OBVIOUS
<1> HIDE DEF last
<1>4. CASE first <= 0
  <2>1. 1..last = {}
    BY <1>1, <1>3, <1>4
  <2>2. PageOf(n, p) = <<>>
    BY <1>2, <2>1
  <2>3. Len(PageOf(n, p)) = 0 /\ PageOf(n, p) \in Seq(1..n)
    BY <2>2
  <2>4. ~(first > 0)
    BY <1>1, <1>4
  <2> QED
    BY <2>2, <2>3, <2>4 DEF first
<1>5. CASE first > 0
  <2>1. last \in Nat
    BY <1>1, <1>3, <1>5
  <2>2. \A i \in 1..last : first + 1 - i \in 1..n
    BY <1>1, <1>3, <1>5, <2>1
  <2>3. PageOf(n, p) \in [1..last -> 1..n]
    BY <1>2, <2>2
  <2>4. PageOf(n, p) \in Seq(1..n)
    BY <2>1, <2>3, SeqDef
  <2>5. DOMAIN PageOf(n, p) = 1..last /\ DOMAIN PageOf(n, p) = 1..Len(PageOf(n, p))
    BY <2>3, <2>4
  <2>6. Len(PageOf(n, p)) = last
    BY <2>1, <2>4, <2>5
  <2>7. \A i \in 1..Len(PageOf(n, p)) : PageOf(n, p)[i] = first + 1 - i
    BY <1>2, <2>6
  <2>8. ~(first <= 0)
    BY <1>1, <1>5
  <2> QED
    BY <1>3, <2>4, <2>6, <2>7, <2>8 DEF first
<1> QED
  BY <1>1, <1>4, <1>5

-----------------------------------------------------------------------------
(* Type correctness                                                        *)

LEMMA AskedType ==
  ASSUME TypeOK, NEW p \in Nat \ {0}, NEW m \in BOOLEAN, askPage(p, m)
  PROVE  pages' \subseteq Pages /\ requests' \in 0..MaxRequests
BY ConstantsAssumption DEF TypeOK, askPage, Pages

LEMMA ListedType ==
  ASSUME NEW b \in Nat \cup {None}, NEW k \in Nat,
         NEW f \in SUBSET {"overtaken", "unreadable"}, Listed(b, k, f)
  PROVE  /\ base' \in Nat \cup {None} /\ listed' \in Nat
         /\ faults' \subseteq {"overtaken", "unreadable"}
BY DEF Listed

LEMMA OvertakenType ==
  ASSUME NEW q
  PROVE  Overtaken(q) \in SUBSET {"overtaken", "unreadable"}
BY DEF Overtaken

LEMMA PageShownType ==
  ASSUME TypeOK, NEW q \in pages, NEW n \in q.from..created, PageShown(q, n)
  PROVE  /\ listNotification' \in Seq(Ids)
         /\ pagination' \in [current : Nat, total : Nat]
         /\ shown' \in {"NONE", "LOADING", "SHOW"}
         /\ base' \in Nat \cup {None} /\ listed' \in Nat
         /\ faults' \subseteq {"overtaken", "unreadable"}
<1>1. /\ q \in Pages /\ q.page \in Nat \ {0} /\ q.isLoadMore \in BOOLEAN
      /\ n \in Nat /\ n <= MaxCreated /\ created \in 0..MaxCreated
  BY ConstantsAssumption DEF TypeOK, Pages
<1>2. PageOf(n, q.page) \in Seq(1..n)
  BY <1>1, PageElements
<1>3. PageOf(n, q.page) \in Seq(Ids)
  <2>1. 1..n \subseteq Ids
    BY <1>1, ConstantsAssumption DEF Ids
  <2> QED
    BY <1>2, <2>1, SeqOfMore
<1>4. listNotification' \in {listNotification, listNotification \o PageOf(n, q.page),
                              PageOf(n, q.page)}
  BY DEF PageShown
<1>5. listNotification' \in Seq(Ids)
  <2>1. listNotification \in Seq(Ids)
    BY DEF TypeOK
  <2>2. listNotification \o PageOf(n, q.page) \in Seq(Ids)
    BY <1>3, <2>1
  <2> QED
    BY <1>3, <1>4, <2>1, <2>2
<1>6. PagesOf(n) \in Nat
  BY <1>1, ConstantsAssumption DEF PagesOf
<1>7. pagination' \in [current : Nat, total : Nat]
  BY <1>1, <1>6 DEF PageShown
<1>8. shown' \in {"NONE", "LOADING", "SHOW"}
  BY DEF PageShown, showListOrNone
<1>9. base' \in Nat \cup {None} /\ listed' \in Nat
      /\ faults' \subseteq {"overtaken", "unreadable"}
  <2>1. /\ base \in Nat \cup {None} /\ listed \in Nat /\ 1 \in Nat
        /\ faults \subseteq {"overtaken", "unreadable"} /\ listed + 1 \in Nat
    BY DEF TypeOK
  <2>2. CASE q.isLoadMore
    <3>1. Listed(IF n = base THEN base ELSE None, listed + 1, faults)
      BY <2>2 DEF PageShown
    <3>2. (IF n = base THEN base ELSE None) \in Nat \cup {None}
      BY <2>1
    <3> QED
      BY <2>1, <3>1, <3>2, ListedType
  <2>3. CASE ~q.isLoadMore
    <3>1. Listed(IF PageOf(n, q.page) = <<>> THEN None ELSE n, 1, Overtaken(q))
      BY <2>3 DEF PageShown
    <3>2. (IF PageOf(n, q.page) = <<>> THEN None ELSE n) \in Nat \cup {None}
      BY <1>1
    <3> QED
      BY <2>1, <3>1, <3>2, ListedType, OvertakenType
  <2> QED
    BY <2>2, <2>3
<1> QED
  BY <1>5, <1>7, <1>8, <1>9

LEMMA PageReplyType ==
  ASSUME TypeOK, NEW q \in pages, PageReply(q)
  PROVE  /\ listNotification' \in Seq(Ids)
         /\ pagination' \in [current : Nat, total : Nat]
         /\ shown' \in {"NONE", "LOADING", "SHOW"}
         /\ base' \in Nat \cup {None} /\ listed' \in Nat
         /\ faults' \subseteq {"overtaken", "unreadable"}
<1>1. ASSUME NEW n \in q.from..created, PageShown(q, n)
      PROVE  /\ listNotification' \in Seq(Ids)
             /\ pagination' \in [current : Nat, total : Nat]
             /\ shown' \in {"NONE", "LOADING", "SHOW"}
             /\ base' \in Nat \cup {None} /\ listed' \in Nat
             /\ faults' \subseteq {"overtaken", "unreadable"}
  BY <1>1, PageShownType
<1> DEFINE worse == faults \cup Overtaken(q)
<1>2. worse \in SUBSET {"overtaken", "unreadable"}
  BY OvertakenType DEF TypeOK
<1>3. worse \cup {"unreadable"} \in SUBSET {"overtaken", "unreadable"}
  BY <1>2
<1>4. ASSUME Listed(base, listed, worse) \/ Listed(base, listed, worse \cup {"unreadable"})
      PROVE  /\ base' \in Nat \cup {None} /\ listed' \in Nat
             /\ faults' \subseteq {"overtaken", "unreadable"}
  <2>1. base \in Nat \cup {None} /\ listed \in Nat
    BY DEF TypeOK
  <2> HIDE DEF worse
  <2> QED
    BY <1>2, <1>3, <1>4, <2>1, ListedType
<1>5. ASSUME NEW n \in q.from..created,
             pagination' = [current |-> q.page, total |-> PagesOf(n)]
      PROVE  pagination' \in [current : Nat, total : Nat]
  <2>1. q.page \in Nat /\ n \in Nat
    BY ConstantsAssumption DEF TypeOK, Pages
  <2>2. PagesOf(n) \in Nat
    BY <2>1, ConstantsAssumption DEF PagesOf
  <2> QED
    BY <1>5, <2>1, <2>2
<1>6. CASE PageFailed(q)
  <2>1. listNotification' \in Seq(Ids) /\ shown' \in {"NONE", "LOADING", "SHOW"}
    BY <1>6 DEF PageFailed, showListOrNone, TypeOK
  <2>2. pagination' \in [current : Nat, total : Nat]
    BY <1>5, <1>6 DEF PageFailed, TypeOK
  <2>3. Listed(base, listed, worse) \/ Listed(base, listed, worse \cup {"unreadable"})
    BY <1>6 DEF PageFailed
  <2> QED
    BY <1>4, <2>1, <2>2, <2>3
<1>7. CASE Listed(base, listed, worse) /\ UNCHANGED <<listNotification, shown, pagination>>
  BY <1>4, <1>7 DEF TypeOK
<1> QED
  BY <1>1, <1>6, <1>7 DEF PageReply

LEMMA TypeStep ==
  ASSUME TypeOK, [Next]_vars
  PROVE  TypeOK'
<1> USE DEF listVars, feedVars, loadVars, screenVars, taskVars, serverVars, boundVars
<1>1. CASE OpenLayout
  <2>1. pages' \subseteq Pages /\ requests' \in 0..MaxRequests
    <3>1. askPage(1, FALSE)
      BY <1>1 DEF OpenLayout
    <3>2. 1 \in Nat \ {0} /\ FALSE \in BOOLEAN
      OBVIOUS
    <3> QED
      BY <3>1, <3>2, AskedType, Zenon
  <2>2. opened' \in BOOLEAN
    BY <1>1 DEF OpenLayout
  <2> QED
    BY <1>1, <2>1, <2>2 DEF OpenLayout, TypeOK
<1>2. CASE CloseLayout
  <2>1. opened' \in BOOLEAN
    BY <1>2 DEF CloseLayout
  <2> QED
    BY <1>2, <2>1 DEF CloseLayout, TypeOK
<1>3. CASE refreshData
  <2>1. pages' \subseteq Pages /\ requests' \in 0..MaxRequests
    <3>1. askPage(1, FALSE)
      BY <1>3 DEF refreshData
    <3>2. 1 \in Nat \ {0} /\ FALSE \in BOOLEAN
      OBVIOUS
    <3> QED
      BY <3>1, <3>2, AskedType, Zenon
  <2>2. isLoading' \in BOOLEAN /\ pagination' \in [current : Nat, total : Nat]
    BY <1>3 DEF refreshData, NoPages
  <2> QED
    BY <1>3, <2>1, <2>2 DEF refreshData, TypeOK
<1>4. CASE loadMoreNotification
  <2>1. pagination.current + 1 \in Nat \ {0}
    BY DEF TypeOK
  <2>2. pages' \subseteq Pages /\ requests' \in 0..MaxRequests
    BY <1>4, <2>1, AskedType DEF loadMoreNotification, TypeOK
  <2>3. isLoading' \in BOOLEAN /\ loadMore' \in BOOLEAN
    BY <1>4 DEF loadMoreNotification, TypeOK
  <2> QED
    BY <1>4, <2>2, <2>3 DEF loadMoreNotification, TypeOK
<1>5. CASE getUnReadNotification
  BY <1>5, ConstantsAssumption DEF getUnReadNotification, TypeOK
<1>6. CASE LogOut
  <2>1. isLoading' \in BOOLEAN /\ opened' \in BOOLEAN /\ loggedIn' \in BOOLEAN
    BY <1>6 DEF LogOut, clearCache
  <2>2. logouts' \in 0..MaxLogouts
    BY <1>6, ConstantsAssumption DEF LogOut, TypeOK
  <2>3. /\ sumUnReadNotification' \in Int
        /\ listNotification' \in Seq(Ids) /\ pushes' \in Seq(Ids)
    BY <1>6 DEF LogOut, clearCache
  <2> QED
    BY <1>6, <2>1, <2>2, <2>3 DEF LogOut, clearCache, Listed, TypeOK
<1>7. CASE LogIn
  <2>1. loggedIn' \in BOOLEAN
    BY <1>7 DEF LogIn
  <2> QED
    BY <1>7, <2>1 DEF LogIn, TypeOK
<1>8. ASSUME NEW id \in Ids, openMeetingDetail(id) PROVE TypeOK'
  <2>1. [notification |-> id, done |-> FALSE, id |-> reads] \in Readings
    BY ConstantsAssumption DEF TypeOK, Readings
  <2>2. readings' \subseteq Readings
    BY <1>8, <2>1 DEF openMeetingDetail, TypeOK
  <2>3. opened' \in BOOLEAN
    BY <1>8 DEF openMeetingDetail
  <2>4. reads' \in 0..MaxReads
    BY <1>8, ConstantsAssumption DEF openMeetingDetail, TypeOK
  <2> QED
    BY <1>8, <2>2, <2>3, <2>4 DEF openMeetingDetail, TypeOK
<1>9. ASSUME NEW q \in pages, PageReply(q) PROVE TypeOK'
  <2>1. /\ listNotification' \in Seq(Ids) /\ pagination' \in [current : Nat, total : Nat]
        /\ shown' \in {"NONE", "LOADING", "SHOW"} /\ base' \in Nat \cup {None}
        /\ listed' \in Nat /\ faults' \subseteq {"overtaken", "unreadable"}
    BY <1>9, PageReplyType
  <2> QED
    BY <1>9, <2>1 DEF PageReply, TypeOK
<1>10. ASSUME NEW r \in readings, ReadReply(r) PROVE TypeOK'
  BY <1>10 DEF ReadReply, updateUnRead, TypeOK
<1>11. CASE CountReply
  <2>1. IsFiniteSet(1..created)
    BY FS_Interval DEF TypeOK
  <2>2. Cardinality(unread) \in Nat
    BY <2>1, FS_Subset, FS_CardinalityType DEF TypeOK
  <2> QED
    BY <1>11, <2>2 DEF CountReply, TypeOK
<1>12. CASE updateListNotification
  <2>1. Head(pushes) \in Ids /\ Tail(pushes) \in Seq(Ids)
    BY <1>12 DEF updateListNotification, TypeOK
  <2>2. <<Head(pushes)>> \o listNotification \in Seq(Ids)
    BY <2>1 DEF TypeOK
  <2> QED
    BY <1>12, <2>1, <2>2 DEF updateListNotification, updateUnRead, Listed, TypeOK
<1>13. CASE Create
  <2>1. created' \in 0..MaxCreated /\ created + 1 \in Ids /\ unread' \subseteq 1..created'
    BY <1>13, ConstantsAssumption DEF Create, TypeOK, Ids
  <2>2. pushes' \in Seq(Ids)
    <3>1. pushes' \in {pushes, Append(pushes, created + 1)}
      BY <1>13 DEF Create
    <3>2. pushes \in Seq(Ids)
      BY DEF TypeOK
    <3>3. Append(pushes, created + 1) \in Seq(Ids)
      BY <2>1, <3>2
    <3> QED
      BY <3>1, <3>2, <3>3
  <2> QED
    BY <1>13, <2>1, <2>2 DEF Create, TypeOK
<1>14. ASSUME NEW r \in readings, MarkRead(r) PROVE TypeOK'
  <2>1. readings' \subseteq Readings
    BY <1>14 DEF MarkRead, TypeOK, Readings
  <2> QED
    BY <1>14, <2>1 DEF MarkRead, TypeOK
<1>15. CASE UNCHANGED vars
  BY <1>15 DEF vars, TypeOK
<1> QED
  BY <1>1, <1>2, <1>3, <1>4, <1>5, <1>6, <1>7, <1>8, <1>9, <1>10, <1>11, <1>12, <1>13,
     <1>14, <1>15 DEF Next, Replies

(* Every reachable state is well typed: no page 0 is asked for, and the    *)
(* list holds notifications of the server only.                            *)
THEOREM TypeCorrect == Spec => []TypeOK
<1>1. ASSUME Init PROVE TypeOK
  <2>1. /\ isLoading \in BOOLEAN /\ loadMore \in BOOLEAN
        /\ opened \in BOOLEAN /\ loggedIn \in BOOLEAN
    BY <1>1 DEF Init
  <2>2. pagination \in [current : Nat, total : Nat]
    BY <1>1 DEF Init, NoPages
  <2>3. /\ requests \in 0..MaxRequests /\ reads \in 0..MaxReads
        /\ logouts \in 0..MaxLogouts /\ counts \in Nat /\ sumUnReadNotification \in Int
    BY <1>1, ConstantsAssumption DEF Init
  <2>4. listNotification \in Seq(Ids) /\ pushes \in Seq(Ids)
    BY <1>1 DEF Init
  <2> QED
    BY <1>1, <2>1, <2>2, <2>3, <2>4 DEF Init, TypeOK
<1>2. TypeOK /\ [Next]_vars => TypeOK'
  BY TypeStep
<1> QED
  BY <1>1, <1>2, PTL DEF Spec

-----------------------------------------------------------------------------
(* The list is the first pages of the feed                                 *)

(* The page a scroll asks for is the one after those listed, unless the    *)
(* pagination was reset: then it asks for none.                            *)
AsksNext ==
  base # None /\ faults = {} => pagination = NoPages \/ pagination.current = listed

Inv == Paged /\ OneNextPage /\ AsksNext

pageScope == <<listNotification, pagination, base, listed, faults, pages, isLoading>>

LEMMA PagedUntouched ==
  ASSUME Inv, UNCHANGED pageScope
  PROVE  Inv'
BY DEF Inv, Paged, OneNextPage, AsksNext, pageScope

LEMMA PagedUnknown ==
  ASSUME ~(base' # None /\ faults' = {})
  PROVE  Inv'
BY DEF Inv, Paged, OneNextPage, AsksNext

LEMMA ListedKnown ==
  ASSUME NEW b, NEW k, NEW f, Listed(b, k, f), base' # None
  PROVE  b # None /\ base' = b /\ listed' = k /\ faults' = f
BY DEF Listed

(* What leaves the list the first pages of a feed has found it so, or is a *)
(* first page that overtakes no other.                                     *)
LEMMA ReplyFeed ==
  ASSUME NEW q \in pages, PageReply(q), base' # None, faults' = {}
  PROVE  /\ q.isLoadMore => base # None /\ faults = {}
         /\ ~q.isLoadMore => Overtaken(q) = {}
<1>1. ASSUME NEW n \in q.from..created, PageShown(q, n)
      PROVE  /\ q.isLoadMore => base # None /\ faults = {}
             /\ ~q.isLoadMore => Overtaken(q) = {}
  <2>1. ASSUME q.isLoadMore PROVE base # None /\ faults = {}
    <3>1. Listed(IF n = base THEN base ELSE None, listed + 1, faults)
      BY <1>1, <2>1 DEF PageShown
    <3>2. (IF n = base THEN base ELSE None) # None /\ faults' = faults
      BY <3>1, ListedKnown
    <3> QED
      BY <3>2
  <2>2. ASSUME ~q.isLoadMore PROVE Overtaken(q) = {}
    <3>1. Listed(IF PageOf(n, q.page) = <<>> THEN None ELSE n, 1, Overtaken(q))
      BY <1>1, <2>2 DEF PageShown
    <3>2. faults' = Overtaken(q)
      BY <3>1, ListedKnown
    <3> QED
      BY <3>2
  <2> QED
    BY <2>1, <2>2
<1>2. ASSUME NEW f, Listed(base, listed, faults \cup Overtaken(q) \cup f)
      PROVE  base # None /\ faults = {} /\ Overtaken(q) = {}
  <2>1. base # None /\ faults' = faults \cup Overtaken(q) \cup f
    BY <1>2, ListedKnown
  <2> QED
    BY <2>1
<1>3. CASE Listed(base, listed, faults \cup Overtaken(q))
  <2>1. faults \cup Overtaken(q) = faults \cup Overtaken(q) \cup {}
    OBVIOUS
  <2>2. Listed(base, listed, faults \cup Overtaken(q) \cup {})
    BY <1>3, <2>1
  <2> QED
    BY <1>2, <2>2
<1>4. CASE Listed(base, listed, faults \cup Overtaken(q) \cup {"unreadable"})
  BY <1>2, <1>4
<1> QED
  BY <1>1, <1>3, <1>4 DEF PageReply, PageFailed

(* Whatever a reply does to the list, it leaves no next page under way to  *)
(* a list that is still the first pages of a feed.                         *)
LEMMA NextPageOver ==
  ASSUME Inv, NEW q \in pages, PageReply(q), base' # None, faults' = {}
  PROVE  \A p \in pages' : ~p.isLoadMore
<1>1. pages' = pages \ {q}
  BY DEF PageReply
<1>2. CASE q.isLoadMore
  <2>1. base # None /\ faults = {}
    BY <1>2, ReplyFeed
  <2> QED
    BY <1>1, <1>2, <2>1 DEF Inv, OneNextPage
<1>3. CASE ~q.isLoadMore
  <2>1. Overtaken(q) = {}
    BY <1>3, ReplyFeed
  <2> QED
    BY <1>1, <1>3, <2>1 DEF Overtaken
<1> QED
  BY <1>2, <1>3

(* The next page continues the list where it ends.                         *)
LEMMA NextPageFits ==
  ASSUME TypeOK, Inv, NEW q \in pages, NEW n \in q.from..created, PageShown(q, n),
         q.isLoadMore, base' # None, faults' = {}
  PROVE  Paged' /\ AsksNext'
<1> DEFINE before == listed * PerPage
           page   == PageOf(n, q.page)
<1>1. base = n /\ base' = n /\ base # None /\ faults = {} /\ listed' = listed + 1
  <2>1. Listed(IF n = base THEN base ELSE None, listed + 1, faults)
    BY DEF PageShown
  <2>2. /\ (IF n = base THEN base ELSE None) # None /\ faults' = faults
        /\ base' = (IF n = base THEN base ELSE None) /\ listed' = listed + 1
    BY <2>1, ListedKnown
  <2> QED
    BY <2>2
<1>2. q.page = listed + 1 /\ listed' = q.page /\ pagination'.current = q.page
  BY <1>1 DEF Inv, OneNextPage, PageShown
<1>3. /\ n \in Nat /\ q.page \in Nat \ {0} /\ PerPage \in Nat \ {0}
      /\ listed \in Nat /\ listNotification \in Seq(Ids)
  BY ConstantsAssumption DEF TypeOK, Pages
<1>4. before \in Nat /\ q.page * PerPage = before + PerPage /\ (q.page - 1) * PerPage = before
  <2>1. q.page - 1 = listed
    BY <1>2, <1>3
  <2> QED
    BY <1>3, <2>1, PageStart
<1>5. /\ \A i \in 1..Len(listNotification) : listNotification[i] = n + 1 - i
      /\ Len(listNotification) = IF before < n THEN before ELSE n
  BY <1>1 DEF Inv, Paged
<1>6. /\ page \in Seq(1..n)
      /\ n - before <= 0 => page = <<>>
      /\ n - before > 0 => Len(page) = IF n - before < PerPage THEN n - before ELSE PerPage
      /\ \A i \in 1..Len(page) : page[i] = n - before + 1 - i
  <2> DEFINE start == (q.page - 1) * PerPage
  <2>1. /\ page \in Seq(1..n)
        /\ n - start <= 0 => page = <<>>
        /\ n - start > 0 => Len(page) = IF n - start < PerPage THEN n - start ELSE PerPage
        /\ \A i \in 1..Len(page) : page[i] = n - start + 1 - i
    BY <1>3, PageElements
  <2>2. start = before
    BY <1>4
  <2> HIDE DEF start, before, page
  <2> QED
    BY <2>1, <2>2
<1>7. listNotification' = IF page = <<>> THEN listNotification ELSE listNotification \o page
  BY DEF PageShown
<1> HIDE DEF before, page
<1>8. CASE n - before <= 0
  <2>1. listNotification' = listNotification
    BY <1>6, <1>7, <1>8
  <2>2. Len(listNotification) = n
    BY <1>3, <1>4, <1>5, <1>8
  <2>3. ~(q.page * PerPage < n)
    BY <1>3, <1>4, <1>8
  <2> QED
    BY <1>1, <1>2, <1>5, <2>1, <2>2, <2>3 DEF Paged, AsksNext
<1>9. CASE n - before > 0
  <2>1. Len(page) \in Nat \ {0} /\ page # <<>> /\ page \in Seq(Nat) /\ listNotification \in Seq(Nat)
    <3>1. Len(page) \in Nat \ {0}
      BY <1>3, <1>4, <1>6, <1>9
    <3>2. page # <<>>
      BY <3>1
    <3>3. page \in Seq(Nat)
      <4>1. 1..n \subseteq Nat
        OBVIOUS
      <4> QED
        BY <1>6, <4>1, SeqOfMore
    <3>4. listNotification \in Seq(Nat)
      <4>1. Ids \subseteq Nat
        BY DEF Ids
      <4> QED
        BY <1>3, <4>1, SeqOfMore
    <3> QED
      BY <3>1, <3>2, <3>3, <3>4
  <2>2. listNotification' = listNotification \o page
    BY <1>7, <2>1
  <2>3. Len(listNotification) = before
    BY <1>3, <1>4, <1>5, <1>9
  <2>4. /\ Len(listNotification') = before + Len(page)
        /\ \A i \in 1..Len(listNotification') :
             listNotification'[i] = IF i <= before THEN listNotification[i] ELSE page[i - before]
    BY <2>1, <2>2, <2>3, ConcatElements
  <2>5. \A i \in 1..Len(listNotification') : listNotification'[i] = n + 1 - i
    <3> SUFFICES ASSUME NEW i \in 1..Len(listNotification')
                 PROVE  listNotification'[i] = n + 1 - i
      OBVIOUS
    <3>1. CASE i <= before
      BY <1>4, <1>5, <2>3, <2>4, <3>1
    <3>2. CASE ~(i <= before)
      <4>1. i - before \in 1..Len(page)
        BY <1>4, <2>1, <2>4, <3>2
      <4>2. page[i - before] = n - before + 1 - (i - before)
        BY <1>6, <4>1
      <4> QED
        BY <1>3, <1>4, <2>4, <3>2, <4>2
    <3> QED
      BY <3>1, <3>2
  <2>6. Len(listNotification') = IF q.page * PerPage < n THEN q.page * PerPage ELSE n
    <3>1. Len(page) = IF n - before < PerPage THEN n - before ELSE PerPage
      BY <1>6, <1>9
    <3>2. Len(listNotification') = before + Len(page)
      BY <2>4
    <3>3. Len(listNotification') = IF before + PerPage < n THEN before + PerPage ELSE n
      BY <1>3, <1>4, <3>1, <3>2
    <3> QED
      BY <1>4, <3>3
  <2> QED
    BY <1>1, <1>2, <2>5, <2>6 DEF Paged, AsksNext
<1> QED
  BY <1>3, <1>4, <1>8, <1>9

(* A first page is the whole list.                                         *)
LEMMA FirstPageFits ==
  ASSUME TypeOK, NEW q \in pages, NEW n \in q.from..created, PageShown(q, n),
         ~q.isLoadMore, q.page = 1, base' # None
  PROVE  Paged' /\ AsksNext'
<1> DEFINE page == PageOf(n, 1)
<1>1. page # <<>> /\ base' = n /\ listed' = 1
  <2>1. Listed(IF page = <<>> THEN None ELSE n, 1, Overtaken(q))
    BY DEF PageShown
  <2>2. /\ (IF page = <<>> THEN None ELSE n) # None
        /\ base' = (IF page = <<>> THEN None ELSE n) /\ listed' = 1
    BY <2>1, ListedKnown
  <2> QED
    BY <2>2
<1>6. listNotification' = page /\ pagination'.current = 1
  BY <1>1 DEF PageShown
<1>2. n \in Nat /\ PerPage \in Nat \ {0} /\ 1 \in Nat \ {0}
  BY ConstantsAssumption DEF TypeOK, Pages
<1>3. n - (1 - 1) * PerPage = n /\ 1 * PerPage = PerPage
  BY <1>2
<1>4. /\ n <= 0 => page = <<>>
      /\ n > 0  => Len(page) = IF n < PerPage THEN n ELSE PerPage
      /\ \A i \in 1..Len(page) : page[i] = n + 1 - i
  BY <1>2, <1>3, PageElements
<1> HIDE DEF page
<1>5. Len(page) = IF PerPage < n THEN PerPage ELSE n
  BY <1>1, <1>2, <1>4
<1> QED
  BY <1>1, <1>3, <1>4, <1>5, <1>6 DEF Paged, AsksNext

(* The steps that ask for a first page: a refresh resets the pagination    *)
(* and takes isLoading up.                                                 *)
LEMMA AskFirstStep ==
  ASSUME Inv, askPage(1, FALSE), UNCHANGED <<listNotification, base, listed, faults>>,
         \/ UNCHANGED <<pagination, isLoading>>
         \/ pagination' = NoPages /\ isLoading' = TRUE
  PROVE  Inv'
<1>1. \A q \in pages' : q.isLoadMore => q \in pages
  BY DEF askPage
<1>2. Paged' /\ AsksNext'
  BY DEF Inv, Paged, AsksNext, NoPages
<1>3. OneNextPage'
  BY <1>1 DEF Inv, OneNextPage
<1> QED
  BY <1>2, <1>3 DEF Inv

LEMMA LoadMoreStep ==
  ASSUME TypeOK, Inv, loadMoreNotification
  PROVE  Inv'
<1>1. CASE pagination.current < pagination.total
  <2> DEFINE new == [page |-> pagination.current + 1, isLoadMore |-> TRUE,
                     from |-> created, id |-> requests]
  <2>1. ~isLoading /\ UNCHANGED <<listNotification, base, listed, faults, pagination>>
    BY DEF loadMoreNotification, listVars
  <2>2. isLoading' /\ pages' = pages \cup {new}
    BY <1>1 DEF loadMoreNotification, askPage, TypeOK
  <2>3. new.isLoadMore /\ new.page = pagination.current + 1
    OBVIOUS
  <2>4. base # None /\ faults = {} => \A q \in pages : ~q.isLoadMore
    BY <2>1 DEF Inv, OneNextPage
  <2>5. base # None /\ faults = {} => pagination.current = listed
    BY <1>1 DEF Inv, AsksNext, NoPages
  <2> HIDE DEF new
  <2>6. OneNextPage'
    BY <2>1, <2>2, <2>3, <2>4, <2>5 DEF OneNextPage
  <2> QED
    BY <2>1, <2>6 DEF Inv, Paged, AsksNext
<1>2. CASE ~(pagination.current < pagination.total)
  <2>1. UNCHANGED pageScope
    BY <1>2 DEF loadMoreNotification, listVars, pageScope
  <2> QED
    BY <2>1, PagedUntouched
<1> QED
  BY <1>1, <1>2

LEMMA PageReplyStep ==
  ASSUME TypeOK, Inv, NEW q \in pages, PageReply(q), ~q.isLoadMore => q.page = 1
  PROVE  Inv'
<1>1. CASE ~(base' # None /\ faults' = {})
  BY <1>1, PagedUnknown
<1>2. CASE base' # None /\ faults' = {}
  <2>1. OneNextPage'
    BY <1>2, NextPageOver DEF OneNextPage
  <2>2. ASSUME NEW n \in q.from..created, PageShown(q, n) PROVE Paged' /\ AsksNext'
    BY <1>2, <2>2, NextPageFits, FirstPageFits
  <2>3. ASSUME Listed(base, listed, faults \cup Overtaken(q)),
               UNCHANGED <<listNotification, pagination>>
        PROVE  Paged' /\ AsksNext'
    <3>1. base' = base /\ listed' = listed /\ faults' = faults \cup Overtaken(q)
      BY <1>2, <2>3, ListedKnown
    <3>2. base # None /\ faults = {}
      BY <1>2, <3>1
    <3> QED
      BY <2>3, <3>1, <3>2 DEF Inv, Paged, AsksNext
  <2>4. ~Listed(base, listed, faults \cup Overtaken(q) \cup {"unreadable"})
    BY <1>2, ListedKnown
  <2>5. Paged' /\ AsksNext'
    BY <2>2, <2>3, <2>4 DEF PageReply, PageFailed
  <2> QED
    BY <2>1, <2>5 DEF Inv
<1> QED
  BY <1>1, <1>2

FirstPages == \A q \in pages : ~q.isLoadMore => q.page = 1

LEMMA FirstPagesStep ==
  ASSUME FirstPages, [Next]_vars
  PROVE  FirstPages'
<1> USE DEF taskVars
<1>1. ASSUME askPage(1, FALSE) PROVE FirstPages'
  BY <1>1 DEF askPage, FirstPages
<1>2. ASSUME askPage(pagination.current + 1, TRUE) PROVE FirstPages'
  BY <1>2 DEF askPage, FirstPages
<1>3. ASSUME pages' \subseteq pages PROVE FirstPages'
  BY <1>3 DEF FirstPages
<1>4. CASE OpenLayout \/ refreshData
  BY <1>1, <1>4 DEF OpenLayout, refreshData
<1>5. CASE loadMoreNotification
  BY <1>2, <1>3, <1>5 DEF loadMoreNotification
<1>6. CASE CloseLayout \/ getUnReadNotification \/ LogOut \/ LogIn
  BY <1>3, <1>6 DEF CloseLayout, getUnReadNotification, LogOut, LogIn
<1>7. CASE \E id \in Ids : openMeetingDetail(id)
  BY <1>3, <1>7 DEF openMeetingDetail
<1>8. CASE Replies
  BY <1>3, <1>8 DEF Replies, PageReply, ReadReply, CountReply
<1>9. CASE updateListNotification \/ Create \/ (\E r \in readings : MarkRead(r))
  BY <1>3, <1>9 DEF updateListNotification, Create, MarkRead
<1>10. CASE UNCHANGED vars
  BY <1>3, <1>10 DEF vars
<1> QED
  BY <1>4, <1>5, <1>6, <1>7, <1>8, <1>9, <1>10 DEF Next

LEMMA PagedStep ==
  ASSUME TypeOK, FirstPages, Inv, [Next]_vars
  PROVE  Inv'
<1> USE DEF listVars, feedVars, loadVars, taskVars
<1>1. CASE OpenLayout \/ refreshData
  <2>1. /\ askPage(1, FALSE) /\ UNCHANGED <<listNotification, base, listed, faults>>
        /\ \/ UNCHANGED <<pagination, isLoading>>
           \/ pagination' = NoPages /\ isLoading' = TRUE
    BY <1>1 DEF OpenLayout, refreshData
  <2> QED
    BY <2>1, AskFirstStep
<1>2. CASE LogOut \/ updateListNotification
  BY <1>2, PagedUnknown DEF LogOut, clearCache, updateListNotification, Listed
<1>3. CASE loadMoreNotification
  BY <1>3, LoadMoreStep
<1>4. ASSUME NEW q \in pages, PageReply(q) PROVE Inv'
  BY <1>4, PageReplyStep DEF FirstPages
<1>5. CASE CloseLayout \/ getUnReadNotification \/ LogIn \/ Create
  BY <1>5, PagedUntouched DEF CloseLayout, getUnReadNotification, LogIn, Create, pageScope
<1>6. CASE \E id \in Ids : openMeetingDetail(id)
  BY <1>6, PagedUntouched DEF openMeetingDetail, pageScope
<1>7. ASSUME NEW r \in readings, ReadReply(r) \/ MarkRead(r) PROVE Inv'
  BY <1>7, PagedUntouched DEF ReadReply, MarkRead, pageScope
<1>8. CASE CountReply
  BY <1>8, PagedUntouched DEF CountReply, pageScope
<1>9. CASE UNCHANGED vars
  BY <1>9, PagedUntouched DEF vars, pageScope
<1> QED
  BY <1>1, <1>2, <1>3, <1>4, <1>5, <1>6, <1>7, <1>8, <1>9 DEF Next, Replies

LEMMA InvAlways == Spec => []Inv
<1>1. Init => Inv /\ FirstPages
  BY DEF Init, Inv, Paged, OneNextPage, AsksNext, FirstPages
<1>2. TypeOK /\ Inv /\ FirstPages /\ [Next]_vars => Inv' /\ FirstPages'
  BY PagedStep, FirstPagesStep
<1> QED
  BY <1>1, <1>2, TypeCorrect, PTL DEF Spec

(* However opens, refreshes, scrolls, failures, late replies and logouts   *)
(* follow each other, the list is the first pages of the feed it was read  *)
(* from, for every page size, number of notifications and bound; but for   *)
(* the two events that the history faults names, a first page that         *)
(* overtakes a next one and a page read only in part.                      *)
THEOREM PagedCorrect == Spec => []Paged
<1>1. Inv => Paged
  BY DEF Inv
<1> QED
  BY <1>1, InvAlways, PTL

(* Short of those two events such a list has at most one page under way    *)
(* that will be appended, the one it lacks, and isLoading is up until then,*)
(* also when a refresh was asked for in between.                           *)
THEOREM OneNextPageCorrect == Spec => []OneNextPage
<1>1. Inv => OneNextPage
  BY DEF Inv
<1> QED
  BY <1>1, InvAlways, PTL

-----------------------------------------------------------------------------
(* The loading flag                                                        *)

(* isLoading is never left up with no page under way, so that the list can *)
(* always be loaded further.                                               *)
THEOREM LoadingHasRequestCorrect == Spec => []LoadingHasRequest
<1> USE DEF listVars, loadVars, taskVars
<1>1. Init => LoadingHasRequest
  BY DEF Init, LoadingHasRequest
<1>2. ASSUME LoadingHasRequest, [Next]_vars PROVE LoadingHasRequest'
  <2>1. ASSUME NEW p, NEW m, askPage(p, m) PROVE pages' # {}
    BY <2>1 DEF askPage
  <2>2. CASE OpenLayout \/ refreshData \/ loadMoreNotification
    BY <1>2, <2>1, <2>2 DEF OpenLayout, refreshData, loadMoreNotification, LoadingHasRequest
  <2>3. CASE LogOut
    BY <2>3 DEF LogOut, clearCache, LoadingHasRequest
  <2>4. ASSUME NEW q \in pages, PageReply(q) PROVE LoadingHasRequest'
    BY <2>4 DEF PageReply, LoadingHasRequest
  <2>5. ASSUME UNCHANGED <<isLoading, pages>> PROVE LoadingHasRequest'
    BY <1>2, <2>5 DEF LoadingHasRequest
  <2>6. CASE CloseLayout \/ getUnReadNotification \/ LogIn
    BY <2>5, <2>6 DEF CloseLayout, getUnReadNotification, LogIn
  <2>7. CASE (\E id \in Ids : openMeetingDetail(id)) \/ CountReply \/ updateListNotification
    BY <2>5, <2>7 DEF openMeetingDetail, CountReply, updateListNotification
  <2>8. ASSUME NEW r \in readings, ReadReply(r) \/ MarkRead(r) PROVE LoadingHasRequest'
    BY <2>5, <2>8 DEF ReadReply, MarkRead
  <2>9. CASE Create \/ UNCHANGED vars
    BY <2>5, <2>9 DEF Create, vars
  <2> QED
    BY <1>2, <2>2, <2>3, <2>4, <2>6, <2>7, <2>8, <2>9 DEF Next, Replies
<1> QED
  BY <1>1, <1>2, PTL DEF Spec

=============================================================================
