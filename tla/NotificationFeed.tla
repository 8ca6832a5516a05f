-------------------------- MODULE NotificationFeed --------------------------
(***************************************************************************)
(* The list of notifications and the number of unread ones that            *)
(* NotificationBloc keeps: pages asked for over HTTP, notifications pushed *)
(* by the Echo socket (SocketHelperOther), meetings opened from the list   *)
(* (HomeBloc.openMeetingDetail) and the logout that clears it all.         *)
(*                                                                         *)
(* A notification is its number on the server, the newest the highest.     *)
(* What it announces is left out: each is of a meeting.                    *)
(***************************************************************************)
EXTENDS Integers, Sequences, FiniteSets

CONSTANTS
  PerPage,       (* notifications of a page                                *)
  None,          (* no value                                               *)
  MaxCreated,    (* bound: notifications on the server                     *)
  MaxRequests,   (* bound: pages and counts asked for                      *)
  MaxReads,      (* bound: meetings opened from the list                   *)
  MaxLogouts     (* bound: logouts                                         *)

ASSUME ConstantsAssumption ==
  /\ PerPage \in Nat \ {0} /\ None \notin Nat
  /\ MaxCreated \in Nat /\ MaxRequests \in Nat /\ MaxReads \in Nat /\ MaxLogouts \in Nat

VARIABLES
  (* NotificationBloc; whether NotificationLayout is open, and whether the *)
  (* user is logged in                                                     *)
  listNotification, sumUnReadNotification, pagination, isLoading, loadMore, shown,
  opened, loggedIn,
  (* suspended continuations: page, count and read requests                *)
  pages, counts, readings,
  (* server: notifications created, those unread; pushes under way         *)
  created, unread, pushes,
  (* history: the size of the feed the listed pages are of, if of one, and *)
  (* their number; what has disturbed the paging since the first page      *)
  base, listed, faults,
  (* bounds *)
  requests, reads, logouts

listVars   == <<listNotification, shown, base, listed, faults>>
feedVars   == <<base, listed, faults>>
screenVars == <<opened, loggedIn>>
loadVars   == <<pagination, isLoading, loadMore>>
taskVars   == <<pages, counts, readings>>
serverVars == <<created, unread, pushes>>
boundVars  == <<requests, reads, logouts>>
vars == <<listVars, sumUnReadNotification, loadVars, screenVars, taskVars, serverVars,
          boundVars>>

Ids   == 1..MaxCreated
Pages == [page : Nat \ {0}, isLoadMore : BOOLEAN, from : 0..MaxCreated, id : Nat]
Readings == [notification : Ids, done : BOOLEAN, id : Nat]

TypeOK ==
  /\ listNotification \in Seq(Ids) /\ sumUnReadNotification \in Int
  /\ pagination \in [current : Nat, total : Nat]
  /\ isLoading \in BOOLEAN /\ loadMore \in BOOLEAN
  /\ shown \in {"NONE", "LOADING", "SHOW"} /\ opened \in BOOLEAN
  /\ loggedIn \in BOOLEAN
  /\ pages \subseteq Pages /\ counts \in Nat /\ readings \subseteq Readings
  /\ created \in 0..MaxCreated /\ unread \subseteq 1..created
  /\ pushes \in Seq(Ids)
  /\ base \in Nat \cup {None} /\ listed \in Nat
  /\ faults \subseteq {"overtaken", "unreadable"}
  /\ requests \in 0..MaxRequests /\ reads \in 0..MaxReads /\ logouts \in 0..MaxLogouts

NoPages == [current |-> 0, total |-> 0]

Init ==
  /\ listNotification = <<>> /\ sumUnReadNotification = 0 /\ pagination = NoPages
  /\ isLoading = FALSE /\ loadMore = FALSE /\ shown = "LOADING"
  /\ opened = FALSE /\ loggedIn = TRUE
  /\ pages = {} /\ counts = 0 /\ readings = {}
  /\ created \in 0..MaxCreated /\ unread = 1..created /\ pushes = <<>>
  /\ base = None /\ listed = 0 /\ faults = {}
  /\ requests = 0 /\ reads = 0 /\ logouts = 0

-----------------------------------------------------------------------------
(* The server's pages of a feed of n notifications (external)              *)

PageOf(n, p) ==
  LET first == n - (p - 1) * PerPage
  IN [i \in 1..(IF first < PerPage THEN first ELSE PerPage) |-> first + 1 - i]

PagesOf(n) == (n + PerPage - 1) \div PerPage

-----------------------------------------------------------------------------
(* NotificationBloc                                                        *)

updateUnRead(isUpGrade) ==
  sumUnReadNotification' = sumUnReadNotification + (IF isUpGrade THEN 1 ELSE -1)

Elements(s) == {s[i] : i \in 1..Len(s)}

showListOrNone(list) == shown' = IF list = <<>> THEN "NONE" ELSE "SHOW"

(* getAllNotification up to its reply.                                     *)
askPage(p, isLoadMore) ==
  /\ requests < MaxRequests /\ requests' = requests + 1
  /\ pages' = pages \cup {[page |-> p, isLoadMore |-> isLoadMore,
                               from |-> created, id |-> requests]}

(* NotificationLayout.initState: the stream's builder starts with LOADING. *)
OpenLayout ==
  /\ loggedIn /\ ~opened /\ opened' = TRUE
  /\ shown' = "LOADING"
  /\ askPage(1, FALSE)
  /\ UNCHANGED <<listNotification, feedVars, sumUnReadNotification, loadVars, loggedIn,
                 counts, readings, serverVars, reads, logouts>>

CloseLayout ==
  /\ opened /\ opened' = FALSE
  /\ UNCHANGED <<listVars, sumUnReadNotification, loadVars, loggedIn, taskVars, serverVars,
                 boundVars>>

refreshData ==
  /\ opened
  /\ pagination' = NoPages /\ isLoading' = TRUE
  /\ askPage(1, FALSE)
  /\ UNCHANGED <<listVars, sumUnReadNotification, loadMore, screenVars, counts, readings,
                 serverVars, reads, logouts>>

(* Faulty variants: nothing keeps a second page from being asked for; the  *)
(* page asked for is the last one again.                                   *)
loadMoreUnguarded ==
  /\ opened /\ pagination.current < pagination.total
  /\ isLoading' = TRUE /\ loadMore' = TRUE
  /\ askPage(pagination.current + 1, TRUE)
  /\ UNCHANGED <<listVars, sumUnReadNotification, pagination, screenVars, counts,
                 readings, serverVars, reads, logouts>>

loadMoreSamePage ==
  /\ opened /\ ~isLoading /\ pagination.current <= pagination.total
  /\ isLoading' = TRUE /\ loadMore' = TRUE
  /\ askPage(pagination.current, TRUE)
  /\ UNCHANGED <<listVars, sumUnReadNotification, pagination, screenVars, counts,
                 readings, serverVars, reads, logouts>>

(* The list is scrolled to its end.                                        *)
loadMoreNotification ==
  /\ opened /\ ~isLoading
  /\ \/ /\ pagination.current < pagination.total
        /\ isLoading' = TRUE /\ loadMore' = TRUE
        /\ askPage(pagination.current + 1, TRUE)
     \/ /\ pagination.current >= pagination.total
        /\ loadMore' = FALSE
        /\ UNCHANGED <<isLoading, pages, requests>>
  /\ UNCHANGED <<listVars, sumUnReadNotification, pagination, screenVars, counts,
                 readings, serverVars, reads, logouts>>

(* The history: a feed of size b, k pages of it listed and the faults f.   *)
Listed(b, k, f) ==
  /\ base' = b
  /\ listed' = IF b = None THEN 0 ELSE k
  /\ faults' = IF b = None THEN {} ELSE f

(* The request of a first page ends while a next page is under way.        *)
Overtaken(q) ==
  IF ~q.isLoadMore /\ (\E p \in pages : p.isLoadMore) THEN {"overtaken"} ELSE {}

(* getAllNotification: the page as of a feed of n notifications.  A page   *)
(* that is empty leaves the list as it is.                                 *)
PageShown(q, n) ==
  LET page == PageOf(n, q.page)
  IN /\ pagination' = [current |-> q.page, total |-> PagesOf(n)]
     /\ \/ /\ page = <<>>
           /\ IF q.isLoadMore THEN showListOrNone(listNotification) ELSE shown' = "NONE"
           /\ UNCHANGED listNotification
        \/ /\ page # <<>>
           /\ listNotification' = IF q.isLoadMore THEN listNotification \o page ELSE page
           /\ shown' = "SHOW"
     /\ \/ q.isLoadMore /\ Listed(IF n = base THEN base ELSE None, listed + 1, faults)
        \/ ~q.isLoadMore /\ Listed(IF page = <<>> THEN None ELSE n, 1, Overtaken(q))

(* An error, the time limit, or an answer that cannot be read: when its    *)
(* notifications cannot be, its pagination has been taken over already.    *)
PageFailed(q) ==
  /\ IF q.isLoadMore THEN showListOrNone(listNotification) ELSE shown' = "NONE"
  /\ \/ UNCHANGED pagination /\ Listed(base, listed, faults \cup Overtaken(q))
     \/ /\ \E n \in q.from..created :
             pagination' = [current |-> q.page, total |-> PagesOf(n)]
        /\ Listed(base, listed, faults \cup Overtaken(q) \cup {"unreadable"})
  /\ UNCHANGED listNotification

(* Faulty variant: an error leaves isLoading up.                           *)
PageReplyStuck(q) ==
  /\ q \in pages /\ pages' = pages \ {q}
  /\ \/ \E n \in q.from..created : PageShown(q, n) /\ isLoading' = FALSE
     \/ PageFailed(q) /\ UNCHANGED isLoading
  /\ UNCHANGED <<sumUnReadNotification, loadMore, screenVars, counts, readings,
                 serverVars, boundVars>>

(* The reply, an error or 60 seconds later; the third outcome is that of   *)
(* a request made without an access token, which nothing answers.          *)
PageReply(q) ==
  /\ q \in pages /\ pages' = pages \ {q}
  /\ \/ \E n \in q.from..created : PageShown(q, n)
     \/ PageFailed(q)
     \/ /\ logouts > 0 /\ Listed(base, listed, faults \cup Overtaken(q))
        /\ UNCHANGED <<listNotification, shown, pagination>>
  /\ isLoading' = FALSE
  /\ UNCHANGED <<sumUnReadNotification, loadMore, screenVars, counts, readings,
                 serverVars, boundVars>>

(* DashboardLayout.initState                                               *)
getUnReadNotification ==
  /\ loggedIn
  /\ requests < MaxRequests /\ requests' = requests + 1
  /\ counts' = counts + 1
  /\ UNCHANGED <<listVars, sumUnReadNotification, loadVars, screenVars, pages, readings,
                 serverVars, reads, logouts>>

(* The count, 0 after an error, or nothing (no token, or not JSON).        *)
CountReply ==
  /\ counts > 0 /\ counts' = counts - 1
  /\ sumUnReadNotification' \in {Cardinality(unread), 0, sumUnReadNotification}
  /\ UNCHANGED <<listVars, loadVars, screenVars, pages, readings, serverVars, boundVars>>

(* A push from the Echo socket.                                            *)
updateListNotification ==
  /\ pushes # <<>> /\ pushes' = Tail(pushes)
  /\ listNotification' = <<Head(pushes)>> \o listNotification
  /\ shown' = "SHOW" /\ Listed(None, 0, {})
  /\ updateUnRead(TRUE)
  /\ UNCHANGED <<loadVars, screenVars, taskVars, created, unread, boundVars>>

(* HomeBloc.openMeetingDetail: the list is closed, the server told.        *)
openMeetingDetail(id) ==
  /\ opened /\ shown = "SHOW" /\ id \in Elements(listNotification)
  /\ opened' = FALSE
  /\ reads < MaxReads /\ reads' = reads + 1
  /\ readings' = readings \cup {[notification |-> id, done |-> FALSE, id |-> reads]}
  /\ UNCHANGED <<listVars, sumUnReadNotification, loadVars, loggedIn, pages, counts,
                 serverVars, requests, logouts>>

(* readNotification was answered.  updateListNotificationElement throws    *)
(* for an unread element (its read_at is null): the list is not redrawn.   *)
ReadReply(r) ==
  /\ r \in readings /\ readings' = readings \ {r}
  /\ \/ /\ r.done
        /\ updateUnRead(FALSE)
        /\ \/ shown' = "SHOW"
           \/ r.notification \in Elements(listNotification) /\ UNCHANGED shown
     \/ UNCHANGED <<sumUnReadNotification, shown>>
  /\ UNCHANGED <<listNotification, feedVars, loadVars, screenVars, pages, counts, serverVars,
                 boundVars>>

(* The count is set to 0 and then raised by updateUnRead(true).            *)
clearCache ==
  /\ sumUnReadNotification' = 1
  /\ listNotification' = <<>> /\ Listed(None, 0, {})
  /\ shown' = "NONE"
  /\ isLoading' = FALSE

(* AuthBloc.logOut, answered by the chat server.                           *)
LogOut ==
  /\ loggedIn /\ loggedIn' = FALSE /\ opened' = FALSE
  /\ logouts < MaxLogouts /\ logouts' = logouts + 1
  /\ clearCache
  /\ pushes' = <<>>
  /\ UNCHANGED <<pagination, loadMore, taskVars, created, unread, requests, reads>>

(* AuthBloc.loginSuccess connects the Echo socket again.                   *)
LogIn ==
  /\ ~loggedIn /\ loggedIn' = TRUE
  /\ UNCHANGED <<listVars, sumUnReadNotification, loadVars, opened, taskVars, serverVars,
                 boundVars>>

-----------------------------------------------------------------------------
(* Server (external): a notification is created and pushed, or its push is *)
(* lost; the request that marks one as read is carried out.                *)

Create ==
  /\ created < MaxCreated
  /\ created' = created + 1 /\ unread' = unread \cup {created + 1}
  /\ \/ loggedIn /\ pushes' = Append(pushes, created + 1)
     \/ UNCHANGED pushes
  /\ UNCHANGED <<listVars, sumUnReadNotification, loadVars, screenVars, taskVars, boundVars>>

MarkRead(r) ==
  /\ r \in readings /\ ~r.done
  /\ readings' = (readings \ {r}) \cup {[r EXCEPT !.done = TRUE]}
  /\ unread' = unread \ {r.notification}
  /\ UNCHANGED <<listVars, sumUnReadNotification, loadVars, screenVars, pages, counts, created,
                 pushes, boundVars>>

-----------------------------------------------------------------------------
Replies == \/ \E q \in pages : PageReply(q)
           \/ \E r \in readings : ReadReply(r)
           \/ CountReply

Next == \/ OpenLayout \/ CloseLayout \/ refreshData \/ loadMoreNotification
        \/ getUnReadNotification \/ LogOut \/ LogIn
        \/ \E id \in Ids : openMeetingDetail(id)
        \/ Replies \/ updateListNotification
        \/ Create \/ \E r \in readings : MarkRead(r)

(* Every request is over after 60 seconds (the timeout of                  *)
(* NotificationServices), and the requests are bounded.                    *)
Spec == Init /\ [][Next]_vars /\ WF_vars(Replies)

-----------------------------------------------------------------------------
(* Properties                                                              *)

(* As long as the pages are of one feed (the server creates nothing, no    *)
(* push arrives, nobody logs out) the list is its first pages, none        *)
(* missing and none twice, over opens, scrolls, failures, and refreshes    *)
(* that overlap a next page answered before them.  Two things, and only    *)
(* these, break it until a first page is listed again: a first page whose  *)
(* request ends before that of a next page (see NextPageOnce), and a page  *)
(* whose pagination can be read but not its notifications.                 *)
Paged ==
  base # None /\ faults = {} =>
    /\ \A i \in 1..Len(listNotification) : listNotification[i] = base + 1 - i
    /\ Len(listNotification) = IF listed * PerPage < base THEN listed * PerPage ELSE base

(* Paged holds because such a list has at most its next page under way,    *)
(* and isLoading is up meanwhile, also when a refresh has reset the        *)
(* pagination since the page was asked for.                                *)
OneNextPage ==
  base # None /\ faults = {} =>
    \A q \in pages :
      q.isLoadMore => /\ isLoading /\ q.page = listed + 1
                      /\ \A p \in pages : p.isLoadMore => p = q

(* isLoading, which stops the list from loading its next page, is up only  *)
(* while a page is under way.                                              *)
LoadingHasRequest == isLoading => pages # {}

(* A list that is loading stops loading.                                   *)
LoadingEnds == isLoading ~> ~isLoading

(* With isLoadMore the next page is loaded: the page under way is not one  *)
(* that another request is already loading.                                *)
NextPageOnce ==
  \A p, q \in pages : p.isLoadMore /\ q.isLoadMore /\ p.page = q.page => p = q

=============================================================================
