# A verification development of the human resource application

The application is a Flutter client (Dart, under `src/lib`) of three servers: a
Rocket.Chat server (a DDP socket for events, HTTP for everything else), the portal
of the company (HTTP: accounts, notifications, meetings, news) and a Laravel Echo
server that pushes notifications.  The client keeps its own idea of what these servers
hold, and each of its components is a set of callbacks that change that idea in the
order in which replies, events and key presses happen to arrive.  That order is what
the modules here explore and what the proofs are about.

Of the native code the repository carries, one library has an algorithm of its own that the
application's pods run: nanopb, the protobuf codec in C under `src/ios/Pods/nanopb`.

Dart runs one callback at a time to its end.  An action of a module is therefore one
callback, or the stretch of an `async` method between two awaits that suspend; what runs
after the await is kept in a variable of pending continuations, and may run in any
state the application has reached by then.

## Components

Paths are under `src/lib`.

**Chat session** (`chat/websocket/ws_helper.dart`, `auth/auth_bloc.dart`,
`core/api_services.dart`).
*State*: the socket, `isConnected`, `isAutoReconnect`, `isAutoLogin`, the action a
`connected` frame triggers (`_actionState`, `_dataRequest`), the account, the screen
(splash, login, home).  *Operations*: open and reopen the socket, send `connect` and
`login`, handle `server_id`, `connected`, `result`; portal login, fingerprint login,
check at the start, logout.  *Talks to*: the chat server over the socket; the
preferences and Hive for the stored account; every other component learns from it that
the user is logged in.  *Hard*: answers are told apart by the state of the helper and not
by their id; the socket is replaced under a login, a logout or a check that is under
way.  *Correct when*: only the current connection is trusted, a login is sent only to a
server that has accepted it, a logout ends the automatic logins, and a dropped
connection is restored without the user.

**Chat room** (`chat/screen/main_chat/chat/chat_bloc.dart`,
`chat/screen/main_chat/chat/chat_layout.dart`, `core/message/message_services.dart`).
*State*: the open room, its messages, the paging offset, the two loading flags, what is
shown.  *Operations*: open, switch, close, leave, synchronise, scroll, send; page
replies; events.  *Talks to*: HTTP for pages and sends, `MainChatBloc` for events, Hive
for the cache, `removeGroup` after failures.  *Hard*: replies name no room and are
applied to whatever room is open; a message comes by up to four ways; the list handed to the
cache is live.  *Correct when*: the list shows the open room, each message once, newest
first; the spinner and the flags come down.

**Message cache** (`core/hive/hive_helper.dart`).  *State*: a box of at most fifty
messages per room, boxes of rooms and accounts.  *Operations*: replace, prepend, read,
delete, each a chain of open, clear, put, close.  *Hard*: the chains of two callers
interleave.  *Correct when*: a box holds the newest messages of its room.

**Socket events and room list** (`chat/screen/main_chat/main_chat_bloc.dart`,
`chat/websocket/ws_helper.dart`).  *State*: groups, direct chats, their order and
unread marks, subscriptions, and the list of groups saved in Hive.  *Operations*: load the
list from the box and then over HTTP, apply `rooms-changed`, leave or drop a group, save.
*Talks to*: the chat server, Hive, the open room.  *Hard*: events, replies that come late,
failures that fall back on the box and departures overlap; a save waits for a delete while the
list it was given goes on changing.  *Correct when*: each group is listed once, as it was last
told of, and the list is said to be empty only when it is.

**Notification feed** (`home/notifications/notification_bloc.dart`,
`core/socket/socket_helper_other.dart`).  *State*: the list, the page reached, the
unread count, `isLoading`.  *Operations*: open, refresh, next page, count, open a
meeting, push, clear at logout.  *Hard*: a refresh and a next page overlap; pushes
shift the pages; a read is counted before or after the count of the server.  *Correct when*:
the list is the first pages of the feed, each page once, and loading ends.

**Leaving and handing over a group**
(`chat/screen/main_chat/layout/channel_action/room_info_bloc.dart`).  *State*: the list
of members a screen has loaded.  *Operations*: load, remove a member, the chain roles ->
new owner -> leave, or delete.  *Talks to*: the chat server, which refuses what is
no longer possible; `MainChatBloc.removeGroup`.  *Hard*: several members do it at
once, on old lists, and a request that was given up may still be carried out, or fail later.  *Correct
when*: a group keeps an owner and is deleted only with its last member.

**nanopb** (`src/ios/Pods/nanopb/pb_decode.c`, `pb_encode.c`; called by the pods
GoogleDataTransport and FirebaseCoreDiagnostics).  *State*: a stream (place and bytes left),
the streams it is borrowed from, the struct that is filled.  *Operations*: read a varint, a
tag, a field of each kind; open and close a substream; skip; encode and count.  *Hard*:
lengths that a buffer claims, arrays that come packed, one by one or in pieces, integers at their
widths.  *Correct when*: no field reads another's bytes, what was encoded is decoded, and
what is counted is what is written.

**Others**: session switch from another application (`AuthBloc.logOutAndReLogin`), push
messages, meetings, forwarding, selection of members and address book, pictures from the
operating system, news and orientation, account screens, widgets, data classes, native
hosts.  `PROJECT.json` lists each of them with its status and the reason.

## Modules

| Module | Models | State and actions |
|---|---|---|
| `WsSession` | the chat session | `conn`, `outq`, `inq`: the socket and its two queues; `isConnected` ... `account`: fields of `WebSocketHelper` by their names; `screen`, `allowGotoHome`: `AuthBloc`; `checks`, `rest`, `saving`, `info`, `logouts`, `clearing`: suspended continuations of `checkAuth`, `loginASGL`, `saveUserInfo`, `getChatUserInfo` and `logOut`; `lateLogins`, `lateLogouts`: requests that timed out and may still fail. `handlerData` is the dispatch of one frame; `OnDone` and `ConnectFails` are the reopening. |
| `ChatSession` | what the session promises | `link`, `permitted`, `asked`, `who`, `told`, `account`; no frames, dialogues or callbacks. `WsSession` implements it (`KeepsSession`). |
| `WsSessionProofs` | | theorems about both |
| `ChatRoom` | the open conversation, its cache, the events that reach it | `listWsMessage`, `offsetHistory`, `isLoadMore`, `isLoadingLatestMsg`, `roomModel`: fields of `ChatBloc`; `shown`: the last state put into its stream; `requests`, `reads`, `saves`, `sending`, `leaving`: what is under way (a request whose first callback has run may stay for a second one, a save for its announcement); `cache`: Hive; `posted`, `events`: the server and the socket. |
| `ChatRoomProofs` | | theorems about it |
| `NotificationFeed` | the notification list | fields of `NotificationBloc` by their names; `pages`, `counts`, `readings`: requests under way; `created`, `unread`, `pushes`: the portal and the Echo socket. |
| `NotificationFeedProofs` | | theorems about it |
| `LeaveGroup` | the information screen of a group, on the phones of all its members | per screen `listUserGroup`, `loading` (the barrier), `call` (its request and the answer); `late`: requests given up here that still arrive; `timedOut`: screens whose request timed out and may still fail; `alive`, `members`, `owners`: the chat server. |
| `LeaveGroupProofs` | | theorems about it |
| `RoomList` | the list of groups and its saved copy | `listGroups`, `shown`: `MainChatBloc`; `box`: the list Hive holds, which may be the object `listGroups` refers to (`Live`); `saves`: saves that wait for their delete; `asked`, `pages`, `late`: requests; `events`: `rooms-changed`; `member`, `at`: the chat server. |
| `RoomListProofs` | | theorems about it |
| `NanopbVarint` | varints and the casts of integer fields | `bitpos`, `result`, `left` by their names; one action per turn of a decoder's loop; `pb_encode_varint`, `pb_enc`, `pb_dec` as operators. |
| `NanopbVarintProofs` | | theorems about it |
| `NanopbMessage` | the decoder of messages | `stack`: the streams open, each with what it fills; `DecodeTag`, `DecodeItem`, `CallCallback`, `EndString`, `EndMessage`: a turn of the loop of the innermost one. |
| `NanopbEncode` | the encoder and the count of its bytes | operators on a message and on a function that gives what the messages in it come to, with the properties that join both directions |
| `NanopbMessageProofs` | | theorems about `NanopbMessage` |
| `NanopbEncodeProofs` | | theorems about `NanopbEncode` |
| `MCChatRoom`, `MCLeaveGroup`, `MCRoomList`, `MCNanopb` | | constants, descriptors, buffers and symmetry of the instances |

The modules of the client are not composed into one.  What couples them is narrow, and each
takes the other side as free: `ChatRoom` and `RoomList` let events stop and be lost at any time
(what `WsSession` does to the socket); `NotificationFeed` has `LogIn` and `LogOut` as two of its
actions; `LeaveGroup` ends in `removeGroup`, which is an action of `RoomList`, as is the
`removeGroup` a failed send of `ChatRoom` calls.  `WsSession` instantiates `ChatSession`;
`NanopbEncode` extends `NanopbMessage`, so that what one writes is an input of the other.

What is external: the chat server, the portal, the Echo server, the transport, Hive's
storage.  They are modelled by what the client relies on: frames of a connection arrive in
order, replies over HTTP in any order; a login is answered only after `connect` was accepted
and otherwise ignored; a page shows the room as it was at some moment after it was asked for; only
owners appoint owners, remove members and delete a group; the last owner may not leave.
A reply to the roles need not name an owner in the place the client reads.
In `LeaveGroup` whoever has left does not come back.  In `RoomList` the server announces
insertions and updates; that others removed the user is not announced in a way the
application reads, which is how the code treats it.

History variables (`leave`, `unanswered`; `mixed`, `broken`, `left`; `base`, `listed`, `faults`; `gone`, `told`,
`heir`, `evicted`, `known`; `RoomList`'s `told`; nanopb's `read`, `origin`, `end`) are read by no guard of the client.  They record what a property has
to remember, as when a list is made from more than one room's replies.  (`left` and `gone`
also tell the external server who is no member any more.)

Definitions introduced by a comment "Faulty variant" are not part of the specifications: each is
a plausible mistake in the code, and `PROJECT.json` names under `mutants` the run in which
TLC finds the property violated when the variant takes the place of the original.

## Runs

| Run | Checks | Bounds |
|---|---|---|
| `session` | `TypeOK`, `ConnectedIsCurrent`, `LoginAfterConnect`, `StaysLoggedOut`, `KeepsSession`, `LoginIsAnswered`, `SessionHeals`, `SplashLeft` | two users, one login of the user, two logouts, two transport failures, one timed-out request that may still fail; the user sends when no frame is under way |
| `room_switch` | `OwnMessagesOnce`, `ScreenMatchesList` | two rooms, opened or switched to twice, others write, one loss of the socket, one second callback |
| `room_loading` | `LoadingFlags`, `LoadingEnds` | an empty room and one longer than a page, opened twice, one page or synchronisation more, two second callbacks |
| `room_send` | `TypeOK`, `NewestFirst` | a room opened, one message sent, one edited, one page or synchronisation more, others write in the group; the phone's clock before or after the server's |
| `room_list` | `TypeOK`, `GroupsOnce`, `ListFollowsNews`, `NoDataIsEmpty` | four groups, one of them without a message; the tab opened twice, two changes on the server, two events and one request under way, one save that waits |
| `feed_list` | `TypeOK`, `Paged`, `OneNextPage`, `LoadingHasRequest`, `LoadingEnds` | up to two pages of one notification, three requests, one meeting opened, one logout |
| `leave_group` | `TypeOK`, `RemovedIsOut`, `HandedOverMayLeave`, `ListedKeepGroup`, `LeaveEnds` | three users, two of them members at first; two screens; one fault |
| `varint_codec` | `TypeOK`, `LowBitsKept`, `RefusedDoesNotFit`, `EncoderInverse`, `FieldRoundTrip` | two payload bits to a byte, words of 5 and 9 bits, a `bitpos` of four bits, streams of up to eleven bytes, fields of 3, 5 and 9 bits |
| `nanopb_decode` | `TypeOK`, `WellNested`, `ArraysBounded`, `RoundTrip`, `SizeSuffices`, `RequiredDecoded`, `Advances` | one report type with a field of each kind, an item type in it, arrays of two, messages one deep in another (`MaxNesting`); damaged encodings and every buffer of three units |
| `room_cache`, `feed_next_page`, `leave_deleted` | one property each, violated: see below | |

Why these bounds are enough for what is asked:

- *Session.* The interesting interleavings have one loss of the connection inside a login, a
  check or a logout, and a second user to be taken for the first; the second loss is a
  reconnection that fails itself.  `MaxFrames` bounds only what the user adds: a method or a login
  of an opened tab is sent when nothing is under way, and the frames handlers send
  may follow it, so that the answer of another method stands before that of a login.  A second logout is
  pressed while the first is under way or has timed out.
- *Room.* A page holds two messages (fifty in the code), so a room of three has a second page.
  Two rooms and two openings give every confusion of one reply with another room.  `Busy` are
  the rooms others write in: both in `room_switch`, one in `room_send`.  It is empty in `room_loading`, where no message is
  posted, which leaves the room for failures, repeated loads and second callbacks.
- *Feed.* With pages of one notification three requests list the second page, overlap it with a
  refresh in either order, and refresh again.  Three requests also overlap a next page with two first
  ones.  The three safety properties are proved for any number of pages and requests.
- *Group.* Three users are needed for a candidate who has gone while another one is left.
  Two screens are two phones, or one phone that opened the screen again under a request that
  is still under way.
- *List.* Four groups because `insert(3, ...)` needs three others.  One waiting save and a list
  that changes meanwhile are the aliasing the box has; two openings put an old list back.
- *Varint.* The widths keep the relations the code relies on, which `WidthsAssumption` names and
  7, 32, 64 and 256 satisfy: the byte that ends a short word has bits to spare, the one that
  ends a long word holds a single bit, a `bitpos` past the longest varint does not wrap.  The
  theorems hold for all such widths, the ones of the code included.
- *Messages.* A unit of the buffer is a varint; a fixed32 takes two and a fixed64 three, so short
  buffers hold whole fields and parts of them.  Replacing each unit of an encoding by tags, lengths and invalid wire types
  gives lengths that claim too much or too little at every depth.  `OriginAssumption` says which
  messages are encoded: those a struct can hold, complete, and nested no deeper than `MaxNesting`, which
  is any number in the theorems.

No run of the client checks for deadlock: all bounds used up, the application waits for
its user.  `nanopb_decode` does check: it is never stuck before it returns.

### What the properties say

`LoginAfterConnect` and `ConnectedIsCurrent` relate the client's flags to what the server
of *this* connection has accepted, across reopenings.  `StaysLoggedOut` is an
action property about the whole of a logout, not about `isAutoLogin`: asked for with no login dialogue
and no other logout under way, it is followed by no login frame, neither while the server is asked, nor
after it has confirmed and the caches are cleared, though a reconnection, a `connected` frame and
the clearing itself all reach the sender of logins.  It ends with the next wish to log in or out.  `OwnMessagesOnce`
holds of a list not filled by another room's reply or by a further page (`~mixed`), and says
that page, `rooms-changed` and `stream-room-messages` in any order show a message once.
`ScreenMatchesList` relates the spinner to the list: it stays over the room's own messages only
while `addItem`, which stores a message before it announces it, waits for the box (`Announcing`).  `LoadingFlags` says that a flag which keeps a room
from being loaded again is up only while a request that takes it down is under way;
the exception it makes, a reply that is not JSON, is what the code does (`broken`).
`Paged` compares the list with the first pages of the feed the server holds, as long as nothing
has been pushed or created in between (`base`).  A refresh and a next page may overlap.  It makes two
exceptions, recorded in `faults` until a first page is listed again, and in both the code does
lose or repeat a page: a first page whose request ends before that of a next page (the next page is then put behind the
wrong one, or asked for twice: `feed_next_page`), and a page whose pagination can be read but not its
notifications.  `HandedOverMayLeave` says that an owner who has handed over, or found another owner,
is refused to leave only if the group is deleted, or he or that owner has gone meanwhile; `ListedKeepGroup` that a deletion, even
one carried out late, takes the group from nobody who was on the list it was decided from, but
for the creator, whom `swapOwner` leaves out.

`KeepsSession` is the refinement: with `link` read off the socket, `asked` and `told` off the
frames under way and `who` off the server, each step of `WsSession` is one of `ChatSession` or
changes nothing there.  So nobody becomes known on a connection but by a login asked for on that
connection, after the server had accepted it and while the user had not asked to leave, and the
client never takes itself for an account no server has admitted.  `ListFollowsNews` relates the
list to the last thing it was told of each group (`told`), over the replacement of the whole
list, single changes, departures and the list restored from the box; `Unsure` marks what only the
box vouches for, or a change `insert(3, ...)` could not make.  A page counts as news when it is
answered, so that an old page answered late is not an error here.  `NoDataIsEmpty` relates the
screen to the list.

`LowBitsKept` and `RefusedDoesNotFit` compare the decoders' loops with the number the bytes stand
for, over the change at bit 28 or 32; `EncoderInverse` says the encoder writes the shortest
bytes of a number; `FieldRoundTrip` covers the clamping of short signed fields whose writers
extend the sign to 32 bits only (issue 97 in `pb_decode.c`).  `WellNested` is the accounting of substreams:
each ends where the one around it goes on, whatever a buffer claims.  `ArraysBounded`: an
array filled in several ways keeps to its reserve.  `Advances`: the units before the innermost stream
and the streams open, counted together, become fewer with every step, so that no buffer keeps the
decoder busy, save by a callback that reads nothing and does not fail.  `RoundTrip`, `SizeSuffices` and
`RequiredDecoded` join decoder and encoder.

### Fairness

- `WsSession`: weak fairness of opening the socket, of the server reading it, of `OnDone` and
  `handlerData`, and of each continuation of a request or of `checkAuth`.  The event loop runs what has
  completed; `reconnect` is unconditional, and `MaxDrops` makes the failures finite.  A
  request that ends without either callback is an outcome of its own (`LoginUnanswered`), and
  `SplashLeft` names it.  `loginASGL` gives up after 60 seconds (`LoginTimesOut`), which
  justifies its fairness; the error of the request it gave up may then call the callback a second
  time (`lateLogins`), and nothing obliges it to.  `logOutChat` has the same timeout; logouts and the user are not fair.
- `ChatRoom`: weak fairness of the page replies (timeout 20 seconds,
  `core/api_respository.dart`) and of cache reads.  Events, sends, saves and second callbacks are not fair.
- `NotificationFeed`: weak fairness of the replies together (timeout 60 seconds).
- `LeaveGroup`: weak fairness, for each screen, of "the server answers or the callback runs" (timeout 60
  seconds; giving up is one of the replies).  Late arrivals and late errors are not fair.

## Proofs

The theorems hold for every value of the constants that satisfies the `ASSUME` of the module:
any users, rooms, page size and bounds.

- **`WsSessionProofs`** - `TypeCorrect`; `OrderCorrect` with the inductive invariant
  `Order`: types, and five facts about the connection.  `LoginAfterConnect` (`Ordered`, of the queue
  to the server) is not inductive: a login is sent when a `connected` frame is handled, so one needs that
  such a frame under way means that the server has accepted *this* connection (`Accepted`), that nothing
  from the server is left when the socket is opened again (`Opening`), that a lost socket holds no
  frames for the server (`Lost`), and, for the guard of `loginChat`, that a client which takes itself for connected has
  been accepted (`Connected`).
  From it follow `LoginAfterConnectCorrect` and `ConnectedIsCurrentCorrect`.
  `StaysLoggedOutCorrect` rests on another invariant (`Leaving`): during such a logout and after it no
  dialogue is under way that could allow logins again, nor a logout whose late failure could, and
  `isAutoLogin` is down; and on the lemma that the only sender of a login frame is
  `authWithUserNameAndPass`.
  `KeepsSessionCorrect`: the initial states are `ChatSession`'s and, from `Order` and the invariant
  of the logout, each action is shown to be one named step of `ChatSession` or a stutter; the
  lemmas about `NamedBy` say what appending and removing a frame does to the accounts under
  way.  `OnAcceptedLinkCorrect` is about `ChatSession` alone; `AccountOfConnection` carries it over.
- **`ChatRoomProofs`** - `TypeCorrect`, `NewestFirstCorrect`, `OwnMessagesOnceCorrect`,
  `ScreenMatchesListCorrect`, `LoadingFlagsCorrect` (inductive as it stands).  The list is sorted and
  filtered by nearly every handler, so the first part of the module is about lists alone.  A sorted
  or filtered list is `Arranged`: the positions of the old one that stay, in an order.
  That order is given by ranks - the position with `n` others before it is the `n`-th - and the
  lemma `InOrderEnumerates` shows, by cardinalities and the pigeonhole principle, that ranks run
  through `1..n` and each belongs to one position; no induction over lists is
  needed.  From it, `SortSorts` (sorted, and the same messages as often) and `OnlySelects` (the messages
  asked for, in the order they had).  The invariant of the types (`Typed`) adds what the handlers rely
  on: that offset and total of the paging are set and cleared together (`PagingTyped`), that a
  save that puts one message in front brings one (`Carrying`), and that no room has more messages than
  its bound.  The properties are proved together (`Shown`): `ScreenMatchesList` needs that a list
  without an open room is empty or foreign (`Closed`) and that accesses to a box keep a waiting announcement, `OwnMessagesOnce` that sorting
  and filtering repeat nothing.
- **`NotificationFeedProofs`** - `TypeCorrect`; `PagedCorrect` and `OneNextPageCorrect`: `Paged` needs
  that, without a fault, a next page under way is the only one, with `isLoading` up, and is the page
  after the last listed (`OneNextPage`), that the pagination names the last page listed, so that a scroll
  asks for the one after it, or has been reset (`AsksNext`), and that every request without `isLoadMore` is for page one (`FirstPages`), and
  then that appending page `n + 1` to the first `n` pages gives the first `n + 1`
  (`NextPageFits`, arithmetic on sequences); `LoadingHasRequestCorrect`.
- **`LeaveGroupProofs`** - `TypeCorrect`, `RemovedIsOutCorrect`, `HandedOverMayLeaveCorrect`,
  `ListedKeepGroupCorrect`.  The invariant `Inv` has one part for each screen (`ScreenOK`) and one for the
  server (`ServerOK`).  A screen's part is stated so that it survives whatever others do: a member stays a
  member or is gone, an owner stays one or is gone, who is gone stays so (`Grow`).  Whom a screen
  relies on is an owner or gone, so that a refusal means that the group, the user or that
  owner is no more (`Belongs`).  Hence one
  lemma (`Kept`) disposes of all screens but the one that acts, and the proof of an action
  looks at its own screen alone.  The members a deletion may hit are carried in the request
  (`Spares`), because it may be carried out long after it was given up.
- **`RoomListProofs`** - `TypeCorrect`, `OneEntryEach`, `ListIsCurrent`, `NoDataIsTrue`.  Together
  the four properties are inductive.  `Agree` states the two about the list as a relation of a
  list and a history, not of variables, so that a handler which changes both is a lemma about
  values.  The list changes in five
  ways only - restored from the box, emptied, replaced by a page, one entry put, one removed - and
  one lemma about each (`Restoring`, `NoList`, `Paging`, `Putting`, `Removing`) serves all the
  actions; the box and the waiting saves matter to the type alone.
- **`NanopbVarintProofs`** - `LowBitsKeptCorrect`, `RefusedDoesNotFitCorrect`,
  `EncoderInverseCorrect`, `FieldRoundTripCorrect`, for all widths that
  satisfy `WidthsAssumption`.  Words are sets of bits, so that shifts and casts are set algebra
  and the invariant (`InStep`) says where `bitpos` is and which bits of the meaning
  `result` has.  A second invariant (`Continued`) says that only the last byte read ends a number; a refusal
  then points at a bit past the word, at the byte where it was noticed (`RefusedStep`).  For the
  encoder, the least length it chooses is the number of bytes read (`LengthFound`).
- **`NanopbMessageProofs`**, for every descriptor and every buffer, in three parts.
  - *Places*: `WellNestedCorrect`, `InBufferCorrect`.  The invariant (`Nested`) adds that every stream
    starts and ends within the buffer, and says nothing of the values decoded.  A frame takes
    the place of the innermost one (`Replaces`), is opened over it (`Opens`) or is what is left
    when it is closed (`Closes`); there is a lemma for each, and every action is one of the three.
  - *Progress*: `AdvancesCorrect`.  Along the same three ways, what is before the decoder becomes less; with
    the bounds of `Nested` it is a natural number.  This is the part of termination that needs no fairness.
  - *Values*: `TypeCorrect`, `ArraysBoundedCorrect`, `DecodedComplete`.  That a message is complete at
    every depth is a statement by induction over messages.  Its place is taken by the set of the messages
    that have been decoded to their end: the invariant (`Decoded`) says that there is a set `G` of
    complete messages, closed under taking the messages in them (`Messages`), that holds all
    messages in the values being filled (`Filled`).  A message that ends joins the set; no step takes one
    away, and a submessage that comes again starts from a member of it.  Of each frame the invariant
    says that required fields are filled once seen, but for the one being read (`SeenFilled`), and
    fixed arrays whole, but for the one being filled (`FixedWhole`); of each child, that the field it
    reads has room for it (`Within`).  `DecodedComplete` states what follows of such a set.
    `RequiredDecodedCorrect` turns it into the property of the run, which counts depths: the messages at
    every depth are in the set (`AtEveryDepth`).  Induction over a number is done by sets here: a set of
    numbers that holds 0 and with each number the next one holds them all (`Inductive`), and a function
    defined by recursion exists because its beginnings do (`Recursion`).
- **`NanopbEncodeProofs`** - `SizeSufficesCorrect`, for every descriptor, message and nesting.  The
  messages in an origin are a set that is closed under taking the messages in them
  (`MessagesClosed`), and sizes and encodings are the last of a chain of functions on that set,
  one for each level of nesting (`SizesByLevel`, `BytesByLevel`).  At
  each level the size of an encoding is the size counted (`Counted`); one lemma for each
  construct of the encoder shows that it keeps this (`ItemCounted`, `PiecesCounted`, `FieldCounted`,
  `SectionsCounted`, `MessageCounted`).  The sum of the lengths of pieces is the length of what
  they are put together to because both are the same offset (`TotalIsOffset`, `FlattenLays`).

  `RoundTripCorrect`: a buffer that pb_encode wrote (`Written`: fields that the type has
  not, if any, then the encoding, then nothing or the terminator and whatever follows it) is never
  refused, and decodes to its message.  Over the fields before the encoding it passes one by one
  (`Passing`, `UnknownPassed`), each of them one that pb_skip_field can read (`Foreign`).  A code (`Code`) is the set of the messages
  in the origin with the size and the encoding of each; that the last level of the
  chains above is such a code for every nesting up to `MaxNesting` is `EncodingsRest`.  `Rest` says where in
  the buffer the item `j + 1` of the field `k + 1` of a message begins, and `Partial` what has been
  read of the message by then.  The invariant (`Restores`, `Follows`) gives each
  frame of the stack such a place (`At`): the innermost one stands before an item or at the end of its message
  (`Faces`), holds `Partial`, and has noted the required and fixed count fields it has begun (`Marked`); each
  other one has read the tag of the item the frame inside it is reading, and that frame ends where the
  item ends (`Inside`).  Three lemmas say how a stack may change and still read the message
  (`ContinueFollows`, `OpenFollows`, `CloseFollows`), and one for each kind of step that it is one of
  them (`ScalarFollows`, `BytesFollows`, `SubmessageFollows`, `PackedFollows`, `DecodeItemFollows`,
  `StringFollows`, `EndFollows`).  No step of such a stack can fail: the tag is one of the type
  (`TagRead`), lengths fit what is left (`UnitsLeft`), arrays have room (`RoomLeft`) and the
  message is whole at its end (`MessageWhole`).  No induction over messages or depths is needed: the
  places stand side by side, one for each frame.

Only model-checked:

- liveness (the provers treat neither fairness nor `ENABLED`);
- `RoundTrip` of buffers that are not `Written`: with arrays and submessages in pieces, or
  a field for a callback before the encoding, as `MCNanopb` makes them;
- the three violated properties.

## Where the code does something else than it says

- `room_cache`: `saveListMessageWithRoomID` is to save the newest messages of a room, but it is given the
  live list and writes after an await; if the user has switched rooms meanwhile, another
  room's messages are stored.
- `feed_next_page`: a next page is fetched twice when the reply to a first page takes `isLoading` down.
- `leave_deleted`: `getUserRoles` documents that an owner hands over and others leave; with a list that
  could not be loaded, or is old, or holds only the creator besides the user, the group
  is deleted with its members in it.  `ListedKeepGroup` is the part of the promise that holds.

Seen while modelling, without a run (no document, comment or test says otherwise, or the effect is
outside of what the modules tell apart; all but the second are in the behaviours of a module):

- `MainChatBloc.loginChat` hands over the key `email` where `username` is read, so that this login
  sends an empty name (`OpenChatTab`).
- `SocketHelperOther.init` is called from `main_dev.dart` only; the modules assume it was called.
- `clearCache` of the notifications sets the count to zero and then raises it to one.  The count
  also falls below zero: `openMeetingDetail` lowers it for every meeting, read or unread.
- Every failed send calls `removeGroup` for whatever room is open.
- `insert(3, roomModel)` (`ws_helper.dart:307`) throws in a list of fewer than three others, after
  the old entry was removed: a group without messages goes from the list, or never joins it,
  until the list is loaded again.
- What the box holds may be the list object itself, so that `listGroups.clear()` empties the saved
  list as well.  Two groups removed while one save waits for its delete: the second finds nothing
  stored, and the first puts the second group back (`hive_helper.dart:293`).
- A page the server made before an event and answered after it replaces the newer entry.
- `getChatUserInfo`, answered after a logout, shows HOME without an account.  A login that timed out and
  then fails as well takes a user who has logged in meanwhile from HOME back to LOGIN (`LateLoginError`).
- `addItem` announces SHOW after it has stored the message, in whatever room is open by then: the
  spinner of the next room may give way to an empty list.
- A first page that ends while a next page is under way lets that page be put behind it: the list then
  shows pages one and three, without two (`Overtaken`).  A page whose notifications cannot be read
  advances the pagination all the same, and is never listed.
- An owner whose roles cannot be found in the reply, or come without an owner, leaves with no heir
  (`NoOwnerListed`); only the server keeps the group from losing its last owner.
- The error of a request that timed out lowers the barrier (`LateError`), though the screen has sent another
  request since.
- `pb_decode_varint32` looks for bits past the 32nd in its fifth byte only if that byte is the last
  (`pb_decode.c:233`); when others follow, they are dropped.  Nor does it count the bytes that
  follow, and its `bitpos` may start again at zero: `LowBitsKept` is about varints of ten
  bytes at most.

## Not modelled

Layout, wording, pictures, sound, files and reactions; searching the member list; forms that
send one request and show its answer (meetings, profile, members); news and orientation, two
paged lists of the form of the feed.  A message is its room and its time: two messages of a room
never have the same time, edited text is not told from the original.

- *Session*: the switch to another user (`logOutAndReLogin`).  It stores new credentials
  and logs in without ending what the former user has under way; modelled faithfully it
  would need the requests of every component to carry the user they were made for, and there is no
  statement in the repository of what is to hold then.  Forgotten password, and the
  subscriptions of open rooms after a reconnection.
- *Cache*: `ChatRoom` takes a write of a room's messages as one step after the wait for its
  box, `RoomList` splits a save at its delete.  Opening and closing of a box, and clearing the caches
  at logout, are not steps of their own.
- *Room list*: the direct chats (the same handlers on a second list), the order on the screen
  and the three fixed groups, unread counts, the room to be opened after a notification, the argument of
  `rooms-changed` that is not read, `ChatBloc.leaveRom`, which nothing calls.
- *Leaving*: the return of a member who has gone, and the request given up that is both carried
  out late and fails late (here it does one of the two).  A second press on the screen whose barrier was lowered
  early is left to the user's other screen.
- *nanopb*: oneofs and extensions, the ownership and release of memory, delimited and
  null-terminated messages, the proto3 check for defaults, more than 64 required fields, and
  what a struct holds after an error.  In `NanopbMessage` a scalar is of its type: the errors for
  integers too wide and varints too long are those of `NanopbVarint`.
- *Other native code*: the rest of the pods in this repository are headers whose sources are
  binary or Objective-C, generated protobuf classes, and vendored libraries without a part in the
  application's own logic; the hosts register plugins.  By lines these are most of the C, and there is
  nothing in a header to model.

## Plan

1. `WsSession`, `ChatRoom`, `NotificationFeed`, `LeaveGroup` with their first theorems (done).
2. `ChatSession`, and the refinement checked and proved (done).
3. `RoomList` with its saves, and its theorems (done).
4. nanopb: varints, decoder, encoder, and the theorems of the first two (done).
5. `ChatRoom` with a sort and a filter that can be reasoned about, and its safety properties
   proved (done).
6. `RefusedDoesNotFit` and `EncoderInverse` for all widths; types, bounded arrays, completeness and
   progress of the decoder for all descriptors (done).
7. What the cache of a room holds between two saves, as an invariant beside the violated property.
8. `RequiredDecoded` and `SizeSuffices` for all descriptors and messages (done).
9. `RoundTrip` for all descriptors and messages (done); with pieces and callbacks it is left
   to the run.
