-------------------------- MODULE ChatRoomProofs ---------------------------
(***************************************************************************)
(* Theorems about ChatRoom for every set of rooms, every page size and     *)
(* every bound: the loading flags, and what the screen shows.              *)
(***************************************************************************)
EXTENDS ChatRoom, FiniteSetTheorems, SequenceTheorems, TLAPS

-----------------------------------------------------------------------------
(* Lists                                                                   *)

(* R orders I strictly and totally.                                        *)
Orders(R, I) ==
  /\ \A i \in I : <<i, i>> \notin R
  /\ \A i, j, k \in I : <<i, j>> \in R /\ <<j, k>> \in R => <<i, k>> \in R
  /\ \A i, j \in I : i # j => <<i, j>> \in R \/ <<j, i>> \in R

Before(I, R, i) == {j \in I : <<j, i>> \in R}

LEMMA BeforeGrows ==
  ASSUME NEW I, IsFiniteSet(I), NEW R, Orders(R, I), NEW i \in I
  PROVE  /\ IsFiniteSet(Before(I, R, i))
         /\ Cardinality(Before(I, R, i)) \in 0..(Cardinality(I) - 1)
         /\ \A j \in I : <<j, i>> \in R =>
              Cardinality(Before(I, R, j)) < Cardinality(Before(I, R, i))
<1>1. Before(I, R, i) \in SUBSET (I \ {i})
  BY DEF Before, Orders
<1>2. IsFiniteSet(I \ {i}) /\ Cardinality(I \ {i}) = Cardinality(I) - 1
  BY FS_RemoveElement
<1>3. /\ IsFiniteSet(Before(I, R, i))
      /\ Cardinality(Before(I, R, i)) <= Cardinality(I) - 1
  BY <1>1, <1>2, FS_Subset
<1>4. Cardinality(Before(I, R, i)) \in Nat /\ Cardinality(I) \in Nat
  BY <1>3, FS_CardinalityType
<1>5. ASSUME NEW j \in I, <<j, i>> \in R
      PROVE  Cardinality(Before(I, R, j)) < Cardinality(Before(I, R, i))
  <2>1. Before(I, R, j) \in SUBSET Before(I, R, i)
    BY <1>5 DEF Before, Orders
  <2>2. j \in Before(I, R, i) /\ j \notin Before(I, R, j)
    BY <1>5 DEF Before, Orders
  <2>3. Cardinality(Before(I, R, j)) <= Cardinality(Before(I, R, i))
        /\ (Cardinality(Before(I, R, i)) = Cardinality(Before(I, R, j))
              => Before(I, R, i) = Before(I, R, j))
    BY <1>3, <2>1, FS_Subset
  <2>4. Cardinality(Before(I, R, j)) \in Nat
    BY <1>3, <2>1, FS_Subset, FS_CardinalityType
  <2> QED
    BY <1>4, <2>2, <2>3, <2>4
<1> QED
  BY <1>3, <1>4, <1>5

(* InOrder enumerates I, each element once, in the order R.                *)
LEMMA InOrderEnumerates ==
  ASSUME NEW I, IsFiniteSet(I), NEW R, Orders(R, I)
  PROVE  /\ Cardinality(I) \in Nat
         /\ InOrder(I, R) \in [1..Cardinality(I) -> I]
         /\ \A i \in I : \E n \in 1..Cardinality(I) : InOrder(I, R)[n] = i
         /\ \A n, m \in 1..Cardinality(I) :
              n < m => <<InOrder(I, R)[n], InOrder(I, R)[m]>> \in R
<1> DEFINE rank == [i \in I |-> Cardinality(Before(I, R, i)) + 1]
           N    == Cardinality(I)
<1>1. N \in Nat
  BY FS_CardinalityType
<1>2. rank \in [I -> 1..N]
  BY <1>1, BeforeGrows
<1>3. \A i, j \in I : <<i, j>> \in R => rank[i] < rank[j]
  <2> SUFFICES ASSUME NEW i \in I, NEW j \in I, <<i, j>> \in R
               PROVE  rank[i] < rank[j]
    OBVIOUS
  <2>1. /\ Cardinality(Before(I, R, i)) < Cardinality(Before(I, R, j))
        /\ Cardinality(Before(I, R, i)) \in 0..(N - 1)
        /\ Cardinality(Before(I, R, j)) \in 0..(N - 1)
    BY BeforeGrows
  <2> QED
    BY <1>1, <2>1
<1> HIDE DEF rank, N
<1>4. \A i, j \in I : rank[i] = rank[j] => i = j
  <2> SUFFICES ASSUME NEW i \in I, NEW j \in I, rank[i] = rank[j], i # j PROVE FALSE
    OBVIOUS
  <2>1. <<i, j>> \in R \/ <<j, i>> \in R
    BY DEF Orders
  <2>2. rank[i] \in Nat /\ rank[j] \in Nat
    BY <1>1, <1>2
  <2> QED
    BY <1>3, <2>1, <2>2
<1>5. rank \in Surjection(I, 1..N)
  <2>1. rank \in Injection(I, 1..N)
    BY <1>2, <1>4 DEF Injection, IsInjective
  <2>2. IsFiniteSet(1..N) /\ Cardinality(1..N) = N
    BY <1>1, FS_Interval
  <2> QED
    BY <2>1, <2>2, FS_Injection DEF N
<1>6. \A n \in 1..N : InOrder(I, R)[n] \in I /\ rank[InOrder(I, R)[n]] = n
  <2> SUFFICES ASSUME NEW n \in 1..N
               PROVE  InOrder(I, R)[n] \in I /\ rank[InOrder(I, R)[n]] = n
    OBVIOUS
  <2>1. PICK i \in I : rank[i] = n
    BY <1>5 DEF Surjection
  <2>2. Cardinality(Before(I, R, i)) = n - 1
    <3>1. Cardinality(Before(I, R, i)) \in 0..(Cardinality(I) - 1)
      BY BeforeGrows
    <3> QED
      BY <1>1, <2>1, <3>1 DEF rank, N
  <2>3. InOrder(I, R)[n] = CHOOSE k \in I : Cardinality(Before(I, R, k)) = n - 1
    BY DEF InOrder, Before, N
  <2>4. InOrder(I, R)[n] \in I /\ Cardinality(Before(I, R, InOrder(I, R)[n])) = n - 1
    BY <2>2, <2>3
  <2> QED
    BY <1>1, <2>4 DEF rank
<1>7. InOrder(I, R) \in [1..N -> I]
  BY <1>6 DEF InOrder, N
<1>8. \A i \in I : InOrder(I, R)[rank[i]] = i
  BY <1>2, <1>4, <1>6
<1>9. ASSUME NEW n \in 1..N, NEW m \in 1..N, n < m
      PROVE  <<InOrder(I, R)[n], InOrder(I, R)[m]>> \in R
  <2>1. InOrder(I, R)[n] # InOrder(I, R)[m]
    BY <1>6, <1>9
  <2>2. ~(<<InOrder(I, R)[m], InOrder(I, R)[n]>> \in R)
    BY <1>3, <1>6, <1>9
  <2> QED
    BY <1>6, <2>1, <2>2 DEF Orders
<1> QED
  BY <1>1, <1>2, <1>7, <1>8, <1>9 DEF N

Distinct(s) == \A i, j \in 1..Len(s) : s[i] = s[j] => i = j

(* o gives the positions in s of the elements of t.                        *)
ByPositions(t, o, s, I, R) ==
  /\ Len(t) \in Nat /\ o \in [1..Len(t) -> I]
  /\ \A n \in 1..Len(t) : t[n] = s[o[n]]
  /\ \A i \in I : \E n \in 1..Len(t) : o[n] = i
  /\ \A n, m \in 1..Len(t) : n < m => <<o[n], o[m]>> \in R

LEMMA ArrangedBy ==
  ASSUME NEW S, NEW s \in Seq(S), NEW I \in SUBSET (1..Len(s)), NEW R, Orders(R, I)
  PROVE  /\ Arranged(s, I, R) \in Seq(S)
         /\ Len(Arranged(s, I, R)) = Cardinality(I)
         /\ ByPositions(Arranged(s, I, R), InOrder(I, R), s, I, R)
<1> DEFINE N == Cardinality(I)
           o == InOrder(I, R)
           t == Arranged(s, I, R)
<1>1. IsFiniteSet(I)
  <2>1. Len(s) \in Nat
    OBVIOUS
  <2>2. IsFiniteSet(1..Len(s))
    BY <2>1, FS_Interval
  <2> QED
    BY <2>2, FS_Subset
<1>2. /\ N \in Nat /\ o \in [1..N -> I]
      /\ \A i \in I : \E n \in 1..N : o[n] = i
      /\ \A n, m \in 1..N : n < m => <<o[n], o[m]>> \in R
  BY <1>1, InOrderEnumerates
<1>3. t = [n \in 1..N |-> s[o[n]]]
  BY DEF Arranged
<1> HIDE DEF N, o, t
<1>4. \A n \in 1..N : s[o[n]] \in S
  <2>1. \A i \in 1..Len(s) : s[i] \in S
    OBVIOUS
  <2>2. \A n \in 1..N : o[n] \in 1..Len(s)
    BY <1>2
  <2> QED
    BY <2>1, <2>2
<1>5. t \in [1..N -> S]
  BY <1>3, <1>4
<1>6. t \in Seq(S) /\ Len(t) = N
  BY <1>2, <1>5
<1>7. \A n \in 1..N : t[n] = s[o[n]]
  BY <1>3
<1> QED
  BY <1>2, <1>6, <1>7 DEF N, o, t, ByPositions

(* Positions that differ stand for elements that differ, wherever they go. *)
LEMMA ArrangedDistinct ==
  ASSUME NEW S, NEW s \in Seq(S), NEW I \in SUBSET (1..Len(s)), NEW R, Orders(R, I),
         Distinct(s)
  PROVE  Distinct(Arranged(s, I, R))
<1> DEFINE t == Arranged(s, I, R)
           o == InOrder(I, R)
<1>1. ByPositions(t, o, s, I, R)
  BY ArrangedBy
<1> HIDE DEF t, o
<1> USE DEF ByPositions
<1>2. ASSUME NEW n \in 1..Len(t), NEW m \in 1..Len(t), n < m PROVE t[n] # t[m]
  <2>1. o[n] \in I /\ o[m] \in I /\ <<o[n], o[m]>> \in R
    BY <1>1, <1>2
  <2>2. o[n] # o[m]
    BY <2>1 DEF Orders
  <2> QED
    BY <1>1, <2>1, <2>2 DEF Distinct
<1>3. ASSUME NEW n \in 1..Len(t), NEW m \in 1..Len(t), t[n] = t[m] PROVE n = m
  <2>1. n < m \/ m < n \/ n = m
    BY <1>1
  <2> QED
    BY <1>2, <1>3, <2>1
<1> QED
  BY <1>3 DEF Distinct, t

LEMMA ArrangedElements ==
  ASSUME NEW S, NEW s \in Seq(S), NEW I \in SUBSET (1..Len(s)), NEW R, Orders(R, I)
  PROVE  Elements(Arranged(s, I, R)) = {s[i] : i \in I}
<1> DEFINE t == Arranged(s, I, R)
           o == InOrder(I, R)
<1>1. ByPositions(t, o, s, I, R)
  BY ArrangedBy
<1> HIDE DEF t, o
<1> USE DEF ByPositions
<1>2. \A n \in 1..Len(t) : t[n] \in {s[i] : i \in I}
  BY <1>1
<1>3. \A i \in I : s[i] \in {t[n] : n \in 1..Len(t)}
  <2> SUFFICES ASSUME NEW i \in I PROVE s[i] \in {t[n] : n \in 1..Len(t)}
    OBVIOUS
  <2>1. PICK n \in 1..Len(t) : o[n] = i
    BY <1>1
  <2> QED
    BY <1>1, <2>1
<1> QED
  BY <1>2, <1>3 DEF Elements, t

(* The times of all messages can be compared.                              *)
LEMMA TimesCompare ==
  ASSUME NEW m \in Messages
  PROVE  m.ts \in Int /\ m.rid \in Rooms /\ m.isSending \in BOOLEAN
<1>1. 1..LastPost \subseteq Int /\ PhoneTimes \subseteq Int
  BY ConstantsAssumption DEF PhoneTimes
<1>2. CASE m \in [rid : Rooms, ts : 1..LastPost, isSending : {FALSE}]
  BY <1>1, <1>2
<1>3. CASE m \in [rid : Rooms, ts : PhoneTimes, isSending : {TRUE}]
  BY <1>1, <1>3
<1> QED
  BY <1>2, <1>3 DEF Messages

LEMMA NewerOrders ==
  ASSUME NEW s \in Seq(Messages)
  PROVE  Orders(Newer(s), 1..Len(s))
<1>1. \A i \in 1..Len(s) : s[i].ts \in Int
  BY TimesCompare
<1>2. \A i, j \in 1..Len(s) :
        <<i, j>> \in Newer(s) <=> s[i].ts > s[j].ts \/ (s[i].ts = s[j].ts /\ i < j)
  BY DEF Newer
<1>3. 1..Len(s) \subseteq Int
  OBVIOUS
<1>4. ASSUME NEW i \in 1..Len(s) PROVE <<i, i>> \notin Newer(s)
  BY <1>1, <1>2, <1>3
<1>5. ASSUME NEW i \in 1..Len(s), NEW j \in 1..Len(s), i # j
      PROVE  <<i, j>> \in Newer(s) \/ <<j, i>> \in Newer(s)
  BY <1>1, <1>2, <1>3, <1>5
<1>6. ASSUME NEW i \in 1..Len(s), NEW j \in 1..Len(s), NEW k \in 1..Len(s),
             <<i, j>> \in Newer(s), <<j, k>> \in Newer(s)
      PROVE  <<i, k>> \in Newer(s)
  BY <1>1, <1>2, <1>3, <1>6
<1> QED
  BY <1>4, <1>5, <1>6 DEF Orders

(* What listWsMessage.sort does to a list: the same messages, as often as  *)
(* they were there, newest first.                                          *)
LEMMA SortSorts ==
  ASSUME NEW s \in Seq(Messages)
  PROVE  /\ Sort(s) \in Seq(Messages) /\ Len(Sort(s)) = Len(s)
         /\ Descending(Sort(s))
         /\ Elements(Sort(s)) = Elements(s)
         /\ Distinct(s) => Distinct(Sort(s))
<1>1. CASE Descending(s)
  BY <1>1 DEF Sort
<1>2. CASE ~Descending(s)
  <2> DEFINE R == Newer(s)
             I == 1..Len(s)
             t == Arranged(s, I, R)
             o == InOrder(I, R)
  <2>1. Sort(s) = t
    BY <1>2 DEF Sort
  <2>2. Orders(R, I) /\ I \in SUBSET (1..Len(s))
    BY NewerOrders
  <2>3. t \in Seq(Messages) /\ Len(t) = Cardinality(I) /\ ByPositions(t, o, s, I, R)
    BY <2>2, ArrangedBy
  <2>4. Cardinality(I) = Len(s)
    <3>1. Len(s) \in Nat
      OBVIOUS
    <3> QED
      BY <3>1, FS_Interval
  <2>5. Elements(t) = Elements(s)
    <3>1. Elements(t) = {s[i] : i \in I}
      BY <2>2, ArrangedElements
    <3> QED
      BY <3>1 DEF Elements
  <2>6. Distinct(s) => Distinct(t)
    BY <2>2, ArrangedDistinct
  <2>7. Descending(t)
    <3> HIDE DEF t, o
    <3> SUFFICES ASSUME NEW n \in 1..Len(t), NEW m \in 1..Len(t), n < m
                 PROVE  t[n].ts >= t[m].ts
      BY DEF Descending
    <3>1. o[n] \in 1..Len(s) /\ o[m] \in 1..Len(s) /\ <<o[n], o[m]>> \in Newer(s)
      BY <2>3 DEF ByPositions
    <3>2. s[o[n]].ts \in Int /\ s[o[m]].ts \in Int
      BY <3>1, TimesCompare
    <3>3. s[o[n]].ts > s[o[m]].ts \/ s[o[n]].ts = s[o[m]].ts
      BY <3>1 DEF Newer
    <3> QED
      BY <2>3, <3>2, <3>3 DEF ByPositions
  <2> QED
    BY <2>1, <2>3, <2>4, <2>5, <2>6, <2>7
<1> QED
  BY <1>1, <1>2

(* What removeWhere leaves: the messages of the positions that stay, in    *)
(* the order they had.                                                     *)
LEMMA OnlySelects ==
  ASSUME NEW s \in Seq(Messages), NEW I \in SUBSET (1..Len(s))
  PROVE  /\ Only(s, I) \in Seq(Messages)
         /\ Elements(Only(s, I)) = {s[i] : i \in I}
         /\ Descending(s) => Descending(Only(s, I))
         /\ Distinct(s) => Distinct(Only(s, I))
<1>1. CASE I = 1..Len(s)
  BY <1>1 DEF Only, Elements
<1>2. CASE I # 1..Len(s)
  <2> DEFINE R == {p \in I \X I : p[1] < p[2]}
             t == Arranged(s, I, R)
             o == InOrder(I, R)
  <2>1. Only(s, I) = t
    BY <1>2 DEF Only
  <2>2. Orders(R, I)
    <3>1. \A i, j \in I : <<i, j>> \in R <=> i < j
      OBVIOUS
    <3>2. I \subseteq Int
      OBVIOUS
    <3> HIDE DEF R
    <3> QED
      BY <3>1, <3>2 DEF Orders
  <2>3. t \in Seq(Messages) /\ ByPositions(t, o, s, I, R)
    BY <2>2, ArrangedBy
  <2>4. Elements(t) = {s[i] : i \in I}
    BY <2>2, ArrangedElements
  <2>5. Distinct(s) => Distinct(t)
    BY <2>2, ArrangedDistinct
  <2>6. ASSUME Descending(s) PROVE Descending(t)
    <3> HIDE DEF t, o
    <3> SUFFICES ASSUME NEW n \in 1..Len(t), NEW m \in 1..Len(t), n < m
                 PROVE  t[n].ts >= t[m].ts
      BY DEF Descending
    <3>1. o[n] \in 1..Len(s) /\ o[m] \in 1..Len(s) /\ o[n] < o[m]
      BY <2>3 DEF ByPositions
    <3> QED
      BY <2>3, <2>6, <3>1 DEF Descending, ByPositions
  <2> QED
    BY <2>1, <2>3, <2>4, <2>5, <2>6
<1> QED
  BY <1>1, <1>2

-----------------------------------------------------------------------------
(* Types                                                                   *)

(* A save of one message carries that message.                             *)
Carrying == {s \in Saves : s.kind = "only" => s.data # <<>>}

ScreenTyped ==
  /\ roomModel \in Rooms \cup {NoRoom} /\ listWsMessage \in Seq(Messages)
  /\ shown \in {"NONE", "LOADING", "NO_DATA", "SHOW"} /\ mixed \in BOOLEAN

(* The offset and the total are null together: checkAmountMessageRemain    *)
(* computes with the one after a test of the other.                        *)
PagingTyped ==
  /\ offsetHistory \in Nat \cup {None} /\ totalHistory \in Nat \cup {None}
  /\ (totalHistory = None) <=> (offsetHistory = None)

FlagsTyped == isLoadMore \in BOOLEAN /\ isLoadingLatestMsg \in BOOLEAN
                /\ broken \subseteq {"latest", "more"}

TasksTyped == requests \subseteq Requests /\ reads \subseteq Reads

SavesTyped == saves \in [Rooms -> Seq(Carrying)]

CacheTyped == cache \in [Rooms -> Seq(Messages)]

ServerTyped == /\ posted \in [Rooms -> 0..LastPost]
               /\ events \in Seq(Events) /\ sending \subseteq Sendings

GroupsTyped == listGroups \subseteq Groups /\ leaving \subseteq Groups /\ left \subseteq Groups

BoundsTyped ==
  /\ opens \in 0..MaxOpens /\ loads \in 0..MaxLoads /\ sends \in 0..MaxSends
  /\ edits \in 0..MaxEdits /\ drops \in 0..MaxDrops

(* TypeOK with what makes it inductive: the last three of these remarks,   *)
(* and no more messages in a room than the bound.                          *)
Typed == /\ ScreenTyped /\ PagingTyped /\ FlagsTyped /\ TasksTyped /\ SavesTyped
         /\ CacheTyped /\ ServerTyped /\ GroupsTyped /\ BoundsTyped

LEMMA TypedSuffices == Typed => TypeOK
<1> SUFFICES ASSUME Typed PROVE TypeOK
  OBVIOUS
<1>1. saves \in [Rooms -> Seq(Saves)]
  <2>1. Carrying \subseteq Saves
    BY DEF Carrying
  <2>2. \A s \in Seq(Carrying) : s \in Seq(Saves)
    BY <2>1
  <2> QED
    BY <2>2 DEF Typed, SavesTyped
<1>2. posted \in [Rooms -> Nat]
  <2>1. 0..LastPost \subseteq Nat
    BY ConstantsAssumption
  <2> QED
    BY <2>1 DEF Typed, ServerTyped
<1> QED
  BY <1>1, <1>2 DEF Typed, TypeOK, ScreenTyped, PagingTyped, FlagsTyped, TasksTyped,
     CacheTyped, ServerTyped, GroupsTyped, BoundsTyped

LEMMA TypedInit == Init => Typed
<1> SUFFICES ASSUME Init PROVE Typed
  OBVIOUS
<1> USE ConstantsAssumption DEF Init
<1>1. ScreenTyped
  <2>1. <<>> \in Seq(Messages)
    OBVIOUS
  <2>2. mixed \in BOOLEAN
    OBVIOUS
  <2> QED
    BY <2>1, <2>2 DEF ScreenTyped
<1>2. PagingTyped
  BY DEF PagingTyped
<1>3. FlagsTyped /\ TasksTyped
  BY DEF FlagsTyped, TasksTyped
<1>4. SavesTyped /\ CacheTyped
  BY DEF SavesTyped, CacheTyped
<1>5. ServerTyped /\ GroupsTyped /\ BoundsTyped
  BY DEF ServerTyped, GroupsTyped, BoundsTyped
<1> QED
  BY <1>1, <1>2, <1>3, <1>4, <1>5 DEF Typed

(* The messages the server holds and the one the phone makes.              *)
LEMMA PostedTyped ==
  ASSUME NEW r \in Rooms, NEW k \in 1..LastPost
  PROVE  Posted(r, k) \in Messages
BY DEF Posted, Messages

LEMMA PlaceholderTyped ==
  ASSUME NEW r \in Rooms, NEW t \in PhoneTimes
  PROVE  Placeholder(r, t) \in Messages /\ Placeholder(r, t).rid = r
BY DEF Placeholder, Messages

(* A page holds messages of its room, each once.                           *)
LEMMA PageTyped ==
  ASSUME NEW r \in Rooms, NEW n \in 0..LastPost, NEW offset \in Nat
  PROVE  /\ PageOf(r, n, offset) \in Seq(Messages)
         /\ \A m \in Elements(PageOf(r, n, offset)) : m.rid = r
         /\ Distinct(PageOf(r, n, offset))
<1> DEFINE N == IF n - offset < Page THEN n - offset ELSE Page
           p == PageOf(r, n, offset)
           k(i) == n - offset + 1 - i
<1>1. N \in Int /\ n \in Int /\ offset \in Int
  BY ConstantsAssumption
<1>2. p = [i \in 1..N |-> Posted(r, k(i))]
  BY DEF PageOf
<1>3. \A i \in 1..N : k(i) \in 1..LastPost
  BY ConstantsAssumption
<1>4. CASE N < 1
  <2>1. p = <<>>
    BY <1>1, <1>2, <1>4
  <2> QED
    BY <2>1 DEF Elements, Distinct
<1>5. CASE N >= 1
  <2> HIDE DEF N, k, p
  <2>1. N \in Nat
    BY <1>1, <1>5
  <2>2. \A i \in 1..N : Posted(r, k(i)) \in Messages
    BY <1>3, PostedTyped
  <2>3. p \in Seq(Messages) /\ Len(p) = N
    BY <1>2, <2>1, <2>2
  <2>4. \A i \in 1..N : p[i] = Posted(r, k(i))
    BY <1>2
  <2>5. \A m \in Elements(p) : m.rid = r
    BY <2>3, <2>4 DEF Elements, Posted
  <2>6. \A i, j \in 1..N : k(i) = k(j) => i = j
    BY <1>1 DEF k
  <2>7. Distinct(p)
    BY <2>3, <2>4, <2>6 DEF Distinct, Posted
  <2> QED
    BY <2>3, <2>5, <2>7 DEF p
<1> QED
  BY <1>1, <1>4, <1>5

(* No announcement that is still to come is lost.                          *)
Growing == \A r \in Rooms : Announcing(r) => Announcing(r)'

LEMMA UnchangedGrows ==
  ASSUME UNCHANGED saves
  PROVE  Growing
BY DEF Growing, Announcing

LEMMA SaveTyped ==
  ASSUME SavesTyped, NEW r \in Rooms, NEW kind \in {"live", "copy", "only", "delete"},
         NEW s \in Seq(Messages), NEW notify \in BOOLEAN,
         kind = "only" => s # <<>>, Save(r, kind, s, notify)
  PROVE  SavesTyped' /\ Growing /\ (notify => Announcing(r)')
<1> DEFINE e == [kind |-> kind, data |-> s, notify |-> notify]
<1>1. e \in Carrying
  BY DEF Carrying, Saves
<1>2. e.notify = notify
  OBVIOUS
<1>3. saves' = [saves EXCEPT ![r] = Append(@, e)]
  BY DEF Save
<1> HIDE DEF e
<1>4. saves \in [Rooms -> Seq(Carrying)]
  BY DEF SavesTyped
<1>5. saves[r] \in Seq(Carrying) /\ saves'[r] = Append(saves[r], e)
  BY <1>3, <1>4
<1>6. /\ saves'[r] \in Seq(Carrying) /\ Len(saves'[r]) = Len(saves[r]) + 1
      /\ \A i \in 1..Len(saves[r]) : saves'[r][i] = saves[r][i]
      /\ saves'[r][Len(saves[r]) + 1] = e /\ Len(saves[r]) \in Nat
  BY <1>1, <1>5
<1>7. SavesTyped'
  BY <1>3, <1>4, <1>5, <1>6 DEF SavesTyped
<1>8. Growing
  <2> SUFFICES ASSUME NEW x \in Rooms, Announcing(x) PROVE Announcing(x)'
    BY DEF Growing
  <2>1. CASE x = r
    <3>1. PICK i \in 1..Len(saves[r]) : saves[r][i].notify
      BY <2>1 DEF Announcing
    <3>2. i \in 1..Len(saves'[r]) /\ saves'[r][i].notify
      BY <1>6, <3>1
    <3> QED
      BY <2>1, <3>2 DEF Announcing
  <2>2. CASE x # r
    <3>1. saves'[x] = saves[x]
      BY <1>3, <1>4, <2>2
    <3> QED
      BY <3>1 DEF Announcing
  <2> QED
    BY <2>1, <2>2
<1>9. ASSUME notify PROVE Announcing(r)'
  <2>1. Len(saves[r]) + 1 \in 1..Len(saves'[r])
    BY <1>6
  <2>2. e.notify
    BY <1>2, <1>9, Zenon
  <2>3. saves'[r][Len(saves[r]) + 1].notify
    BY <1>6, <2>2
  <2> QED
    BY <2>1, <2>3 DEF Announcing
<1> QED
  BY <1>7, <1>8, <1>9

LEMMA SaveLiveTyped ==
  ASSUME SavesTyped, NEW r \in Rooms, NEW notify \in BOOLEAN, SaveLive(r, notify)
  PROVE  SavesTyped' /\ Growing /\ (notify => Announcing(r)')
<1>1. <<>> \in Seq(Messages)
  OBVIOUS
<1> QED
  BY <1>1, SaveTyped DEF SaveLive

LEMMA TakeTyped ==
  ASSUME NEW s \in Seq(Messages), NEW n \in Nat
  PROVE  Take(s, n) \in Seq(Messages)
BY DEF Take

LEMMA SaveCopyTyped ==
  ASSUME SavesTyped, NEW r \in Rooms, NEW s \in Seq(Messages), NEW notify \in BOOLEAN,
         SaveCopy(r, s, notify)
  PROVE  SavesTyped' /\ Growing /\ (notify => Announcing(r)')
<1>1. Take(s, Page) \in Seq(Messages)
  BY TakeTyped, ConstantsAssumption
<1> QED
  BY <1>1, SaveTyped DEF SaveCopy

LEMMA SaveOnlyTyped ==
  ASSUME SavesTyped, NEW m \in Messages, Save(m.rid, "only", <<m>>, FALSE)
  PROVE  SavesTyped' /\ Growing
<1>1. <<m>> \in Seq(Messages) /\ <<m>> # <<>> /\ m.rid \in Rooms
  BY TimesCompare
<1> QED
  BY <1>1, SaveTyped

LEMMA RemoveGroupTyped ==
  ASSUME SavesTyped, NEW r \in Rooms, removeGroup(r)
  PROVE  SavesTyped' /\ Growing
<1>1. <<>> \in Seq(Messages)
  OBVIOUS
<1>2. Save(r, "delete", <<>>, FALSE)
  BY DEF removeGroup, Save
<1> QED
  BY <1>1, <1>2, SaveTyped

(* Whatever list changeListMessageData is given, it shows the same         *)
(* messages, newest first.                                                 *)
LEMMA ChangeListTyped ==
  ASSUME SavesTyped, NEW state, NEW messages \in Seq(Messages),
         changeListMessageData(state, messages)
  PROVE  /\ listWsMessage' \in Seq(Messages) /\ shown' = state /\ SavesTyped'
         /\ Descending(listWsMessage')
         /\ Elements(listWsMessage') = Elements(messages)
         /\ messages = <<>> => listWsMessage' = <<>>
         /\ Distinct(messages) => Distinct(listWsMessage')
<1>1. listWsMessage' = Sort(messages) /\ shown' = state
  BY DEF changeListMessageData
<1>2. /\ listWsMessage' \in Seq(Messages) /\ Len(listWsMessage') = Len(messages)
      /\ Descending(listWsMessage')
      /\ Elements(listWsMessage') = Elements(messages)
      /\ Distinct(messages) => Distinct(listWsMessage')
  BY <1>1, SortSorts
<1>3. messages = <<>> => listWsMessage' = <<>>
  BY <1>2
<1>4. CASE Len(messages) > Page
  <2>1. listWsMessage'[1] \in Messages
    BY <1>2, <1>4, ConstantsAssumption
  <2>2. SaveCopy(listWsMessage'[1].rid, listWsMessage', FALSE)
    BY <1>4, ConstantsAssumption DEF changeListMessageData, SaveCopy, SaveLive, Save
  <2> QED
    BY <1>1, <1>2, <1>3, <2>1, <2>2, TimesCompare, SaveCopyTyped
<1>5. CASE Len(messages) \in 1..Page
  <2>1. listWsMessage'[1] \in Messages
    BY <1>2, <1>5, ConstantsAssumption
  <2>2. SaveLive(listWsMessage'[1].rid, FALSE)
    BY <1>5, ConstantsAssumption DEF changeListMessageData, SaveCopy, SaveLive, Save
  <2> QED
    BY <1>1, <1>2, <1>3, <2>1, <2>2, TimesCompare, SaveLiveTyped
<1>6. CASE Len(messages) = 0
  <2>1. UNCHANGED saves
    BY <1>6, ConstantsAssumption DEF changeListMessageData, SaveCopy, SaveLive, Save
  <2> QED
    BY <1>1, <1>2, <1>3, <2>1 DEF SavesTyped
<1> QED
  BY <1>4, <1>5, <1>6, ConstantsAssumption

(* The parts of Typed that a step leaves alone.                            *)
LEMMA PartsUntouched ==
  /\ ScreenTyped /\ UNCHANGED listVars => ScreenTyped'
  /\ PagingTyped /\ UNCHANGED pageVars => PagingTyped'
  /\ FlagsTyped /\ UNCHANGED flagVars => FlagsTyped'
  /\ TasksTyped /\ UNCHANGED taskVars => TasksTyped'
  /\ SavesTyped /\ UNCHANGED saves => SavesTyped'
  /\ CacheTyped /\ UNCHANGED cache => CacheTyped'
  /\ ServerTyped /\ UNCHANGED serverVars => ServerTyped'
  /\ GroupsTyped /\ UNCHANGED groupVars => GroupsTyped'
  /\ BoundsTyped /\ UNCHANGED boundVars => BoundsTyped'
<1> USE DEF listVars, pageVars, flagVars, taskVars, serverVars, groupVars, boundVars
<1>1. ScreenTyped /\ UNCHANGED listVars => ScreenTyped'
  BY DEF ScreenTyped
<1>2. PagingTyped /\ UNCHANGED pageVars => PagingTyped'
  BY DEF PagingTyped
<1>3. FlagsTyped /\ UNCHANGED flagVars => FlagsTyped'
  BY DEF FlagsTyped
<1>4. TasksTyped /\ UNCHANGED taskVars => TasksTyped'
  BY DEF TasksTyped
<1>5. /\ SavesTyped /\ UNCHANGED saves => SavesTyped'
      /\ CacheTyped /\ UNCHANGED cache => CacheTyped'
  BY DEF SavesTyped, CacheTyped
<1>6. ServerTyped /\ UNCHANGED serverVars => ServerTyped'
  BY DEF ServerTyped
<1>7. GroupsTyped /\ UNCHANGED groupVars => GroupsTyped'
  BY DEF GroupsTyped
<1>8. BoundsTyped /\ UNCHANGED boundVars => BoundsTyped'
  BY DEF BoundsTyped
<1> QED
  BY <1>1, <1>2, <1>3, <1>4, <1>5, <1>6, <1>7, <1>8

LEMMA NewRequestTyped ==
  ASSUME Typed, NEW kind \in {"latest", "more"}, NEW r \in Rooms, NEW offset \in Nat
  PROVE  NewRequest(kind, r, offset) \in Requests
<1>1. posted[r] \in Nat
  BY ConstantsAssumption DEF Typed, ServerTyped
<1>2. opens + loads \in Nat
  BY ConstantsAssumption DEF Typed, BoundsTyped
<1> QED
  BY <1>1, <1>2 DEF NewRequest, Requests

LEMMA GetListTyped ==
  ASSUME Typed, NEW r \in Rooms, NEW c \in BOOLEAN, getListMessage(r, c)
  PROVE  /\ roomModel' \in Rooms /\ TasksTyped'
         /\ isLoadingLatestMsg' \in BOOLEAN /\ broken' \subseteq {"latest", "more"}
<1>1. NewRequest("latest", r, 0) \in Requests
  BY NewRequestTyped
<1>2. [kind |-> "cache", room |-> r, call |-> 1] \in Reads
  BY DEF Reads
<1>3. TasksTyped'
  BY <1>1, <1>2 DEF getListMessage, Typed, TasksTyped
<1> QED
  BY <1>3 DEF getListMessage, Typed, FlagsTyped

(* resetVariable and what comes with it.                                   *)
LEMMA ResetTyped ==
  ASSUME Typed, resetVariable
  PROVE  ScreenTyped' /\ FlagsTyped'
<1>1. <<>> \in Seq(Messages)
  OBVIOUS
<1> QED
  BY <1>1 DEF resetVariable, Typed, ScreenTyped, FlagsTyped

LEMMA OpenRoomTyped ==
  ASSUME Typed, NEW r \in Rooms, OpenRoom(r) \/ SwitchRoom(r)
  PROVE  Typed'
<1>1. CASE OpenRoom(r)
  <2>1. getListMessage(r, TRUE)
    BY <1>1 DEF OpenRoom
  <2>2. /\ roomModel' \in Rooms /\ TasksTyped'
        /\ isLoadingLatestMsg' \in BOOLEAN /\ broken' \subseteq {"latest", "more"}
    BY <2>1, GetListTyped
  <2>3. ScreenTyped' /\ FlagsTyped'
    BY <1>1, <2>2 DEF OpenRoom, Typed, ScreenTyped, FlagsTyped
  <2>4. BoundsTyped'
    BY <1>1, ConstantsAssumption DEF OpenRoom, Typed, BoundsTyped
  <2> QED
    BY <1>1, <2>2, <2>3, <2>4, PartsUntouched DEF OpenRoom, hiveVars, Typed
<1>2. CASE SwitchRoom(r)
  <2>1. getListMessage(r, r \notin Direct)
    BY <1>2 DEF SwitchRoom
  <2>2. /\ roomModel' \in Rooms /\ TasksTyped'
        /\ isLoadingLatestMsg' \in BOOLEAN /\ broken' \subseteq {"latest", "more"}
    BY <2>1, GetListTyped
  <2>3. <<>> \in Seq(Messages)
    OBVIOUS
  <2>4. ScreenTyped' /\ FlagsTyped'
    BY <1>2, <2>2, <2>3 DEF SwitchRoom, Typed, ScreenTyped, FlagsTyped
  <2>5. BoundsTyped'
    BY <1>2, ConstantsAssumption DEF SwitchRoom, Typed, BoundsTyped
  <2> QED
    BY <1>2, <2>2, <2>4, <2>5, PartsUntouched DEF SwitchRoom, hiveVars, Typed
<1> QED
  BY <1>1, <1>2

LEMMA CloseRoomTyped ==
  ASSUME Typed, CloseRoom
  PROVE  Typed'
<1>1. ScreenTyped' /\ FlagsTyped'
  BY ResetTyped DEF CloseRoom
<1> QED
  BY <1>1, PartsUntouched DEF CloseRoom, hiveVars, Typed

LEMMA SyncTyped ==
  ASSUME Typed, Sync
  PROVE  Typed'
<1>1. roomModel \in Rooms /\ getListMessage(roomModel, FALSE)
  BY DEF Sync, Typed, ScreenTyped
<1>2. /\ roomModel' \in Rooms /\ TasksTyped'
      /\ isLoadingLatestMsg' \in BOOLEAN /\ broken' \subseteq {"latest", "more"}
  BY <1>1, GetListTyped
<1>3. changeListMessageData("LOADING", <<>>) /\ <<>> \in Seq(Messages)
  BY DEF Sync
<1>4. listWsMessage' \in Seq(Messages) /\ shown' = "LOADING" /\ SavesTyped'
  BY <1>3, ChangeListTyped DEF Typed
<1>5. ScreenTyped' /\ FlagsTyped'
  BY <1>2, <1>4 DEF Sync, Typed, ScreenTyped, FlagsTyped
<1>6. BoundsTyped'
  BY ConstantsAssumption DEF Sync, Typed, BoundsTyped
<1> QED
  BY <1>2, <1>4, <1>5, <1>6, PartsUntouched DEF Sync, Typed

LEMMA LoadMoreTyped ==
  ASSUME Typed, LoadMore
  PROVE  Typed'
<1>1. roomModel \in Rooms /\ offsetHistory \in Nat /\ totalHistory \in Nat
  BY DEF LoadMore, Typed, ScreenTyped, PagingTyped
<1>2. offsetHistory + Page \in Nat
  BY <1>1, ConstantsAssumption
<1>3. NewRequest("more", roomModel, offsetHistory + Page) \in Requests
  BY <1>1, <1>2, NewRequestTyped
<1>4. TasksTyped'
  BY <1>3 DEF LoadMore, Typed, TasksTyped
<1>5. PagingTyped'
  BY <1>1, <1>2, ConstantsAssumption DEF LoadMore, PagingTyped
<1>6. FlagsTyped' /\ ScreenTyped'
  BY DEF LoadMore, Typed, FlagsTyped, ScreenTyped, listVars
<1>7. BoundsTyped'
  BY ConstantsAssumption DEF LoadMore, Typed, BoundsTyped
<1> QED
  BY <1>4, <1>5, <1>6, <1>7, PartsUntouched DEF LoadMore, hiveVars, Typed

(* What a room held when a reply was made is within the bound.             *)
LEMMA AnswerTyped ==
  ASSUME Typed, NEW q \in requests, NEW n \in q.from..posted[q.room]
  PROVE  /\ q.room \in Rooms /\ q.offset \in Nat /\ q.kind \in {"latest", "more", "late"}
         /\ n \in 0..LastPost
<1>1. q \in Requests
  BY DEF Typed, TasksTyped
<1>2. /\ q.room \in Rooms /\ q.offset \in Nat /\ q.kind \in {"latest", "more", "late"}
      /\ q.from \in Nat
  BY <1>1 DEF Requests
<1>3. posted[q.room] \in 0..LastPost
  BY <1>2 DEF Typed, ServerTyped
<1> QED
  BY <1>2, <1>3, ConstantsAssumption

LEMMA RequestTyped ==
  ASSUME Typed, NEW q \in requests
  PROVE  q.room \in Rooms /\ q.offset \in Nat /\ q.kind \in {"latest", "more", "late"}
BY DEF Typed, TasksTyped, Requests

LEMMA ErrorReadTyped ==
  ASSUME Typed, NEW r \in Rooms, NEW calls \in SUBSET (1..2),
         handleErrorWhenGetListMessage(r, calls)
  PROVE  reads' \subseteq Reads
BY DEF handleErrorWhenGetListMessage, Typed, TasksTyped, Reads

LEMMA LatestReplyTyped ==
  ASSUME Typed, NEW q, LatestReply(q)
  PROVE  Typed'
<1>1. q \in requests /\ (LatestAnswered(q) \/ LatestFailed(q))
  BY DEF LatestReply
<1>2. q.room \in Rooms /\ q.offset \in Nat
  BY <1>1, RequestTyped
<1>3. FlagsTyped'
  BY DEF LatestReply, Typed, FlagsTyped
<1>0. requests' \subseteq Requests
  <2>1. Late(q) \in Requests
    BY <1>2 DEF Late, Requests
  <2>2. requests' \subseteq requests \cup {Late(q)}
    BY DEF LatestReply
  <2> QED
    BY <2>1, <2>2 DEF Typed, TasksTyped
<1>4. ASSUME NEW calls \in SUBSET (1..2), handleErrorWhenGetListMessage(q.room, calls),
             UNCHANGED <<listWsMessage, shown, mixed, pageVars, saves>>
      PROVE  Typed'
  <2>1. reads' \subseteq Reads
    BY <1>2, <1>4, ErrorReadTyped
  <2>2. TasksTyped'
    BY <1>0, <2>1 DEF TasksTyped
  <2>3. ScreenTyped'
    BY <1>4 DEF LatestReply, Typed, ScreenTyped
  <2> QED
    BY <1>3, <1>4, <2>2, <2>3, PartsUntouched DEF LatestReply, Typed
<1>5. ASSUME NEW n \in q.from..posted[q.room],
             changeListMessageData("SHOW", PageOf(q.room, n, 0)),
             totalHistory' = n, offsetHistory' = q.offset,
             mixed' = (q.room # roomModel), UNCHANGED reads
      PROVE  Typed'
  <2>1. n \in 0..LastPost
    BY <1>1, AnswerTyped
  <2>2. PageOf(q.room, n, 0) \in Seq(Messages)
    BY <1>2, <2>1, PageTyped
  <2>3. listWsMessage' \in Seq(Messages) /\ shown' = "SHOW" /\ SavesTyped'
    BY <1>5, <2>2, ChangeListTyped DEF Typed
  <2>4. ScreenTyped'
    BY <1>5, <2>3 DEF LatestReply, Typed, ScreenTyped
  <2>5. PagingTyped'
    BY <1>2, <1>5, <2>1, ConstantsAssumption DEF PagingTyped
  <2>6. TasksTyped'
    BY <1>0, <1>5 DEF Typed, TasksTyped
  <2> QED
    BY <1>3, <2>3, <2>4, <2>5, <2>6, PartsUntouched DEF LatestReply, Typed
<1>6. {1} \in SUBSET (1..2) /\ 1..2 \in SUBSET (1..2)
  OBVIOUS
<1>7. CASE LatestFailed(q)
  BY <1>4, <1>6, <1>7 DEF LatestFailed
<1>8. CASE LatestAnswered(q)
  BY <1>4, <1>5, <1>6, <1>8 DEF LatestAnswered
<1> QED
  BY <1>1, <1>7, <1>8

LEMMA LateErrorTyped ==
  ASSUME Typed, NEW q, LateError(q)
  PROVE  Typed'
<1>1. q.room \in Rooms
  BY RequestTyped DEF LateError
<1>2. {2} \in SUBSET (1..2) /\ handleErrorWhenGetListMessage(q.room, {2})
  BY DEF LateError
<1>3. reads' \subseteq Reads
  BY <1>1, <1>2, ErrorReadTyped
<1>4. TasksTyped'
  BY <1>3 DEF LateError, Typed, TasksTyped
<1> QED
  BY <1>4, PartsUntouched DEF LateError, hiveVars, Typed

LEMMA MoreReplyTyped ==
  ASSUME Typed, NEW q, MoreReply(q)
  PROVE  Typed'
<1>1. q \in requests /\ (MoreAnswered(q) \/ UNCHANGED <<listWsMessage, shown, mixed, pageVars, saves>>)
  BY DEF MoreReply
<1>2. q.room \in Rooms /\ q.offset \in Nat
  BY <1>1, RequestTyped
<1>3. FlagsTyped' /\ TasksTyped'
  BY DEF MoreReply, Typed, FlagsTyped, TasksTyped
<1>4. ASSUME UNCHANGED <<listWsMessage, shown, mixed, pageVars, saves>>
      PROVE  Typed'
  <2>1. ScreenTyped'
    BY <1>4 DEF MoreReply, Typed, ScreenTyped
  <2> QED
    BY <1>3, <1>4, <2>1, PartsUntouched DEF MoreReply, Typed
<1>5. ASSUME NEW n \in q.from..posted[q.room],
             changeListMessageData("SHOW", listWsMessage \o PageOf(q.room, n, q.offset)),
             totalHistory' = n, offsetHistory' = q.offset, mixed' = TRUE
      PROVE  Typed'
  <2>1. n \in 0..LastPost
    BY <1>1, AnswerTyped
  <2>2. PageOf(q.room, n, q.offset) \in Seq(Messages)
    BY <1>2, <2>1, PageTyped
  <2>3. listWsMessage \o PageOf(q.room, n, q.offset) \in Seq(Messages)
    BY <2>2 DEF Typed, ScreenTyped
  <2>4. listWsMessage' \in Seq(Messages) /\ shown' = "SHOW" /\ SavesTyped'
    BY <1>5, <2>3, ChangeListTyped DEF Typed
  <2>5. ScreenTyped'
    BY <1>5, <2>4 DEF MoreReply, Typed, ScreenTyped
  <2>6. PagingTyped'
    BY <1>2, <1>5, <2>1, ConstantsAssumption DEF PagingTyped
  <2> QED
    BY <1>3, <2>4, <2>5, <2>6, PartsUntouched DEF MoreReply, Typed
<1> QED
  BY <1>1, <1>4, <1>5 DEF MoreAnswered

LEMMA BrokenReplyTyped ==
  ASSUME Typed, NEW q, BrokenReply(q)
  PROVE  Typed'
<1>1. q \in requests
  BY DEF BrokenReply
<1>2. q.room \in Rooms /\ q.kind \in {"latest", "more"} /\ {1} \in SUBSET (1..2)
  BY <1>1, RequestTyped DEF BrokenReply
<1>3. reads' \subseteq Reads
  BY <1>2, ErrorReadTyped DEF BrokenReply, Typed, TasksTyped
<1>4. FlagsTyped' /\ TasksTyped'
  BY <1>2, <1>3 DEF BrokenReply, Typed, FlagsTyped, TasksTyped
<1> QED
  BY <1>4, PartsUntouched DEF BrokenReply, hiveVars, Typed

LEMMA CacheReadTyped ==
  ASSUME Typed, NEW t, CacheRead(t)
  PROVE  Typed'
<1>1. t.room \in Rooms
  BY DEF CacheRead, Typed, TasksTyped, Reads
<1>2. TasksTyped' /\ FlagsTyped'
  BY DEF CacheRead, Typed, TasksTyped, FlagsTyped, flagVars
<1>3. ASSUME changeListMessageData("SHOW", cache[t.room]), assumeOnePage, mixed' = TRUE
      PROVE  ScreenTyped' /\ PagingTyped' /\ SavesTyped'
  <2>1. cache[t.room] \in Seq(Messages)
    BY <1>1 DEF Typed, CacheTyped
  <2>2. listWsMessage' \in Seq(Messages) /\ shown' = "SHOW" /\ SavesTyped'
    BY <1>3, <2>1, ChangeListTyped DEF Typed
  <2>3. ScreenTyped'
    BY <1>3, <2>2 DEF CacheRead, Typed, ScreenTyped
  <2>4. PagingTyped'
    BY <1>3, PartsUntouched, ConstantsAssumption DEF assumeOnePage, Typed, PagingTyped
  <2> QED
    BY <2>2, <2>3, <2>4
<1>4. ASSUME changeListMessageData("NO_DATA", <<>>), mixed' = FALSE, UNCHANGED pageVars
      PROVE  ScreenTyped' /\ PagingTyped' /\ SavesTyped'
  <2>1. <<>> \in Seq(Messages)
    OBVIOUS
  <2>2. listWsMessage' \in Seq(Messages) /\ shown' = "NO_DATA" /\ SavesTyped'
    BY <1>4, <2>1, ChangeListTyped DEF Typed
  <2>3. ScreenTyped'
    BY <1>4, <2>2 DEF CacheRead, Typed, ScreenTyped
  <2> QED
    BY <1>4, <2>2, <2>3, PartsUntouched DEF Typed
<1>5. ASSUME UNCHANGED <<listWsMessage, shown, mixed, pageVars, saves>>
      PROVE  ScreenTyped' /\ PagingTyped' /\ SavesTyped'
  <2>1. ScreenTyped'
    BY <1>5 DEF CacheRead, Typed, ScreenTyped
  <2> QED
    BY <1>5, <2>1, PartsUntouched DEF Typed
<1>6. ScreenTyped' /\ PagingTyped' /\ SavesTyped'
  BY <1>3, <1>4, <1>5 DEF CacheRead
<1> QED
  BY <1>2, <1>6, PartsUntouched DEF CacheRead, Typed

LEMMA WithNewestTyped ==
  ASSUME NEW old \in Seq(Messages), NEW m \in Messages
  PROVE  WithNewest(old, m) \in Seq(Messages)
<1>1. <<>> \in Seq(Messages) /\ <<m>> \in Seq(Messages)
  OBVIOUS
<1>2. SubSeq(old, 1, Len(old) - 1) \in Seq(Messages) \/ old = <<>>
  OBVIOUS
<1>3. Take(old, Page - 1) \in Seq(Messages)
  BY TakeTyped, ConstantsAssumption
<1>4. \A s \in Seq(Messages) : <<m>> \o s \in Seq(Messages)
  BY <1>1
<1> QED
  BY <1>1, <1>2, <1>3, <1>4 DEF WithNewest

LEMMA PutTyped ==
  ASSUME Typed, NEW r \in Rooms, Put(r)
  PROVE  Typed'
<1>1. saves[r] \in Seq(Carrying) /\ saves[r] # <<>> /\ cache[r] \in Seq(Messages)
      /\ listWsMessage \in Seq(Messages)
  BY DEF Put, Typed, SavesTyped, CacheTyped, ScreenTyped
<1>0. ScreenTyped'
  BY DEF Put, Typed, ScreenTyped
<1>2. Head(saves[r]) \in Carrying /\ Tail(saves[r]) \in Seq(Carrying)
  BY <1>1
<1>3. SavesTyped'
  BY <1>2 DEF Put, Typed, SavesTyped
<1> DEFINE s == Head(saves[r])
           c == CASE s.kind = "live"   -> listWsMessage
                  [] s.kind = "copy"   -> s.data
                  [] s.kind = "only"   -> WithNewest(cache[r], s.data[1])
                  [] s.kind = "delete" -> <<>>
<1>4. s.kind \in {"live", "copy", "only", "delete"} /\ s.data \in Seq(Messages)
      /\ (s.kind = "only" => s.data # <<>>)
  BY <1>2 DEF Carrying, Saves
<1>5. cache' = [cache EXCEPT ![r] = c]
  BY DEF Put, Typed, CacheTyped
<1> HIDE DEF s
<1>6. s.kind = "only" => WithNewest(cache[r], s.data[1]) \in Seq(Messages)
  <2> SUFFICES ASSUME s.kind = "only" PROVE WithNewest(cache[r], s.data[1]) \in Seq(Messages)
    OBVIOUS
  <2>1. s.data[1] \in Messages
    BY <1>4
  <2> QED
    BY <1>1, <2>1, WithNewestTyped
<1>7. <<>> \in Seq(Messages)
  OBVIOUS
<1>8. c \in Seq(Messages)
  BY <1>1, <1>4, <1>6, <1>7
<1> HIDE DEF c
<1>9. CacheTyped'
  BY <1>5, <1>8 DEF Typed, CacheTyped
<1> QED
  BY <1>0, <1>3, <1>9, PartsUntouched DEF Put, Typed

(* A list of some of the messages listed.                                  *)
LEMMA SettledTyped ==
  ASSUME listWsMessage \in Seq(Messages)
  PROVE  /\ Settled \in Seq(Messages)
         /\ Elements(Settled) \subseteq Elements(listWsMessage)
         /\ Descending(listWsMessage) => Descending(Settled)
         /\ Distinct(listWsMessage) => Distinct(Settled)
<1> DEFINE I == {i \in 1..Len(listWsMessage) : ~listWsMessage[i].isSending}
<1>1. I \in SUBSET (1..Len(listWsMessage)) /\ Settled = Only(listWsMessage, I)
  BY DEF Settled
<1> HIDE DEF I
<1>2. /\ Settled \in Seq(Messages)
      /\ Elements(Settled) = {listWsMessage[i] : i \in I}
      /\ Descending(listWsMessage) => Descending(Settled)
      /\ Distinct(listWsMessage) => Distinct(Settled)
  BY <1>1, OnlySelects
<1> QED
  BY <1>1, <1>2 DEF Elements

(* A message put in front of others.                                       *)
LEMMA InFront ==
  ASSUME NEW s \in Seq(Messages), NEW m \in Messages
  PROVE  /\ <<m>> \o s \in Seq(Messages) /\ Len(<<m>> \o s) = Len(s) + 1
         /\ Elements(<<m>> \o s) = {m} \cup Elements(s)
         /\ Distinct(s) /\ m \notin Elements(s) => Distinct(<<m>> \o s)
<1> DEFINE t == <<m>> \o s
<1>1. t \in Seq(Messages) /\ Len(t) = Len(s) + 1 /\ Len(s) \in Nat
  OBVIOUS
<1>2. t[1] = m /\ \A i \in 1..Len(s) : t[i + 1] = s[i]
  OBVIOUS
<1>3. \A i \in 1..Len(t) : i = 1 \/ (i - 1 \in 1..Len(s) /\ t[i] = s[i - 1])
  BY <1>1, <1>2
<1> HIDE DEF t
<1>4. Elements(t) = {m} \cup Elements(s)
  <2>1. Elements(t) \subseteq {m} \cup Elements(s)
    BY <1>2, <1>3 DEF Elements
  <2>2. m \in Elements(t)
    BY <1>1, <1>2 DEF Elements
  <2>3. Elements(s) \subseteq Elements(t)
    <3> SUFFICES ASSUME NEW i \in 1..Len(s) PROVE s[i] \in Elements(t)
      BY DEF Elements
    <3>1. i + 1 \in 1..Len(t) /\ t[i + 1] = s[i]
      BY <1>1, <1>2
    <3> QED
      BY <3>1 DEF Elements
  <2> QED
    BY <2>1, <2>2, <2>3
<1>5. ASSUME Distinct(s), m \notin Elements(s) PROVE Distinct(t)
  <2> SUFFICES ASSUME NEW i \in 1..Len(t), NEW j \in 1..Len(t), t[i] = t[j]
               PROVE  i = j
    BY DEF Distinct
  <2>1. \A k \in 1..Len(s) : s[k] # m
    BY <1>5 DEF Elements
  <2>2. (i = 1) <=> (j = 1)
    BY <1>2, <1>3, <2>1
  <2>3. CASE i # 1 /\ j # 1
    <3>1. /\ i - 1 \in 1..Len(s) /\ j - 1 \in 1..Len(s)
          /\ s[i - 1] = s[j - 1]
      BY <1>3, <2>3
    <3>2. i - 1 = j - 1
      BY <1>5, <3>1 DEF Distinct
    <3> QED
      BY <1>1, <3>2
  <2> QED
    BY <2>2, <2>3
<1> QED
  BY <1>1, <1>4, <1>5 DEF t

(* What addItem does to the list: nothing, or the settled messages with    *)
(* the new one among them, once.                                           *)
AddedTo(m) ==
  \/ m.rid # roomModel /\ UNCHANGED <<listWsMessage, shown>>
  \/ m.rid = roomModel /\ m \in Elements(Settled)
     /\ listWsMessage' = Settled /\ UNCHANGED shown
  \/ m.rid = roomModel /\ m \notin Elements(Settled)
     /\ listWsMessage' = Sort(<<m>> \o Settled)
     /\ \/ shown' = "SHOW"
        \/ UNCHANGED shown /\ \E r \in Rooms : r = listWsMessage'[1].rid /\ Announcing(r)'

LEMMA AddItemTyped ==
  ASSUME listWsMessage \in Seq(Messages), SavesTyped, NEW m \in Messages, addItem(m)
  PROVE  AddedTo(m) /\ listWsMessage' \in Seq(Messages) /\ SavesTyped' /\ Growing
<1>1. Settled \in Seq(Messages) /\ Len(Settled) \in Nat
  BY SettledTyped
<1>2. CASE m.rid = roomModel /\ m \in Elements(Settled) /\ listWsMessage' = Settled
           /\ UNCHANGED <<shown, saves>>
  BY <1>1, <1>2, UnchangedGrows DEF AddedTo, SavesTyped
<1>3. CASE /\ m.rid = roomModel /\ m \notin Elements(Settled)
           /\ listWsMessage' = Sort(<<m>> \o Settled)
           /\ \/ SaveCopy(listWsMessage'[1].rid, listWsMessage', TRUE) /\ UNCHANGED shown
              \/ SaveLive(listWsMessage'[1].rid, TRUE) /\ UNCHANGED shown
              \/ shown' = "SHOW" /\ UNCHANGED saves
  <2>1. <<m>> \o Settled \in Seq(Messages) /\ Len(<<m>> \o Settled) = Len(Settled) + 1
    BY <1>1, InFront
  <2>2. listWsMessage' \in Seq(Messages) /\ Len(listWsMessage') = Len(Settled) + 1
    BY <1>3, <2>1, SortSorts
  <2>3. listWsMessage'[1] \in Messages
    BY <1>1, <2>2
  <2>4. PICK r \in Rooms : r = listWsMessage'[1].rid
    BY <2>3, TimesCompare
  <2>5. CASE SaveCopy(r, listWsMessage', TRUE) /\ UNCHANGED shown
    <3>1. SavesTyped' /\ Growing /\ Announcing(r)'
      BY <2>2, <2>5, SaveCopyTyped
    <3> QED
      BY <1>3, <2>2, <2>4, <2>5, <3>1 DEF AddedTo
  <2>6. CASE SaveLive(r, TRUE) /\ UNCHANGED shown
    <3>1. SavesTyped' /\ Growing /\ Announcing(r)'
      BY <2>6, SaveLiveTyped
    <3> QED
      BY <1>3, <2>2, <2>4, <2>6, <3>1 DEF AddedTo
  <2>7. CASE shown' = "SHOW" /\ UNCHANGED saves
    BY <1>3, <2>2, <2>7, UnchangedGrows DEF AddedTo, SavesTyped
  <2> QED
    BY <1>3, <2>4, <2>5, <2>6, <2>7
<1>4. CASE m.rid # roomModel /\ Save(m.rid, "only", <<m>>, FALSE)
           /\ UNCHANGED <<listWsMessage, shown>>
  BY <1>4, SaveOnlyTyped DEF AddedTo
<1> QED
  BY <1>2, <1>3, <1>4 DEF addItem

(* An event leaves the list, or adds to it, or is its first message.       *)
EventShown(e) ==
  \/ e.kind = "changed" /\ AddedTo(e.msg)
  \/ e.kind = "stream" /\ listWsMessage = <<>> /\ listWsMessage' = <<e.msg>> /\ shown' = "SHOW"
  \/ e.kind # "changed" /\ shown' \in {shown, "SHOW"} /\ UNCHANGED listWsMessage
     /\ (e.kind = "stream" => listWsMessage # <<>>)

LEMMA EventTyped ==
  ASSUME Typed, HandleEvent
  PROVE  /\ Head(events) \in Events /\ EventShown(Head(events))
         /\ listWsMessage' \in Seq(Messages) /\ SavesTyped' /\ Growing
         /\ mixed' = (mixed \/ (Head(events).kind = "stream" /\ listWsMessage = <<>>
                                  /\ Head(events).msg.rid # roomModel))
<1> DEFINE e == Head(events)
<1>1. e \in Events
  BY DEF HandleEvent, Typed, ServerTyped
<1>2. /\ \/ e.kind = "changed" /\ addItem(e.msg)
         \/ e.kind = "stream"  /\ updateMessageNormal(e.msg)
         \/ e.kind = "edited"  /\ updateMessageWhenEdited(e.msg)
         \/ e.kind = "revoked" /\ updateMessageWhenRevoke(e.msg)
      /\ mixed' = (mixed \/ (e.kind = "stream" /\ listWsMessage = <<>> /\ e.msg.rid # roomModel))
  BY DEF HandleEvent
<1> HIDE DEF e
<1>3. e.msg \in Messages /\ e.msg.rid \in Rooms
  <2>1. e.msg \in Messages
    BY <1>1 DEF Events
  <2> QED
    BY <2>1, TimesCompare
<1>4. listWsMessage \in Seq(Messages) /\ SavesTyped
  BY DEF Typed, ScreenTyped
<1>5. CASE e.kind = "changed" /\ addItem(e.msg)
  <2>1. AddedTo(e.msg) /\ listWsMessage' \in Seq(Messages) /\ SavesTyped' /\ Growing
    BY <1>3, <1>4, <1>5, AddItemTyped
  <2> QED
    BY <1>1, <1>2, <1>5, <2>1 DEF EventShown, e
<1>6. CASE e.kind = "stream" /\ updateMessageNormal(e.msg)
  <2>1. SavesTyped' /\ Growing
    BY <1>3, <1>4, <1>6, SaveLiveTyped, UnchangedGrows DEF updateMessageNormal, SavesTyped
  <2>2. listWsMessage' = listWsMessage \/ listWsMessage' = <<e.msg>>
    BY <1>6 DEF updateMessageNormal
  <2>3. listWsMessage' \in Seq(Messages)
    <3>1. <<e.msg>> \in Seq(Messages)
      BY <1>3
    <3> QED
      BY <1>4, <2>2, <3>1
  <2>4. listWsMessage = <<>> => Elements(listWsMessage) = {}
    BY DEF Elements
  <2>5. EventShown(e)
    BY <1>6, <2>4 DEF updateMessageNormal, EventShown
  <2> QED
    BY <1>1, <1>2, <2>1, <2>3, <2>5 DEF e
<1>7. CASE e.kind = "edited" /\ updateMessageWhenEdited(e.msg)
  <2>1. SavesTyped' /\ Growing
    BY <1>3, <1>4, <1>7, SaveLiveTyped DEF updateMessageWhenEdited
  <2> QED
    BY <1>1, <1>2, <1>4, <1>7, <2>1 DEF updateMessageWhenEdited, EventShown, e
<1>8. CASE e.kind = "revoked" /\ updateMessageWhenRevoke(e.msg)
  <2>1. SavesTyped' /\ Growing
    BY <1>3, <1>4, <1>8, SaveLiveTyped, UnchangedGrows DEF updateMessageWhenRevoke, SavesTyped
  <2> QED
    BY <1>1, <1>2, <1>4, <1>8, <2>1 DEF updateMessageWhenRevoke, EventShown, e
<1> QED
  BY <1>2, <1>5, <1>6, <1>7, <1>8

LEMMA HandleEventTyped ==
  ASSUME Typed, HandleEvent
  PROVE  Typed'
<1>1. /\ Head(events) \in Events /\ EventShown(Head(events))
      /\ listWsMessage' \in Seq(Messages) /\ SavesTyped'
  BY EventTyped
<1>2. mixed' \in BOOLEAN
  BY EventTyped DEF Typed, ScreenTyped
<1>3. shown' \in {shown, "SHOW"}
  BY <1>1 DEF EventShown, AddedTo
<1>4. ScreenTyped'
  BY <1>1, <1>2, <1>3 DEF HandleEvent, Typed, ScreenTyped
<1>5. FlagsTyped' /\ TasksTyped'
  BY PartsUntouched DEF HandleEvent, Typed
<1>6. ServerTyped'
  <2>1. events \in Seq(Events) /\ events # <<>> /\ events' = Tail(events)
    BY DEF HandleEvent, Typed, ServerTyped
  <2>2. events' \in Seq(Events)
    BY <2>1
  <2> QED
    BY <2>2 DEF HandleEvent, Typed, ServerTyped
<1>7. GroupsTyped'
  <2>1. Head(events).msg \in Messages
    BY <1>1 DEF Events
  <2>2. Head(events).msg.rid \in Rooms
    BY <2>1, TimesCompare
  <2>3. listGroups' \subseteq listGroups \cup ({Head(events).msg.rid} \ Direct)
    BY DEF HandleEvent
  <2>4. listGroups' \subseteq Groups
    BY <2>2, <2>3 DEF Typed, GroupsTyped, Groups
  <2> QED
    BY <2>4 DEF HandleEvent, Typed, GroupsTyped
<1> QED
  BY <1>1, <1>4, <1>5, <1>6, <1>7, PartsUntouched DEF HandleEvent, Typed

(* What the failure of a send does to the list.                            *)
LEMMA WithoutTyped ==
  ASSUME listWsMessage \in Seq(Messages), NEW m, NEW l,
         l = Only(listWsMessage, {i \in 1..Len(listWsMessage) : listWsMessage[i] # m})
  PROVE  /\ l \in Seq(Messages)
         /\ Elements(l) \subseteq Elements(listWsMessage)
         /\ Descending(listWsMessage) => Descending(l)
         /\ Distinct(listWsMessage) => Distinct(l)
<1> DEFINE I == {i \in 1..Len(listWsMessage) : listWsMessage[i] # m}
<1>1. I \in SUBSET (1..Len(listWsMessage)) /\ l = Only(listWsMessage, I)
  OBVIOUS
<1> HIDE DEF I
<1>2. /\ l \in Seq(Messages)
      /\ Elements(l) = {listWsMessage[i] : i \in I}
      /\ Descending(listWsMessage) => Descending(l)
      /\ Distinct(listWsMessage) => Distinct(l)
  BY <1>1, OnlySelects
<1> QED
  BY <1>1, <1>2 DEF Elements

LEMMA SendMessageTyped ==
  ASSUME Typed, NEW t \in PhoneTimes, SendMessage(t)
  PROVE  Typed' /\ AddedTo(Placeholder(roomModel, t)) /\ roomModel \in Rooms /\ Growing
<1> DEFINE m == Placeholder(roomModel, t)
<1>1. roomModel \in Rooms
  BY DEF SendMessage, Typed, ScreenTyped
<1>2. m \in Messages
  BY <1>1, PlaceholderTyped
<1>3. AddedTo(m) /\ listWsMessage' \in Seq(Messages) /\ SavesTyped' /\ Growing
  BY <1>2, AddItemTyped DEF SendMessage, Typed, ScreenTyped
<1> HIDE DEF m
<1>4. ScreenTyped'
  BY <1>3 DEF SendMessage, Typed, ScreenTyped, AddedTo
<1>5. [msg |-> m, posted |-> FALSE] \in Sendings
  BY <1>2 DEF Sendings
<1>6. ServerTyped'
  BY <1>5 DEF SendMessage, Typed, ServerTyped, m
<1>7. BoundsTyped'
  BY ConstantsAssumption DEF SendMessage, Typed, BoundsTyped
<1> QED
  BY <1>1, <1>3, <1>4, <1>6, <1>7, PartsUntouched DEF SendMessage, Typed, m

LEMMA SendOverTyped ==
  ASSUME Typed, NEW c, SendOver(c)
  PROVE  Typed'
<1>1. ServerTyped'
  BY DEF SendOver, Typed, ServerTyped
<1> QED
  BY <1>1, PartsUntouched DEF SendOver, hiveVars, Typed

LEMMA SendFailedTyped ==
  ASSUME Typed, NEW c, SendFailed(c)
  PROVE  Typed'
<1>1. ServerTyped'
  BY DEF SendFailed, Typed, ServerTyped
<1>2. listWsMessage' \in Seq(Messages)
  BY WithoutTyped DEF SendFailed, Typed, ScreenTyped
<1>3. ScreenTyped'
  BY <1>2 DEF SendFailed, Typed, ScreenTyped
<1>4. SavesTyped' /\ GroupsTyped'
  <2>1. CASE roomModel = NoRoom
    BY <2>1, PartsUntouched DEF SendFailed, Typed, groupVars
  <2>2. CASE roomModel # NoRoom
    <3>1. roomModel \in Rooms /\ removeGroup(roomModel)
      BY <2>2 DEF SendFailed, Typed, ScreenTyped
    <3>2. SavesTyped'
      BY <3>1, RemoveGroupTyped DEF Typed
    <3> QED
      BY <3>1, <3>2 DEF removeGroup, SendFailed, Typed, GroupsTyped
  <2> QED
    BY <2>1, <2>2
<1> QED
  BY <1>1, <1>3, <1>4, PartsUntouched DEF SendFailed, Typed

LEMMA LeaveTyped ==
  ASSUME Typed,
         LeaveRoom \/ \E r \in Groups : LeaveAnswered(r) \/ LeaveFailed(r)
  PROVE  Typed'
<1>1. CASE LeaveRoom
  <2>1. GroupsTyped'
    BY <1>1 DEF LeaveRoom, Typed, GroupsTyped
  <2> QED
    BY <1>1, <2>1, PartsUntouched DEF LeaveRoom, hiveVars, Typed
<1>2. ASSUME NEW r \in Groups, LeaveAnswered(r) PROVE Typed'
  <2>1. /\ removeGroup(r) /\ r \in Rooms
        /\ resetVariable \/ UNCHANGED <<listVars, flagVars>>
    BY <1>2 DEF LeaveAnswered, Groups
  <2>2. SavesTyped' /\ ScreenTyped' /\ FlagsTyped'
    BY <2>1, RemoveGroupTyped, ResetTyped, PartsUntouched DEF Typed
  <2>3. GroupsTyped'
    BY <1>2, <2>1 DEF LeaveAnswered, removeGroup, Typed, GroupsTyped
  <2> QED
    BY <1>2, <2>2, <2>3, PartsUntouched DEF LeaveAnswered, Typed
<1>3. ASSUME NEW r \in Groups, LeaveFailed(r) PROVE Typed'
  <2>1. GroupsTyped'
    BY <1>3 DEF LeaveFailed, Typed, GroupsTyped
  <2> QED
    BY <1>3, <2>1, PartsUntouched DEF LeaveFailed, hiveVars, Typed
<1> QED
  BY <1>1, <1>2, <1>3

LEMMA NotifyTyped ==
  ASSUME events \in Seq(Events), NEW kind \in {"stream", "edited", "revoked"},
         NEW m \in Messages, Notify(kind, m)
  PROVE  events' \in Seq(Events)
<1> DEFINE changed == [kind |-> "changed", msg |-> m]
           stream  == [kind |-> kind, msg |-> m]
<1>1. changed \in Events /\ stream \in Events
  BY DEF Events
<1>2. \/ events' = Append(events, changed)
      \/ events' \in {events \o <<changed, stream>>, events \o <<stream, changed>>}
  BY DEF Notify
<1> HIDE DEF changed, stream
<1>3. <<changed, stream>> \in Seq(Events) /\ <<stream, changed>> \in Seq(Events)
  BY <1>1
<1>4. \A s \in Seq(Events) : events \o s \in Seq(Events)
  OBVIOUS
<1>5. Append(events, changed) \in Seq(Events)
  BY <1>1
<1> QED
  BY <1>2, <1>3, <1>4, <1>5

LEMMA PostInTyped ==
  ASSUME Typed, NEW r \in Rooms, PostIn(r)
  PROVE  posted' \in [Rooms -> 0..LastPost] /\ events' \in Seq(Events)
<1>1. posted \in [Rooms -> 0..LastPost] /\ events \in Seq(Events)
  BY DEF Typed, ServerTyped
<1>2. posted[r] + 1 \in 1..LastPost
  BY <1>1, ConstantsAssumption DEF PostIn
<1>3. Posted(r, posted[r] + 1) \in Messages
  BY <1>2, PostedTyped
<1>4. events' \in Seq(Events)
  BY <1>1, <1>3, NotifyTyped DEF PostIn
<1>5. posted' \in [Rooms -> 0..LastPost]
  BY <1>1, <1>2 DEF PostIn
<1> QED
  BY <1>4, <1>5

LEMMA ServerStepTyped ==
  ASSUME Typed, Server
  PROVE  Typed'
<1>1. ASSUME NEW r \in Rooms, Post(r) PROVE Typed'
  <2>1. ServerTyped'
    BY <1>1, PostInTyped DEF Post, Typed, ServerTyped
  <2> QED
    BY <1>1, <2>1, PartsUntouched DEF Post, hiveVars, Typed
<1>2. ASSUME NEW r \in Rooms, Edit(r) PROVE Typed'
  <2>1. posted[r] \in 1..LastPost /\ events \in Seq(Events)
    BY <1>2, ConstantsAssumption DEF Edit, Typed, ServerTyped
  <2>2. Posted(r, posted[r]) \in Messages
    BY <2>1, PostedTyped
  <2>3. events' \in Seq(Events)
    BY <1>2, <2>1, <2>2, NotifyTyped DEF Edit
  <2>4. ServerTyped'
    BY <1>2, <2>3 DEF Edit, Typed, ServerTyped
  <2>5. BoundsTyped'
    BY <1>2, ConstantsAssumption DEF Edit, Typed, BoundsTyped
  <2> QED
    BY <1>2, <2>4, <2>5, PartsUntouched DEF Edit, hiveVars, Typed
<1>3. ASSUME NEW c \in sending, SendAccepted(c) PROVE Typed'
  <2>1. c \in Sendings
    BY DEF Typed, ServerTyped
  <2>2. c.msg \in Messages /\ [c EXCEPT !.posted = TRUE] \in Sendings
    BY <2>1 DEF Sendings
  <2>3. posted' \in [Rooms -> 0..LastPost] /\ events' \in Seq(Events)
    BY <1>3, <2>2, TimesCompare, PostInTyped DEF SendAccepted
  <2>4. ServerTyped'
    BY <1>3, <2>2, <2>3 DEF SendAccepted, Typed, ServerTyped
  <2> QED
    BY <1>3, <2>4, PartsUntouched DEF SendAccepted, hiveVars, Typed
<1>4. CASE LoseEvents
  <2>1. <<>> \in Seq(Events)
    OBVIOUS
  <2>2. ServerTyped'
    BY <1>4, <2>1 DEF LoseEvents, Typed, ServerTyped
  <2>3. BoundsTyped'
    BY <1>4, ConstantsAssumption DEF LoseEvents, Typed, BoundsTyped
  <2> QED
    BY <1>4, <2>2, <2>3, PartsUntouched DEF LoseEvents, hiveVars, Typed
<1> QED
  BY <1>1, <1>2, <1>3, <1>4 DEF Server

LEMMA TypedStep ==
  ASSUME Typed, [Next]_vars
  PROVE  Typed'
<1>1. CASE Screen
  BY <1>1, OpenRoomTyped, CloseRoomTyped, SyncTyped, LoadMoreTyped, LeaveTyped,
     SendMessageTyped
  DEF Screen
<1>2. CASE PageReplies
  BY <1>2, LatestReplyTyped, MoreReplyTyped, BrokenReplyTyped DEF PageReplies
<1>3. CASE SendReplies
  BY <1>3, SendOverTyped, SendFailedTyped DEF SendReplies
<1>4. CASE LeaveReplies
  BY <1>4, LeaveTyped DEF LeaveReplies
<1>5. CASE CacheReads
  BY <1>5, CacheReadTyped DEF CacheReads
<1>6. CASE Puts
  BY <1>6, PutTyped DEF Puts
<1>7. CASE UNCHANGED vars
  BY <1>7, PartsUntouched DEF vars, hiveVars, Typed
<1>8. CASE LateErrors
  BY <1>8, LateErrorTyped DEF LateErrors
<1> QED
  BY <1>1, <1>2, <1>3, <1>4, <1>5, <1>6, <1>7, <1>8, HandleEventTyped, ServerStepTyped
     DEF Next

LEMMA TypedAlways == Spec => []Typed
BY TypedInit, TypedStep, PTL DEF Spec

(* Every variable keeps its type: no step takes the room of a message from *)
(* an empty list, pages from an offset that is null or stores the first    *)
(* message of none.                                                        *)
THEOREM TypeCorrect == Spec => []TypeOK
BY TypedAlways, TypedSuffices, PTL

-----------------------------------------------------------------------------
(* What the screen shows                                                   *)

(* While no room is open the list is empty, or it came from a reply that   *)
(* was still under way when its room was closed.                           *)
Closed == roomModel = NoRoom => listWsMessage = <<>> \/ mixed

Shown == NewestFirst /\ OwnMessagesOnce /\ ScreenMatchesList /\ Closed

LEMMA ShownUntouched ==
  ASSUME Typed, Shown, UNCHANGED listVars, Growing
  PROVE  Shown'
<1>1. NewestFirst' /\ OwnMessagesOnce' /\ Closed'
  BY DEF Shown, listVars, NewestFirst, OwnMessagesOnce, Closed
<1>2. ASSUME roomModel' # NoRoom, shown' \in {"LOADING", "NO_DATA"}
      PROVE  listWsMessage' = <<>> \/ mixed' \/ Announcing(roomModel)'
  <2>1. listWsMessage = <<>> \/ mixed \/ Announcing(roomModel)
    BY <1>2 DEF Shown, ScreenMatchesList, listVars
  <2>2. roomModel \in Rooms /\ roomModel' = roomModel
    BY <1>2 DEF Typed, ScreenTyped, listVars
  <2>3. Announcing(roomModel) => Announcing(roomModel)'
    BY <2>2 DEF Growing, Announcing
  <2> QED
    BY <2>1, <2>3 DEF listVars
<1>3. ScreenMatchesList'
  BY <1>2 DEF ScreenMatchesList
<1> QED
  BY <1>1, <1>3 DEF Shown

LEMMA ShownEmpty ==
  ASSUME listWsMessage' = <<>>
  PROVE  Shown'
BY DEF Shown, NewestFirst, OwnMessagesOnce, ScreenMatchesList, Closed, Descending, Elements

LEMMA ShownMixed ==
  ASSUME mixed' = TRUE, Descending(listWsMessage')
  PROVE  Shown'
BY DEF Shown, NewestFirst, OwnMessagesOnce, ScreenMatchesList, Closed

(* A list that is shown without the spinner, while a room is open.         *)
LEMMA ShownOwn ==
  ASSUME Descending(listWsMessage'), shown' = "SHOW", roomModel' # NoRoom,
         \A m \in Elements(listWsMessage') : m.rid = roomModel',
         Distinct(listWsMessage')
  PROVE  Shown'
BY DEF Shown, NewestFirst, OwnMessagesOnce, ScreenMatchesList, Closed, Distinct

(* Messages go out of the list, and none comes in.                         *)
LEMMA ShownFewer ==
  ASSUME Typed, Shown, Growing, UNCHANGED <<roomModel, mixed>>,
         listWsMessage = <<>> => listWsMessage' = <<>>,
         shown' \in {shown, "SHOW"} \/ listWsMessage' = <<>>,
         Descending(listWsMessage) => Descending(listWsMessage'),
         Elements(listWsMessage') \subseteq Elements(listWsMessage),
         Distinct(listWsMessage) => Distinct(listWsMessage')
  PROVE  Shown'
<1>1. NewestFirst'
  BY DEF Shown, NewestFirst
<1>2. OwnMessagesOnce'
  BY DEF Shown, OwnMessagesOnce, Distinct
<1>3. Closed'
  BY DEF Shown, Closed
<1>4. ASSUME roomModel' # NoRoom, shown' \in {"LOADING", "NO_DATA"}
      PROVE  listWsMessage' = <<>> \/ mixed' \/ Announcing(roomModel)'
  <2>1. listWsMessage' = <<>> \/ mixed \/ Announcing(roomModel)
    BY <1>4 DEF Shown, ScreenMatchesList
  <2>2. roomModel \in Rooms /\ roomModel' = roomModel
    BY <1>4 DEF Typed, ScreenTyped
  <2>3. Announcing(roomModel) => Announcing(roomModel)'
    BY <2>2 DEF Growing, Announcing
  <2> QED
    BY <2>1, <2>3
<1>5. ScreenMatchesList'
  BY <1>4 DEF ScreenMatchesList
<1> QED
  BY <1>1, <1>2, <1>3, <1>5 DEF Shown

LEMMA NoneListed ==
  ASSUME NEW s \in Seq(Messages), NEW t \in Seq(Messages),
         Elements(t) \subseteq Elements(s), s = <<>>
  PROVE  t = <<>>
<1>1. Elements(s) = {}
  BY DEF Elements
<1>2. Len(t) \in Nat /\ (Len(t) # 0 => t[1] \in Elements(t))
  BY DEF Elements
<1> QED
  BY <1>1, <1>2

LEMMA ShownAdded ==
  ASSUME Typed, Shown, NEW m \in Messages, AddedTo(m), Growing, SavesTyped',
         UNCHANGED <<roomModel, mixed>>
  PROVE  Shown'
<1>1. listWsMessage \in Seq(Messages) /\ roomModel \in Rooms \cup {NoRoom}
  BY DEF Typed, ScreenTyped
<1>2. /\ Settled \in Seq(Messages)
      /\ Elements(Settled) \subseteq Elements(listWsMessage)
      /\ Descending(listWsMessage) => Descending(Settled)
      /\ Distinct(listWsMessage) => Distinct(Settled)
  BY <1>1, SettledTyped
<1>3. CASE UNCHANGED <<listWsMessage, shown>>
  BY <1>3, ShownUntouched DEF listVars
<1>4. CASE listWsMessage' = Settled /\ UNCHANGED shown
  BY <1>1, <1>2, <1>4, NoneListed, ShownFewer
<1>5. CASE /\ m.rid = roomModel /\ m \notin Elements(Settled)
           /\ listWsMessage' = Sort(<<m>> \o Settled)
           /\ \/ shown' = "SHOW"
              \/ UNCHANGED shown /\ \E r \in Rooms : r = listWsMessage'[1].rid /\ Announcing(r)'
  <2>1. /\ <<m>> \o Settled \in Seq(Messages)
        /\ Len(<<m>> \o Settled) = Len(Settled) + 1
        /\ Elements(<<m>> \o Settled) = {m} \cup Elements(Settled)
        /\ Distinct(Settled) /\ m \notin Elements(Settled) => Distinct(<<m>> \o Settled)
    BY <1>2, InFront
  <2>2. /\ listWsMessage' \in Seq(Messages) /\ Len(listWsMessage') = Len(Settled) + 1
        /\ Descending(listWsMessage')
        /\ Elements(listWsMessage') = {m} \cup Elements(Settled)
        /\ Distinct(Settled) => Distinct(listWsMessage')
    BY <1>5, <2>1, SortSorts
  <2>3. roomModel' # NoRoom
    BY <1>5, TimesCompare, ConstantsAssumption
  <2>4. NewestFirst' /\ Closed'
    BY <2>2, <2>3 DEF NewestFirst, Closed
  <2>5. CASE mixed
    BY <2>4, <2>5 DEF Shown, OwnMessagesOnce, ScreenMatchesList
  <2>6. CASE ~mixed
    <3>1. /\ \A k \in Elements(listWsMessage) : k.rid = roomModel
          /\ Distinct(listWsMessage)
      BY <2>6 DEF Shown, OwnMessagesOnce, Distinct
    <3>2. \A k \in Elements(listWsMessage') : k.rid = roomModel'
      BY <1>2, <1>5, <2>2, <3>1
    <3>3. Distinct(listWsMessage')
      BY <1>2, <2>2, <3>1
    <3>4. OwnMessagesOnce'
      BY <3>2, <3>3 DEF OwnMessagesOnce, Distinct
    <3>5. listWsMessage'[1] \in Elements(listWsMessage')
      <4>1. Len(Settled) \in Nat
        BY <1>2
      <4>2. 1 \in 1..Len(listWsMessage')
        BY <2>2, <4>1
      <4> QED
        BY <4>2 DEF Elements
    <3>6. listWsMessage'[1].rid = roomModel'
      BY <3>2, <3>5
    <3>7. shown' = "SHOW" \/ Announcing(roomModel)'
      BY <1>5, <3>6 DEF Announcing
    <3>8. ScreenMatchesList'
      BY <3>7 DEF ScreenMatchesList
    <3> QED
      BY <2>4, <3>4, <3>8 DEF Shown
  <2> QED
    BY <2>5, <2>6
<1> QED
  BY <1>3, <1>4, <1>5 DEF AddedTo

LEMMA ShownOpened ==
  ASSUME Shown, NEW r \in Rooms, OpenRoom(r)
  PROVE  Shown'
<1>1. listWsMessage = <<>> \/ mixed
  BY DEF OpenRoom, Shown, Closed
<1>2. UNCHANGED <<listWsMessage, mixed>>
  BY DEF OpenRoom
<1>3. CASE listWsMessage = <<>>
  BY <1>2, <1>3, ShownEmpty
<1>4. CASE mixed
  BY <1>2, <1>4 DEF Shown, NewestFirst, OwnMessagesOnce, ScreenMatchesList, Closed
<1> QED
  BY <1>1, <1>3, <1>4

LEMMA TailShifts ==
  ASSUME NEW S, NEW s \in Seq(S), NEW i \in 1..Len(s), i # 1
  PROVE  i - 1 \in 1..Len(Tail(s)) /\ Tail(s)[i - 1] = s[i]
<1>1. s # <<>> /\ Len(s) \in Nat
  OBVIOUS
<1>2. Len(Tail(s)) = Len(s) - 1
  BY <1>1
<1>3. i - 1 \in 1..(Len(s) - 1)
  BY <1>1
<1>4. \A j \in 1..(Len(s) - 1) : Tail(s)[j] = s[j + 1]
  BY <1>1
<1>5. Tail(s)[i - 1] = s[(i - 1) + 1]
  BY <1>3, <1>4
<1>6. (i - 1) + 1 = i
  OBVIOUS
<1> QED
  BY <1>2, <1>3, <1>5, <1>6

(* An access that ends announces what was waiting for it, and leaves the   *)
(* other announcements to come.                                            *)
LEMMA ShownPut ==
  ASSUME Typed, Shown, NEW r \in Rooms, Put(r)
  PROVE  Shown'
<1>1. /\ saves[r] \in Seq(Carrying) /\ saves[r] # <<>>
      /\ saves' = [saves EXCEPT ![r] = Tail(@)]
      /\ UNCHANGED <<roomModel, listWsMessage, mixed>>
      /\ shown' = IF Head(saves[r]).notify THEN "SHOW" ELSE shown
  BY DEF Put, Typed, SavesTyped
<1>2. NewestFirst' /\ OwnMessagesOnce' /\ Closed'
  BY <1>1 DEF Shown, NewestFirst, OwnMessagesOnce, Closed
<1>3. CASE Head(saves[r]).notify
  BY <1>1, <1>2, <1>3 DEF Shown, ScreenMatchesList
<1>4. CASE ~Head(saves[r]).notify
  <2>1. UNCHANGED listVars
    BY <1>1, <1>4 DEF listVars
  <2>2. Growing
    <3> SUFFICES ASSUME NEW x \in Rooms, Announcing(x) PROVE Announcing(x)'
      BY DEF Growing
    <3>1. PICK i \in 1..Len(saves[x]) : saves[x][i].notify
      BY DEF Announcing
    <3>2. CASE x = r
      <4>1. saves'[r] = Tail(saves[r])
        BY <1>1 DEF Typed, SavesTyped
      <4>2. i # 1
        BY <1>1, <1>4, <3>1, <3>2
      <4>3. i - 1 \in 1..Len(saves'[r]) /\ saves'[r][i - 1] = saves[r][i]
        BY <1>1, <3>1, <3>2, <4>1, <4>2, TailShifts
      <4> QED
        BY <3>1, <3>2, <4>3 DEF Announcing
    <3>3. CASE x # r
      <4>1. saves'[x] = saves[x]
        BY <1>1, <3>3 DEF Typed, SavesTyped
      <4> QED
        BY <3>1, <4>1 DEF Announcing
    <3> QED
      BY <3>2, <3>3
  <2> QED
    BY <2>1, <2>2, ShownUntouched
<1> QED
  BY <1>3, <1>4

LEMMA ShownLatest ==
  ASSUME Typed, Shown, NEW q, LatestReply(q)
  PROVE  Shown'
<1>1. q \in requests /\ UNCHANGED roomModel /\ (LatestAnswered(q) \/ LatestFailed(q))
  BY DEF LatestReply
<1>2. CASE UNCHANGED <<listWsMessage, shown, mixed, saves>>
  BY <1>1, <1>2, ShownUntouched, UnchangedGrows DEF listVars
<1>3. ASSUME NEW n \in q.from..posted[q.room],
             changeListMessageData("SHOW", PageOf(q.room, n, 0)),
             mixed' = (q.room # roomModel)
      PROVE  Shown'
  <2> DEFINE page == PageOf(q.room, n, 0)
  <2>1. q.room \in Rooms /\ n \in 0..LastPost
    BY <1>1, AnswerTyped
  <2>2. /\ page \in Seq(Messages) /\ Distinct(page)
        /\ \A m \in Elements(page) : m.rid = q.room
    BY <2>1, PageTyped
  <2> HIDE DEF page
  <2>3. /\ shown' = "SHOW" /\ Descending(listWsMessage') /\ Distinct(listWsMessage')
        /\ \A m \in Elements(listWsMessage') : m.rid = q.room
    BY <1>3, <2>2, ChangeListTyped DEF Typed, page
  <2>4. CASE q.room = roomModel
    BY <1>1, <2>1, <2>3, <2>4, ShownOwn, ConstantsAssumption
  <2>5. CASE q.room # roomModel
    BY <1>3, <2>3, <2>5, ShownMixed
  <2> QED
    BY <2>4, <2>5
<1> QED
  BY <1>1, <1>2, <1>3 DEF LatestAnswered, LatestFailed

LEMMA ShownMore ==
  ASSUME Typed, Shown, NEW q, MoreReply(q)
  PROVE  Shown'
<1>1. q \in requests /\ UNCHANGED roomModel
  BY DEF MoreReply
<1>2. CASE UNCHANGED <<listWsMessage, shown, mixed, saves>>
  BY <1>1, <1>2, ShownUntouched, UnchangedGrows DEF listVars
<1>3. ASSUME NEW n \in q.from..posted[q.room],
             changeListMessageData("SHOW", listWsMessage \o PageOf(q.room, n, q.offset)),
             mixed' = TRUE
      PROVE  Shown'
  <2>1. q.room \in Rooms /\ q.offset \in Nat /\ n \in 0..LastPost
    BY <1>1, AnswerTyped
  <2>2. PageOf(q.room, n, q.offset) \in Seq(Messages)
    BY <2>1, PageTyped
  <2>3. listWsMessage \o PageOf(q.room, n, q.offset) \in Seq(Messages)
    BY <2>2 DEF Typed, ScreenTyped
  <2>4. Descending(listWsMessage')
    BY <1>3, <2>3, ChangeListTyped DEF Typed
  <2> QED
    BY <1>3, <2>4, ShownMixed
<1> QED
  BY <1>2, <1>3 DEF MoreReply, MoreAnswered

LEMMA ShownCached ==
  ASSUME Typed, Shown, NEW t, CacheRead(t)
  PROVE  Shown'
<1>1. t.room \in Rooms /\ UNCHANGED roomModel
  BY DEF CacheRead, Typed, TasksTyped, Reads
<1>2. CASE UNCHANGED <<listWsMessage, shown, mixed, saves>>
  BY <1>1, <1>2, ShownUntouched, UnchangedGrows DEF listVars
<1>3. CASE changeListMessageData("SHOW", cache[t.room]) /\ mixed' = TRUE
  <2>1. cache[t.room] \in Seq(Messages)
    BY <1>1 DEF Typed, CacheTyped
  <2>2. Descending(listWsMessage')
    BY <1>3, <2>1, ChangeListTyped DEF Typed
  <2> QED
    BY <1>3, <2>2, ShownMixed
<1>4. CASE changeListMessageData("NO_DATA", <<>>)
  <2>1. <<>> \in Seq(Messages)
    OBVIOUS
  <2>2. listWsMessage' = <<>>
    BY <1>4, <2>1, ChangeListTyped DEF Typed
  <2> QED
    BY <2>2, ShownEmpty
<1> QED
  BY <1>2, <1>3, <1>4 DEF CacheRead

LEMMA ShownFailed ==
  ASSUME Typed, Shown, NEW c, SendFailed(c)
  PROVE  Shown'
<1>1. UNCHANGED <<roomModel, mixed>> /\ listWsMessage \in Seq(Messages)
  BY DEF SendFailed, Typed, ScreenTyped
<1>4. Growing
  <2>1. CASE roomModel = NoRoom
    BY <2>1, UnchangedGrows DEF SendFailed
  <2>2. CASE roomModel # NoRoom
    BY <2>2, RemoveGroupTyped DEF SendFailed, Typed, ScreenTyped
  <2> QED
    BY <2>1, <2>2
<1>2. CASE UNCHANGED <<listWsMessage, shown>>
  BY <1>1, <1>2, <1>4, ShownUntouched DEF listVars
<1>3. CASE /\ listWsMessage' = Only(listWsMessage,
                                    {i \in 1..Len(listWsMessage) : listWsMessage[i] # c.msg})
           /\ shown' = IF listWsMessage' = <<>> THEN "NO_DATA" ELSE "SHOW"
  <2>1. /\ listWsMessage' \in Seq(Messages)
        /\ Elements(listWsMessage') \subseteq Elements(listWsMessage)
        /\ Descending(listWsMessage) => Descending(listWsMessage')
        /\ Distinct(listWsMessage) => Distinct(listWsMessage')
    BY <1>1, <1>3, WithoutTyped
  <2>2. listWsMessage = <<>> => listWsMessage' = <<>>
    BY <1>1, <2>1, NoneListed
  <2> QED
    BY <1>1, <1>3, <1>4, <2>1, <2>2, ShownFewer
<1> QED
  BY <1>2, <1>3 DEF SendFailed

(* The first message of an event is the only one, of the open room or not. *)
LEMMA ShownEvent ==
  ASSUME Typed, Shown, HandleEvent
  PROVE  Shown'
<1> DEFINE e == Head(events)
<1>1. /\ e \in Events /\ EventShown(e)
      /\ mixed' = (mixed \/ (e.kind = "stream" /\ listWsMessage = <<>> /\ e.msg.rid # roomModel))
      /\ UNCHANGED roomModel /\ Growing /\ SavesTyped'
  BY EventTyped DEF HandleEvent
<1> HIDE DEF e
<1>2. e.msg \in Messages /\ e.msg.rid \in Rooms /\ mixed \in BOOLEAN
  <2>1. e.msg \in Messages
    BY <1>1 DEF Events
  <2> QED
    BY <2>1, TimesCompare DEF Typed, ScreenTyped
<1>3. CASE e.kind = "changed" /\ AddedTo(e.msg)
  <2>1. mixed' = mixed
    BY <1>1, <1>2, <1>3
  <2> QED
    BY <1>1, <1>2, <1>3, <2>1, ShownAdded
<1>4. CASE e.kind = "stream" /\ listWsMessage = <<>> /\ listWsMessage' = <<e.msg>>
           /\ shown' = "SHOW"
  <2>1. /\ Descending(listWsMessage') /\ Distinct(listWsMessage')
        /\ Elements(listWsMessage') = {e.msg}
    <3>1. Len(listWsMessage') = 1 /\ listWsMessage'[1] = e.msg
      BY <1>4
    <3> QED
      BY <3>1 DEF Descending, Distinct, Elements
  <2>2. CASE e.msg.rid = roomModel
    BY <1>1, <1>2, <1>4, <2>1, <2>2, ShownOwn, ConstantsAssumption
  <2>3. CASE e.msg.rid # roomModel
    <3>1. mixed' = TRUE
      BY <1>1, <1>4, <2>3
    <3> QED
      BY <2>1, <3>1, ShownMixed
  <2> QED
    BY <2>2, <2>3
<1>5. CASE e.kind # "changed" /\ shown' \in {shown, "SHOW"} /\ UNCHANGED listWsMessage
           /\ (e.kind = "stream" => listWsMessage # <<>>)
  <2>1. mixed' = mixed
    BY <1>1, <1>2, <1>5
  <2> QED
    BY <1>1, <1>5, <2>1, ShownFewer
<1> QED
  BY <1>1, <1>3, <1>4, <1>5 DEF EventShown

LEMMA ShownStep ==
  ASSUME Typed, Shown, [Next]_vars
  PROVE  Shown'
<1>1. ASSUME NEW r \in Rooms, SwitchRoom(r) PROVE Shown'
  BY <1>1, ShownEmpty DEF SwitchRoom
<1>2. CASE CloseRoom
  BY <1>2, ShownEmpty DEF CloseRoom, resetVariable
<1>16. ASSUME NEW r \in Groups, LeaveAnswered(r) PROVE Shown'
  <2>1. CASE roomModel = NoRoom
    <3>1. UNCHANGED listVars /\ removeGroup(r) /\ r \in Rooms
      BY <1>16, <2>1 DEF LeaveAnswered, Groups
    <3> QED
      BY <3>1, RemoveGroupTyped, ShownUntouched DEF Typed
  <2>2. CASE roomModel # NoRoom
    BY <1>16, <2>2, ShownEmpty DEF LeaveAnswered, resetVariable
  <2> QED
    BY <2>1, <2>2
<1>3. CASE Sync
  <2>1. changeListMessageData("LOADING", <<>>) /\ <<>> \in Seq(Messages)
    BY <1>3 DEF Sync
  <2>2. listWsMessage' = <<>>
    BY <2>1, ChangeListTyped DEF Typed
  <2> QED
    BY <2>2, ShownEmpty
<1>4. CASE LoadMore \/ LeaveRoom \/ \E r \in Groups : LeaveFailed(r)
  BY <1>4, ShownUntouched, UnchangedGrows DEF LoadMore, LeaveRoom, LeaveFailed, hiveVars
<1>5. ASSUME NEW t \in PhoneTimes, SendMessage(t) PROVE Shown'
  <2>1. /\ AddedTo(Placeholder(roomModel, t)) /\ UNCHANGED <<roomModel, mixed>>
        /\ Placeholder(roomModel, t) \in Messages /\ Growing /\ SavesTyped'
    BY <1>5, SendMessageTyped, PlaceholderTyped DEF SendMessage, Typed
  <2> QED
    BY <2>1, ShownAdded
<1>6. ASSUME NEW q, BrokenReply(q) PROVE Shown'
  BY <1>6, ShownUntouched, UnchangedGrows DEF BrokenReply, hiveVars
<1>7. ASSUME NEW c, SendOver(c) PROVE Shown'
  BY <1>7, ShownUntouched, UnchangedGrows DEF SendOver, hiveVars
<1>8. CASE Puts
  BY <1>8, ShownPut DEF Puts
<1>9. CASE Server
  BY <1>9, ShownUntouched, UnchangedGrows
  DEF Server, Post, Edit, SendAccepted, LoseEvents, hiveVars
<1>10. CASE UNCHANGED vars
  BY <1>10, ShownUntouched, UnchangedGrows DEF vars, hiveVars
<1>11. CASE Screen
  BY <1>1, <1>2, <1>3, <1>4, <1>5, <1>11, ShownOpened DEF Screen
<1>12. CASE PageReplies
  BY <1>6, <1>12, ShownLatest, ShownMore DEF PageReplies
<1>13. CASE SendReplies
  BY <1>7, <1>13, ShownFailed DEF SendReplies
<1>14. CASE LeaveReplies
  BY <1>4, <1>14, <1>16 DEF LeaveReplies
<1>15. CASE CacheReads
  BY <1>15, ShownCached DEF CacheReads
<1>17. CASE LateErrors
  BY <1>17, ShownUntouched, UnchangedGrows DEF LateErrors, LateError, hiveVars
<1> QED
  BY <1>17, <1>8, <1>9, <1>10, <1>11, <1>12, <1>13, <1>14, <1>15, ShownEvent DEF Next

LEMMA ShownAlways == Spec => []Shown
<1>1. Init => Shown
  BY DEF Init, Shown, NewestFirst, OwnMessagesOnce, ScreenMatchesList, Closed, Descending,
     Elements
<1>2. Typed /\ Shown /\ [Next]_vars => Shown'
  BY ShownStep
<1> QED
  BY <1>1, <1>2, TypedAlways, PTL DEF Spec

(* Whatever brings the messages in - pages answered out of order, the      *)
(* cache, events, the phone's own clock - the list stays newest first.     *)
THEOREM NewestFirstCorrect == Spec => []NewestFirst
<1>1. Shown => NewestFirst
  BY DEF Shown
<1> QED
  BY <1>1, ShownAlways, PTL

(* A list built from nothing but the open room's newest page, its events   *)
(* and its messages on their way holds that room's messages, each once.    *)
THEOREM OwnMessagesOnceCorrect == Spec => []OwnMessagesOnce
<1>1. Shown => OwnMessagesOnce
  BY DEF Shown
<1> QED
  BY <1>1, ShownAlways, PTL

(* The spinner and the "no data" page are never left over a list of the    *)
(* open room's messages: while they are up, the access to the box that     *)
(* addItem waits for, and its SHOW after it, is still to come.             *)
THEOREM ScreenMatchesListCorrect == Spec => []ScreenMatchesList
<1>1. Shown => ScreenMatchesList
  BY DEF Shown
<1> QED
  BY <1>1, ShownAlways, PTL

-----------------------------------------------------------------------------
(* The loading flags                                                       *)

(* The steps that leave every variable of LoadingFlags as it is.           *)
flagScope == <<roomModel, isLoadMore, isLoadingLatestMsg, requests, broken>>

LEMMA FlagsUntouched ==
  ASSUME LoadingFlags, UNCHANGED flagScope
  PROVE  LoadingFlags'
BY DEF LoadingFlags, flagScope

LEMMA NewRequestKind ==
  ASSUME NEW kind, NEW r, NEW offset
  PROVE  NewRequest(kind, r, offset).kind = kind
BY DEF NewRequest

(* A new request for the newest page, with its flag up.                    *)
LEMMA FlagsRequested ==
  ASSUME LoadingFlags, NEW r \in Rooms, NEW c \in BOOLEAN, getListMessage(r, c),
         isLoadMore' = isLoadMore \/ isLoadMore' = FALSE
  PROVE  LoadingFlags'
<1>1. roomModel' # NoRoom
  BY ConstantsAssumption DEF getListMessage
<1>2. \E q \in requests' : q.kind = "latest"
  BY NewRequestKind DEF getListMessage
<1>3. requests \subseteq requests' /\ broken' = broken \ {"latest"}
  BY DEF getListMessage
<1> QED
  BY <1>1, <1>2, <1>3 DEF LoadingFlags

LEMMA FlagsDown ==
  ASSUME resetVariable
  PROVE  LoadingFlags'
BY DEF resetVariable, LoadingFlags

(* A page reply takes its request and its flag down together.              *)
LEMMA FlagsAnswered ==
  ASSUME LoadingFlags, NEW q, LatestReply(q) \/ MoreReply(q) \/ BrokenReply(q)
  PROVE  LoadingFlags'
<1>1. CASE LatestReply(q)
  <2>1. /\ requests \ {q} \subseteq requests' /\ q.kind = "latest"
        /\ isLoadingLatestMsg' = FALSE /\ broken' = broken \ {"latest"}
        /\ UNCHANGED <<roomModel, isLoadMore>>
    BY <1>1 DEF LatestReply
  <2> QED
    BY <2>1 DEF LoadingFlags
<1>2. CASE MoreReply(q)
  <2>1. /\ requests' = requests \ {q} /\ q.kind = "more"
        /\ isLoadMore' = FALSE /\ broken' = broken \ {"more"}
        /\ UNCHANGED <<roomModel, isLoadingLatestMsg>>
    BY <1>2 DEF MoreReply
  <2> QED
    BY <2>1 DEF LoadingFlags
<1>3. CASE BrokenReply(q)
  <2>1. /\ requests' = requests \ {q} /\ broken' = broken \cup {q.kind}
        /\ UNCHANGED <<roomModel, isLoadMore, isLoadingLatestMsg>>
    BY <1>3 DEF BrokenReply, listVars
  <2> QED
    BY <2>1 DEF LoadingFlags
<1> QED
  BY <1>1, <1>2, <1>3

LEMMA FlagsStep ==
  ASSUME LoadingFlags, [Next]_vars
  PROVE  LoadingFlags'
<1> USE DEF listVars, flagVars, taskVars
<1>1. ASSUME NEW r \in Rooms, OpenRoom(r) PROVE LoadingFlags'
  BY <1>1, FlagsRequested DEF OpenRoom
<1>2. ASSUME NEW r \in Rooms, SwitchRoom(r) PROVE LoadingFlags'
  <2>1. getListMessage(r, r \notin Direct) /\ isLoadMore' = FALSE
    BY <1>2 DEF SwitchRoom
  <2> QED
    BY <2>1, FlagsRequested
<1>3. CASE CloseRoom
  BY <1>3, FlagsDown DEF CloseRoom
<1>4. CASE Sync
  <2>1. getListMessage(roomModel, FALSE) /\ isLoadMore' = isLoadMore /\ roomModel # NoRoom
    BY <1>4 DEF Sync
  <2>2. /\ requests \subseteq requests' /\ broken' = broken \ {"latest"}
        /\ roomModel' = roomModel
        /\ \E q \in requests' : q.kind = "latest"
    BY <2>1, NewRequestKind DEF getListMessage
  <2> QED
    BY <2>1, <2>2 DEF LoadingFlags
<1>5. CASE LoadMore
  <2>1. /\ roomModel # NoRoom /\ UNCHANGED <<roomModel, isLoadingLatestMsg>>
        /\ requests \subseteq requests' /\ broken' = broken \ {"more"}
        /\ \E q \in requests' : q.kind = "more"
    BY <1>5, NewRequestKind DEF LoadMore
  <2> QED
    BY <2>1 DEF LoadingFlags
<1>6. ASSUME LeaveRoom \/ (\E t \in PhoneTimes : SendMessage(t)) PROVE LoadingFlags'
  BY <1>6, FlagsUntouched DEF LeaveRoom, SendMessage, flagScope
<1>7. CASE PageReplies
  BY <1>7, FlagsAnswered DEF PageReplies
<1>8. CASE SendReplies
  BY <1>8, FlagsUntouched DEF SendReplies, SendOver, SendFailed, flagScope
<1>9. ASSUME NEW r \in Groups, LeaveAnswered(r) \/ LeaveFailed(r) PROVE LoadingFlags'
  BY <1>9, FlagsUntouched, FlagsDown DEF LeaveAnswered, LeaveFailed, flagScope
<1>15. ASSUME NEW q, LateError(q) PROVE LoadingFlags'
  <2>1. /\ requests' = requests \ {q} /\ q.kind = "late"
        /\ UNCHANGED <<roomModel, isLoadMore, isLoadingLatestMsg, broken>>
    BY <1>15 DEF LateError
  <2> QED
    BY <2>1 DEF LoadingFlags
<1>10. CASE CacheReads
  BY <1>10, FlagsUntouched DEF CacheReads, CacheRead, flagScope
<1>11. CASE Puts
  BY <1>11, FlagsUntouched DEF Puts, Put, flagScope
<1>12. CASE HandleEvent
  BY <1>12, FlagsUntouched DEF HandleEvent, flagScope
<1>13. CASE Server
  BY <1>13, FlagsUntouched DEF Server, Post, Edit, SendAccepted, LoseEvents, flagScope
<1>14. CASE UNCHANGED vars
  BY <1>14, FlagsUntouched DEF vars, flagScope
<1> QED
  BY <1>1, <1>2, <1>3, <1>4, <1>5, <1>6, <1>7, <1>8, <1>9, <1>10, <1>11, <1>12, <1>13, <1>14,
     <1>15
  DEF Next, Screen, LeaveReplies, LateErrors

(* The flags that keep getListMessage* and checkAmountMessageRemain from   *)
(* sending a request are up only while a request is under way that takes   *)
(* them down, or after a reply that was not JSON: LoadingFlags is          *)
(* inductive.                                                              *)
THEOREM LoadingFlagsCorrect == Spec => []LoadingFlags
<1>1. Init => LoadingFlags
  BY DEF Init, LoadingFlags
<1>2. LoadingFlags /\ [Next]_vars => LoadingFlags'
  BY FlagsStep
<1> QED
  BY <1>1, <1>2, PTL DEF Spec

=============================================================================
