------------------------- MODULE NanopbMessageProofs -------------------------
(***************************************************************************)
(* Theorems about NanopbMessage for all descriptors and all buffers: the       *)
(* accounting of the substreams, that the decoder gets to the end, and what    *)
(* the messages hold that it has filled.                                     *)
(***************************************************************************)
EXTENDS NanopbMessage, WellFoundedInduction, TLAPS

FrameFields == {"loop", "type", "field", "val", "pos", "left", "end", "seen", "fixed"}

IsRecord(s) == DOMAIN s = FrameFields /\ s = [g \in FrameFields |-> s[g]]

IsFrame(s) ==
  /\ IsRecord(s)
  /\ s.pos \in Nat \ {0} /\ s.left \in Nat /\ s.end \in Int

LEMMA FrameIsRecord ==
  ASSUME NEW loop, NEW type, NEW field, NEW value, NEW from, NEW size
  PROVE  IsRecord(Frame(loop, type, field, value, from, size))
BY DEF IsRecord, FrameFields, Frame

(* A stack of frames, whatever they hold. *)
IsStack(st) ==
  /\ Len(st) \in Nat \ {0} /\ DOMAIN st = 1..Len(st)
  /\ \E X : st \in Seq(X)
  /\ \A i \in 1..Len(st) : IsFrame(st[i])

(* WellNested of any stack in a buffer that ends before limit; the last part follows from
   the others, but only by induction over the stack. *)
Nested(st, limit) ==
  /\ st[1].end = limit
  /\ st[Len(st)].pos + st[Len(st)].left = st[Len(st)].end
  /\ \A i \in 1..(Len(st) - 1) : st[i + 1].end + st[i].left = st[i].end
  /\ \A i \in 1..Len(st) : st[i].end =< limit /\ st[i].pos =< limit

(* What is asked of a frame that takes the place of the innermost one of st, of a parent p
   that opens c, and of one that closes it. *)
Replaces(s, st) == s.end = st[Len(st)].end /\ s.pos + s.left = s.end
Opens(p, c, st) == /\ p.end = st[Len(st)].end /\ c.end + p.left = p.end
                   /\ c.pos + c.left = c.end /\ p.pos = c.pos
Closes(p, st)   == /\ Len(st) > 1 /\ p.pos = st[Len(st)].end
                   /\ p.end = st[Len(st) - 1].end /\ p.left = st[Len(st) - 1].left

LEMMA NestedIsWellNested == Nested(stack, Len(buf) + 1) => WellNested
BY DEF WellNested, Nested, Top

(* A frame in place of the innermost one that ends where it ends. *)
LEMMA Replaced ==
  ASSUME NEW st, IsStack(st), NEW limit, Nested(st, limit), NEW s, IsFrame(s),
         Replaces(s, st)
  PROVE  /\ IsStack([st EXCEPT ![Len(st)] = s])
         /\ Nested([st EXCEPT ![Len(st)] = s], limit)
<1> DEFINE n == Len(st)
           r == [st EXCEPT ![n] = s]
<1>1. PICK X : st \in Seq(X)
  BY DEF IsStack
<1>2. n \in Nat \ {0} /\ DOMAIN st = 1..n /\ \A i \in 1..n : IsFrame(st[i])
  BY DEF IsStack
<1>3. r \in Seq(X \cup {s}) /\ Len(r) = n
  BY <1>1, <1>2
<1>4. DOMAIN r = 1..n /\ r[n] = s /\ \A i \in 1..n : i # n => r[i] = st[i]
  BY <1>2
<1>5. IsStack(r)
  BY <1>2, <1>3, <1>4 DEF IsStack
<1>6. \A i \in 1..(n - 1) : r[i + 1].end + r[i].left = r[i].end
  <2> TAKE i \in 1..(n - 1)
  <2>1. st[i + 1].end + st[i].left = st[i].end
    BY DEF Nested
  <2>2. r[i] = st[i] /\ r[i + 1].end = st[i + 1].end
    BY <1>2, <1>4 DEF Replaces
  <2> QED
    BY <2>1, <2>2
<1>7. r[1].end = limit
  BY <1>2, <1>4 DEF Nested, Replaces
<1>8. \A i \in 1..n : r[i].end =< limit /\ r[i].pos =< limit
  <2>1. s.end =< limit /\ limit \in Int /\ s.pos =< s.end
    BY <1>2 DEF Nested, Replaces, IsFrame
  <2>2. s.pos =< limit
    BY <2>1 DEF IsFrame
  <2> QED
    BY <1>2, <1>4, <2>1, <2>2 DEF Nested
<1> QED
  BY <1>3, <1>4, <1>5, <1>6, <1>7, <1>8 DEF Nested, Replaces

(* Parent p keeps its place, gives size units away, and child c gets them. *)
LEMMA Pushed ==
  ASSUME NEW st, IsStack(st), NEW limit, Nested(st, limit), NEW p, IsFrame(p), NEW c, IsFrame(c),
         Opens(p, c, st)
  PROVE  /\ IsStack([st EXCEPT ![Len(st)] = p] \o << c >>)
         /\ Nested([st EXCEPT ![Len(st)] = p] \o << c >>, limit)
<1>0. PICK n \in Nat \ {0} : n = Len(st)
  BY DEF IsStack
<1> DEFINE q == [st EXCEPT ![n] = p]
           r == q \o << c >>
<1>1. PICK X : st \in Seq(X)
  BY DEF IsStack
<1>2. DOMAIN st = 1..n /\ \A i \in 1..n : IsFrame(st[i])
  BY <1>0 DEF IsStack
<1>3. q \in Seq(X \cup {p, c}) /\ Len(q) = n /\ << c >> \in Seq(X \cup {p, c}) /\ Len(<< c >>) = 1 /\ << c >>[1] = c
  BY <1>0, <1>1, <1>2
<1>4. q[n] = p /\ \A i \in 1..n : i # n => q[i] = st[i]
  BY <1>2
<1> HIDE DEF q
<1>5. /\ r \in Seq(X \cup {p, c}) /\ Len(r) = n + 1 /\ DOMAIN r = 1..(n + 1)
      /\ r[n + 1] = c /\ \A i \in 1..n : r[i] = q[i]
  BY <1>2, <1>3
<1> HIDE DEF r
<1>6. IsStack(r)
  <2>1. \A i \in 1..(n + 1) : IsFrame(r[i])
    BY <1>0, <1>2, <1>4, <1>5
  <2>2. \E Y : r \in Seq(Y)
    BY <1>5
  <2> QED
    BY <1>2, <1>5, <2>1, <2>2 DEF IsStack
<1>7. \A i \in 1..n : r[i + 1].end + r[i].left = r[i].end
  <2> TAKE i \in 1..n
  <2>1. CASE i = n
    BY <1>0, <1>2, <1>4, <1>5, <2>1 DEF Opens
  <2>2. CASE i # n
    <3>1. i \in 1..(n - 1) /\ i + 1 \in 1..n
      BY <1>2, <2>2
    <3>2. st[i + 1].end + st[i].left = st[i].end
      BY <1>0, <3>1 DEF Nested
    <3>3. r[i] = st[i] /\ r[i + 1].end = st[i + 1].end
      BY <1>0, <1>2, <1>4, <1>5, <2>2, <3>1 DEF Opens
    <3> QED
      BY <3>2, <3>3
  <2> QED
    BY <2>1, <2>2
<1>8. r[1].end = limit
  BY <1>0, <1>2, <1>4, <1>5 DEF Nested, Opens
<1>10. \A i \in 1..(n + 1) : r[i].end =< limit /\ r[i].pos =< limit
  <2>1. p.end =< limit /\ c.end =< p.end
    BY <1>0, <1>2 DEF Nested, Opens, IsFrame
  <2>2. limit \in Int
    BY <1>0, <1>2 DEF Nested, IsFrame
  <2>3. c.end =< limit /\ c.pos =< c.end
    BY <2>1, <2>2 DEF IsFrame, Opens
  <2>4. c.pos =< limit /\ p.pos =< limit
    BY <2>2, <2>3 DEF IsFrame, Opens
  <2> QED
    BY <1>0, <1>2, <1>4, <1>5, <2>1, <2>3, <2>4 DEF Nested
<1>9. Nested(r, limit)
  <2>1. (n + 1) - 1 = n
    BY <1>2
  <2> QED
    BY <1>0, <1>5, <1>7, <1>8, <1>10, <2>1 DEF Nested, Opens
<1> QED
  BY <1>0, <1>6, <1>9 DEF r, q

LEMMA Predecessor == \A k \in Nat : k > 1 => k - 1 \in Nat \ {0} /\ k = (k - 1) + 1
OBVIOUS

(* The parent p goes on where the stream that is closed ended. *)
LEMMA Popped ==
  ASSUME NEW st, IsStack(st), NEW limit, Nested(st, limit), NEW p, IsFrame(p), Closes(p, st)
  PROVE  /\ IsStack([SubSeq(st, 1, Len(st) - 1) EXCEPT ![Len(st) - 1] = p])
         /\ Nested([SubSeq(st, 1, Len(st) - 1) EXCEPT ![Len(st) - 1] = p], limit)
<1>0. PICK n \in Nat \ {0} : Len(st) = n + 1
  <2>1. Len(st) \in Nat /\ Len(st) > 1
    BY DEF IsStack, Closes
  <2>2. Len(st) - 1 \in Nat \ {0} /\ Len(st) = (Len(st) - 1) + 1
    BY <2>1, Predecessor
  <2> QED
    BY <2>1, <2>2
<1> DEFINE q == SubSeq(st, 1, n)
           r == [q EXCEPT ![n] = p]
<1>1. PICK X : st \in Seq(X)
  BY DEF IsStack
<1>2. \A i \in 1..(n + 1) : IsFrame(st[i])
  BY <1>0 DEF IsStack
<1>3. q \in Seq(X) /\ Len(q) = n /\ \A i \in 1..n : q[i] = st[i]
  BY <1>0, <1>1, <1>2
<1> HIDE DEF q
<1>4. r \in Seq(X \cup {p}) /\ Len(r) = n /\ DOMAIN r = 1..n
  BY <1>0, <1>2, <1>3
<1>5. r[n] = p /\ \A i \in 1..n : i # n => r[i] = st[i]
  BY <1>0, <1>2, <1>3
<1> HIDE DEF r
<1>6. IsStack(r)
  <2>1. \A i \in 1..n : IsFrame(r[i])
    BY <1>0, <1>2, <1>5
  <2>2. \E Y : r \in Seq(Y)
    BY <1>4
  <2> QED
    BY <1>0, <1>2, <1>4, <2>1, <2>2 DEF IsStack
<1>7. \A i \in 1..n : st[i + 1].end + st[i].left = st[i].end
  BY <1>0, <1>2 DEF Nested
<1>8. \A i \in 1..(n - 1) : r[i + 1].end + r[i].left = r[i].end
  <2> TAKE i \in 1..(n - 1)
  <2>1. r[i] = st[i] /\ r[i + 1].end = st[i + 1].end
    BY <1>0, <1>2, <1>5 DEF Closes
  <2> QED
    BY <1>0, <1>2, <1>7, <2>1
<1>9. r[1].end = limit
  BY <1>0, <1>2, <1>5 DEF Nested, Closes
<1>10. p.pos + p.left = p.end
  BY <1>0, <1>2, <1>7 DEF Closes
<1> QED
  <2>0. \A i \in 1..n : r[i].end =< limit /\ r[i].pos =< limit
    BY <1>0, <1>2, <1>5 DEF Nested, Closes
  <2>1. Nested(r, limit)
    BY <1>4, <1>5, <1>8, <1>9, <1>10, <2>0 DEF Nested
  <2> QED
    BY <1>0, <1>6, <2>1 DEF r, q

-----------------------------------------------------------------------------
(* What a frame holds does not matter. *)
LEMMA Relabelled ==
  ASSUME NEW st, IsStack(st), NEW limit, Nested(st, limit), NEW k, NEW v
  PROVE  /\ IsStack([st EXCEPT ![k].val = v])
         /\ Nested([st EXCEPT ![k].val = v], limit)
<1>0. PICK n \in Nat \ {0} : n = Len(st)
  BY DEF IsStack
<1>1. PICK X : st \in Seq(X)
  BY DEF IsStack
<1>2. DOMAIN st = 1..n /\ \A i \in 1..n : IsFrame(st[i])
  BY <1>0 DEF IsStack
<1> DEFINE s == [st[k] EXCEPT !.val = v]
           r == [st EXCEPT ![k] = s]
<1>3. CASE k \notin 1..n
  <2>1. r = st
    BY <1>0, <1>1, <1>2, <1>3
  <2> QED
    BY <2>1
<1>4. CASE k \in 1..n
  <2>1. IsFrame(s) /\ s.pos = st[k].pos /\ s.left = st[k].left /\ s.end = st[k].end
    BY <1>2, <1>4 DEF IsFrame, IsRecord, FrameFields
  <2> HIDE DEF s
  <2>2. r \in Seq(X \cup {s}) /\ Len(r) = n /\ DOMAIN r = 1..n
    BY <1>0, <1>1, <1>2, <1>4
  <2>3. \A i \in 1..n : IsFrame(r[i]) /\ r[i].pos = st[i].pos /\ r[i].left = st[i].left /\ r[i].end = st[i].end
    BY <1>0, <1>2, <1>4, <2>1
  <2> HIDE DEF r
  <2>4. IsStack(r)
    <3>1. \E Y : r \in Seq(Y)
      BY <2>2
    <3> QED
      BY <2>2, <2>3, <3>1 DEF IsStack
  <2>5. Nested(r, limit)
    <3>1. \A i \in 1..(n - 1) : r[i + 1].end + r[i].left = r[i].end
      <4> TAKE i \in 1..(n - 1)
      <4>1. i \in 1..n /\ i + 1 \in 1..n
        BY <1>0
      <4>2. st[i + 1].end + st[i].left = st[i].end
        BY <1>0 DEF Nested
      <4> QED
        BY <2>3, <4>1, <4>2
    <3>2. r[1].end = limit /\ r[n].pos + r[n].left = r[n].end /\ \A i \in 1..n : r[i].end =< limit /\ r[i].pos =< limit
      BY <1>0, <2>3 DEF Nested
    <3> QED
      BY <2>2, <3>1, <3>2 DEF Nested
  <2> QED
    BY <2>4, <2>5 DEF r, s
<1> QED
  BY <1>3, <1>4

(* The invariant *)
Inv == buf \in Seq(Nat) /\ IsStack(stack) /\ Nested(stack, Len(buf) + 1)

(* A frame that may take the place of the innermost one: it has read some of what was left. *)
Tracks(s) == IsFrame(s) /\ Replaces(s, stack)

LEMMA TopTracks == ASSUME Inv PROVE Tracks(Top) /\ Len(stack) \in Nat \ {0}
BY DEF Inv, IsStack, Nested, Tracks, Replaces, Top

LEMMA AfterTracks ==
  ASSUME NEW s, Tracks(s), NEW n \in Nat, n =< s.left
  PROVE  Tracks(After(s, n)) /\ After(s, n).left = s.left - n /\ After(s, n).pos = s.pos + n
<1>1. IsFrame(s)
  BY DEF Tracks
<1>2. /\ IsRecord(After(s, n)) /\ After(s, n).left = s.left - n
      /\ After(s, n).pos = s.pos + n /\ After(s, n).end = s.end
  BY <1>1 DEF After, IsFrame, IsRecord, FrameFields
<1> QED
  BY <1>1, <1>2 DEF IsFrame, Tracks, Replaces

LEMMA ValueTracks ==
  ASSUME NEW s, Tracks(s), NEW v
  PROVE  Tracks([s EXCEPT !.val = v])
BY DEF Tracks, IsFrame, IsRecord, FrameFields, Replaces

LEMMA NotedTracks ==
  ASSUME NEW s, Tracks(s), NEW f
  PROVE  Tracks(Noted(s, f)) /\ Noted(s, f).left = s.left /\ Noted(s, f).pos = s.pos
<1> DEFINE t == [s EXCEPT !.fixed = f.tag, !.val[f.tag] = << >>]
           Same(u) == IsFrame(u) /\ u.left = s.left /\ u.pos = s.pos /\ u.end = s.end
<1>1. Same(s)
  BY DEF Tracks
<1>2. Same(t)
  BY <1>1 DEF IsFrame, IsRecord, FrameFields
<1>3. ASSUME NEW u, Same(u), NEW v PROVE Same([u EXCEPT !.seen = v])
  BY <1>3 DEF IsFrame, IsRecord, FrameFields
<1> HIDE DEF Same
<1>4. Same(Noted(s, f))
  BY <1>1, <1>2, <1>3 DEF Noted
<1> QED
  BY <1>4 DEF Same, Tracks, Replaces

(* A unit of the buffer that is left to a frame is a number. *)
LEMMA UnitIsNat ==
  ASSUME Inv, NEW s, Tracks(s), s.left > 0
  PROVE  buf[s.pos] \in Nat
<1>1. s.pos \in Nat \ {0} /\ s.left \in Nat \ {0} /\ s.pos + s.left = s.end
  BY DEF Tracks, IsFrame, Replaces
<1>2. s.end =< Len(buf) + 1 /\ s.end \in Int
  BY DEF Inv, IsStack, Nested, Tracks, Replaces, IsFrame
<1>3. buf \in Seq(Nat) /\ Len(buf) \in Nat
  BY DEF Inv
<1>4. s.pos \in 1..Len(buf)
  BY <1>1, <1>2, <1>3
<1> QED
  BY <1>3, <1>4

-----------------------------------------------------------------------------
(* Each way a step may end keeps the invariant. *)

LEMMA FailKeeps == ASSUME Inv, Fail \/ GiveUp \/ UNCHANGED vars PROVE Inv'
BY DEF Inv, Fail, GiveUp, vars

LEMMA ContinueKeeps ==
  ASSUME Inv, NEW s, Tracks(s), Continue(s)
  PROVE  Inv'
BY Replaced DEF Inv, Tracks, Continue

LEMMA OpenKeeps ==
  ASSUME Inv, NEW s, Tracks(s), NEW size \in Nat, size =< s.left,
         NEW loop, NEW type, NEW field, NEW value,
         Open(s, size, Frame(loop, type, field, value, s.pos, size))
  PROVE  Inv'
<1> DEFINE p == [s EXCEPT !.left = @ - size]
           c == Frame(loop, type, field, value, s.pos, size)
<1>1. IsFrame(s) /\ s.end = stack[Len(stack)].end /\ s.pos + s.left = s.end
  BY DEF Tracks, Replaces
<1>2. IsFrame(p) /\ p.end = s.end /\ p.left = s.left - size /\ p.pos = s.pos
  BY <1>1 DEF IsFrame, IsRecord, FrameFields
<1>3. IsFrame(c) /\ c.pos = s.pos /\ c.left = size /\ c.end = s.pos + size
  BY <1>1, FrameIsRecord DEF IsFrame, Frame
<1>4. stack' = [stack EXCEPT ![Len(stack)] = p] \o << c >> /\ buf' = buf
  BY DEF Open
<1> HIDE DEF p, c
<1>5. Opens(p, c, stack)
  BY <1>1, <1>2, <1>3 DEF Opens, IsFrame
<1> QED
  BY <1>2, <1>3, <1>4, <1>5, Pushed DEF Inv

LEMMA CloseKeeps ==
  ASSUME Inv, Len(stack) > 1, NEW parent, IsFrame(parent),
         parent.end = Below.end, parent.left = Below.left, Close(parent)
  PROVE  Inv'
<1> DEFINE p == [parent EXCEPT !.pos = Top.pos + Top.left]
<1>1. IsFrame(Top) /\ Top.pos + Top.left = Top.end
  BY TopTracks DEF Tracks, Replaces, Top
<1>2. Top.pos + Top.left \in Nat \ {0}
  BY <1>1 DEF IsFrame
<1>3. IsFrame(p) /\ p.pos = Top.end /\ p.end = Below.end /\ p.left = Below.left
  BY <1>1, <1>2 DEF IsFrame, IsRecord, FrameFields
<1>4. stack' = [SubSeq(stack, 1, Len(stack) - 1) EXCEPT ![Len(stack) - 1] = p] /\ buf' = buf
  BY DEF Close
<1> HIDE DEF p
<1>5. Closes(p, stack)
  BY <1>3 DEF Closes, Top, Below
<1> QED
  BY <1>3, <1>4, <1>5, Popped DEF Inv

-----------------------------------------------------------------------------
(* The fields *)

LEMMA SizesAreNat == PB_WT_STRING = 2 /\ \A l : SizeOfScalar(l) \in Nat
BY DescriptorAssumption DEF SizeOfScalar, PB_WT_STRING

LEMMA SkipKeeps ==
  ASSUME Inv, NEW s, Tracks(s), NEW wire, Skip(s, wire)
  PROVE  Inv'
<1> DEFINE n == CASE wire = PB_WT_VARINT -> 1
                  [] wire = PB_WT_64BIT  -> Size64
                  [] wire = PB_WT_32BIT  -> Size32
                  [] wire = PB_WT_STRING -> IF s.left = 0 THEN 1 ELSE 1 + buf[s.pos]
                  [] OTHER               -> s.left + 1
<1>1. IF n > s.left THEN Fail ELSE Continue(After(s, n))
  BY DEF Skip
<1>2. s.left \in Nat /\ (s.left # 0 => buf[s.pos] \in Nat)
  BY UnitIsNat DEF Tracks, IsFrame
<1>3. n \in Nat
  BY <1>2, DescriptorAssumption
<1> HIDE DEF n
<1>4. CASE n > s.left
  BY <1>1, <1>4, FailKeeps
<1>5. CASE ~(n > s.left)
  <2>1. n =< s.left
    BY <1>2, <1>3, <1>5
  <2> QED
    BY <1>1, <1>3, <1>5, <2>1, AfterTracks, ContinueKeeps
<1> QED
  BY <1>4, <1>5

LEMMA ScalarKeeps ==
  ASSUME Inv, NEW s, Tracks(s), NEW f, DecodeScalar(s, f)
  PROVE  Inv'
<1> DEFINE n == SizeOfScalar(f.ltype)
<1>1. CASE n =< s.left /\ Continue([After(s, n) EXCEPT !.val = Store(f, @, buf[s.pos])])
  <2>1. n \in Nat
    BY SizesAreNat
  <2>2. Tracks(After(s, n))
    BY <1>1, <2>1, AfterTracks
  <2> QED
    BY <1>1, <2>2, ValueTracks, ContinueKeeps
<1>2. CASE Fail \/ GiveUp
  BY <1>2, FailKeeps
<1> QED
  BY <1>1, <1>2 DEF DecodeScalar, OutOfMemory

(* What is left of a frame behind a length, if it fits. *)
LEMMA LengthRead ==
  ASSUME Inv, NEW s, Tracks(s), s.left # 0
  PROVE  /\ buf[s.pos] \in Nat /\ s.left \in Nat
         /\ Tracks(After(s, 1)) /\ After(s, 1).left = s.left - 1
<1>1. s.left \in Nat /\ s.left > 0
  BY DEF Tracks, IsFrame
<1> QED
  BY <1>1, UnitIsNat, AfterTracks

LEMMA BytesKeeps ==
  ASSUME Inv, NEW s, Tracks(s), NEW f, DecodeBytes(s, f)
  PROVE  Inv'
<1> DEFINE size == buf[s.pos]
           r    == After(s, 1)
<1>1. CASE Fail \/ GiveUp
  BY <1>1, FailKeeps
<1>2. CASE /\ s.left # 0 /\ size =< r.left
           /\ Continue([After(r, size) EXCEPT !.val = Store(f, @, BytesRead(f, r.pos, size))])
  <2>1. size \in Nat /\ Tracks(r)
    BY <1>2, LengthRead
  <2>2. Tracks(After(r, size))
    BY <1>2, <2>1, AfterTracks
  <2> QED
    BY <1>2, <2>2, ValueTracks, ContinueKeeps
<1> QED
  BY <1>1, <1>2 DEF DecodeBytes, OutOfMemory

LEMMA StringKeeps ==
  ASSUME Inv, NEW s, Tracks(s), NEW loop, NEW f, NEW type, NEW value,
         OpenString(s, loop, f, type, value)
  PROVE  Inv'
<1> DEFINE size == buf[s.pos]
           r    == After(s, 1)
<1>1. CASE s.left = 0 \/ size > s.left - 1
  BY <1>1, FailKeeps DEF OpenString
<1>2. CASE ~(s.left = 0 \/ size > s.left - 1)
  <2>1. size \in Nat /\ s.left \in Nat /\ Tracks(r) /\ r.left = s.left - 1
    BY <1>2, LengthRead
  <2>2. size =< r.left
    BY <1>2, <2>1
  <2>3. Open(r, size, Frame(loop, type, f.tag, value, r.pos, size))
    BY <1>2 DEF OpenString
  <2> HIDE DEF size, r
  <2> QED
    BY <2>1, <2>2, <2>3, OpenKeeps
<1> QED
  BY <1>1, <1>2

LEMMA FieldKeeps ==
  ASSUME Inv, NEW s, Tracks(s), NEW f, NEW wire, DecodeField(s, f, wire)
  PROVE  Inv'
<1>1. CASE DecodeCallback(s, f, wire)
  <2>1. CASE Skip(s, wire)
    BY <2>1, SkipKeeps
  <2>2. CASE OpenString(s, "callback", f, None, << >>)
    BY <2>2, StringKeeps
  <2>3. CASE GiveUp
    BY <2>3, FailKeeps
  <2> QED
    BY <1>1, <2>1, <2>2, <2>3 DEF DecodeCallback
<1>2. CASE OpenString(s, "packed", f, None, << >>)
  BY <1>2, StringKeeps
<1>3. CASE Fail
  BY <1>3, FailKeeps
<1>4. CASE DecodeScalar(s, f)
  BY <1>4, ScalarKeeps
<1>5. CASE DecodeBytes(s, f)
  BY <1>5, BytesKeeps
<1>6. CASE DecodeSubmessage(s, f)
  <2>1. CASE OpenString(s, "message", f, f.ptr, InitialSubmessage(s, f))
    BY <2>1, StringKeeps
  <2>2. CASE GiveUp
    BY <2>2, FailKeeps
  <2> QED
    BY <1>6, <2>1, <2>2 DEF DecodeSubmessage, OutOfMemory
<1> QED
  BY <1>1, <1>2, <1>3, <1>4, <1>5, <1>6 DEF DecodeField

-----------------------------------------------------------------------------
(* The steps *)

LEMMA TagKeeps == ASSUME Inv, DecodeTag PROVE Inv'
<1> DEFINE tag  == buf[Top.pos] \div 8
           wire == buf[Top.pos] % 8
           s    == After(Top, 1)
           f    == Field(s.type, tag)
<1>1. Top.left # 0
  BY TopTracks DEF DecodeTag, AtEnd, Tracks, IsFrame
<1>2. Tracks(s)
  BY <1>1, TopTracks, LengthRead
<1>3. \/ Skip(s, wire)
      \/ Fail
      \/ DecodeField(Noted(s, f), f, wire)
  BY DEF DecodeTag
<1> HIDE DEF tag, wire, s, f
<1>4. CASE Skip(s, wire)
  BY <1>2, <1>4, SkipKeeps
<1>5. CASE Fail
  BY <1>5, FailKeeps
<1>6. CASE DecodeField(Noted(s, f), f, wire)
  BY <1>2, <1>6, NotedTracks, FieldKeeps
<1> QED
  BY <1>3, <1>4, <1>5, <1>6

(* The frame below the innermost one, whatever it is made to hold. *)
LEMMA BelowKept ==
  ASSUME Inv, Len(stack) > 1, NEW v
  PROVE  LET p == [Below EXCEPT !.val = v]
         IN IsFrame(p) /\ p.end = Below.end /\ p.left = Below.left
<1>1. Len(stack) - 1 \in 1..Len(stack)
  BY TopTracks
<1>2. IsFrame(Below)
  BY <1>1 DEF Inv, IsStack, Below
<1> QED
  BY <1>2 DEF IsFrame, IsRecord, FrameFields

LEMMA NotOne == \A k \in Nat \ {0} : k # 1 => k > 1
OBVIOUS

LEMMA EndMessageKeeps == ASSUME Inv, EndMessage PROVE Inv'
<1> DEFINE s == IF Top.left = 0 THEN Top ELSE After(Top, 1)
           f == Field(Below.type, Top.field)
           p == [Below EXCEPT !.val = Store(f, @, s.val)]
<1>1. Tracks(s)
  BY TopTracks, LengthRead
<1>2. \/ Fail
      \/ Len(stack) = 1 /\ stack' = << s >> /\ buf' = buf
      \/ Len(stack) # 1 /\ Close(p)
  BY DEF EndMessage
<1>3. CASE Len(stack) = 1 /\ stack' = << s >> /\ buf' = buf
  <2>1. stack' = [stack EXCEPT ![Len(stack)] = s]
    BY <1>3 DEF Inv, IsStack
  <2> HIDE DEF s
  <2> QED
    BY <1>1, <1>3, <2>1, Replaced DEF Inv, Tracks
<1>4. CASE Len(stack) # 1 /\ Close(p)
  <2>1. Len(stack) > 1
    BY <1>4, TopTracks, NotOne
  <2>2. IsFrame(p) /\ p.end = Below.end /\ p.left = Below.left
    BY <2>1, BelowKept
  <2> QED
    BY <1>4, <2>1, <2>2, CloseKeeps
<1> QED
  BY <1>2, <1>3, <1>4, FailKeeps

LEMMA ItemKeeps == ASSUME Inv, DecodeItem PROVE Inv'
<1> DEFINE f == Field(Below.type, Top.field)
           n == SizeOfScalar(f.ltype)
           t == [stack EXCEPT ![Len(stack)] = After(Top, n)]
<1>1. CASE Fail \/ GiveUp
  BY <1>1, FailKeeps
<1>2. CASE /\ n =< Top.left
           /\ stack' = [stack EXCEPT ![Len(stack)] = After(Top, n),
                                     ![Len(stack) - 1].val = Store(f, @, buf[Top.pos])]
           /\ buf' = buf
  <2>1. Tracks(After(Top, n))
    BY <1>2, TopTracks, SizesAreNat, AfterTracks
  <2>2. IsStack(t) /\ Nested(t, Len(buf) + 1)
    BY <2>1, Replaced DEF Inv, Tracks
  <2>3. PICK v : stack' = [t EXCEPT ![Len(stack) - 1].val = v]
    BY <1>2
  <2> HIDE DEF t
  <2>4. IsStack(stack') /\ Nested(stack', Len(buf) + 1)
    BY <2>2, <2>3, Relabelled
  <2> QED
    BY <1>2, <2>4 DEF Inv
<1> QED
  BY <1>1, <1>2 DEF DecodeItem, OutOfMemory

LEMMA CallbackKeeps == ASSUME Inv, CallCallback PROVE Inv'
<1>1. CASE GiveUp
  BY <1>1, FailKeeps
<1>2. CASE \E n \in 0..Top.left : Continue(After(Top, n))
  <2>1. PICK n \in 0..Top.left : Continue(After(Top, n))
    BY <1>2
  <2>2. Tracks(Top) /\ Top.left \in Nat
    BY TopTracks DEF Tracks, IsFrame
  <2>3. n \in Nat /\ n =< Top.left
    BY <2>2
  <2> QED
    BY <2>1, <2>2, <2>3, AfterTracks, ContinueKeeps
<1> QED
  BY <1>1, <1>2 DEF CallCallback

LEMMA StepKeeps == Inv /\ [Next]_vars => Inv'
<1> SUFFICES ASSUME Inv, [Next]_vars PROVE Inv'
  OBVIOUS
<1>1. CASE DecodeTag
  BY <1>1, TagKeeps
<1>2. CASE EndMessage
  BY <1>2, EndMessageKeeps
<1>3. CASE DecodeItem
  BY <1>3, ItemKeeps
<1>4. CASE CallCallback
  BY <1>4, CallbackKeeps
<1>5. CASE EndString
  <2>1. Len(stack) > 1 /\ Close(Below)
    BY <1>5 DEF EndString
  <2>2. Len(stack) - 1 \in 1..Len(stack)
    BY <2>1, TopTracks
  <2>3. IsFrame(Below)
    BY <2>2 DEF Inv, IsStack, Below
  <2> QED
    BY <2>1, <2>3, CloseKeeps
<1>6. CASE UNCHANGED vars
  BY <1>6, FailKeeps
<1> QED
  BY <1>1, <1>2, <1>3, <1>4, <1>5, <1>6 DEF Next, Returned

LEMMA InitNested == Init => Inv
<1> SUFFICES ASSUME Init PROVE Inv
  OBVIOUS
<1>1. buf \in Seq(Nat) /\ Len(buf) \in Nat
  BY DescriptorAssumption DEF Init
<1> DEFINE s == Frame("message", Root, 0, Defaults(Root), 1, Len(buf))
<1>2. IsFrame(s) /\ s.pos = 1 /\ s.left = Len(buf) /\ s.end = Len(buf) + 1
  BY <1>1, FrameIsRecord DEF IsFrame, Frame
<1>3. stack = << s >>
  BY DEF Init
<1> HIDE DEF s
<1>4. Len(stack) = 1 /\ DOMAIN stack = 1..1 /\ stack[1] = s /\ stack \in Seq({s})
  BY <1>3
<1>5. IsStack(stack)
  <2>1. \E X : stack \in Seq(X)
    BY <1>4
  <2> QED
    BY <1>2, <1>4, <2>1 DEF IsStack
<1>6. Nested(stack, Len(buf) + 1)
  BY <1>1, <1>2, <1>4 DEF Nested
<1> QED
  BY <1>1, <1>5, <1>6 DEF Inv

(* Whatever the buffer and the descriptors, the accounting of the substreams is exact: each
   stream ends where it said it would, and its parent goes on from there. *)
THEOREM WellNestedCorrect == Spec => []WellNested
<1>1. Inv => WellNested
  BY NestedIsWellNested DEF Inv
<1> QED
  BY <1>1, InitNested, StepKeeps, PTL DEF Spec

(* No stream reads in front of the buffer or behind its end. *)
THEOREM InBufferCorrect == Spec => [](Top.pos \in 1..(Len(buf) + 1))
<1>1. Inv => Top.pos \in 1..(Len(buf) + 1)
  <2> SUFFICES ASSUME Inv PROVE Top.pos \in 1..(Len(buf) + 1)
    OBVIOUS
  <2>1. Top.pos \in Nat \ {0} /\ Top.left \in Nat /\ Top.pos + Top.left = Top.end /\ Top.end \in Int
    BY TopTracks DEF Tracks, Replaces, IsFrame, Top
  <2>2. Top.end =< Len(buf) + 1 /\ Len(buf) \in Nat
    BY TopTracks DEF Inv, Nested, Top
  <2> QED
    BY <2>1, <2>2
<1> QED
  BY <1>1, InitNested, StepKeeps, PTL DEF Spec

-----------------------------------------------------------------------------
(* The decoder goes on *)

(* A frame that has read more than the innermost one had. *)
Ahead(s) == Tracks(s) /\ s.pos > Top.pos

LEMMA FailStops == ASSUME Fail \/ GiveUp PROVE status' # "run"
BY DEF Fail, GiveUp

LEMMA ContinueAdvances ==
  ASSUME Inv, NEW s, Ahead(s), Continue(s)
  PROVE  Remaining' < Remaining
<1>0. PICK n \in Nat \ {0} : n = Len(stack)
  BY DEF Inv, IsStack
<1>1. PICK X : stack \in Seq(X)
  BY DEF Inv, IsStack
<1>2. stack' = [stack EXCEPT ![n] = s] /\ buf' = buf /\ DOMAIN stack = 1..n
  BY <1>0 DEF Continue, Inv, IsStack
<1>3. stack' \in Seq(X \cup {s}) /\ Len(stack') = n /\ stack'[n] = s
  BY <1>0, <1>1, <1>2
<1>4. Top' = s
  BY <1>3 DEF Top
<1>5. s.pos \in Int /\ Top.pos \in Int /\ s.pos > Top.pos /\ Len(buf) \in Nat
  BY TopTracks DEF Ahead, Tracks, IsFrame, Inv
<1> QED
  BY <1>0, <1>2, <1>3, <1>4, <1>5 DEF Remaining

LEMMA OpenAdvances ==
  ASSUME Inv, NEW s, Tracks(s), s.pos > Top.pos + 1, NEW size, NEW c, c.pos = s.pos,
         Open(s, size, c)
  PROVE  Remaining' < Remaining
<1> DEFINE p == [s EXCEPT !.left = @ - size]
<1>0. PICK n \in Nat \ {0} : n = Len(stack)
  BY DEF Inv, IsStack
<1>1. PICK X : stack \in Seq(X)
  BY DEF Inv, IsStack
<1>2. stack' = [stack EXCEPT ![n] = p] \o << c >> /\ buf' = buf /\ DOMAIN stack = 1..n
  BY <1>0 DEF Open, Inv, IsStack
<1> HIDE DEF p
<1> DEFINE q == [stack EXCEPT ![n] = p]
<1>3. q \in Seq(X \cup {p, c}) /\ Len(q) = n /\ << c >> \in Seq(X \cup {p, c}) /\ Len(<< c >>) = 1 /\ << c >>[1] = c
  BY <1>0, <1>1, <1>2
<1>4. stack' = q \o << c >>
  BY <1>2
<1> HIDE DEF q
<1>5. Len(stack') = n + 1 /\ stack'[n + 1] = c
  BY <1>0, <1>3, <1>4
<1>6. Top' = c
  BY <1>5 DEF Top
<1>7. s.pos \in Int /\ Top.pos \in Int /\ Len(buf) \in Nat
  BY TopTracks DEF Tracks, IsFrame, Inv
<1> QED
  BY <1>0, <1>2, <1>5, <1>6, <1>7 DEF Remaining

LEMMA CloseAdvances ==
  ASSUME Inv, Len(stack) > 1, NEW parent, IsFrame(parent), Close(parent)
  PROVE  Remaining' < Remaining
<1> DEFINE p == [parent EXCEPT !.pos = Top.pos + Top.left]
<1>0. PICK n \in Nat \ {0} : Len(stack) = n + 1
  BY TopTracks, Predecessor
<1>1. PICK X : stack \in Seq(X)
  BY DEF Inv, IsStack
<1>2. stack' = [SubSeq(stack, 1, n) EXCEPT ![n] = p] /\ buf' = buf
  <2>1. Len(stack) - 1 = n
    BY <1>0
  <2> QED
    BY <2>1 DEF Close
<1>3. p.pos = Top.pos + Top.left
  BY DEF IsFrame, IsRecord, FrameFields
<1> HIDE DEF p
<1>4. Len(stack') = n /\ stack'[n] = p
  <2> DEFINE q == SubSeq(stack, 1, n)
  <2>1. q \in Seq(X) /\ Len(q) = n
    BY <1>0, <1>1
  <2>2. stack' = [q EXCEPT ![n] = p]
    BY <1>2
  <2> HIDE DEF q
  <2>3. [q EXCEPT ![n] = p] \in Seq(X \cup {p})
    BY <2>1
  <2> QED
    BY <1>0, <2>1, <2>2, <2>3
<1>5. Top' = p
  BY <1>4 DEF Top
<1>6. Top.pos \in Nat /\ Top.left \in Nat /\ Len(buf) \in Nat
  BY TopTracks DEF Tracks, IsFrame, Inv
<1> QED
  BY <1>0, <1>2, <1>3, <1>4, <1>5, <1>6 DEF Remaining

LEMMA AfterAhead ==
  ASSUME Inv, NEW s, Tracks(s), NEW n \in Nat, n =< s.left
  PROVE  /\ s.pos > Top.pos => Ahead(After(s, n))
         /\ s.pos = Top.pos /\ n > 0 => Ahead(After(s, n))
<1>1. Tracks(After(s, n)) /\ After(s, n).pos = s.pos + n
  BY AfterTracks
<1>2. s.pos \in Int /\ Top.pos \in Int
  BY TopTracks DEF Tracks, IsFrame
<1> QED
  BY <1>1, <1>2 DEF Ahead

LEMMA ValueAhead == ASSUME NEW s, Ahead(s), NEW v PROVE Ahead([s EXCEPT !.val = v])
<1>1. [s EXCEPT !.val = v].pos = s.pos
  BY DEF Ahead, Tracks, IsFrame, IsRecord, FrameFields
<1> QED
  BY <1>1, ValueTracks DEF Ahead

LEMMA SkipAdvances ==
  ASSUME Inv, NEW s, Ahead(s), NEW wire, Skip(s, wire), status' = "run"
  PROVE  Remaining' < Remaining
<1> DEFINE n == CASE wire = PB_WT_VARINT -> 1
                  [] wire = PB_WT_64BIT  -> Size64
                  [] wire = PB_WT_32BIT  -> Size32
                  [] wire = PB_WT_STRING -> IF s.left = 0 THEN 1 ELSE 1 + buf[s.pos]
                  [] OTHER               -> s.left + 1
<1>1. IF n > s.left THEN Fail ELSE Continue(After(s, n))
  BY DEF Skip
<1>2. s.left \in Nat /\ (s.left # 0 => buf[s.pos] \in Nat)
  BY UnitIsNat DEF Ahead, Tracks, IsFrame
<1>3. n \in Nat
  BY <1>2, DescriptorAssumption
<1> HIDE DEF n
<1>4. n =< s.left /\ Continue(After(s, n))
  BY <1>1, <1>2, <1>3, FailStops
<1> QED
  BY <1>3, <1>4, AfterAhead, ContinueAdvances DEF Ahead

LEMMA ScalarAdvances ==
  ASSUME Inv, NEW s, Ahead(s), NEW f, DecodeScalar(s, f), status' = "run"
  PROVE  Remaining' < Remaining
<1> DEFINE n == SizeOfScalar(f.ltype)
<1>1. n =< s.left /\ Continue([After(s, n) EXCEPT !.val = Store(f, @, buf[s.pos])])
  BY FailStops DEF DecodeScalar, OutOfMemory
<1>2. n \in Nat
  BY SizesAreNat
<1>3. Ahead(After(s, n))
  BY <1>1, <1>2, AfterAhead DEF Ahead
<1> QED
  BY <1>1, <1>3, ValueAhead, ContinueAdvances

LEMMA BytesAdvances ==
  ASSUME Inv, NEW s, Ahead(s), NEW f, DecodeBytes(s, f), status' = "run"
  PROVE  Remaining' < Remaining
<1> DEFINE size == buf[s.pos]
           r    == After(s, 1)
<1>1. /\ s.left # 0 /\ size =< r.left
      /\ Continue([After(r, size) EXCEPT !.val = Store(f, @, BytesRead(f, r.pos, size))])
  BY FailStops DEF DecodeBytes, OutOfMemory
<1>2. size \in Nat /\ 1 =< s.left
  BY <1>1, LengthRead DEF Ahead
<1>3. Ahead(r)
  BY <1>2, AfterAhead DEF Ahead
<1> HIDE DEF r, size
<1>4. Ahead(After(r, size))
  BY <1>1, <1>2, <1>3, AfterAhead DEF Ahead
<1> QED
  BY <1>1, <1>4, ValueAhead, ContinueAdvances

LEMMA StringAdvances ==
  ASSUME Inv, NEW s, Ahead(s), NEW loop, NEW f, NEW type, NEW value,
         OpenString(s, loop, f, type, value), status' = "run"
  PROVE  Remaining' < Remaining
<1> DEFINE size == buf[s.pos]
           r    == After(s, 1)
           c    == Frame(loop, type, f.tag, value, r.pos, size)
<1>1. s.left # 0 /\ Open(r, size, c)
  BY FailStops DEF OpenString
<1>2. Tracks(r) /\ r.pos = s.pos + 1
  <2>1. 1 =< s.left
    BY <1>1, LengthRead DEF Ahead
  <2> QED
    BY <2>1, AfterTracks DEF Ahead
<1>3. c.pos = r.pos
  BY DEF Frame
<1>4. r.pos > Top.pos + 1
  BY <1>2, TopTracks DEF Ahead, Tracks, IsFrame
<1> HIDE DEF r, c, size
<1> QED
  BY <1>1, <1>2, <1>3, <1>4, OpenAdvances

LEMMA FieldAdvances ==
  ASSUME Inv, NEW s, Ahead(s), NEW f, NEW wire, DecodeField(s, f, wire), status' = "run"
  PROVE  Remaining' < Remaining
<1>1. ~Fail /\ ~GiveUp
  BY FailStops
<1>2. CASE DecodeCallback(s, f, wire)
  BY <1>1, <1>2, SkipAdvances, StringAdvances DEF DecodeCallback
<1>3. CASE OpenString(s, "packed", f, None, << >>)
  BY <1>3, StringAdvances
<1>4. CASE DecodeScalar(s, f)
  BY <1>4, ScalarAdvances
<1>5. CASE DecodeBytes(s, f)
  BY <1>5, BytesAdvances
<1>6. CASE DecodeSubmessage(s, f)
  BY <1>1, <1>6, StringAdvances DEF DecodeSubmessage, OutOfMemory
<1> QED
  BY <1>1, <1>2, <1>3, <1>4, <1>5, <1>6 DEF DecodeField

LEMMA TagAdvances ==
  ASSUME Inv, DecodeTag, status' = "run"
  PROVE  Remaining' < Remaining
<1> DEFINE tag  == buf[Top.pos] \div 8
           wire == buf[Top.pos] % 8
           s    == After(Top, 1)
           f    == Field(s.type, tag)
<1>1. Top.left \in Nat /\ Top.left > 0 /\ Tracks(Top)
  BY TopTracks DEF DecodeTag, AtEnd, Tracks, IsFrame
<1>2. Ahead(s)
  BY <1>1, AfterAhead
<1>3. \/ Skip(s, wire)
      \/ DecodeField(Noted(s, f), f, wire)
  BY FailStops DEF DecodeTag
<1> HIDE DEF tag, wire, s, f
<1>4. Ahead(Noted(s, f))
  BY <1>2, NotedTracks DEF Ahead
<1> QED
  BY <1>2, <1>3, <1>4, SkipAdvances, FieldAdvances

LEMMA StepAdvances == Inv /\ [Next]_vars => [status' = "run" => Remaining' < Remaining]_vars
<1> SUFFICES ASSUME Inv, Next, vars' # vars, status' = "run" PROVE Remaining' < Remaining
  OBVIOUS
<1>0. ~Fail /\ ~GiveUp /\ Tracks(Top) /\ Top.left \in Nat
  BY FailStops, TopTracks DEF Tracks, IsFrame
<1>1. CASE DecodeTag
  BY <1>1, TagAdvances
<1>2. CASE EndMessage
  <2>1. PICK v : Len(stack) # 1 /\ Close([Below EXCEPT !.val = v])
    BY <1>0, <1>2 DEF EndMessage
  <2>2. Len(stack) > 1
    BY <2>1, TopTracks, NotOne
  <2>3. IsFrame([Below EXCEPT !.val = v])
    BY <2>2, BelowKept
  <2> QED
    BY <2>1, <2>2, <2>3, CloseAdvances
<1>3. CASE DecodeItem
  <2> DEFINE f == Field(Below.type, Top.field)
             n == SizeOfScalar(f.ltype)
             t == [stack EXCEPT ![Len(stack)] = After(Top, n)]
  <2>1. n =< Top.left /\ buf' = buf
    BY <1>0, <1>3 DEF DecodeItem, OutOfMemory
  <2>2. PICK v : stack' = [t EXCEPT ![Len(stack) - 1].val = v]
    BY <1>0, <1>3 DEF DecodeItem, OutOfMemory
  <2>3. n \in Nat /\ n > 0
    BY DescriptorAssumption DEF SizeOfScalar
  <2>4. Tracks(After(Top, n)) /\ After(Top, n).pos = Top.pos + n
    BY <1>0, <2>1, <2>3, AfterTracks
  <2>5. PICK k \in Nat \ {0} : k = Len(stack)
    BY TopTracks
  <2>6. PICK X : stack \in Seq(X)
    BY DEF Inv, IsStack
  <2> DEFINE s == After(Top, n)
  <2> HIDE DEF n
  <2>7. Len(t) = k /\ t[k] = s /\ DOMAIN t = 1..k
    <3>1. DOMAIN stack = 1..k /\ k \in 1..k
      BY <2>5, <2>6
    <3>2. t \in Seq(X \cup {s})
      BY <2>5, <2>6
    <3> QED
      BY <2>5, <2>6, <3>1, <3>2
  <2>8. PICK Y : t \in Seq(Y)
    <3>1. t \in Seq(X \cup {s})
      BY <2>5, <2>6
    <3> QED
      BY <3>1
  <2> DEFINE w == [t[k - 1] EXCEPT !.val = v]
  <2>9. stack' = [t EXCEPT ![k - 1] = w]
    BY <2>2, <2>5
  <2> HIDE DEF t, s, w
  <2>10. stack' \in Seq(Y \cup {w}) /\ Len(stack') = k /\ stack'[k] = s
    <3>1. t \in Seq(Y \cup {w})
      BY <2>8
    <3>3. [t EXCEPT ![k - 1] = w] \in Seq(Y \cup {w})
      <4>1. CASE k - 1 \in 1..k
        BY <2>7, <3>1, <4>1
      <4>2. CASE k - 1 \notin 1..k
        <5>1. [t EXCEPT ![k - 1] = w] = t
          BY <2>7, <3>1, <4>2
        <5> QED
          BY <3>1, <5>1
      <4> QED
        BY <4>1, <4>2
    <3>2. k # k - 1 /\ k \in 1..k
      BY <2>5
    <3> QED
      BY <2>5, <2>7, <2>8, <2>9, <3>2, <3>3
  <2>11. Top' = s
    BY <2>10 DEF Top
  <2>12. s.pos = Top.pos + n /\ Top.pos \in Int /\ Len(buf) \in Nat
    BY <1>0, <2>4 DEF s, Tracks, IsFrame, Inv
  <2> QED
    BY <2>1, <2>3, <2>5, <2>10, <2>11, <2>12 DEF Remaining
<1>4. CASE CallCallback
  <2>1. PICK n \in 0..Top.left : Continue(After(Top, n))
    BY <1>0, <1>4 DEF CallCallback
  <2>2. n \in Nat /\ n =< Top.left
    BY <1>0, <2>1
  <2>3. CASE n > 0
    <3>1. Ahead(After(Top, n))
      BY <1>0, <2>2, <2>3, AfterAhead
    <3> QED
      BY <2>1, <3>1, ContinueAdvances
  <2>4. CASE n = 0
    <3>1. IsFrame(Top) /\ After(Top, 0) = [Top EXCEPT !.pos = @ + 0, !.left = @ - 0]
      BY <1>0 DEF Tracks, After
    <3>2. After(Top, 0) = Top
      <4>1. Top.pos + 0 = Top.pos /\ Top.left - 0 = Top.left
        BY <3>1 DEF IsFrame
      <4> QED
        BY <3>1, <4>1 DEF IsFrame, IsRecord, FrameFields
    <3>3. stack' = [stack EXCEPT ![Len(stack)] = Top] /\ UNCHANGED <<buf, origin, status>>
      BY <2>1, <2>4, <3>2 DEF Continue
    <3>4. stack' = stack
      BY <3>3 DEF Top, Inv, IsStack
    <3> QED
      BY <3>3, <3>4 DEF vars
  <2> QED
    BY <2>2, <2>3, <2>4
<1>5. CASE EndString
  <2>1. Len(stack) > 1 /\ Close(Below)
    BY <1>5 DEF EndString
  <2>2. Len(stack) - 1 \in 1..Len(stack)
    BY <2>1, TopTracks
  <2>3. IsFrame(Below)
    BY <2>2 DEF Inv, IsStack, Below
  <2> QED
    BY <2>1, <2>3, CloseAdvances
<1> QED
  BY <1>1, <1>2, <1>3, <1>4, <1>5 DEF Next, Returned

(* Whatever the buffer claims, each step of pb_decode leaves less before it, and there is never
   less than a unit or a stream: after Len(buf) + 1 steps at most it has returned, but for the
   calls of callbacks that read nothing. *)
THEOREM AdvancesCorrect == Spec => Advances /\ [](Remaining \in 1..(Len(buf) + Len(stack)))
<1>1. Inv => Remaining \in 1..(Len(buf) + Len(stack))
  <2> SUFFICES ASSUME Inv PROVE Remaining \in 1..(Len(buf) + Len(stack))
    OBVIOUS
  <2>1. Top.pos \in Nat \ {0} /\ Top.pos =< Len(buf) + 1 /\ Len(buf) \in Nat
    BY TopTracks DEF Inv, Nested, Tracks, IsFrame, Top
  <2> QED
    BY <2>1, TopTracks DEF Remaining
<1> QED
  BY <1>1, InitNested, StepKeeps, StepAdvances, PTL DEF Spec, Advances

-----------------------------------------------------------------------------
(* What the frames hold *)

(* The entries e of the field f: no static array too long, and the messages among them in
   G, the messages that have been decoded to their end. *)
Entries(G, f, e) ==
  /\ \E S : e \in Seq(S)
  /\ f.atype = "STATIC" => Len(e) =< (IF f.htype = "REPEATED" THEN f.array_size ELSE 1)
  /\ f.ltype = "SUBMESSAGE" => \A i \in 1..Len(e) : << f.ptr, e[i] >> \in G

(* The value v is made for type t. *)
WellMade(G, t, v) ==
  t \in Types /\ DOMAIN v = Tags(t) /\ \A f \in Fields[t] : Entries(G, f, v[f.tag])

(* G are messages with their types, and holds the messages in those too. *)
Messages(G) == \A t, v : << t, v >> \in G => WellMade(G, t, v) /\ Completed(t, v)

(* The required fields that s has seen are filled, but for the one still being read. *)
SeenFilled(s, reading) ==
  \A f \in Fields[s.type] :
    f.htype = "REQUIRED" /\ f.atype # "CALLBACK" /\ f.tag \in s.seen /\ f.tag # reading
      => s.val[f.tag] # << >>

(* The arrays of fixed count are whole, but for the one being filled. *)
FixedWhole(s) ==
  /\ s.fixed # 0 => s.fixed \in Tags(s.type)
  /\ \A f \in Fields[s.type] :
       IsFixedCount(f) /\ f.tag # s.fixed => Len(s.val[f.tag]) \in {0, f.array_size}

Holds(G, s, reading) ==
  s.loop = "message" => WellMade(G, s.type, s.val) /\ SeenFilled(s, reading) /\ FixedWhole(s)

(* The frame c reads a field of the message of p, which has room for it. *)
Within(c, p) ==
  LET f == Field(p.type, c.field)
  IN /\ p.loop = "message" /\ c.field \in Tags(p.type)
     /\ c.loop = "message" => /\ f.ltype = "SUBMESSAGE" /\ c.type = f.ptr
                              /\ f.atype # "CALLBACK"
                              /\ f.htype = "REPEATED" => Room(f, p.val[f.tag])
     /\ c.loop = "packed" => f.htype = "REPEATED" /\ f.ltype # "SUBMESSAGE"
     /\ c.loop = "callback" => f.atype = "CALLBACK"
     /\ IsFixedCount(f) => p.fixed = f.tag

Reading(st, i) == IF i = Len(st) THEN 0 ELSE st[i + 1].field

Filled(G, st) ==
  /\ st[1].loop = "message" /\ st[1].type = Root
  /\ \A i \in 1..Len(st) : st[i].loop \in Loops /\ Holds(G, st[i], Reading(st, i))
  /\ \A i \in 1..(Len(st) - 1) : Within(st[i + 1], st[i])

LEMMA FieldFound ==
  ASSUME NEW t \in Types
  PROVE  /\ \A g \in Tags(t) : Field(t, g) \in Fields[t] /\ Field(t, g).tag = g
         /\ \A f \in Fields[t] :
              /\ f.tag \in Tags(t) /\ Field(t, f.tag) = f
              /\ f.tag # 0 /\ f.array_size \in Nat
              /\ f.ltype = "SUBMESSAGE" => f.ptr \in Types
         /\ \A f, h \in Fields[t] : f.tag = h.tag => f = h
<1>1. \A f, h \in Fields[t] : f.tag = h.tag => f = h
  BY DescriptorAssumption
<1>2. \A f \in Fields[t] : f.tag # 0 /\ f.array_size \in Nat
  <2> TAKE f \in Fields[t]
  <2>1. f \in FieldRecord
    BY DescriptorAssumption
  <2> QED
    BY <2>1 DEF FieldRecord
<1>3. \A g \in Tags(t) : Field(t, g) \in Fields[t] /\ Field(t, g).tag = g
  BY DEF Tags, Field
<1>4. \A f \in Fields[t] : f.tag \in Tags(t)
  BY DEF Tags
<1>5. \A f \in Fields[t] : f.ltype = "SUBMESSAGE" => f.ptr \in Types
  BY DescriptorAssumption
<1> QED
  BY <1>1, <1>2, <1>3, <1>4, <1>5

(* More messages do not unmake a value. *)
LEMMA WellMadeGrows ==
  ASSUME NEW G, NEW H, G \subseteq H, NEW t, NEW v, WellMade(G, t, v)
  PROVE  WellMade(H, t, v)
BY DEF WellMade, Entries

LEMMA FilledGrows ==
  ASSUME NEW G, NEW H, G \subseteq H, NEW st, Filled(G, st)
  PROVE  Filled(H, st)
BY WellMadeGrows DEF Filled, Holds

LEMMA NoEntries ==
  ASSUME NEW G, NEW t \in Types, NEW f \in Fields[t]
  PROVE  Entries(G, f, << >>)
<1>1. << >> \in Seq({}) /\ Len(<< >>) = 0 /\ f.array_size \in Nat
  BY FieldFound
<1>2. \E S : << >> \in Seq(S)
  BY <1>1
<1> QED
  BY <1>1, <1>2 DEF Entries

LEMMA OneEntry ==
  ASSUME NEW G, NEW f, f.htype # "REPEATED", NEW x, f.ltype = "SUBMESSAGE" => << f.ptr, x >> \in G
  PROVE  Entries(G, f, << x >>) /\ << x >> # << >>
<1>1. << x >> \in Seq({x}) /\ Len(<< x >>) = 1 /\ << x >>[1] = x
  OBVIOUS
<1>2. \E S : << x >> \in Seq(S)
  BY <1>1
<1> QED
  BY <1>1, <1>2 DEF Entries

LEMMA FurtherEntry ==
  ASSUME NEW G, NEW t \in Types, NEW f \in Fields[t], NEW e, Entries(G, f, e),
         f.htype = "REPEATED", Room(f, e), NEW x, f.ltype = "SUBMESSAGE" => << f.ptr, x >> \in G
  PROVE  Entries(G, f, Append(e, x)) /\ Append(e, x) # << >>
<1>1. PICK S : e \in Seq(S)
  BY DEF Entries
<1>2. e \in Seq(S \cup {x})
  BY <1>1
<1> DEFINE y == Append(e, x)
<1>3. y \in Seq(S \cup {x})
  BY <1>2
<1>4. /\ Len(e) \in Nat /\ Len(y) = Len(e) + 1 /\ y[Len(e) + 1] = x
      /\ \A i \in 1..Len(e) : y[i] = e[i]
  BY <1>2
<1> HIDE DEF y
<1>5. y # << >>
  BY <1>4
<1>6. \E Z : y \in Seq(Z)
  BY <1>3
<1>7. f.array_size \in Nat
  BY FieldFound
<1>8. f.atype = "STATIC" => Len(y) =< f.array_size
  BY <1>4, <1>7 DEF Room
<1>9. ASSUME f.ltype = "SUBMESSAGE", NEW i \in 1..Len(y) PROVE << f.ptr, y[i] >> \in G
  <2>1. i = Len(e) + 1 \/ i \in 1..Len(e)
    BY <1>4
  <2> QED
    BY <1>4, <1>9, <2>1 DEF Entries
<1>10. Entries(G, f, y)
  BY <1>6, <1>8, <1>9 DEF Entries
<1> QED
  BY <1>5, <1>10 DEF y

LEMMA DefaultsMade ==
  ASSUME NEW G, NEW t \in Types
  PROVE  /\ WellMade(G, t, Defaults(t))
         /\ \A f \in Fields[t] : Defaults(t)[f.tag] = << >>
<1>1. DOMAIN Defaults(t) = Tags(t) /\ \A f \in Fields[t] : Defaults(t)[f.tag] = << >>
  BY FieldFound DEF Defaults
<1> QED
  BY <1>1, NoEntries DEF WellMade

(* Another field of v, or another value of f. *)
LEMMA Updated ==
  ASSUME NEW G, NEW t, NEW v, WellMade(G, t, v), NEW f \in Fields[t], NEW e, Entries(G, f, e)
  PROVE  /\ WellMade(G, t, [v EXCEPT ![f.tag] = e]) /\ [v EXCEPT ![f.tag] = e][f.tag] = e
         /\ \A h \in Fields[t] : h # f => [v EXCEPT ![f.tag] = e][h.tag] = v[h.tag]
<1> DEFINE w == [v EXCEPT ![f.tag] = e]
<1>1. t \in Types /\ DOMAIN v = Tags(t) /\ f.tag \in Tags(t)
  BY FieldFound DEF WellMade
<1>2. \A h \in Fields[t] : h.tag \in Tags(t) /\ (h # f => h.tag # f.tag)
  BY <1>1, FieldFound
<1>3. DOMAIN w = Tags(t) /\ w[f.tag] = e /\ \A h \in Fields[t] : h # f => w[h.tag] = v[h.tag]
  BY <1>1, <1>2
<1> HIDE DEF w
<1>4. ASSUME NEW h \in Fields[t] PROVE Entries(G, h, w[h.tag])
  BY <1>3 DEF WellMade
<1>5. WellMade(G, t, w)
  BY <1>1, <1>3, <1>4 DEF WellMade
<1> QED
  BY <1>3, <1>5 DEF w

(* A value put into a field. *)
LEMMA Stored ==
  ASSUME NEW G, NEW t, NEW v, WellMade(G, t, v), NEW f \in Fields[t], NEW x,
         f.htype = "REPEATED" => Room(f, v[f.tag]),
         f.ltype = "SUBMESSAGE" => << f.ptr, x >> \in G
  PROVE  /\ WellMade(G, t, Store(f, v, x)) /\ Store(f, v, x)[f.tag] # << >>
         /\ \A h \in Fields[t] : h # f => Store(f, v, x)[h.tag] = v[h.tag]
<1> DEFINE y == IF f.htype = "REPEATED" THEN Append(v[f.tag], x) ELSE << x >>
<1>1. t \in Types /\ Entries(G, f, v[f.tag])
  BY DEF WellMade
<1>2. Entries(G, f, y) /\ y # << >>
  BY <1>1, OneEntry, FurtherEntry
<1>3. Store(f, v, x) = [v EXCEPT ![f.tag] = y]
  BY DEF Store
<1> HIDE DEF y
<1>4. /\ WellMade(G, t, [v EXCEPT ![f.tag] = y]) /\ [v EXCEPT ![f.tag] = y][f.tag] = y
      /\ \A h \in Fields[t] : h # f => [v EXCEPT ![f.tag] = y][h.tag] = v[h.tag]
  BY <1>2, Updated
<1> QED
  BY <1>2, <1>3, <1>4

-----------------------------------------------------------------------------
(* A field being decoded *)

(* The frame u may put a value into its field f. *)
Ready(G, u, f) ==
  /\ u.loop = "message" /\ f \in Fields[u.type] /\ Holds(G, u, f.tag)
  /\ IsFixedCount(f) => u.fixed = f.tag

Labels(s, c) == s.loop = c.loop /\ s.type = c.type /\ s.field = c.field

Alike(s, c) == Labels(s, c) /\ s.val = c.val /\ s.seen = c.seen /\ s.fixed = c.fixed

LEMMA AfterAlike == ASSUME NEW s, IsFrame(s), NEW n PROVE Alike(After(s, n), s)
BY DEF IsFrame, IsRecord, FrameFields, After, Alike, Labels

LEMMA AlikeHolds ==
  ASSUME NEW G, NEW s, NEW c, Alike(s, c), NEW reading
  PROVE  /\ Holds(G, c, reading) => Holds(G, s, reading)
         /\ \A f : Ready(G, c, f) => Ready(G, s, f)
<1>1. Holds(G, c, reading) => Holds(G, s, reading)
  BY DEF Alike, Labels, Holds, SeenFilled, FixedWhole
<1>2. ASSUME NEW f, Ready(G, c, f) PROVE Ready(G, s, f)
  <2>1. Holds(G, c, f.tag) => Holds(G, s, f.tag)
    BY DEF Alike, Labels, Holds, SeenFilled, FixedWhole
  <2> QED
    BY <1>2, <2>1 DEF Ready, Alike, Labels
<1> QED
  BY <1>1, <1>2

(* Behind a tag of its type: the fixed count field that is left for another is full. *)
LEMMA NotedReady ==
  ASSUME NEW G, NEW s, IsFrame(s), s.loop = "message", Holds(G, s, 0), NEW f \in Fields[s.type],
         IsFixedCount(f) /\ s.fixed # f.tag => FixedCountFull(s)
  PROVE  Ready(G, Noted(s, f), f) /\ Labels(Noted(s, f), s)
<1> DEFINE t == IF IsFixedCount(f) /\ s.fixed # f.tag
                THEN [s EXCEPT !.fixed = f.tag, !.val[f.tag] = << >>] ELSE s
           u == Noted(s, f)
<1>1. s.type \in Types /\ WellMade(G, s.type, s.val) /\ SeenFilled(s, 0) /\ FixedWhole(s)
  BY DEF Holds, WellMade
<1>2. /\ DOMAIN t = FrameFields /\ Labels(t, s) /\ t.seen = s.seen
      /\ WellMade(G, s.type, t.val) /\ \A h \in Fields[s.type] : h # f => t.val[h.tag] = s.val[h.tag]
  <2>1. CASE IsFixedCount(f) /\ s.fixed # f.tag
    <3>1. t = [s EXCEPT !.fixed = f.tag, !.val = [s.val EXCEPT ![f.tag] = << >>]]
      BY <2>1
    <3>2. /\ DOMAIN t = FrameFields /\ Labels(t, s) /\ t.seen = s.seen
          /\ t.val = [s.val EXCEPT ![f.tag] = << >>]
      BY <3>1 DEF IsFrame, IsRecord, FrameFields, Labels
    <3> HIDE DEF t
    <3> DEFINE w == [s.val EXCEPT ![f.tag] = << >>]
    <3>3. Entries(G, f, << >>)
      BY <1>1, NoEntries
    <3>4. WellMade(G, s.type, w) /\ \A h \in Fields[s.type] : h # f => w[h.tag] = s.val[h.tag]
      BY <1>1, <3>3, Updated
    <3> HIDE DEF w
    <3> QED
      BY <3>2, <3>4 DEF w
  <2>2. CASE ~(IsFixedCount(f) /\ s.fixed # f.tag)
    BY <1>1, <2>2 DEF IsFrame, IsRecord, Labels
  <2> QED
    BY <2>1, <2>2
<1>3. IF IsFixedCount(f) /\ s.fixed # f.tag THEN t.fixed = f.tag ELSE t.fixed = s.fixed
  BY DEF IsFrame, IsRecord, FrameFields
<1>4. u = IF f.htype = "REQUIRED" THEN [t EXCEPT !.seen = @ \cup {f.tag}] ELSE t
  BY DEF Noted
<1> HIDE DEF t, u
<1>5. Labels(u, s) /\ u.val = t.val /\ u.fixed = t.fixed /\ u.seen \subseteq s.seen \cup {f.tag}
  BY <1>2, <1>4 DEF FrameFields, Labels
<1>6. \A h \in Fields[s.type] : (h.tag = f.tag => h = f) /\ h.tag \in Tags(s.type) /\ h.tag # 0
                              /\ Field(s.type, h.tag) = h
  BY <1>1, FieldFound
<1>7. SeenFilled(u, f.tag)
  BY <1>1, <1>2, <1>5, <1>6 DEF SeenFilled, Labels
<1>8. FixedWhole(u)
  <2>1. u.fixed # 0 => u.fixed \in Tags(s.type)
    BY <1>1, <1>3, <1>5, <1>6 DEF FixedWhole
  <2>2. ASSUME NEW h \in Fields[s.type], IsFixedCount(h), h.tag # u.fixed
        PROVE  Len(u.val[h.tag]) \in {0, h.array_size}
    <3>1. h # f
      BY <1>3, <1>5, <2>2
    <3>2. u.val[h.tag] = s.val[h.tag]
      BY <1>2, <1>5, <3>1
    <3>3. CASE h.tag = s.fixed
      BY <1>3, <1>5, <1>6, <2>2, <3>2, <3>3 DEF FixedCountFull
    <3>4. CASE h.tag # s.fixed
      BY <1>1, <2>2, <3>2, <3>4 DEF FixedWhole
    <3> QED
      BY <3>3, <3>4
  <2> QED
    BY <1>5, <2>1, <2>2 DEF FixedWhole, Labels
<1>9. Ready(G, u, f)
  BY <1>2, <1>3, <1>5, <1>7, <1>8 DEF Ready, Holds, Labels
<1> QED
  BY <1>5, <1>9 DEF u

(* A value for which there is room is put there. *)
LEMMA ReadyStored ==
  ASSUME NEW G, NEW u, IsFrame(u), NEW f, Ready(G, u, f), NEW x,
         f.htype = "REPEATED" => Room(f, u.val[f.tag]),
         f.ltype = "SUBMESSAGE" => << f.ptr, x >> \in G, NEW reading
  PROVE  /\ Holds(G, [u EXCEPT !.val = Store(f, @, x)], reading)
         /\ Labels([u EXCEPT !.val = Store(f, @, x)], u)
<1> DEFINE w == Store(f, u.val, x)
           r == [u EXCEPT !.val = w]
<1>1. /\ u.loop = "message" /\ f \in Fields[u.type] /\ WellMade(G, u.type, u.val)
      /\ SeenFilled(u, f.tag) /\ FixedWhole(u) /\ (IsFixedCount(f) => u.fixed = f.tag)
  BY DEF Ready, Holds
<1>2. /\ WellMade(G, u.type, w) /\ w[f.tag] # << >>
      /\ \A h \in Fields[u.type] : h # f => w[h.tag] = u.val[h.tag]
  BY <1>1, Stored
<1> HIDE DEF w
<1>3. Labels(r, u) /\ r.val = w /\ r.seen = u.seen /\ r.fixed = u.fixed
  BY DEF IsFrame, IsRecord, FrameFields, Labels
<1> HIDE DEF r
<1>4. \A h \in Fields[u.type] : h.tag = f.tag => h = f
  BY <1>1, FieldFound DEF WellMade
<1>5. SeenFilled(r, reading)
  BY <1>1, <1>2, <1>3, <1>4 DEF SeenFilled, Labels
<1>6. FixedWhole(r)
  BY <1>1, <1>2, <1>3, <1>4 DEF FixedWhole, Labels
<1>7. Holds(G, r, reading)
  BY <1>2, <1>3, <1>5, <1>6 DEF Holds, Labels
<1> QED
  BY <1>3, <1>7 DEF r, w

(* A field that need not hold anything is left as it is. *)
LEMMA ReadyLeft ==
  ASSUME NEW G, NEW u, NEW f, Ready(G, u, f), f.htype # "REQUIRED" \/ f.atype = "CALLBACK", NEW reading
  PROVE  Holds(G, u, reading)
<1>1. \A h \in Fields[u.type] : h.tag = f.tag => h = f
  BY FieldFound DEF Ready, Holds, WellMade
<1> QED
  BY <1>1 DEF Ready, Holds, SeenFilled

-----------------------------------------------------------------------------
(* The stack with what it holds *)

LEMMA WithinLabels ==
  ASSUME NEW c, NEW d, NEW p, Labels(d, c), Within(c, p)
  PROVE  Within(d, p)
BY DEF Labels, Within

LEMMA ReplacedFilled ==
  ASSUME NEW G, NEW st, IsStack(st), Filled(G, st), NEW s,
         Labels(s, st[Len(st)]), Holds(G, s, 0)
  PROVE  Filled(G, [st EXCEPT ![Len(st)] = s])
<1>0. PICK n \in Nat \ {0} : n = Len(st)
  BY DEF IsStack
<1> DEFINE r == [st EXCEPT ![n] = s]
<1>1. PICK X : st \in Seq(X)
  BY DEF IsStack
<1>2. DOMAIN st = 1..n
  BY <1>0 DEF IsStack
<1>3. r \in Seq(X \cup {s}) /\ Len(r) = n /\ r[n] = s /\ \A i \in 1..n : i # n => r[i] = st[i]
  BY <1>0, <1>1, <1>2
<1> HIDE DEF r
<1>4. \A i \in 1..n : Labels(r[i], st[i])
  BY <1>0, <1>3 DEF Labels
<1>5. \A i \in 1..n : r[i].loop \in Loops /\ Holds(G, r[i], Reading(r, i))
  <2> TAKE i \in 1..n
  <2>1. CASE i = n
    BY <1>0, <1>3, <1>4, <2>1 DEF Filled, Labels, Reading
  <2>2. CASE i # n
    <3>1. i + 1 \in 1..n
      BY <1>0, <2>2
    <3>2. Reading(r, i) = Reading(st, i)
      BY <1>0, <1>3, <1>4, <2>2, <3>1 DEF Reading, Labels
    <3> QED
      BY <1>0, <1>3, <2>2, <3>2 DEF Filled
  <2> QED
    BY <2>1, <2>2
<1>6. \A i \in 1..(n - 1) : Within(r[i + 1], r[i])
  <2> TAKE i \in 1..(n - 1)
  <2>1. i \in 1..n /\ i + 1 \in 1..n /\ i # n
    BY <1>0
  <2>2. Within(st[i + 1], st[i])
    BY <1>0 DEF Filled
  <2>3. r[i] = st[i] /\ Labels(r[i + 1], st[i + 1])
    BY <1>3, <1>4, <2>1
  <2> QED
    BY <2>2, <2>3, WithinLabels
<1>7. r[1].loop = "message" /\ r[1].type = Root
  BY <1>0, <1>4 DEF Filled, Labels
<1>8. Filled(G, r)
  BY <1>3, <1>5, <1>6, <1>7 DEF Filled
<1> QED
  BY <1>0, <1>8 DEF r

LEMMA PushedFilled ==
  ASSUME NEW G, NEW st, IsStack(st), Filled(G, st), NEW p, NEW c,
         Labels(p, st[Len(st)]), Holds(G, p, c.field), Within(c, p), c.loop \in Loops, Holds(G, c, 0)
  PROVE  Filled(G, [st EXCEPT ![Len(st)] = p] \o << c >>)
<1>0. PICK n \in Nat \ {0} : n = Len(st)
  BY DEF IsStack
<1> DEFINE q == [st EXCEPT ![n] = p]
           r == q \o << c >>
<1>1. PICK X : st \in Seq(X)
  BY DEF IsStack
<1>2. DOMAIN st = 1..n
  BY <1>0 DEF IsStack
<1>3. q \in Seq(X \cup {p, c}) /\ Len(q) = n /\ << c >> \in Seq(X \cup {p, c}) /\ Len(<< c >>) = 1 /\ << c >>[1] = c
  BY <1>0, <1>1, <1>2
<1>4. q[n] = p /\ \A i \in 1..n : i # n => q[i] = st[i]
  BY <1>2
<1> HIDE DEF q
<1>5. Len(r) = n + 1 /\ r[n + 1] = c /\ \A i \in 1..n : r[i] = q[i]
  BY <1>2, <1>3
<1> HIDE DEF r
<1>6. r[n] = p /\ \A i \in 1..n : Labels(r[i], st[i]) /\ (i # n => r[i] = st[i])
  BY <1>0, <1>4, <1>5 DEF Labels
<1>7. ASSUME NEW i \in 1..(n + 1) PROVE r[i].loop \in Loops /\ Holds(G, r[i], Reading(r, i))
  <2>1. CASE i = n + 1
    BY <1>5, <2>1 DEF Reading
  <2>2. CASE i = n
    <3>1. Reading(r, n) = c.field
      BY <1>5 DEF Reading
    <3> QED
      BY <1>0, <1>6, <2>2, <3>1 DEF Filled, Labels
  <2>3. CASE i # n /\ i # n + 1
    <3>1. i \in 1..n /\ i + 1 \in 1..n
      BY <1>0, <2>3
    <3>2. Reading(r, i) = Reading(st, i)
      BY <1>0, <1>5, <1>6, <2>3, <3>1 DEF Reading, Labels
    <3> QED
      BY <1>0, <1>6, <2>3, <3>1, <3>2 DEF Filled
  <2> QED
    BY <2>1, <2>2, <2>3
<1>8. ASSUME NEW i \in 1..n PROVE Within(r[i + 1], r[i])
  <2>1. CASE i = n
    BY <1>5, <1>6, <2>1
  <2>2. CASE i # n
    <3>1. i \in 1..(n - 1) /\ i + 1 \in 1..n
      BY <1>0, <2>2
    <3>2. Within(st[i + 1], st[i])
      BY <1>0, <3>1 DEF Filled
    <3> QED
      BY <1>6, <2>2, <3>1, <3>2, WithinLabels
  <2> QED
    BY <2>1, <2>2
<1>9. r[1].loop = "message" /\ r[1].type = Root
  BY <1>0, <1>6 DEF Filled, Labels
<1>10. Filled(G, r)
  <2>1. (n + 1) - 1 = n
    BY <1>0
  <2> QED
    BY <1>5, <1>7, <1>8, <1>9, <2>1 DEF Filled
<1> QED
  BY <1>0, <1>10 DEF r, q

LEMMA PoppedFilled ==
  ASSUME NEW G, NEW st, IsStack(st), Filled(G, st), Len(st) > 1, NEW p,
         Labels(p, st[Len(st) - 1]), Holds(G, p, 0)
  PROVE  Filled(G, [SubSeq(st, 1, Len(st) - 1) EXCEPT ![Len(st) - 1] = p])
<1>0. PICK n \in Nat \ {0} : Len(st) = n + 1
  <2>1. Len(st) \in Nat
    BY DEF IsStack
  <2>2. Len(st) - 1 \in Nat \ {0} /\ Len(st) = (Len(st) - 1) + 1
    BY <2>1, Predecessor
  <2> QED
    BY <2>1, <2>2
<1> DEFINE q == SubSeq(st, 1, n)
<1>1. PICK X : st \in Seq(X)
  BY DEF IsStack
<1>2. q \in Seq(X) /\ Len(q) = n /\ DOMAIN q = 1..n /\ \A i \in 1..n : q[i] = st[i]
  BY <1>0, <1>1
<1> HIDE DEF q
<1>3. IsStack(q)
  <2>1. \A i \in 1..n : IsFrame(q[i])
    BY <1>0, <1>2 DEF IsStack
  <2>2. \E Y : q \in Seq(Y)
    BY <1>2
  <2> QED
    BY <1>0, <1>2, <2>1, <2>2 DEF IsStack
<1> DEFINE r == [q EXCEPT ![n] = p]
<1>4. r \in Seq(X \cup {p}) /\ Len(r) = n /\ r[n] = p /\ \A i \in 1..n : i # n => r[i] = q[i]
  BY <1>0, <1>2
<1> HIDE DEF r
<1>5. \A i \in 1..n : Labels(r[i], st[i]) /\ (i # n => r[i] = st[i])
  BY <1>0, <1>2, <1>4 DEF Labels
<1>6. ASSUME NEW i \in 1..n PROVE r[i].loop \in Loops /\ Holds(G, r[i], Reading(r, i))
  <2>0. i \in 1..Len(st)
    BY <1>0
  <2>1. CASE i = n
    <3>1. st[n].loop \in Loops /\ Labels(p, st[n])
      BY <1>0, <2>0, <2>1 DEF Filled
    <3> QED
      BY <1>4, <2>1, <3>1 DEF Labels, Reading
  <2>2. CASE i # n
    <3>1. i + 1 \in 1..n /\ i # Len(st)
      BY <1>0, <2>2
    <3>2. Reading(r, i) = Reading(st, i)
      BY <1>4, <1>5, <2>2, <3>1 DEF Reading, Labels
    <3> QED
      BY <1>5, <2>0, <2>2, <3>2 DEF Filled
  <2> QED
    BY <2>1, <2>2
<1>7. ASSUME NEW i \in 1..(n - 1) PROVE Within(r[i + 1], r[i])
  <2>1. i \in 1..n /\ i + 1 \in 1..n /\ i # n /\ i \in 1..(Len(st) - 1)
    BY <1>0
  <2>2. Within(st[i + 1], st[i])
    BY <2>1 DEF Filled
  <2> QED
    BY <1>5, <2>1, <2>2, WithinLabels
<1>8. r[1].loop = "message" /\ r[1].type = Root
  BY <1>0, <1>5 DEF Filled, Labels
<1>9. Filled(G, r)
  BY <1>4, <1>6, <1>7, <1>8 DEF Filled
<1> QED
  <2>1. Len(st) - 1 = n
    BY <1>0
  <2> QED
    BY <1>9, <2>1 DEF r, q

(* What the frame below the innermost one is filled with, while it is read. *)
LEMMA BelowFilled ==
  ASSUME NEW G, NEW st, IsStack(st), Filled(G, st), Len(st) > 1, NEW v,
         Holds(G, [st[Len(st) - 1] EXCEPT !.val = v], st[Len(st)].field),
         st[Len(st)].loop = "packed"
  PROVE  Filled(G, [st EXCEPT ![Len(st) - 1].val = v])
<1>0. PICK n \in Nat \ {0} : Len(st) = n + 1
  <2>1. Len(st) \in Nat
    BY DEF IsStack
  <2>2. Len(st) - 1 \in Nat \ {0} /\ Len(st) = (Len(st) - 1) + 1
    BY <2>1, Predecessor
  <2> QED
    BY <2>1, <2>2
<1>1. PICK X : st \in Seq(X)
  BY DEF IsStack
<1>2. DOMAIN st = 1..(n + 1) /\ \A i \in 1..(n + 1) : IsFrame(st[i])
  BY <1>0 DEF IsStack
<1> DEFINE p == [st[n] EXCEPT !.val = v]
           r == [st EXCEPT ![n] = p]
<1>3. Labels(p, st[n]) /\ p.seen = st[n].seen /\ p.fixed = st[n].fixed
  BY <1>0, <1>2 DEF IsFrame, IsRecord, FrameFields, Labels
<1>4. Holds(G, p, st[n + 1].field) /\ st[n + 1].loop = "packed"
  <2>1. Len(st) - 1 = n
    BY <1>0
  <2> QED
    BY <1>0, <2>1
<1> HIDE DEF p
<1>5. r \in Seq(X \cup {p}) /\ Len(r) = n + 1 /\ r[n] = p /\ \A i \in 1..(n + 1) : i # n => r[i] = st[i]
  BY <1>0, <1>1, <1>2
<1> HIDE DEF r
<1>6. \A i \in 1..(n + 1) : Labels(r[i], st[i])
  BY <1>0, <1>3, <1>5 DEF Labels
<1>7. ASSUME NEW i \in 1..(n + 1) PROVE r[i].loop \in Loops /\ Holds(G, r[i], Reading(r, i))
  <2>0. st[i].loop \in Loops /\ Holds(G, st[i], Reading(st, i))
    BY <1>0 DEF Filled
  <2>1. CASE i = n
    <3>1. Reading(r, n) = st[n + 1].field
      BY <1>0, <1>5 DEF Reading
    <3> QED
      BY <1>4, <1>5, <1>6, <2>0, <2>1, <3>1 DEF Labels
  <2>2. CASE i # n
    <3>1. Reading(r, i) = Reading(st, i)
      <4>1. i = n + 1 \/ i + 1 \in 1..(n + 1)
        BY <1>0
      <4> QED
        BY <1>0, <1>5, <1>6, <4>1 DEF Reading, Labels
    <3> QED
      BY <1>5, <2>0, <2>2, <3>1
  <2> QED
    BY <2>1, <2>2
<1>8. ASSUME NEW i \in 1..n PROVE Within(r[i + 1], r[i])
  <2>1. Within(st[i + 1], st[i])
    BY <1>0 DEF Filled
  <2>2. i \in 1..(n + 1) /\ i + 1 \in 1..(n + 1)
    BY <1>0
  <2>3. CASE i = n
    <3>1. Within(st[n + 1], st[n]) /\ r[n + 1] = st[n + 1] /\ r[n] = p
      BY <1>0, <1>5, <2>1, <2>2, <2>3
    <3>2. Within(st[n + 1], p)
      BY <1>3, <1>4, <3>1 DEF Within, Labels
    <3> QED
      BY <2>3, <3>1, <3>2
  <2>4. CASE i # n
    <3>1. r[i] = st[i] /\ Labels(r[i + 1], st[i + 1])
      BY <1>5, <1>6, <2>2, <2>4
    <3> QED
      BY <2>1, <3>1, WithinLabels
  <2> QED
    BY <2>3, <2>4
<1>9. r[1].loop = "message" /\ r[1].type = Root
  BY <1>0, <1>6 DEF Filled, Labels
<1>10. Filled(G, r)
  <2>1. (n + 1) - 1 = n
    BY <1>0
  <2> QED
    BY <1>5, <1>7, <1>8, <1>9, <2>1 DEF Filled
<1> QED
  <2>1. Len(st) - 1 = n
    BY <1>0
  <2> QED
    BY <1>10, <2>1 DEF r, p

-----------------------------------------------------------------------------
(* What the steps keep of it *)

Decoded(G) ==
  /\ Messages(G) /\ Filled(G, stack)
  /\ status = "ok" => Completed(stack[1].type, stack[1].val)

(* There is a set of messages that have been decoded to their end, which no step makes smaller. *)
Held == status \in {"run", "ok", "error", "failed"} /\ \E G : Decoded(G)

LEMMA FailHolds ==
  ASSUME NEW G, Decoded(G), Fail \/ GiveUp
  PROVE  Decoded(G)' /\ status' \in {"error", "failed"}
BY DEF Decoded, Fail, GiveUp

LEMMA TopHolds ==
  ASSUME Inv, NEW G, Decoded(G)
  PROVE  /\ Holds(G, Top, 0) /\ Top.loop \in Loops /\ IsFrame(Top) /\ Labels(Top, Top)
         /\ Len(stack) > 1 =>
              /\ IsFrame(Below) /\ Holds(G, Below, Top.field) /\ Within(Top, Below)
              /\ Below.loop = "message"
<1>0. PICK n \in Nat \ {0} : n = Len(stack)
  BY DEF Inv, IsStack
<1>1. Holds(G, stack[n], Reading(stack, n)) /\ stack[n].loop \in Loops /\ IsFrame(stack[n])
  BY <1>0 DEF Inv, IsStack, Decoded, Filled
<1>2. Reading(stack, n) = 0
  BY <1>0 DEF Reading
<1>3. ASSUME n > 1
      PROVE  /\ IsFrame(Below) /\ Holds(G, Below, Top.field) /\ Within(Top, Below)
             /\ Below.loop = "message"
  <2>1. PICK m \in Nat \ {0} : n = m + 1
    BY <1>0, <1>3, Predecessor
  <2>2. n - 1 = m /\ m \in 1..n /\ m \in 1..(n - 1)
    BY <1>0, <2>1
  <2>3. Holds(G, stack[m], Reading(stack, m)) /\ IsFrame(stack[m]) /\ Within(stack[m + 1], stack[m])
    BY <1>0, <2>2 DEF Inv, IsStack, Decoded, Filled
  <2>4. Reading(stack, m) = stack[n].field
    BY <1>0, <2>1 DEF Reading
  <2>5. stack[m].loop = "message"
    BY <2>3 DEF Within
  <2> QED
    BY <1>0, <2>1, <2>2, <2>3, <2>4, <2>5 DEF Top, Below
<1> QED
  BY <1>0, <1>1, <1>2, <1>3 DEF Top, Labels

LEMMA ContinueHolds ==
  ASSUME Inv, NEW G, Decoded(G), status = "run", NEW s, Labels(s, Top), Holds(G, s, 0), Continue(s)
  PROVE  Decoded(G)' /\ status' = "run"
<1>1. stack' = [stack EXCEPT ![Len(stack)] = s] /\ status' = "run"
  BY DEF Continue
<1>2. Filled(G, [stack EXCEPT ![Len(stack)] = s])
  BY ReplacedFilled DEF Inv, Decoded, Top
<1> QED
  BY <1>1, <1>2 DEF Decoded

(* What is asked of a child that reads the field f of s. *)
Suits(G, s, f, loop, type, value) ==
  /\ loop \in Loops
  /\ loop = "message" =>
       /\ f.ltype = "SUBMESSAGE" /\ type = f.ptr /\ f.atype # "CALLBACK"
       /\ f.htype = "REPEATED" => Room(f, s.val[f.tag])
       /\ WellMade(G, type, value)
       /\ \A h \in Fields[type] : IsFixedCount(h) => Len(value[h.tag]) \in {0, h.array_size}
  /\ loop = "packed" => f.htype = "REPEATED" /\ f.ltype # "SUBMESSAGE"
  /\ loop = "callback" => f.atype = "CALLBACK"

LEMMA StringHolds ==
  ASSUME Inv, NEW G, Decoded(G), status = "run", NEW s, Tracks(s), Labels(s, Top),
         NEW f, Ready(G, s, f), NEW loop, NEW type, NEW value, Suits(G, s, f, loop, type, value),
         OpenString(s, loop, f, type, value)
  PROVE  Decoded(G)' /\ status' \in {"run", "error", "failed"}
<1>1. CASE Fail
  BY <1>1, FailHolds
<1> DEFINE size == buf[s.pos]
           r    == After(s, 1)
           p    == [r EXCEPT !.left = @ - size]
           c    == Frame(loop, type, f.tag, value, r.pos, size)
<1>2. CASE stack' = [stack EXCEPT ![Len(stack)] = p] \o << c >> /\ status' = status
  <2>1. Alike(p, s)
    BY DEF Tracks, IsFrame, IsRecord, FrameFields, After, Alike, Labels
  <2>2. /\ c.loop = loop /\ c.type = type /\ c.field = f.tag /\ c.val = value
        /\ c.seen = {} /\ c.fixed = 0
    BY DEF Frame
  <2> HIDE DEF p, c
  <2>3. Ready(G, p, f) /\ Holds(G, p, f.tag) /\ Labels(p, Top)
    BY <2>1, AlikeHolds DEF Ready, Alike, Labels
  <2>4. Field(p.type, f.tag) = f /\ f.tag \in Tags(p.type)
    BY <2>3, FieldFound DEF Ready, Holds, WellMade
  <2>5. Within(c, p)
    BY <2>1, <2>2, <2>3, <2>4 DEF Within, Suits, Ready, Alike, Loops
  <2>6. Holds(G, c, 0)
    BY <2>2 DEF Holds, SeenFilled, FixedWhole, Suits
  <2>7. Filled(G, [stack EXCEPT ![Len(stack)] = p] \o << c >>)
    BY <2>2, <2>3, <2>5, <2>6, PushedFilled DEF Inv, Decoded, Top, Suits
  <2> QED
    BY <1>2, <2>7 DEF Decoded
<1> QED
  BY <1>1, <1>2 DEF OpenString, Open

LEMMA SkipHolds ==
  ASSUME Inv, NEW G, Decoded(G), status = "run", NEW s, IsFrame(s), Labels(s, Top), Holds(G, s, 0),
         NEW wire, Skip(s, wire)
  PROVE  Decoded(G)' /\ status' \in {"run", "error", "failed"}
<1>1. PICK n : Fail \/ Continue(After(s, n))
  BY DEF Skip
<1>2. Labels(After(s, n), Top) /\ Holds(G, After(s, n), 0)
  <2>1. Alike(After(s, n), s)
    BY AfterAlike
  <2> QED
    BY <2>1, AlikeHolds DEF Alike, Labels
<1> QED
  BY <1>1, <1>2, FailHolds, ContinueHolds

(* A scalar or a string that is stored where there is room. *)
LEMMA StoreHolds ==
  ASSUME Inv, NEW G, Decoded(G), status = "run", NEW s, Tracks(s), Labels(s, Top),
         NEW f, Ready(G, s, f), f.htype = "REPEATED" => Room(f, s.val[f.tag]), f.ltype # "SUBMESSAGE",
         NEW r, IsFrame(r), Alike(r, s), NEW x, Continue([r EXCEPT !.val = Store(f, @, x)])
  PROVE  Decoded(G)' /\ status' = "run"
<1>1. Ready(G, r, f) /\ r.val = s.val
  BY AlikeHolds DEF Alike
<1> DEFINE t == [r EXCEPT !.val = Store(f, @, x)]
<1>2. Holds(G, t, 0) /\ Labels(t, r)
  BY <1>1, ReadyStored
<1> HIDE DEF t
<1>3. Labels(t, Top)
  BY <1>2 DEF Labels, Alike
<1> QED
  BY <1>2, <1>3, ContinueHolds DEF t

LEMMA ScalarHolds ==
  ASSUME Inv, NEW G, Decoded(G), status = "run", NEW s, Tracks(s), Labels(s, Top),
         NEW f, Ready(G, s, f), f.htype = "REPEATED" => Room(f, s.val[f.tag]), f.ltype # "SUBMESSAGE",
         DecodeScalar(s, f)
  PROVE  Decoded(G)' /\ status' \in {"run", "error", "failed"}
<1> DEFINE n == SizeOfScalar(f.ltype)
<1>1. CASE Fail \/ GiveUp
  BY <1>1, FailHolds
<1>2. CASE n =< s.left /\ Continue([After(s, n) EXCEPT !.val = Store(f, @, buf[s.pos])])
  <2>1. n \in Nat
    BY SizesAreNat
  <2>2. IsFrame(After(s, n)) /\ Alike(After(s, n), s)
    BY <1>2, <2>1, AfterTracks, AfterAlike DEF Tracks
  <2> HIDE DEF n
  <2> QED
    BY <1>2, <2>2, StoreHolds
<1> QED
  BY <1>1, <1>2 DEF DecodeScalar, OutOfMemory

LEMMA BytesHolds ==
  ASSUME Inv, NEW G, Decoded(G), status = "run", NEW s, Tracks(s), Labels(s, Top),
         NEW f, Ready(G, s, f), f.htype = "REPEATED" => Room(f, s.val[f.tag]), f.ltype # "SUBMESSAGE",
         DecodeBytes(s, f)
  PROVE  Decoded(G)' /\ status' \in {"run", "error", "failed"}
<1> DEFINE size == buf[s.pos]
           r    == After(s, 1)
<1>1. CASE Fail \/ GiveUp
  BY <1>1, FailHolds
<1>2. CASE /\ s.left # 0 /\ size =< r.left
           /\ Continue([After(r, size) EXCEPT !.val = Store(f, @, BytesRead(f, r.pos, size))])
  <2>1. size \in Nat /\ Tracks(r)
    BY <1>2, LengthRead
  <2>2. Tracks(After(r, size))
    BY <1>2, <2>1, AfterTracks
  <2>3. Alike(r, s) /\ Alike(After(r, size), r)
    BY <2>1, AfterAlike DEF Tracks
  <2> DEFINE q == After(r, size)
             x == BytesRead(f, r.pos, size)
  <2>4. IsFrame(q) /\ Alike(q, s) /\ Continue([q EXCEPT !.val = Store(f, @, x)])
    BY <1>2, <2>2, <2>3 DEF Tracks, Alike, Labels
  <2> HIDE DEF q, x, r, size
  <2> QED
    BY <2>4, StoreHolds
<1> QED
  BY <1>1, <1>2 DEF DecodeBytes, OutOfMemory

(* A submessage starts from defaults, or from one that has been decoded before. *)
LEMMA SubmessageHolds ==
  ASSUME Inv, NEW G, Decoded(G), status = "run", NEW s, Tracks(s), Labels(s, Top),
         NEW f, Ready(G, s, f), f.htype = "REPEATED" => Room(f, s.val[f.tag]), f.ltype = "SUBMESSAGE",
         f.atype # "CALLBACK", DecodeSubmessage(s, f)
  PROVE  Decoded(G)' /\ status' \in {"run", "error", "failed"}
<1> DEFINE v == InitialSubmessage(s, f)
<1>0. WellMade(G, s.type, s.val) /\ s.type \in Types /\ f \in Fields[s.type]
  BY DEF Ready, Holds, WellMade
<1>1. /\ WellMade(G, f.ptr, v)
      /\ \A h \in Fields[f.ptr] : IsFixedCount(h) => Len(v[h.tag]) \in {0, h.array_size}
  <2>1. CASE f.htype # "REPEATED" /\ f.atype = "STATIC" /\ s.val[f.tag] # << >>
    <3>1. v = s.val[f.tag][1]
      BY <2>1 DEF InitialSubmessage
    <3>2. Entries(G, f, s.val[f.tag])
      BY <1>0 DEF WellMade
    <3>3. PICK S : s.val[f.tag] \in Seq(S)
      BY <3>2 DEF Entries
    <3>4. 1 \in 1..Len(s.val[f.tag])
      BY <2>1, <3>3
    <3>5. << f.ptr, v >> \in G
      BY <3>1, <3>2, <3>4 DEF Entries
    <3> HIDE DEF v
    <3> QED
      BY <3>5 DEF Decoded, Messages, Completed
  <2>2. CASE ~(f.htype # "REPEATED" /\ f.atype = "STATIC" /\ s.val[f.tag] # << >>)
    <3>1. v = Defaults(f.ptr)
      BY <2>2 DEF InitialSubmessage
    <3>2. f.ptr \in Types
      BY <1>0, FieldFound
    <3>3. Len(<< >>) = 0
      OBVIOUS
    <3> HIDE DEF v
    <3> QED
      BY <3>1, <3>2, <3>3, DefaultsMade
  <2> QED
    BY <2>1, <2>2
<1> HIDE DEF v
<1>2. Suits(G, s, f, "message", f.ptr, v)
  BY <1>1 DEF Suits, Loops
<1>3. CASE OpenString(s, "message", f, f.ptr, v)
  BY <1>2, <1>3, StringHolds
<1>4. CASE GiveUp
  BY <1>4, FailHolds
<1> QED
  BY <1>3, <1>4 DEF DecodeSubmessage, OutOfMemory, v

LEMMA CallbackFieldHolds ==
  ASSUME Inv, NEW G, Decoded(G), status = "run", NEW s, Tracks(s), Labels(s, Top),
         NEW f, Ready(G, s, f), f.atype = "CALLBACK", NEW wire, DecodeCallback(s, f, wire)
  PROVE  Decoded(G)' /\ status' \in {"run", "error", "failed"}
<1>1. CASE Skip(s, wire)
  BY <1>1, ReadyLeft, SkipHolds DEF Tracks
<1>2. CASE OpenString(s, "callback", f, None, << >>)
  <2>1. Suits(G, s, f, "callback", None, << >>)
    BY DEF Suits, Loops
  <2> QED
    BY <1>2, <2>1, StringHolds
<1>3. CASE GiveUp
  BY <1>3, FailHolds
<1> QED
  BY <1>1, <1>2, <1>3 DEF DecodeCallback

LEMMA FieldHolds ==
  ASSUME Inv, NEW G, Decoded(G), status = "run", NEW s, Tracks(s), Labels(s, Top),
         NEW f, Ready(G, s, f), NEW wire, DecodeField(s, f, wire)
  PROVE  Decoded(G)' /\ status' \in {"run", "error", "failed"}
<1>1. CASE f.atype = "CALLBACK" /\ DecodeCallback(s, f, wire)
  BY <1>1, CallbackFieldHolds
<1>2. CASE f.htype = "REPEATED" /\ f.ltype \in Packable /\ OpenString(s, "packed", f, None, << >>)
  <2>1. Suits(G, s, f, "packed", None, << >>)
    BY <1>2 DEF Suits, Loops, Packable
  <2> QED
    BY <1>2, <2>1, StringHolds
<1>3. CASE Fail
  BY <1>3, FailHolds
<1>4. CASE /\ f.atype # "CALLBACK" /\ ~(f.htype = "REPEATED" /\ ~Room(f, s.val[f.tag]))
           /\ CASE f.ltype \in Packable    -> DecodeScalar(s, f)
                [] f.ltype = "SUBMESSAGE"  -> DecodeSubmessage(s, f)
                [] OTHER                   -> DecodeBytes(s, f)
  <2>1. CASE f.ltype \in Packable /\ DecodeScalar(s, f)
    <3>1. f.ltype # "SUBMESSAGE"
      BY <2>1 DEF Packable
    <3> QED
      BY <1>4, <2>1, <3>1, ScalarHolds
  <2>2. CASE f.ltype = "SUBMESSAGE" /\ DecodeSubmessage(s, f)
    BY <1>4, <2>2, SubmessageHolds
  <2>3. CASE f.ltype # "SUBMESSAGE" /\ DecodeBytes(s, f)
    BY <1>4, <2>3, BytesHolds
  <2>4. "SUBMESSAGE" \notin Packable
    BY DEF Packable
  <2> QED
    BY <1>4, <2>1, <2>2, <2>3, <2>4
<1> QED
  BY <1>1, <1>2, <1>3, <1>4 DEF DecodeField

-----------------------------------------------------------------------------
(* The steps *)

LEMMA TagHolds ==
  ASSUME Inv, NEW G, Decoded(G), DecodeTag
  PROVE  Decoded(G)' /\ status' \in {"run", "error", "failed"}
<1> DEFINE tag  == buf[Top.pos] \div 8
           wire == buf[Top.pos] % 8
           s    == After(Top, 1)
           f    == Field(s.type, tag)
<1>0. status = "run" /\ Top.loop = "message"
  BY DEF DecodeTag
<1>1. Top.left # 0
  BY TopTracks DEF DecodeTag, AtEnd, Tracks, IsFrame
<1>2. Tracks(s)
  BY <1>1, TopTracks, LengthRead
<1>3. Labels(s, Top) /\ Holds(G, s, 0)
  <2>1. Alike(s, Top)
    BY TopHolds, AfterAlike
  <2> HIDE DEF s
  <2> QED
    BY <2>1, TopHolds, AlikeHolds DEF Alike
<1>4. \/ Skip(s, wire)
      \/ Fail
      \/ /\ tag \in Tags(s.type) /\ DecodeField(Noted(s, f), f, wire)
         /\ IsFixedCount(f) /\ s.fixed # tag => FixedCountFull(s)
  BY DEF DecodeTag
<1> HIDE DEF tag, wire, s
<1>5. CASE Skip(s, wire)
  BY <1>0, <1>2, <1>3, <1>5, SkipHolds DEF Tracks
<1>6. CASE Fail
  BY <1>6, FailHolds
<1>7. CASE /\ tag \in Tags(s.type) /\ DecodeField(Noted(s, f), f, wire)
           /\ IsFixedCount(f) /\ s.fixed # tag => FixedCountFull(s)
  <2>1. s.loop = "message" /\ s.type \in Types
    BY <1>0, <1>3 DEF Labels, Holds, WellMade
  <2>2. f \in Fields[s.type] /\ f.tag = tag
    BY <1>7, <2>1, FieldFound
  <2> HIDE DEF f
  <2>3. Ready(G, Noted(s, f), f) /\ Labels(Noted(s, f), s)
    BY <1>2, <1>3, <1>7, <2>1, <2>2, NotedReady DEF Tracks
  <2>4. Tracks(Noted(s, f)) /\ Labels(Noted(s, f), Top)
    BY <1>2, <1>3, <2>3, NotedTracks DEF Labels
  <2> QED
    BY <1>0, <1>7, <2>3, <2>4, FieldHolds
<1> QED
  BY <1>4, <1>5, <1>6, <1>7

(* A message that comes to its end is complete. *)
LEMMA EndCompletes ==
  ASSUME NEW G, NEW s, s.loop = "message", Holds(G, s, 0), FixedCountFull(s), RequiredPresent(s)
  PROVE  WellMade(G, s.type, s.val) /\ Completed(s.type, s.val)
<1>1. s.type \in Types /\ WellMade(G, s.type, s.val) /\ SeenFilled(s, 0) /\ FixedWhole(s)
  BY DEF Holds, WellMade
<1>2. \A h \in Fields[s.type] : h.tag # 0 /\ Field(s.type, h.tag) = h
  BY <1>1, FieldFound
<1>3. ASSUME NEW h \in Fields[s.type], h.htype = "REQUIRED", h.atype # "CALLBACK"
      PROVE  s.val[h.tag] # << >>
  BY <1>1, <1>2, <1>3 DEF RequiredPresent, SeenFilled
<1>4. ASSUME NEW h \in Fields[s.type], IsFixedCount(h)
      PROVE  Len(s.val[h.tag]) \in {0, h.array_size}
  BY <1>1, <1>2, <1>4 DEF FixedCountFull, FixedWhole
<1> QED
  BY <1>1, <1>3, <1>4 DEF Completed

(* The child has been closed, and p goes on in place of its parent. *)
LEMMA CloseHolds ==
  ASSUME Inv, NEW G, Messages(G), Filled(G, stack), status = "run", Len(stack) > 1,
         NEW p, IsFrame(p), Labels(p, Below), Holds(G, p, 0), Close(p)
  PROVE  Decoded(G)' /\ status' = "run"
<1> DEFINE q == [p EXCEPT !.pos = Top.pos + Top.left]
<1>1. Alike(q, p)
  BY DEF IsFrame, IsRecord, FrameFields, Alike, Labels
<1>2. stack' = [SubSeq(stack, 1, Len(stack) - 1) EXCEPT ![Len(stack) - 1] = q] /\ status' = status
  BY DEF Close
<1> HIDE DEF q
<1>3. Labels(q, stack[Len(stack) - 1]) /\ Holds(G, q, 0)
  BY <1>1, AlikeHolds DEF Alike, Labels, Below
<1>4. Filled(G, stack')
  BY <1>2, <1>3, PoppedFilled DEF Inv
<1> QED
  BY <1>2, <1>4 DEF Decoded

LEMMA BelowReady ==
  ASSUME Inv, NEW G, Decoded(G), Len(stack) > 1
  PROVE  /\ Ready(G, Below, Field(Below.type, Top.field)) /\ IsFrame(Below)
         /\ Field(Below.type, Top.field).tag = Top.field
<1>1. IsFrame(Below) /\ Holds(G, Below, Top.field) /\ Within(Top, Below)
  BY TopHolds
<1>2. Below.loop = "message" /\ Below.type \in Types /\ Top.field \in Tags(Below.type)
  BY <1>1 DEF Within, Holds, WellMade
<1>3. /\ Field(Below.type, Top.field) \in Fields[Below.type]
      /\ Field(Below.type, Top.field).tag = Top.field
  BY <1>2, FieldFound
<1> QED
  BY <1>1, <1>2, <1>3 DEF Ready, Within

LEMMA EndMessageHolds ==
  ASSUME Inv, NEW G, Decoded(G), EndMessage
  PROVE  (\E H : Decoded(H)') /\ status' \in {"run", "ok", "error", "failed"}
<1> DEFINE s == IF Top.left = 0 THEN Top ELSE After(Top, 1)
           f == Field(Below.type, Top.field)
           p == [Below EXCEPT !.val = Store(f, @, s.val)]
<1>0. status = "run" /\ Top.loop = "message"
  BY DEF EndMessage
<1>1. Alike(s, Top)
  <2>1. Alike(Top, Top) /\ Alike(After(Top, 1), Top)
    BY TopHolds, AfterAlike DEF Alike, Labels
  <2> QED
    BY <2>1
<1>2. \/ Fail
      \/ /\ FixedCountFull(s) /\ RequiredPresent(s) /\ Len(stack) = 1
         /\ status' = "ok" /\ stack' = << s >>
      \/ FixedCountFull(s) /\ RequiredPresent(s) /\ Len(stack) # 1 /\ Close(p)
  BY DEF EndMessage
<1> HIDE DEF s
<1>3. s.loop = "message" /\ Holds(G, s, 0) /\ Labels(s, Top)
  BY <1>0, <1>1, TopHolds, AlikeHolds DEF Alike, Labels
<1>4. CASE Fail
  BY <1>4, FailHolds
<1>5. CASE /\ FixedCountFull(s) /\ RequiredPresent(s) /\ Len(stack) = 1
           /\ status' = "ok" /\ stack' = << s >>
  <2>1. stack' = [stack EXCEPT ![Len(stack)] = s]
    BY <1>5 DEF Inv, IsStack
  <2>2. Filled(G, stack')
    BY <1>3, <2>1, ReplacedFilled DEF Inv, Decoded, Top
  <2>3. Completed(s.type, s.val)
    BY <1>3, <1>5, EndCompletes
  <2>4. stack'[1] = s
    BY <1>5
  <2>5. Decoded(G)'
    BY <2>2, <2>3, <2>4 DEF Decoded
  <2> QED
    BY <1>5, <2>5
<1>6. CASE FixedCountFull(s) /\ RequiredPresent(s) /\ Len(stack) # 1 /\ Close(p)
  <2>1. Len(stack) > 1
    BY <1>6, TopTracks, NotOne
  <2>0. PICK H : H = G \cup {<< s.type, s.val >>}
    OBVIOUS
  <2>2. WellMade(G, s.type, s.val) /\ Completed(s.type, s.val)
    BY <1>3, <1>6, EndCompletes
  <2>3. Messages(H)
    <3> SUFFICES ASSUME NEW t, NEW v, << t, v >> \in H
                 PROVE  WellMade(H, t, v) /\ Completed(t, v)
      BY DEF Messages
    <3>1. WellMade(G, t, v) /\ Completed(t, v)
      BY <2>0, <2>2 DEF Decoded, Messages
    <3> QED
      BY <2>0, <3>1, WellMadeGrows
  <2>4. Filled(H, stack)
    BY <2>0, FilledGrows DEF Decoded
  <2>5. Decoded(H)
    BY <1>0, <2>3, <2>4 DEF Decoded
  <2>6. << s.type, s.val >> \in H
    BY <2>0
  <2>7. Ready(H, Below, f) /\ IsFrame(Below) /\ f.tag = Top.field /\ Within(Top, Below)
    BY <2>1, <2>5, BelowReady, TopHolds
  <2>8. /\ f.ltype = "SUBMESSAGE" /\ s.type = f.ptr
        /\ f.htype = "REPEATED" => Room(f, Below.val[f.tag])
    BY <1>0, <1>3, <2>7 DEF Within, Labels
  <2> HIDE DEF f
  <2>9. Holds(H, p, 0) /\ Labels(p, Below)
    BY <2>6, <2>7, <2>8, ReadyStored
  <2>10. IsFrame(p)
    BY <2>7 DEF IsFrame, IsRecord, FrameFields
  <2> HIDE DEF p
  <2>11. Decoded(H)' /\ status' = "run"
    BY <1>0, <1>6, <2>1, <2>3, <2>4, <2>9, <2>10, CloseHolds
  <2> QED
    BY <2>11
<1> QED
  BY <1>2, <1>4, <1>5, <1>6

LEMMA EndStringHolds ==
  ASSUME Inv, NEW G, Decoded(G), EndString
  PROVE  Decoded(G)' /\ status' = "run"
<1> DEFINE f == Field(Below.type, Top.field)
<1>1. /\ status = "run" /\ Len(stack) > 1 /\ Top.loop \in {"packed", "callback"}
      /\ Close(Below)
  BY DEF EndString
<1>2. Ready(G, Below, f) /\ IsFrame(Below) /\ Within(Top, Below) /\ Labels(Below, Below)
  BY <1>1, BelowReady, TopHolds DEF Labels
<1>3. f.htype # "REQUIRED" \/ f.atype = "CALLBACK"
  BY <1>1, <1>2 DEF Within
<1> HIDE DEF f
<1>4. Holds(G, Below, 0)
  BY <1>2, <1>3, ReadyLeft
<1> QED
  BY <1>1, <1>2, <1>4, CloseHolds DEF Decoded

LEMMA ItemHolds ==
  ASSUME Inv, NEW G, Decoded(G), DecodeItem
  PROVE  Decoded(G)' /\ status' \in {"run", "error", "failed"}
<1> DEFINE f == Field(Below.type, Top.field)
           n == SizeOfScalar(f.ltype)
           x == Store(f, Below.val, buf[Top.pos])
           p == [Below EXCEPT !.val = x]
           t == [stack EXCEPT ![Len(stack)] = After(Top, n)]
<1>0. status = "run" /\ Top.loop = "packed"
  BY DEF DecodeItem
<1>1. CASE Fail \/ GiveUp
  BY <1>1, FailHolds
<1>2. CASE /\ n =< Top.left /\ Room(f, Below.val[f.tag])
           /\ stack' = [stack EXCEPT ![Len(stack)] = After(Top, n),
                                     ![Len(stack) - 1].val = Store(f, @, buf[Top.pos])]
           /\ status' = status
  <2>1. PICK m \in Nat \ {0} : Len(stack) = m + 1
    <3>1. Len(stack) # 1
      BY <1>0 DEF Decoded, Filled, Top
    <3>2. Len(stack) > 1 /\ Len(stack) \in Nat
      BY <3>1, TopTracks, NotOne
    <3> QED
      BY <3>2, Predecessor
  <2>2. Len(stack) > 1 /\ Len(stack) - 1 = m /\ DOMAIN stack = 1..(m + 1)
    BY <2>1 DEF Inv, IsStack
  <2>3. Ready(G, Below, f) /\ IsFrame(Below) /\ f.tag = Top.field /\ Within(Top, Below)
    BY <2>2, BelowReady, TopHolds
  <2>4. f.htype = "REPEATED" /\ f.ltype # "SUBMESSAGE"
    BY <1>0, <2>3 DEF Within
  <2>5. Holds(G, p, Top.field)
    BY <1>2, <2>3, <2>4, ReadyStored
  <2>6. Tracks(After(Top, n)) /\ Alike(After(Top, n), Top)
    BY <1>2, TopTracks, SizesAreNat, AfterTracks, TopHolds, AfterAlike
  <2>7. Labels(After(Top, n), Top) /\ Holds(G, After(Top, n), 0)
    BY <2>6, TopHolds, AlikeHolds DEF Alike
  <2>8. IsStack(t) /\ Filled(G, t)
    BY <2>6, <2>7, Replaced, ReplacedFilled DEF Inv, Tracks, Decoded, Top
  <2>9. /\ Len(t) = Len(stack) /\ t[m] = Below /\ t[m + 1] = After(Top, n)
        /\ stack' = [t EXCEPT ![m].val = x]
    <3>1. PICK X : stack \in Seq(X)
      BY DEF Inv, IsStack
    <3>2. Below = stack[m] /\ m # m + 1 /\ m \in 1..(m + 1)
      BY <2>1, <2>2 DEF Below
    <3>3. t \in Seq(X \cup {After(Top, n)}) /\ Len(t) = m + 1
      BY <2>1, <3>1
    <3>4. t[m] = Below /\ t[m + 1] = After(Top, n)
      BY <2>1, <2>2, <3>2
    <3>5. stack' = [t EXCEPT ![Len(stack) - 1].val = x]
      BY <1>2 DEF Below
    <3> HIDE DEF t, x, f
    <3> QED
      BY <2>1, <2>2, <3>3, <3>4, <3>5
  <2> HIDE DEF t
  <2>10. Len(t) > 1 /\ Len(t) - 1 = m /\ t[Len(t) - 1] = Below /\ t[Len(t)].field = Top.field
         /\ t[Len(t)].loop = "packed"
    BY <1>0, <2>1, <2>2, <2>7, <2>9 DEF Labels
  <2> HIDE DEF x
  <2>11. Filled(G, [t EXCEPT ![Len(t) - 1].val = x])
    <3>1. Holds(G, [t[Len(t) - 1] EXCEPT !.val = x], t[Len(t)].field)
      BY <2>5, <2>10
    <3> QED
      BY <2>8, <2>10, <3>1, BelowFilled
  <2>12. Filled(G, stack')
    BY <2>9, <2>10, <2>11
  <2> QED
    BY <1>0, <1>2, <2>12 DEF Decoded
<1> QED
  BY <1>1, <1>2 DEF DecodeItem, OutOfMemory

LEMMA CallHolds ==
  ASSUME Inv, NEW G, Decoded(G), CallCallback
  PROVE  Decoded(G)' /\ status' \in {"run", "error", "failed"}
<1>1. CASE GiveUp
  BY <1>1, FailHolds
<1>2. CASE \E n \in 0..Top.left : Continue(After(Top, n))
  <2>1. PICK n : Continue(After(Top, n))
    BY <1>2
  <2>2. Alike(After(Top, n), Top)
    BY TopHolds, AfterAlike
  <2>3. Labels(After(Top, n), Top) /\ Holds(G, After(Top, n), 0) /\ status = "run"
    BY <2>2, TopHolds, AlikeHolds DEF Alike, CallCallback
  <2> QED
    BY <2>1, <2>3, ContinueHolds
<1> QED
  BY <1>1, <1>2 DEF CallCallback

LEMMA StepHolds == Inv /\ Held /\ [Next]_vars => Held'
<1> SUFFICES ASSUME Inv, Held, [Next]_vars PROVE Held'
  OBVIOUS
<1>0. PICK G : Decoded(G)
  BY DEF Held
<1>1. CASE DecodeTag
  BY <1>0, <1>1, TagHolds DEF Held
<1>2. CASE EndMessage
  BY <1>0, <1>2, EndMessageHolds DEF Held
<1>3. CASE DecodeItem
  BY <1>0, <1>3, ItemHolds DEF Held
<1>4. CASE CallCallback
  BY <1>0, <1>4, CallHolds DEF Held
<1>5. CASE EndString
  BY <1>0, <1>5, EndStringHolds DEF Held
<1>6. CASE UNCHANGED vars
  <2>1. Decoded(G)' /\ status' = status
    BY <1>0, <1>6 DEF Decoded, vars
  <2> QED
    BY <2>1 DEF Held
<1> QED
  BY <1>1, <1>2, <1>3, <1>4, <1>5, <1>6 DEF Next, Returned

LEMMA InitHeld == Init => Held
<1> SUFFICES ASSUME Init PROVE Held
  OBVIOUS
<1> DEFINE s == Frame("message", Root, 0, Defaults(Root), 1, Len(buf))
<1>1. Root \in Types
  BY DescriptorAssumption
<1>2. /\ s.loop = "message" /\ s.type = Root /\ s.val = Defaults(Root) /\ s.seen = {} /\ s.fixed = 0
  BY DEF Frame
<1>3. stack = << s >> /\ status = "run"
  BY DEF Init
<1> HIDE DEF s
<1>4. Len(stack) = 1 /\ stack[1] = s
  BY <1>3
<1>5. Holds({}, s, 0)
  <2>1. Len(<< >>) = 0
    OBVIOUS
  <2> QED
    BY <1>1, <1>2, <2>1, DefaultsMade DEF Holds, SeenFilled, FixedWhole
<1>6. Filled({}, stack)
  BY <1>2, <1>4, <1>5 DEF Filled, Reading, Loops
<1>7. Decoded({})
  BY <1>3, <1>6 DEF Decoded, Messages
<1> QED
  BY <1>3, <1>7 DEF Held

LEMMA HeldAlways == Spec => [](Inv /\ Held)
BY InitNested, InitHeld, StepKeeps, StepHolds, PTL DEF Spec

(* The streams open are frames of the buffer, made for their types, each in a field of the
   message around it. *)
THEOREM TypeCorrect == Spec => []TypeOK
<1>1. Inv /\ Held => TypeOK
  <2> SUFFICES ASSUME Inv, Held PROVE TypeOK
    OBVIOUS
  <2>1. PICK G : Decoded(G)
    BY DEF Held
  <2>2. Len(stack) \in Nat \ {0} /\ Len(buf) \in Nat
    BY DEF Inv, IsStack
  <2>3. stack # << >>
    BY <2>2
  <2>4. ASSUME NEW i \in 1..Len(stack)
        PROVE  /\ stack[i].loop \in Loops /\ stack[i].left \in Nat
               /\ stack[i].pos \in 1..(Len(buf) + 1)
               /\ stack[i].loop = "message" =>
                    stack[i].type \in Types /\ DOMAIN stack[i].val = Tags(stack[i].type)
               /\ i > 1 => stack[i].field \in Tags(stack[i - 1].type)
    <3>1. stack[i].loop \in Loops /\ Holds(G, stack[i], Reading(stack, i))
      BY <2>1 DEF Decoded, Filled
    <3>2. stack[i].left \in Nat /\ stack[i].pos \in 1..(Len(buf) + 1)
      BY <2>2 DEF Inv, IsStack, IsFrame, Nested
    <3>3. ASSUME i > 1 PROVE stack[i].field \in Tags(stack[i - 1].type)
      <4>1. PICK k \in 1..(Len(stack) - 1) : i = k + 1 /\ i - 1 = k
        BY <2>2, <3>3
      <4>2. Within(stack[k + 1], stack[k])
        BY <2>1 DEF Decoded, Filled
      <4> QED
        BY <4>1, <4>2 DEF Within
    <3> QED
      BY <3>1, <3>2, <3>3 DEF Holds, WellMade
  <2> QED
    BY <2>3, <2>4 DEF TypeOK, Held
<1> QED
  BY <1>1, HeldAlways, PTL

(* However the entries of an array arrive, it does not outgrow its struct, at any depth. *)
THEOREM ArraysBoundedCorrect == Spec => []ArraysBounded
<1>1. Inv /\ Held => ArraysBounded
  <2> SUFFICES ASSUME Inv, Held PROVE ArraysBounded
    OBVIOUS
  <2>1. PICK G : Decoded(G)
    BY DEF Held
  <2>2. ASSUME NEW i \in 1..Len(stack), stack[i].loop = "message",
               NEW f \in Fields[stack[i].type], f.atype = "STATIC"
        PROVE  Len(stack[i].val[f.tag]) =< (IF f.htype = "REPEATED" THEN f.array_size ELSE 1)
    BY <2>1, <2>2 DEF Decoded, Filled, Holds, WellMade, Entries
  <2> QED
    BY <2>2 DEF ArraysBounded
<1> QED
  BY <1>1, HeldAlways, PTL

(* The message v of type t is complete, and so is every message in it at any depth: it is one
   of a set of messages that are complete and have the messages in them in the set. *)
CompleteAtEveryDepth(t, v) == \E G : Messages(G) /\ << t, v >> \in G

(* When pb_decode returns true, the message and the messages in it have all their required
   fields, no array in them is too long for its struct, and arrays of fixed count are whole. *)
THEOREM DecodedComplete == Spec => [](status = "ok" => CompleteAtEveryDepth(Root, stack[1].val))
<1>1. Inv /\ Held => (status = "ok" => CompleteAtEveryDepth(Root, stack[1].val))
  <2> SUFFICES ASSUME Inv, Held, status = "ok" PROVE CompleteAtEveryDepth(Root, stack[1].val)
    OBVIOUS
  <2>1. PICK G : Decoded(G)
    BY DEF Held
  <2>2. Completed(Root, stack[1].val) /\ WellMade(G, Root, stack[1].val)
    BY <2>1 DEF Inv, IsStack, Decoded, Filled, Holds
  <2> DEFINE H == G \cup {<< Root, stack[1].val >>}
  <2>3. ASSUME NEW t, NEW v, << t, v >> \in H PROVE WellMade(H, t, v) /\ Completed(t, v)
    <3>1. WellMade(G, t, v) /\ Completed(t, v)
      BY <2>1, <2>2, <2>3 DEF Decoded, Messages
    <3> QED
      BY <3>1, WellMadeGrows
  <2> QED
    BY <2>3 DEF Messages, CompleteAtEveryDepth
<1> QED
  BY <1>1, HeldAlways, PTL
-----------------------------------------------------------------------------
(* Induction and recursion.  The theorems of the library take the induction hypothesis as an
   operator; with a set in its place, what a recursive function computes can be proved. *)

(* A set that holds zero, and with each number the next, holds all numbers. *)
LEMMA Inductive ==
  ASSUME NEW S, 0 \in S, \A n \in Nat : n \in S => n + 1 \in S
  PROVE  \A n \in Nat : n \in S
<1> DEFINE T == Nat \ S
           Less == {ss \in Nat \X Nat : ss[1] < ss[2]}
<1> SUFFICES ASSUME T # {} PROVE FALSE
  OBVIOUS
<1>0. IsWellFoundedOn(Less, Nat)
  BY NatLessThanWellFounded DEF OpToRel
<1>1. PICK x \in T : \A y \in T : ~(<<y, x>> \in Less)
  <2> HIDE DEF T, Less
  <2>1. T \subseteq Nat
     BY DEF T
  <2> QED
  BY <2>1, <1>0, WFMin
<1>2. \A y \in T : ~ (y < x)
  BY <1>1
<1>3. x # 0 /\ x - 1 \in Nat /\ x - 1 \notin T
  BY <1>2
<1> QED
  BY <1>3

(* g is the beginning of a function that starts with x and goes on with D, f the whole of it. *)
Starts(g, n, X, x, D) ==
  /\ g \in [0..n -> X] /\ g[0] = x
  /\ \A i \in 0..(n - 1) : g[i + 1] = D[i][g[i]]

Goes(f, X, x, D) == f \in [Nat -> X] /\ f[0] = x /\ \A n \in Nat : f[n + 1] = D[n][f[n]]

(* There is such a function. *)
LEMMA Recursion ==
  ASSUME NEW X, NEW x \in X, NEW D \in [Nat -> [X -> X]]
  PROVE  \E f : Goes(f, X, x, D)
<1> DEFINE St(g, n) == Starts(g, n, X, x, D)
<1>1. \A n \in Nat : \E g : St(g, n)
  <2> DEFINE S == {n \in Nat : \E g : St(g, n)}
  <2>1. 0 \in S
    <3>1. St([i \in 0..0 |-> x], 0)
      BY DEF Starts
    <3> QED
      BY <3>1
  <2>2. ASSUME NEW n \in Nat, n \in S PROVE n + 1 \in S
    <3>1. PICK g : St(g, n)
      BY <2>2
    <3>2. g[n] \in X /\ D[n][g[n]] \in X
      BY <3>1 DEF Starts
    <3> DEFINE h == [i \in 0..(n + 1) |-> IF i = n + 1 THEN D[n][g[n]] ELSE g[i]]
    <3>3. h \in [0..(n + 1) -> X] /\ h[0] = x
      BY <3>1, <3>2 DEF Starts
    <3>4. ASSUME NEW i \in 0..n PROVE h[i + 1] = D[i][h[i]]
      <4>1. CASE i = n
        <5>1. h[n] = g[n] /\ h[n + 1] = D[n][g[n]]
          OBVIOUS
        <5> QED
          BY <4>1, <5>1
      <4>2. CASE i # n
        <5>1. i \in 0..(n - 1) /\ i + 1 \in 0..n /\ i + 1 # n + 1 /\ i # n + 1
          BY <4>2
        <5>2. h[i] = g[i] /\ h[i + 1] = g[i + 1]
          BY <5>1
        <5> QED
          BY <5>1, <5>2, <3>1 DEF Starts
      <4> QED
        BY <4>1, <4>2
    <3>5. St(h, n + 1)
      <4> HIDE DEF h
      <4> QED
        BY <3>3, <3>4 DEF Starts
    <3> QED
      BY <3>5
  <2>3. \A n \in Nat : n \in S
    <3> HIDE DEF S
    <3> QED
      BY <2>1, <2>2, Inductive
  <2> QED
    BY <2>3
<1>2. ASSUME NEW n \in Nat, NEW k \in Nat, NEW g, NEW h, St(g, n), St(h, k)
      PROVE  \A i \in Nat : i =< n /\ i =< k => g[i] = h[i]
  <2> DEFINE S == {i \in Nat : i =< n /\ i =< k => g[i] = h[i]}
  <2>1. 0 \in S
    BY <1>2 DEF Starts
  <2>2. ASSUME NEW i \in Nat, i \in S PROVE i + 1 \in S
    <3> SUFFICES ASSUME i + 1 =< n, i + 1 =< k PROVE g[i + 1] = h[i + 1]
      OBVIOUS
    <3>1. i \in 0..(n - 1) /\ i \in 0..(k - 1) /\ g[i] = h[i]
      BY <2>2
    <3> QED
      BY <3>1, <1>2 DEF Starts
  <2>3. \A i \in Nat : i \in S
    <3> HIDE DEF S
    <3> QED
      BY <2>1, <2>2, Inductive
  <2> QED
    BY <2>3
<1> DEFINE G(n) == CHOOSE g : St(g, n)
           f == [n \in Nat |-> G(n)[n]]
<1>3. \A n \in Nat : St(G(n), n)
  BY <1>1
<1>4. \A n \in Nat : f[n] = G(n)[n] /\ f[n] \in X
  <2> TAKE n \in Nat
  <2>1. Starts(G(n), n, X, x, D) /\ n \in 0..n
    BY <1>3
  <2>2. G(n)[n] \in X
    <3> HIDE DEF G
    <3> QED
      BY <2>1 DEF Starts
  <2> QED
    BY <2>2
<1>5. ASSUME NEW n \in Nat PROVE f[n + 1] = D[n][f[n]]
  <2>1. St(G(n), n) /\ St(G(n + 1), n + 1)
    BY <1>3
  <2>2. G(n + 1)[n] = G(n)[n]
    <3> HIDE DEF G, St
    <3> QED
      BY <2>1, <1>2
  <2>3. G(n + 1)[n + 1] = D[n][G(n + 1)[n]]
    <3> HIDE DEF G
    <3> QED
      BY <2>1 DEF Starts
  <2> QED
    BY <2>2, <2>3, <1>4
<1>6. f[0] = x
  BY <1>3 DEF Starts
<1>7. f \in [Nat -> X]
  BY <1>4
<1> QED
  <2> HIDE DEF f
  <2> QED
    BY <1>5, <1>6, <1>7 DEF Goes
-----------------------------------------------------------------------------
(* Every depth *)

LEMMA AtEveryDepth ==
  ASSUME NEW t, NEW m, NEW H, << t, m >> \in H, \A p \in H : Parts(p) \subseteq H
  PROVE  /\ AtDepth(t, m) \in [Nat -> SUBSET H]
         /\ AtDepth(t, m)[0] = {<< t, m >>}
         /\ \A n \in Nat : AtDepth(t, m)[n + 1] = UNION {Parts(p) : p \in AtDepth(t, m)[n]}
<1> DEFINE U(y) == UNION {Parts(p) : p \in y}
           X == SUBSET H
           x == {<< t, m >>}
           D == [n \in Nat |-> [y \in X |-> U(y)]]
           Is(at) == at = [n \in Nat |-> IF n = 0 THEN x ELSE U(at[n - 1])]
<1>1. \A y \in X : U(y) \in X
  OBVIOUS
<1>2. x \in X
  OBVIOUS
<1>9. AtDepth(t, m) = CHOOSE at : Is(at)
  BY DEF AtDepth
<1> HIDE DEF U, X, x
<1>3. PICK f : Goes(f, X, x, D)
  <2>1. D \in [Nat -> [X -> X]]
    BY <1>1
  <2> HIDE DEF D
  <2> QED
    BY <1>2, <2>1, Recursion
<1>4. Is(f)
  <2>1. f \in [Nat -> X] /\ f[0] = x /\ \A n \in Nat : f[n + 1] = U(f[n])
    BY <1>3 DEF Goes
  <2>2. \A n \in Nat : f[n] = IF n = 0 THEN x ELSE U(f[n - 1])
    BY <2>1
  <2> QED
    BY <2>1, <2>2
<1>6. Is(AtDepth(t, m))
  <2> HIDE DEF Is
  <2> QED
    BY <1>4, <1>9
<1>7. ASSUME NEW at, Is(at)
      PROVE  at[0] = x /\ at \in [Nat -> X] /\ \A n \in Nat : at[n + 1] = U(at[n])
  <2>1. \A n \in Nat : at[n] = IF n = 0 THEN x ELSE U(at[n - 1])
    BY <1>7
  <2>2. DOMAIN at = Nat /\ at = [n \in Nat |-> at[n]]
    BY <1>7
  <2> HIDE DEF Is
  <2>3. at[0] = x
    BY <2>1
  <2>4. \A n \in Nat : at[n + 1] = U(at[n])
    <3> TAKE n \in Nat
    <3>1. n + 1 \in Nat /\ n + 1 # 0 /\ (n + 1) - 1 = n
      OBVIOUS
    <3> QED
      BY <3>1, <2>1
  <2>5. \A n \in Nat : at[n] \in X
    <3> DEFINE S == {n \in Nat : at[n] \in X}
    <3>1. 0 \in S /\ \A n \in Nat : n \in S => n + 1 \in S
      BY <2>3, <2>4, <1>1, <1>2
    <3> HIDE DEF S
    <3>2. \A n \in Nat : n \in S
      BY <3>1, Inductive
    <3> QED
      BY <3>2 DEF S
  <2> QED
    BY <2>2, <2>3, <2>4, <2>5
<1> QED
  <2> HIDE DEF Is
  <2>1. AtDepth(t, m)[0] = x /\ AtDepth(t, m) \in [Nat -> X]
        /\ \A n \in Nat : AtDepth(t, m)[n + 1] = U(AtDepth(t, m)[n])
    BY <1>6, <1>7
  <2> QED
    BY <2>1 DEF U, X, x

(* When pb_decode returns true, the message and the messages in it, at any depth, have all
   their required fields, and their arrays of fixed count are whole (RequiredDecoded). *)
THEOREM RequiredDecodedCorrect == Spec => []RequiredDecoded
<1>1. ASSUME NEW v, CompleteAtEveryDepth(Root, v), NEW n \in Nat, NEW p \in AtDepth(Root, v)[n]
      PROVE  Completed(p[1], p[2])
  <2>1. PICK G : Messages(G) /\ << Root, v >> \in G
    BY <1>1 DEF CompleteAtEveryDepth
  <2> DEFINE H == {q \in G : q = << q[1], q[2] >>}
  <2>2. << Root, v >> \in H
    BY <2>1
  <2>3. ASSUME NEW q \in H PROVE Parts(q) \subseteq H
    <3>1. << q[1], q[2] >> \in G
      BY <2>3
    <3>2. ASSUME NEW f \in Fields[q[1]], f.ltype = "SUBMESSAGE",
                 NEW i \in 1..Len(q[2][f.tag])
          PROVE  << f.ptr, q[2][f.tag][i] >> \in H
      BY <3>1, <3>2, <2>1 DEF Messages, WellMade, Entries
    <3> QED
      BY <3>2 DEF Parts
  <2>4. p \in H
    <3> HIDE DEF H
    <3>1. AtDepth(Root, v) \in [Nat -> SUBSET H]
      BY <2>2, <2>3, AtEveryDepth
    <3> QED
      BY <3>1, <1>1
  <2> QED
    BY <2>1, <2>4 DEF Messages
<1>2. (status = "ok" => CompleteAtEveryDepth(Root, stack[1].val)) => RequiredDecoded
  <2>1. 0..Len(buf) \subseteq Nat
    OBVIOUS
  <2> QED
    BY <1>1, <2>1 DEF RequiredDecoded
<1> QED
  BY <1>2, DecodedComplete, PTL
=============================================================================
