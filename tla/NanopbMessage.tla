---------------------------- MODULE NanopbMessage ----------------------------
(***************************************************************************)
(* The decoder of nanopb (src/ios/Pods/nanopb/pb_decode.c): pb_decode reads   *)
(* the fields of a message, and those of the messages in it through            *)
(* substreams that borrow bytes from the stream around them.                   *)
(*                                                                         *)
(* The buffer is a sequence of units.  A varint is one unit, whatever its      *)
(* length in bytes (NanopbVarint reads them), a fixed32 and a fixed64 as many  *)
(* as Size32 and Size64 say.  A message is a function from the tags of its     *)
(* type to the sequence of the values it holds: at most one of a singular      *)
(* field.  Oneofs, extensions and the addresses of allocated items are left    *)
(* out.                                                                     *)
(***************************************************************************)
EXTENDS Integers, Sequences, FiniteSets

CONSTANTS Types,      \* message types
          Root,       \* the type pb_decode is called with
          Fields,     \* type -> set of fields, see FieldRecord
          Size32, Size64,
          SizeMax,    \* PB_SIZE_MAX: entries an allocated array may have
          Inputs      \* buffers, with the message each was made from, or None

CONSTANT None

VARIABLES buf,        \* the buffer
          origin,     \* history: the message it was made from
          stack,      \* the streams open, innermost last, with what they fill
          status      \* "run", "ok", "error", or "failed": by realloc or a callback

vars == <<buf, origin, stack, status>>

PB_WT_VARINT == 0
PB_WT_64BIT  == 1
PB_WT_STRING == 2
PB_WT_32BIT  == 5
Packable     == {"VARINT", "FIXED32", "FIXED64"}

(* pb_field_t.  counted: the struct has a count or has_ member for the field, which the
   struct of a callback has not. *)
FieldRecord ==
  [tag : Nat \ {0}, ltype : Packable \cup {"BYTES", "STRING", "FIXED_LENGTH_BYTES", "SUBMESSAGE"},
   htype : {"REQUIRED", "OPTIONAL", "REPEATED"}, atype : {"STATIC", "POINTER", "CALLBACK"},
   data_size : Nat, array_size : Nat, counted : BOOLEAN, ptr : Types \cup {None}]

ASSUME DescriptorAssumption ==
  /\ Root \in Types /\ Fields \in [Types -> SUBSET FieldRecord]
  /\ \A t \in Types : IsFiniteSet(Fields[t])
  /\ Size32 \in Nat \ {0} /\ Size64 \in Nat \ {0} /\ SizeMax \in Nat
  /\ \A t \in Types : \A f, g \in Fields[t] : f.tag = g.tag => f = g
  /\ \A t \in Types : \A f \in Fields[t] :
       /\ f.ltype = "SUBMESSAGE" => f.ptr \in Types
       /\ f.atype = "CALLBACK" => ~f.counted /\ f.array_size = 0
  /\ \A i \in Inputs : i.buf \in Seq(Nat)

Tags(t)     == {f.tag : f \in Fields[t]}
Field(t, g) == CHOOSE f \in Fields[t] : f.tag = g
IsFixedCount(f) == f.htype = "REPEATED" /\ ~f.counted

(* pb_message_set_to_defaults *)
Defaults(t) == [g \in Tags(t) |-> << >>]

-----------------------------------------------------------------------------
(* Streams.  A frame is a pb_istream_t (pos for state, left for bytes_left) with the
   loop that reads it: pb_decode_noinit of a message, the items of a packed array, or
   the calls of a callback.  end is where the stream ends: history. *)

Top     == stack[Len(stack)]
Below   == stack[Len(stack) - 1]

Frame(loop, type, field, value, from, size) ==
  [loop |-> loop, type |-> type, field |-> field, val |-> value, pos |-> from, left |-> size,
   end |-> from + size, seen |-> {}, fixed |-> 0]

Init ==
  /\ \E i \in Inputs : buf = i.buf /\ origin = i.origin
  /\ stack = << Frame("message", Root, 0, Defaults(Root), 1, Len(buf)) >>
  /\ status = "run"

Fail   == status' = "error" /\ UNCHANGED <<buf, origin, stack>>
GiveUp == status' = "failed" /\ UNCHANGED <<buf, origin, stack>>

(* The frame s in place of the innermost one. *)
Continue(s) ==
  /\ stack' = [stack EXCEPT ![Len(stack)] = s]
  /\ UNCHANGED <<buf, origin, status>>

(* pb_read: n units of the stream of s *)
After(s, n) == [s EXCEPT !.pos = @ + n, !.left = @ - n]

(* Faulty variant: the parent gives the bytes away only when the substream is closed. *)
OpenLate(s, size, child) ==
  /\ stack' = [stack EXCEPT ![Len(stack)] = s] \o << child >>
  /\ UNCHANGED <<buf, origin, status>>

(* pb_make_string_substream: the parent s has read the length; it gives the bytes to
   the child, but keeps its place in the buffer until the child is closed. *)
Open(s, size, child) ==
  /\ stack' = [stack EXCEPT ![Len(stack)] = [s EXCEPT !.left = @ - size]] \o << child >>
  /\ UNCHANGED <<buf, origin, status>>

(* Faulty variant: the parent is not told how far the child has come. *)
CloseInPlace(parent) ==
  /\ stack' = [SubSeq(stack, 1, Len(stack) - 1) EXCEPT ![Len(stack) - 1] = parent]
  /\ UNCHANGED <<buf, origin, status>>

(* pb_close_string_substream: what the child has not read is skipped. *)
Close(parent) ==
  /\ stack' = [SubSeq(stack, 1, Len(stack) - 1) EXCEPT
                 ![Len(stack) - 1] = [parent EXCEPT !.pos = Top.pos + Top.left]]
  /\ UNCHANGED <<buf, origin, status>>

-----------------------------------------------------------------------------
(* Values *)

(* Units of a scalar. *)
SizeOfScalar(ltype) == CASE ltype = "FIXED32" -> Size32 [] ltype = "FIXED64" -> Size64 [] OTHER -> 1

(* Faulty variant: the check of the array is off by one. *)
RoomOffByOne(f, items) == IF f.atype = "STATIC" THEN Len(items) =< f.array_size ELSE Len(items) < SizeMax

(* A further entry of a repeated field fits: "array overflow", "too many array entries". *)
Room(f, items) == IF f.atype = "STATIC" THEN Len(items) < f.array_size ELSE Len(items) < SizeMax

(* pb_dec_bytes, pb_dec_string, pb_dec_fixed_length_bytes: a static field has room for its
   bytes and, in a string, for the terminator. *)
FitsField(f, size) ==
  IF f.ltype = "FIXED_LENGTH_BYTES" THEN size =< SizeMax /\ size \in {0, f.data_size}
  ELSE /\ f.ltype = "BYTES" => size =< SizeMax
       /\ f.atype = "STATIC" => size + (IF f.ltype = "STRING" THEN 1 ELSE 0) =< f.data_size

(* Empty fixed length bytes stand for zeros. *)
BytesRead(f, from, size) ==
  IF f.ltype = "FIXED_LENGTH_BYTES" /\ size = 0 THEN [i \in 1..f.data_size |-> 0]
  ELSE SubSeq(buf, from, from + size - 1)

(* Where the field f of the struct val is put: behind the others, or in place. *)
Store(f, val, v) ==
  [val EXCEPT ![f.tag] = IF f.htype = "REPEATED" THEN Append(@, v) ELSE << v >>]

(* realloc failed *)
OutOfMemory(f) == f.atype = "POINTER" /\ GiveUp

-----------------------------------------------------------------------------
(* One field.  s is the frame after its tag. *)

(* Faulty variant: the length of an unknown string is not compared with what is left. *)
SkipUnchecked(s, wire) ==
  IF wire \in {3, 4, 6, 7} THEN Fail
  ELSE Continue(After(s, IF wire = PB_WT_STRING /\ s.left > 0 THEN 1 + buf[s.pos] ELSE 1))

(* pb_skip_field *)
Skip(s, wire) ==
  LET n == CASE wire = PB_WT_VARINT -> 1
             [] wire = PB_WT_64BIT  -> Size64
             [] wire = PB_WT_32BIT  -> Size32
             [] wire = PB_WT_STRING -> IF s.left = 0 THEN 1 ELSE 1 + buf[s.pos]
             [] OTHER               -> s.left + 1             \* invalid wire_type
  IN IF n > s.left THEN Fail ELSE Continue(After(s, n))

DecodeScalar(s, f) ==
  LET n == SizeOfScalar(f.ltype)
  IN \/ n > s.left /\ Fail
     \/ n =< s.left /\ Continue([After(s, n) EXCEPT !.val = Store(f, @, buf[s.pos])])
     \/ OutOfMemory(f)

DecodeBytes(s, f) ==
  IF s.left = 0 THEN Fail
  ELSE LET size == buf[s.pos]
           r    == After(s, 1)
       IN \/ (size > r.left \/ ~FitsField(f, size)) /\ Fail
          \/ /\ size =< r.left /\ FitsField(f, size)
             /\ Continue([After(r, size) EXCEPT !.val = Store(f, @, BytesRead(f, r.pos, size))])
          \/ OutOfMemory(f)

(* The rest of s begins with a length: a child that reads so much. *)
OpenString(s, loop, f, type, value) ==
  IF s.left = 0 \/ buf[s.pos] > s.left - 1 THEN Fail
  ELSE LET size == buf[s.pos]
           r    == After(s, 1)
       IN Open(r, size, Frame(loop, type, f.tag, value, r.pos, size))

(* Faulty variant: a submessage that comes again starts over. *)
StartOver(s, f) == Defaults(f.ptr)

(* A singular static submessage was initialised with the struct around it, and a further
   one is merged into it; others start from their defaults. *)
InitialSubmessage(s, f) ==
  IF f.htype # "REPEATED" /\ f.atype = "STATIC" /\ s.val[f.tag] # << >> THEN s.val[f.tag][1]
  ELSE Defaults(f.ptr)

(* pb_dec_submessage *)
DecodeSubmessage(s, f) ==
  \/ OpenString(s, "message", f, f.ptr, InitialSubmessage(s, f))
  \/ OutOfMemory(f)

(* decode_callback_field.  Without a callback the field is skipped; a scalar is copied and
   handed over, a string is read by the callback in as many calls as it needs. *)
DecodeCallback(s, f, wire) ==
  \/ Skip(s, wire)
  \/ wire = PB_WT_STRING /\ OpenString(s, "callback", f, None, << >>)
  \/ wire # PB_WT_STRING /\ GiveUp

(* decode_field, decode_static_field and decode_pointer_field *)
DecodeField(s, f, wire) ==
  CASE f.atype = "CALLBACK" -> DecodeCallback(s, f, wire)
    [] f.atype # "CALLBACK" /\ f.htype = "REPEATED" /\ f.ltype \in Packable /\ wire = PB_WT_STRING ->
         OpenString(s, "packed", f, None, << >>)
    [] OTHER ->
         IF f.htype = "REPEATED" /\ ~Room(f, s.val[f.tag]) THEN Fail
         ELSE CASE f.ltype \in Packable           -> DecodeScalar(s, f)
                [] f.ltype = "SUBMESSAGE"         -> DecodeSubmessage(s, f)
                [] OTHER                          -> DecodeBytes(s, f)

(* The array of the fixed count field read last is full. *)
FixedCountFull(s) ==
  s.fixed # 0 => Len(s.val[s.fixed]) = Field(s.type, s.fixed).array_size

(* pb_decode_noinit notes which fixed count field it fills and which required fields
   it has seen. *)
Noted(s, f) ==
  LET t == IF IsFixedCount(f) /\ s.fixed # f.tag
           THEN [s EXCEPT !.fixed = f.tag, !.val[f.tag] = << >>] ELSE s
  IN IF f.htype = "REQUIRED" THEN [t EXCEPT !.seen = @ \cup {f.tag}] ELSE t

-----------------------------------------------------------------------------
(* The loops *)

AtEnd == Top.left > 0 => buf[Top.pos] = 0         \* no bytes_left, or a tag of zero

(* A turn of the loop of pb_decode_noinit: pb_decode_tag, then the field. *)
DecodeTag ==
  /\ status = "run" /\ Top.loop = "message" /\ ~AtEnd
  /\ LET tag  == buf[Top.pos] \div 8
         wire == buf[Top.pos] % 8
         s    == After(Top, 1)
     IN IF tag \notin Tags(s.type) THEN Skip(s, wire)
        ELSE LET f == Field(s.type, tag)
             IN IF IsFixedCount(f) /\ s.fixed # tag /\ ~FixedCountFull(s) THEN Fail
                ELSE DecodeField(Noted(s, f), f, wire)

(* Faulty variant: without the fixup, a required field at the end of the type is not counted. *)
RequiredButLast(s) ==
  \A f \in Fields[s.type] :
    f.htype = "REQUIRED" /\ (\E g \in Fields[s.type] : g.tag > f.tag) => f.tag \in s.seen

(* Every required field was present: fields_seen has all its bits. *)
RequiredPresent(s) == \A f \in Fields[s.type] : f.htype = "REQUIRED" => f.tag \in s.seen

(* The end of pb_decode_noinit; the terminator, if there is one, is read. *)
EndMessage ==
  /\ status = "run" /\ Top.loop = "message" /\ AtEnd
  /\ LET s == IF Top.left = 0 THEN Top ELSE After(Top, 1)
         f == Field(Below.type, Top.field)
     IN CASE ~FixedCountFull(s) \/ ~RequiredPresent(s) -> Fail
          [] FixedCountFull(s) /\ RequiredPresent(s) /\ Len(stack) = 1 ->
               status' = "ok" /\ stack' = << s >> /\ UNCHANGED <<buf, origin>>
          [] OTHER -> Close([Below EXCEPT !.val = Store(f, @, s.val)])

(* A turn of the loop over a packed array. *)
DecodeItem ==
  /\ status = "run" /\ Top.loop = "packed" /\ Top.left > 0
  /\ LET f == Field(Below.type, Top.field)
         n == SizeOfScalar(f.ltype)
     IN \/ (n > Top.left \/ ~Room(f, Below.val[f.tag])) /\ Fail
        \/ /\ n =< Top.left /\ Room(f, Below.val[f.tag])
           /\ stack' = [stack EXCEPT ![Len(stack)] = After(Top, n),
                                     ![Len(stack) - 1].val = Store(f, @, buf[Top.pos])]
           /\ UNCHANGED <<buf, origin, status>>
        \/ OutOfMemory(f)

(* A call of a callback: it fails, or reads some of what is left, or nothing. *)
CallCallback ==
  /\ status = "run" /\ Top.loop = "callback"
  /\ GiveUp \/ \E n \in 0..Top.left : Continue(After(Top, n))

EndString ==
  /\ status = "run" /\ Len(stack) > 1 /\ Top.loop \in {"packed", "callback"} /\ Top.left = 0
  /\ Close(Below)

(* pb_decode has returned. *)
Returned == status # "run" /\ UNCHANGED vars

Next == DecodeTag \/ EndMessage \/ DecodeItem \/ CallCallback \/ EndString \/ Returned

Spec == Init /\ [][Next]_vars

-----------------------------------------------------------------------------
(* Properties *)

Loops == {"message", "packed", "callback"}

(* The streams open are frames of the buffer. *)
TypeOK ==
  /\ status \in {"run", "ok", "error", "failed"} /\ stack # << >>
  /\ \A i \in 1..Len(stack) : LET s == stack[i]
                             IN /\ s.loop \in Loops /\ s.left \in Nat /\ s.pos \in 1..(Len(buf) + 1)
                                /\ s.loop = "message" => s.type \in Types /\ DOMAIN s.val = Tags(s.type)
                                /\ i > 1 => s.field \in Tags(stack[i - 1].type)

(* The accounting of the substreams: the innermost stream ends where it said it would when
   it was opened, and what the streams around it have left begins there.  So no field
   reads bytes of the field after it, and none is read twice, whatever lengths the buffer
   claims. *)
WellNested ==
  /\ stack[1].end = Len(buf) + 1
  /\ Top.pos + Top.left = Top.end
  /\ \A i \in 1..(Len(stack) - 1) : stack[i + 1].end + stack[i].left = stack[i].end

(* No array outgrows what its struct reserves for it, however it arrives: one by one,
   packed, or some of both. *)
ArraysBounded ==
  \A i \in 1..Len(stack) : stack[i].loop = "message" =>
    \A f \in Fields[stack[i].type] :
      f.atype = "STATIC" =>
        Len(stack[i].val[f.tag]) =< (IF f.htype = "REPEATED" THEN f.array_size ELSE 1)

(* The messages directly in p, and those n deep in the message m: each with its type. *)
Parts(p) ==
  UNION {{<< f.ptr, p[2][f.tag][i] >> : i \in 1..Len(p[2][f.tag])} :
           f \in {g \in Fields[p[1]] : g.ltype = "SUBMESSAGE"}}

AtDepth(t, m) ==
  LET at[n \in Nat] == IF n = 0 THEN {<< t, m >>} ELSE UNION {Parts(p) : p \in at[n - 1]}
  IN  at

(* The required fields of v are there, save those handed to a callback, and its arrays of fixed
   count are whole. *)
Completed(t, v) ==
  \A f \in Fields[t] :
    /\ f.htype = "REQUIRED" /\ f.atype # "CALLBACK" => v[f.tag] # << >>
    /\ IsFixedCount(f) => Len(v[f.tag]) \in {0, f.array_size}

(* What is decoded has its required fields and whole arrays, at every depth, also when a
   message comes in several pieces. *)
RequiredDecoded ==
  status = "ok" =>
    \A n \in 0..Len(buf) : \A p \in AtDepth(Root, stack[1].val)[n] : Completed(p[1], p[2])

(* What pb_decode has before it: units of the buffer, and streams to be closed. *)
Remaining == Len(buf) + 1 - Top.pos + Len(stack)

(* No buffer keeps the decoder busy for longer than it has units: the decoder goes on, or
   closes a stream, and never goes back, but for the calls of a callback that reads nothing. *)
Advances == [][status' = "run" => Remaining' < Remaining]_vars
=============================================================================
