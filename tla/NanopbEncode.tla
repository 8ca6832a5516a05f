---------------------------- MODULE NanopbEncode ----------------------------
(***************************************************************************)
(* The encoder of nanopb (src/ios/Pods/nanopb/pb_encode.c) beside its decoder. *)
(* pb_encode is a function of the message: it is modelled by its result, and   *)
(* so is the pass that only counts (pb_get_encoded_size, and the first pass    *)
(* over a submessage), which takes other ways through the code.  Messages and  *)
(* buffers are those of NanopbMessage; a field is present when its sequence is *)
(* not empty (has_field, or a pointer that is not NULL).                       *)
(***************************************************************************)
EXTENDS NanopbMessage, SequencesExt

CONSTANT MaxNesting     \* the deepest a message lies in one that is encoded

(* pb_field_iter_next: the fields of a type in the order of their tags *)
InOrder(t) ==
  [i \in 1..Cardinality(Fields[t]) |->
     CHOOSE f \in Fields[t] : Cardinality({g \in Fields[t] : g.tag < f.tag}) = i - 1]

(* pb_encode_tag_for_field *)
WireType(f) ==
  CASE f.ltype = "VARINT"  -> PB_WT_VARINT
    [] f.ltype = "FIXED32" -> PB_WT_32BIT
    [] f.ltype = "FIXED64" -> PB_WT_64BIT
    [] OTHER               -> PB_WT_STRING

TagUnit(f, wire) == f.tag * 8 + wire

(* A scalar: its value and, in a fixed one, further bytes. *)
EncodeScalar(f, v) == << v >> \o [i \in 1..(SizeOfScalar(f.ltype) - 1) |-> 0]

Packed(f) == f.htype = "REPEATED" /\ f.ltype \in Packable

(* The sum of a sequence of sizes. *)
Total(ns) ==
  LET sum[i \in 0..Len(ns)] == IF i = 0 THEN 0 ELSE sum[i - 1] + ns[i] IN sum[Len(ns)]

-----------------------------------------------------------------------------
(* A message is a pair of its type and its value; size and bytes are functions that give
   the size and the encoding of the messages in it. *)

(* Faulty variant: fixed64 entries are counted as fixed32. *)
SizeOfFixedAsInts(f, items) ==
  IF f.ltype \in {"FIXED32", "FIXED64"} THEN Size32 * Len(items) ELSE Len(items)

(* encode_array: the size of a packed array, multiplied out for entries of a fixed size,
   counted one by one for varints *)
SizeOfPacked(f, items) ==
  CASE f.ltype = "FIXED32" -> Size32 * Len(items)
    [] f.ltype = "FIXED64" -> Size64 * Len(items)
    [] OTHER               -> Total([i \in 1..Len(items) |-> Len(EncodeScalar(f, items[i]))])

(* What the encoder of a field adds to a stream without a callback.  One unit is the tag, one
   the length. *)
SizeOfItem(f, v, size) ==
  CASE f.ltype \in Packable     -> SizeOfScalar(f.ltype)
    [] f.ltype = "SUBMESSAGE" -> 1 + size[<< f.ptr, v >>]
    [] OTHER                   -> 1 + Len(v)

SizeOfField(f, items, size) ==
  IF Packed(f) /\ items # << >> THEN 2 + SizeOfPacked(f, items)
  ELSE Total([i \in 1..Len(items) |-> 1 + SizeOfItem(f, items[i], size)])

SizeOfMessage(p, size) ==
  LET fields == InOrder(p[1])
  IN Total([i \in 1..Len(fields) |-> SizeOfField(fields[i], p[2][fields[i].tag], size)])

(* What it writes: pb_enc_bytes and the like, pb_encode_submessage with the size first. *)
EncodeItem(f, v, size, bytes) ==
  CASE f.ltype \in Packable     -> EncodeScalar(f, v)
    [] f.ltype = "SUBMESSAGE" -> << size[<< f.ptr, v >>] >> \o bytes[<< f.ptr, v >>]
    [] OTHER                   -> << Len(v) >> \o v

(* encode_array, encode_basic_field *)
EncodeField(f, items, size, bytes) ==
  IF Packed(f) /\ items # << >>
  THEN << TagUnit(f, PB_WT_STRING), SizeOfPacked(f, items) >>
       \o FlattenSeq([i \in 1..Len(items) |-> EncodeScalar(f, items[i])])
  ELSE FlattenSeq([i \in 1..Len(items) |->
                     << TagUnit(f, WireType(f)) >> \o EncodeItem(f, items[i], size, bytes)])

(* The loop of pb_encode over the fields. *)
EncodeMessage(p, size, bytes) ==
  LET fields == InOrder(p[1])
  IN FlattenSeq([i \in 1..Len(fields) |->
                   EncodeField(fields[i], p[2][fields[i].tag], size, bytes)])

(* The message m and those in it, and the functions above for them: from the innermost ones
   outwards. *)
MessagesIn(t, m) == UNION {AtDepth(t, m)[n] : n \in 0..MaxNesting}

Sizes(P) ==
  LET size[n \in Nat] == IF n = 0 THEN [p \in P |-> 0]
                         ELSE [p \in P |-> SizeOfMessage(p, size[n - 1])]
  IN size[MaxNesting + 1]

Encodings(P) ==
  LET bytes[n \in Nat] == IF n = 0 THEN [p \in P |-> << >>]
                          ELSE [p \in P |-> EncodeMessage(p, Sizes(P), bytes[n - 1])]
  IN bytes[MaxNesting + 1]

(* pb_get_encoded_size: what pb_encode counts on a stream without a callback. *)
SizeOf(t, m) == Sizes(MessagesIn(t, m))[<< t, m >>]

(* pb_encode *)
Encode(t, m) == Encodings(MessagesIn(t, m))[<< t, m >>]

(* What pb_encode takes without an error and a struct of the type of p can hold: as many values
   as the field has room for, and what is required.  What a callback would write is left out. *)
Encodable(p) ==
  /\ p[1] \in Types /\ p[2] = [g \in Tags(p[1]) |-> p[2][g]]
  /\ \A f \in Fields[p[1]] :
       LET e == p[2][f.tag]
       IN /\ e \in Seq({e[i] : i \in DOMAIN e})
          /\ f.atype = "CALLBACK" => e = << >> /\ f.htype # "REQUIRED"
          /\ f.htype = "REQUIRED" => Len(e) = 1
          /\ f.htype = "OPTIONAL" => Len(e) =< 1
          /\ f.htype = "REPEATED" => Len(e) =< (IF f.atype = "STATIC" THEN f.array_size ELSE SizeMax)
          /\ IsFixedCount(f) => Len(e) = f.array_size
          /\ \A i \in 1..Len(e) :
               CASE f.ltype \in Packable                      -> e[i] \in Nat
                 [] f.ltype = "SUBMESSAGE"                    -> TRUE
                 [] f.ltype = "FIXED_LENGTH_BYTES"            -> e[i] \in [1..f.data_size -> Nat]
                                                               /\ f.data_size =< SizeMax
                 [] OTHER -> e[i] \in Seq(Nat) /\ FitsField(f, Len(e[i]))

ASSUME OriginAssumption ==
  /\ MaxNesting \in Nat
  /\ \A i \in Inputs : i.origin # None =>
       /\ AtDepth(Root, i.origin)[MaxNesting + 1] = {}
       /\ \A p \in MessagesIn(Root, i.origin) : Encodable(p)

-----------------------------------------------------------------------------
(* Properties *)

(* A buffer made from a message is never refused, and decodes to that message, whatever
   unknown fields stand between the others and in which pieces its arrays come. *)
RoundTrip ==
  origin # None => status # "error" /\ (status = "ok" => stack[1].val = origin)

(* The size counted in the first pass is the size written in the second: the buffer a caller
   allocates from it (GDTCCTNanopbHelpers.m:52-61, FIRCoreDiagnostics.m:120-129) suffices,
   and no submessage changes its size between the passes. *)
SizeSuffices == origin # None => Len(Encode(Root, origin)) = SizeOf(Root, origin)
=============================================================================
