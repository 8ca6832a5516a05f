---------------------------- MODULE NanopbVarint ----------------------------
(***************************************************************************)
(* The variable-length integers of nanopb (src/ios/Pods/nanopb), with which   *)
(* the pods of the iOS host read and write their protobuf messages:          *)
(* pb_decode_varint32 and pb_decode_varint byte by byte, pb_encode_varint,     *)
(* the zigzag code and the casts to the size of a field.                     *)
(*                                                                         *)
(* An unsigned integer is the set of its one bits: `|' is \cup, a cast to w   *)
(* bits is \cap Word(w), a shift adds to each bit.  The widths of the code    *)
(* are Bits = 7, W = 32, V = 64 and Wrap = 256.                                  *)
(***************************************************************************)
EXTENDS Integers, Sequences, FiniteSets

CONSTANTS Bits,     \* payload bits of a byte
          W, V,     \* widths of uint32_t and uint64_t
          Wrap,     \* where uint_fast8_t, the type of bitpos, starts again at zero
          FieldSizes, \* widths a field of a message may have (data_size)
          MaxBytes  \* bytes in the stream (bound)

ASSUME WidthsAssumption ==
  /\ Bits \in Nat \ {0, 1} /\ W \in Nat /\ V \in Nat /\ Wrap \in Nat /\ MaxBytes \in Nat
  /\ Bits < W /\ W < V
  /\ W % Bits # 0                  \* the byte that ends 32 bits has bits to spare
  /\ V % Bits = 1                  \* the byte that ends 64 bits holds one bit
  /\ V + Bits =< Wrap             \* bitpos of a varint of 64 bits does not wrap
  /\ {W, V} \subseteq FieldSizes /\ FieldSizes \subseteq (1..W) \cup {V}

VARIABLES decoder,  \* which of the two decoders runs
          left,     \* stream->bytes_left
          bitpos,
          result,
          status,   \* "reading", or how the decoder has returned
          read      \* history: the bytes taken from the stream

vars == <<decoder, left, bitpos, result, status, read>>

Word(w) == 0..(w - 1)
Byte == [bits : SUBSET Word(Bits), more : BOOLEAN]   \* more: byte & 0x80

Shift(v, n) == {b + n : b \in v}                     \* v << n, not yet cast
Drop(v, n)  == {b - n : b \in {x \in v : x >= n}}    \* v >> n
Not(v, w)   == Word(w) \ v                           \* ~v

(* The v that fits in w bits as a signed number of V bits. *)
SignExtend(v, w) == IF w - 1 \in v THEN (v \cap Word(w)) \cup (w..(V - 1))
                                   ELSE v \cap Word(w)

(* Bytes of the longest varint of 64 bits, and the first bitpos past 32: 35. *)
Longest  == V \div Bits + 1
PastWord == (W \div Bits + 1) * Bits

-----------------------------------------------------------------------------
(* The decoders.  A stream holds any bytes. *)

TypeOK ==
  /\ decoder \in {"varint32", "varint64"}
  /\ left \in 0..MaxBytes
  /\ bitpos \in 0..(Wrap - 1)
  /\ result \subseteq Word(IF decoder = "varint32" THEN W ELSE V)
  /\ status \in {"reading", "done", "varint overflow", "end-of-stream"}
  /\ read \in Seq(Byte)

Init ==
  /\ decoder \in {"varint32", "varint64"}
  /\ left \in 0..MaxBytes
  /\ bitpos = 0 /\ result = {} /\ status = "reading" /\ read = << >>

(* Faulty variant: a byte is taken to carry one bit less than it does. *)
AdvanceByOne(p) == (p + Bits - 1) % Wrap

(* bitpos = (uint_fast8_t)(bitpos + 7) *)
Advance(p) == (p + Bits) % Wrap

(* Faulty variant: the last byte of a negative number is taken for one of the others. *)
ExtensionByteFull(byte) ==
  byte.bits # {} /\ (W - 1 \notin result \/ byte.bits # Word(Bits))

(* A byte past bit 32 of a varint32 must be empty, or extend the sign. *)
ExtensionOverflow(byte) ==
  LET sign_extension == [bits |-> IF bitpos < V - 1 THEN Word(Bits) ELSE {0},
                         more |-> bitpos < V - 1]
  IN byte.bits # {} /\ (W - 1 \notin result \/ byte # sign_extension)

(* Only the bottom bits of the byte at bitpos 28 fit, if it is the last. *)
LastTooWide(p, byte) == p = PastWord /\ ~(byte.bits \subseteq Word(W % Bits))

(* One turn of the loop of pb_decode_varint32_eof.  Its first byte is the quick
   case: the loop would leave the same. *)
Read32(byte) ==
  LET late == bitpos >= W
      res  == IF late THEN result ELSE (result \cup Shift(byte.bits, bitpos)) \cap Word(W)
      next == Advance(bitpos)
  IN IF late /\ ExtensionOverflow(byte)
     THEN status' = "varint overflow" /\ UNCHANGED <<bitpos, result>>
     ELSE /\ result' = res
          /\ bitpos' = next
          /\ status' = IF byte.more THEN "reading"
                       ELSE IF LastTooWide(next, byte) THEN "varint overflow" ELSE "done"

(* Faulty variant: bits past the width are kept. *)
Read64Wide(byte) ==
  /\ result' = result \cup Shift(byte.bits, bitpos)
  /\ bitpos' = Advance(bitpos)
  /\ status' = IF byte.more THEN "reading" ELSE "done"

(* One turn of the loop of pb_decode_varint, from the byte read on. *)
Read64(byte) ==
  /\ result' = (result \cup Shift(byte.bits, bitpos)) \cap Word(V)
  /\ bitpos' = Advance(bitpos)
  /\ status' = IF byte.more THEN "reading" ELSE "done"

(* pb_decode_varint gives up before it reads: bitpos >= 64 *)
TooLong == decoder = "varint64" /\ bitpos >= V

(* pb_readbyte finds the stream empty. *)
EndOfStream ==
  /\ status = "reading" /\ ~TooLong
  /\ left = 0
  /\ status' = "end-of-stream"
  /\ UNCHANGED <<decoder, left, bitpos, result, read>>

Overflow64 ==
  /\ status = "reading" /\ TooLong
  /\ status' = "varint overflow"
  /\ UNCHANGED <<decoder, left, bitpos, result, read>>

ReadByte ==
  /\ status = "reading" /\ ~TooLong
  /\ left > 0
  /\ left' = left - 1
  /\ \E byte \in Byte :
       /\ read' = Append(read, byte)
       /\ IF decoder = "varint32" THEN Read32(byte) ELSE Read64(byte)
  /\ UNCHANGED decoder

Next == EndOfStream \/ Overflow64 \/ ReadByte

Spec == Init /\ [][Next]_vars

-----------------------------------------------------------------------------
(* The encoders and the casts of a field. *)

(* Faulty variant: groups without a bit are not written. *)
EncodeWithoutGaps(v) ==
  LET length == IF v = {} THEN 1 ELSE Cardinality({b \div Bits : b \in v})
  IN [i \in 1..length |-> [bits |-> Drop(v, (i - 1) * Bits) \cap Word(Bits), more |-> i < length]]

(* pb_encode_varint: groups of seven bits until nothing is left. *)
pb_encode_varint(v) ==
  LET length == IF v \subseteq Word(Bits) THEN 1
                ELSE CHOOSE n \in 1..Longest : Drop(v, (n - 1) * Bits) # {} /\ Drop(v, n * Bits) = {}
  IN [i \in 1..length |-> [bits |-> Drop(v, (i - 1) * Bits) \cap Word(Bits), more |-> i < length]]

(* pb_encode_svarint: the sign goes to bit zero. *)
Zigzag(v) == LET doubled == Shift(v, 1) \cap Word(V)
             IN IF V - 1 \in v THEN Not(doubled, V) ELSE doubled

(* pb_decode_svarint *)
Unzigzag(v) == IF 0 \in v THEN Not(Drop(v, 1), V) ELSE Drop(v, 1)

(* What pb_enc_varint, pb_enc_uvarint and pb_enc_svarint hand to pb_encode_varint
   for the field of width d that holds x. *)
pb_enc(type, x, d) ==
  CASE type = "VARINT"  -> SignExtend(x, d)
    [] type = "UVARINT" -> x
    [] type = "SVARINT" -> Zigzag(SignExtend(x, d))

(* Faulty variant: as before issue 97, a short field is not cast to 32 bits first. *)
ClampOnly(type, v, d) ==
  LET value   == IF type = "SVARINT" THEN Unzigzag(v) ELSE v
      clamped == IF type = "UVARINT" THEN value \cap Word(d) ELSE SignExtend(value, d)
  IN [ok |-> clamped = value, dest |-> value \cap Word(d)]

(* pb_dec_varint, pb_dec_uvarint and pb_dec_svarint: the varint v is cast to the
   field, and refused ("integer too large") if the cast changes it. *)
pb_dec(type, v, d) ==
  LET value == CASE type = "VARINT"  -> IF d = V THEN v ELSE SignExtend(v, W)
                 [] type = "UVARINT" -> v
                 [] type = "SVARINT" -> Unzigzag(v)
      clamped == IF type = "UVARINT" THEN value \cap Word(d) ELSE SignExtend(value, d)
  IN [ok |-> clamped = value, dest |-> value \cap Word(d)]

-----------------------------------------------------------------------------
(* Properties *)

(* The number the bytes read stand for, however long it is. *)
Meaning == UNION {Shift(read[i].bits, (i - 1) * Bits) : i \in DOMAIN read}

(* It can be told by 32 bits: as an unsigned number, or a negative one of 64 bits. *)
FitsWord(v) == v \subseteq Word(W) \/ (v \subseteq Word(V) /\ v = SignExtend(v, W))

(* What a decoder returns are the low bits of what was sent: the bytes are put
   together at the right places, through the change of the loop at bit 32.  A varint
   has Longest bytes at most (ten); pb_decode_varint32 does not count them, so that its
   bitpos starts again at zero in a longer one, of which nothing is said here. *)
LowBitsKept ==
  status = "done" /\ Len(read) =< Longest =>
    result = Meaning \cap Word(IF decoder = "varint32" THEN W ELSE V)

(* A number is refused only if it does not fit or takes more than ten bytes: in
   particular a negative int32, which others encode in ten bytes, is read by the decoder
   of 32 bits. *)
RefusedDoesNotFit ==
  status = "varint overflow" =>
    \/ decoder = "varint32" /\ ~FitsWord(Meaning)
    \/ Len(read) >= Longest /\ read[Longest].more

(* pb_encode_varint writes the shortest bytes that are read back as the same number. *)
EncoderInverse ==
  status = "done" /\ decoder = "varint64" /\ Meaning \subseteq Word(V)
    /\ (Len(read) = 1 \/ read[Len(read)].bits # {})
  => pb_encode_varint(result) = read

(* A field of any size and type is read back as it was written, a signed one also if its
   writer has cast a negative number to 32 bits (issue 97). *)
FieldRoundTrip ==
  status = "done" /\ decoder = "varint64" =>
    \A d \in FieldSizes, type \in {"VARINT", "UVARINT", "SVARINT"} :
      LET x == result \cap Word(d)
      IN /\ pb_dec(type, pb_enc(type, x, d), d) = [ok |-> TRUE, dest |-> x]
         /\ d # V => pb_dec("VARINT", SignExtend(x, d) \cap Word(W), d) = [ok |-> TRUE, dest |-> x]

=============================================================================
