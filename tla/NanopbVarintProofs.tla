------------------------- MODULE NanopbVarintProofs -------------------------
(* Theorems about NanopbVarint, for integers and bytes of any width. *)
EXTENDS NanopbVarint, TLAPS

LEMMA Multiples ==
  ASSUME NEW a \in Nat, NEW b \in Nat, NEW c \in Nat, a =< b
  PROVE  a * c =< b * c /\ (a + 1) * c = a * c + c /\ a * c \in Nat
  <1>1. (b - a) * c >= 0 /\ b - a \in Nat
    OBVIOUS
  <1>2. b * c = a * c + (b - a) * c
    OBVIOUS
  <1> QED BY <1>1, <1>2

(* bitpos after the longest varint of 64 bits. *)
LEMMA LongestBits == Longest \in Nat /\ Longest * Bits = V - 1 + Bits
  <1>1. V = Bits * (V \div Bits) + 1 /\ V \div Bits \in Nat
    BY WidthsAssumption
  <1>2. (V \div Bits + 1) * Bits = (V \div Bits) * Bits + Bits
    BY <1>1, Multiples, WidthsAssumption
  <1> QED BY <1>1, <1>2, WidthsAssumption DEF Longest

LEMMA AdvanceType ==
  ASSUME NEW p \in 0..(Wrap - 1)
  PROVE  Advance(p) \in 0..(Wrap - 1) /\ (p + Bits < Wrap => Advance(p) = p + Bits)
  <1>1. p + Bits \in Nat /\ Wrap \in Nat \ {0}
    BY WidthsAssumption
  <1> QED BY <1>1 DEF Advance

(* TypeOK is an invariant: what has been read fits the word it is returned in, for every
   width; that bitpos stays below Wrap is its reduction modulo Wrap, not a fact about the code. *)
LEMMA TypeCorrect == Spec => []TypeOK
  <1>1. Init => TypeOK
    BY WidthsAssumption DEF Init, TypeOK, Word
  <1>2. TypeOK /\ [Next]_vars => TypeOK'
    <2> SUFFICES ASSUME TypeOK, [Next]_vars PROVE TypeOK'
      OBVIOUS
    <2>1. CASE EndOfStream
      BY <2>1 DEF EndOfStream, TypeOK
    <2>2. CASE Overflow64
      BY <2>2 DEF Overflow64, TypeOK
    <2>3. CASE ReadByte
      <3> PICK byte \in Byte : /\ read' = Append(read, byte)
                               /\ IF decoder = "varint32" THEN Read32(byte) ELSE Read64(byte)
        BY <2>3 DEF ReadByte
      <3>1. read' \in Seq(Byte) /\ decoder' = decoder /\ left' \in 0..MaxBytes
        BY <2>3, WidthsAssumption DEF ReadByte, TypeOK
      <3>2. bitpos' \in 0..(Wrap - 1)
        BY AdvanceType DEF TypeOK, Read32, Read64
      <3>3. result' \subseteq Word(IF decoder = "varint32" THEN W ELSE V)
        BY DEF TypeOK, Read32, Read64
      <3>4. status' \in {"reading", "done", "varint overflow", "end-of-stream"}
        BY DEF TypeOK, Read32, Read64
      <3> QED BY <3>1, <3>2, <3>3, <3>4 DEF TypeOK
    <2>4. CASE UNCHANGED vars
      BY <2>4 DEF vars, TypeOK
    <2> QED BY <2>1, <2>2, <2>3, <2>4 DEF Next
  <1> QED BY <1>1, <1>2, PTL DEF Spec

-----------------------------------------------------------------------------
(* The low bits *)

Width == IF decoder = "varint32" THEN W ELSE V

(* While it reads, the decoder knows how far it is and has the low bits so far. *)
Within == status # "varint overflow" /\ Len(read) =< Longest
InStep ==
  Within =>
    bitpos = Len(read) * Bits /\ result = Meaning \cap Word(Width)

(* A further byte adds its bits above those of the others. *)
LEMMA MeaningGrows ==
  ASSUME NEW byte \in Byte, read \in Seq(Byte), read' = Append(read, byte)
  PROVE  Meaning' = Meaning \cup Shift(byte.bits, Len(read) * Bits)
  <1> DEFINE Term(s, i) == Shift(s[i].bits, (i - 1) * Bits)
  <1>1. /\ DOMAIN read = 1..Len(read) /\ DOMAIN read' = 1..(Len(read) + 1)
        /\ Len(read) \in Nat
    OBVIOUS
  <1>2. \A i \in 1..Len(read) : read'[i] = read[i]
    OBVIOUS
  <1>3. read'[Len(read) + 1] = byte
    OBVIOUS
  <1>4. (Len(read) + 1) - 1 = Len(read)
    BY <1>1
  <1>5. Meaning' = UNION {Term(read', i) : i \in 1..(Len(read) + 1)}
    BY <1>1 DEF Meaning
  <1>6. Meaning = UNION {Term(read, i) : i \in 1..Len(read)}
    BY <1>1 DEF Meaning
  <1>7. \A i \in 1..Len(read) : Term(read', i) = Term(read, i)
    BY <1>2
  <1>8. Term(read', Len(read) + 1) = Shift(byte.bits, Len(read) * Bits)
    BY <1>3, <1>4
  <1>9. 1..(Len(read) + 1) = 1..Len(read) \cup {Len(read) + 1}
    BY <1>1
  <1> HIDE DEF Term
  <1> QED BY <1>5, <1>6, <1>7, <1>8, <1>9

LEMMA ShiftAbove ==
  ASSUME NEW v, v \subseteq Nat, NEW n \in Nat, NEW w \in Nat, n >= w
  PROVE  Shift(v, n) \cap Word(w) = {}
  BY DEF Shift, Word

LEMMA StepKeepsInStep ==
  ASSUME TypeOK, InStep, [Next]_vars
  PROVE  InStep'
  <1>1. CASE EndOfStream
    BY <1>1 DEF EndOfStream, InStep, Within, Meaning, Width
  <1>2. CASE Overflow64
    BY <1>2 DEF Overflow64, InStep, Within
  <1>3. CASE ReadByte
    <2>0. PICK byte \in Byte : /\ read' = Append(read, byte)
                               /\ IF decoder = "varint32" THEN Read32(byte) ELSE Read64(byte)
      BY <1>3 DEF ReadByte
    <2>t. /\ read \in Seq(Byte) /\ bitpos \in 0..(Wrap - 1) /\ bitpos \in Nat
          /\ decoder \in {"varint32", "varint64"} /\ status = "reading" /\ decoder' = decoder
      BY <1>3, WidthsAssumption DEF TypeOK, ReadByte
    <2>1. Len(read) \in Nat /\ Len(read') = Len(read) + 1 /\ Longest \in Nat
      BY <2>0, <2>t, LongestBits
    <2> SUFFICES ASSUME Within'
                 PROVE  bitpos' = Len(read') * Bits /\ result' = Meaning' \cap Word(Width')
      BY DEF InStep
    <2>l. Len(read) + 1 =< Longest
      BY <2>1 DEF Within
    <2>n. status' # "varint overflow"
      BY DEF Within
    <2>2. bitpos = Len(read) * Bits /\ result = Meaning \cap Word(Width)
      <3>1. Len(read) =< Longest
        BY <2>1, <2>l
      <3>2. Within
        BY <2>t, <3>1 DEF Within
      <3> QED BY <3>2 DEF InStep
    <2>3. bitpos + Bits = Len(read') * Bits /\ bitpos + Bits =< V - 1 + Bits
      <3>1. (Len(read) + 1) * Bits = Len(read) * Bits + Bits
        BY <2>1, Multiples, WidthsAssumption
      <3>2. Len(read') * Bits =< Longest * Bits
        BY <2>1, <2>l, Multiples, WidthsAssumption
      <3> QED BY <2>1, <2>2, <3>1, <3>2, LongestBits
    <2>4. Advance(bitpos) = Len(read') * Bits
      <3>1. bitpos + Bits < Wrap
        BY <2>3, <2>t, WidthsAssumption
      <3> QED BY <3>1, <2>3, <2>t, AdvanceType
    <2>5. Meaning' = Meaning \cup Shift(byte.bits, bitpos)
      BY MeaningGrows, <2>0, <2>2, <2>t
    <2>6. Width' = Width
      BY <2>t DEF Width
    <2>7. CASE decoder = "varint64"
      BY <2>0, <2>2, <2>4, <2>5, <2>6, <2>7 DEF Read64, Width
    <2>8. CASE decoder = "varint32" /\ bitpos < W
      <3>0. ~(bitpos >= W)
        BY <2>t, <2>8, WidthsAssumption
      <3>1. bitpos' = Advance(bitpos) /\ result' = (result \cup Shift(byte.bits, bitpos)) \cap Word(W)
        BY <2>0, <2>8, <3>0 DEF Read32
      <3> QED BY <3>1, <2>2, <2>4, <2>5, <2>6, <2>8 DEF Width
    <2>9. CASE decoder = "varint32" /\ bitpos >= W
      <3>1. bitpos' = Advance(bitpos) /\ result' = result
        BY <2>0, <2>9, <2>n DEF Read32
      <3>2. Shift(byte.bits, bitpos) \cap Word(W) = {}
        <4>1. byte.bits \subseteq Nat /\ bitpos \in Nat /\ W \in Nat
          BY <2>t, WidthsAssumption DEF Byte, Word
        <4> QED BY <4>1, <2>9, ShiftAbove
      <3> QED BY <3>1, <3>2, <2>2, <2>4, <2>5, <2>6, <2>9 DEF Width
    <2> QED BY <2>7, <2>8, <2>9, <2>t, WidthsAssumption
  <1>4. CASE UNCHANGED vars
    BY <1>4 DEF vars, InStep, Within, Meaning, Width
  <1> QED BY <1>1, <1>2, <1>3, <1>4 DEF Next

(* InStep is an invariant: what the decoders' loops rely on, not a property of a run. *)
THEOREM InStepCorrect == Spec => []InStep
  <1>1. Init => InStep
    <2> SUFFICES ASSUME Init PROVE InStep
      OBVIOUS
    <2>1. Len(read) = 0 /\ DOMAIN read = {} /\ result = {} /\ bitpos = 0
      BY DEF Init
    <2>2. 0 * Bits = 0 /\ Meaning = {}
      BY <2>1, WidthsAssumption DEF Meaning
    <2> QED BY <2>1, <2>2 DEF InStep
  <1>2. TypeOK /\ InStep /\ [Next]_vars => InStep'
    BY StepKeepsInStep
  <1> QED BY <1>1, <1>2, TypeCorrect, PTL DEF Spec

(* LowBitsKept is an invariant: what a decoder returns are the low bits of the number. *)
THEOREM LowBitsKeptCorrect == Spec => []LowBitsKept
  <1>1. InStep => LowBitsKept
    BY DEF InStep, Within, LowBitsKept, Width
  <1> QED BY <1>1, InStepCorrect, PTL

-----------------------------------------------------------------------------
(* Numbers that are refused, numbers that are written *)

LEMMA ByteTyped ==
  ASSUME read \in Seq(Byte), NEW i \in 1..Len(read)
  PROVE  read[i] \in Byte /\ read[i].bits \subseteq 0..(Bits - 1)
  <1>1. read[i] \in Byte
    OBVIOUS
  <1> QED BY <1>1 DEF Byte, Word

(* The bytes read so far, whatever their number, stand for bits below the next. *)
LEMMA MeaningBelow ==
  ASSUME read \in Seq(Byte)
  PROVE  Meaning \subseteq Word(Len(read) * Bits)
  <1> SUFFICES ASSUME NEW x \in Meaning PROVE x \in Word(Len(read) * Bits)
    OBVIOUS
  <1>1. PICK i \in 1..Len(read) : x \in Shift(read[i].bits, (i - 1) * Bits)
    BY DEF Meaning
  <1>2. PICK b \in read[i].bits : x = b + (i - 1) * Bits
    BY <1>1 DEF Shift
  <1>3. b \in 0..(Bits - 1)
    BY <1>1, <1>2, ByteTyped
  <1>4. /\ i - 1 \in Nat /\ i \in Nat /\ Len(read) \in Nat /\ Bits \in Nat
        /\ i =< Len(read) /\ (i - 1) + 1 = i
    BY WidthsAssumption
  <1>5. (i - 1) * Bits \in Nat /\ i * Bits = (i - 1) * Bits + Bits
    BY <1>4, Multiples
  <1>6. i * Bits =< Len(read) * Bits /\ Len(read) * Bits \in Nat
    BY <1>4, Multiples
  <1> QED BY <1>2, <1>3, <1>4, <1>5, <1>6 DEF Word

(* The group of bits at the place of a byte is that byte's. *)
LEMMA MeaningAt ==
  ASSUME read \in Seq(Byte), NEW i \in 1..Len(read)
  PROVE  Drop(Meaning, (i - 1) * Bits) \cap Word(Bits) = read[i].bits
  <1>0. /\ i - 1 \in Nat /\ i \in Nat /\ Bits \in Nat /\ read[i].bits \subseteq Word(Bits)
        /\ (i - 1) + 1 = i
    BY WidthsAssumption, ByteTyped DEF Word
  <1>1. (i - 1) * Bits \in Nat /\ i * Bits = (i - 1) * Bits + Bits
    BY <1>0, Multiples
  <1>2. ASSUME NEW b \in read[i].bits
        PROVE  b \in Drop(Meaning, (i - 1) * Bits) \cap Word(Bits)
    <2>1. b \in Word(Bits) /\ b \in Nat
      BY <1>0 DEF Word
    <2>2. b + (i - 1) * Bits \in Shift(read[i].bits, (i - 1) * Bits)
      BY DEF Shift
    <2>3. b + (i - 1) * Bits \in Meaning
      BY <2>2 DEF Meaning
    <2>4. /\ b + (i - 1) * Bits >= (i - 1) * Bits
          /\ (b + (i - 1) * Bits) - (i - 1) * Bits = b
      BY <1>1, <2>1
    <2> QED BY <2>1, <2>3, <2>4 DEF Drop
  <1>3. ASSUME NEW b \in Drop(Meaning, (i - 1) * Bits) \cap Word(Bits)
        PROVE  b \in read[i].bits
    <2>1. PICK x \in Meaning : x >= (i - 1) * Bits /\ b = x - (i - 1) * Bits
      BY <1>3 DEF Drop
    <2>2. PICK j \in 1..Len(read) : x \in Shift(read[j].bits, (j - 1) * Bits)
      BY <2>1 DEF Meaning
    <2>3. PICK c \in read[j].bits : x = c + (j - 1) * Bits
      BY <2>2 DEF Shift
    <2>4. c \in 0..(Bits - 1) /\ b \in 0..(Bits - 1)
      BY <1>3, <2>2, <2>3, ByteTyped DEF Word
    <2>5. j - 1 \in Nat /\ j \in Nat /\ (j - 1) + 1 = j
      OBVIOUS
    <2>6. (j - 1) * Bits \in Nat /\ j * Bits = (j - 1) * Bits + Bits
      BY <1>0, <2>5, Multiples
    <2>7. CASE j < i
      <3>1. j =< i - 1
        BY <1>0, <2>5, <2>7
      <3>2. j * Bits =< (i - 1) * Bits
        BY <1>0, <2>5, <3>1, Multiples
      <3> QED BY <1>0, <1>1, <2>1, <2>3, <2>4, <2>6, <3>2
    <2>8. CASE i < j
      <3>1. i =< j - 1
        BY <1>0, <2>5, <2>8
      <3>2. i * Bits =< (j - 1) * Bits
        BY <1>0, <2>5, <3>1, Multiples
      <3> QED BY <1>0, <1>1, <2>1, <2>3, <2>4, <2>6, <3>2
    <2>9. CASE i = j
      BY <1>1, <2>1, <2>3, <2>4, <2>9
    <2> QED BY <1>0, <2>5, <2>7, <2>8, <2>9
  <1> QED BY <1>2, <1>3

(* Only the last byte ends the number, and only pb_decode_varint counts the bytes. *)
Continued ==
  /\ \A i \in 1..Len(read) : i < Len(read) => read[i].more
  /\ status = "reading" => \A i \in 1..Len(read) : read[i].more
  /\ status = "done" => Len(read) >= 1 /\ ~read[Len(read)].more
  /\ decoder = "varint64" => Len(read) =< Longest

LEMMA ContinuedStep ==
  ASSUME TypeOK, InStep, Continued, [Next]_vars
  PROVE  Continued'
  <1>1. CASE EndOfStream \/ Overflow64
    BY <1>1 DEF EndOfStream, Overflow64, Continued
  <1>2. CASE ReadByte
    <2>0. PICK byte \in Byte : /\ read' = Append(read, byte)
                               /\ IF decoder = "varint32" THEN Read32(byte) ELSE Read64(byte)
      BY <1>2 DEF ReadByte
    <2>1. /\ read \in Seq(Byte) /\ bitpos \in 0..(Wrap - 1) /\ status = "reading"
          /\ decoder' = decoder /\ ~TooLong
      BY <1>2 DEF TypeOK, ReadByte
    <2>2. /\ Len(read) \in Nat /\ Len(read') = Len(read) + 1
          /\ \A i \in 1..Len(read) : read'[i] = read[i]
          /\ read'[Len(read')] = byte
      BY <2>0, <2>1
    <2>3. /\ status' = "reading" => byte.more
          /\ status' = "done" => ~byte.more
      BY <2>0 DEF Read32, Read64
    <2>4. ASSUME decoder = "varint64" PROVE Len(read') =< Longest
      <3>1. Len(read) =< Longest /\ Longest \in Nat
        BY <2>4, LongestBits DEF Continued
      <3>2. bitpos = Len(read) * Bits
        BY <2>1, <3>1 DEF InStep, Within
      <3>3. Len(read) # Longest
        BY <2>1, <2>4, <3>2, LongestBits, WidthsAssumption DEF TooLong
      <3> QED BY <2>2, <3>1, <3>3
    <2>5. \A i \in 1..Len(read') : i \in 1..Len(read) \/ i = Len(read')
      BY <2>2
    <2> QED BY <2>1, <2>2, <2>3, <2>4, <2>5 DEF Continued
  <1>3. CASE UNCHANGED vars
    BY <1>3 DEF vars, Continued
  <1> QED BY <1>1, <1>2, <1>3 DEF Next

LEMMA ContinuedAlways == Spec => []Continued
  <1>1. Init => Continued
    BY LongestBits DEF Init, Continued
  <1>2. TypeOK /\ InStep /\ Continued /\ [Next]_vars => Continued'
    BY ContinuedStep
  <1> QED BY <1>1, <1>2, TypeCorrect, InStepCorrect, PTL DEF Spec

(* The byte that ends 32 bits ends before bit 63. *)
LEMMA PastWordFits ==
  PastWord \in Nat /\ PastWord =< V - 1
    /\ W = (PastWord - Bits) + (W % Bits) /\ W % Bits \in Nat /\ (V \div Bits) * Bits = V - 1
  <1> DEFINE w == W \div Bits
             v == V \div Bits
  <1>1. /\ W = Bits * w + (W % Bits) /\ w \in Nat /\ W % Bits \in 1..(Bits - 1)
        /\ V = Bits * v + 1 /\ v \in Nat
    BY WidthsAssumption
  <1>2. PastWord = (w + 1) * Bits
    BY DEF PastWord
  <1> HIDE DEF w, v
  <1>3. (w + 1) * Bits = w * Bits + Bits /\ w * Bits \in Nat /\ w * Bits = Bits * w
    BY <1>1, Multiples, WidthsAssumption
  <1>4. w < v
    <2> SUFFICES ASSUME v =< w PROVE FALSE
      BY <1>1
    <2>1. v * Bits =< w * Bits /\ v * Bits = Bits * v
      BY <1>1, Multiples, WidthsAssumption
    <2> QED BY <1>1, <1>3, <2>1, WidthsAssumption
  <1>5. (w + 1) * Bits =< v * Bits /\ v * Bits = Bits * v
    BY <1>1, <1>4, Multiples, WidthsAssumption
  <1> QED BY <1>1, <1>2, <1>3, <1>5, WidthsAssumption DEF v

(* A number with bits past the word that does not extend its sign. *)
LEMMA DoesNotFit ==
  ASSUME NEW m, NEW x \in m, x \in Nat, x >= W,
         W - 1 \notin m \/ (\E y \in W..(V - 1) : y \notin m) \/ ~(m \subseteq Word(V))
  PROVE  ~FitsWord(m)
  <1>1. ~(m \subseteq Word(W))
    BY WidthsAssumption DEF Word
  <1>2. CASE W - 1 \notin m
    BY <1>1, <1>2 DEF FitsWord, SignExtend
  <1>3. CASE \E y \in W..(V - 1) : y \notin m
    BY <1>1, <1>3 DEF FitsWord, SignExtend
  <1> QED BY <1>1, <1>2, <1>3 DEF FitsWord

(* pb_decode_varint32 refuses a byte: the number is too wide, or too long. *)
RefusedByte(byte) ==
  /\ status = "reading" /\ decoder = "varint32"
  /\ read' = Append(read, byte) /\ Read32(byte) /\ status' = "varint overflow"

LEMMA RefusedByWord ==
  ASSUME TypeOK, InStep, Continued, NEW byte \in Byte, RefusedByte(byte)
  PROVE  ~FitsWord(Meaning') \/ (Len(read') >= Longest /\ read'[Longest].more)
  <1> DEFINE n == Len(read)
  <1>s. status = "reading" /\ decoder = "varint32" /\ read' = Append(read, byte)
    BY DEF RefusedByte
  <1>t. read \in Seq(Byte) /\ bitpos \in 0..(Wrap - 1)
    BY DEF TypeOK
  <1>l. Longest \in Nat \ {0}
    <2>1. V \div Bits \in Nat
      BY WidthsAssumption
    <2> QED BY <2>1 DEF Longest
  <1>1. /\ read \in Seq(Byte) /\ bitpos \in Nat /\ n \in Nat /\ Longest \in Nat \ {0}
        /\ bitpos \in 0..(Wrap - 1)
    BY <1>l, <1>t, WidthsAssumption
  <1>2. Len(read') = n + 1 /\ (\A i \in 1..n : read'[i] = read[i]) /\ read'[n + 1] = byte
    BY <1>s, <1>t
  <1>3. byte.bits \subseteq 0..(Bits - 1) /\ byte.more \in BOOLEAN
        /\ byte = [bits |-> byte.bits, more |-> byte.more]
    BY DEF Byte, Word
  <1>4. CASE n >= Longest
    <2>1. read[Longest].more /\ Longest \in 1..n
      BY <1>1, <1>4, <1>s DEF Continued
    <2> QED BY <1>1, <1>2, <1>4, <2>1
  <1>5. CASE n < Longest
    <2>1. bitpos = n * Bits /\ result = Meaning \cap Word(W)
      <3>1. Within
        BY <1>1, <1>5, <1>s DEF Within
      <3> QED BY <3>1, <1>s DEF InStep, Width
    <2>2. Meaning' = Meaning \cup Shift(byte.bits, bitpos)
      BY <1>1, <2>1, MeaningGrows DEF RefusedByte
    <2>3. Meaning \subseteq Word(bitpos)
      BY <1>1, <2>1, MeaningBelow
    <2>4. n + 1 =< Longest /\ (n + 1) * Bits = n * Bits + Bits
          /\ (n + 1) * Bits =< Longest * Bits
      BY <1>1, <1>5, Multiples, WidthsAssumption
    <2>5. bitpos =< V - 1 /\ bitpos + Bits < Wrap
      BY <2>1, <2>4, LongestBits, WidthsAssumption
    <2>6. Advance(bitpos) = bitpos + Bits
      BY <1>1, <2>5, AdvanceType
    <2>7. CASE bitpos >= W /\ ExtensionOverflow(byte)
      <3>1. byte.bits # {} /\ (W - 1 \notin result
                \/ byte # [bits |-> IF bitpos < V - 1 THEN Word(Bits) ELSE {0},
                           more |-> bitpos < V - 1])
        BY <2>7 DEF ExtensionOverflow
      <3>2. PICK b \in byte.bits : TRUE
        BY <3>1
      <3>3. b + bitpos \in Meaning' /\ b + bitpos \in Nat /\ b + bitpos >= W
        BY <1>1, <1>3, <2>2, <2>7, WidthsAssumption DEF Shift
      <3>4. CASE W - 1 \notin result
        <4>1. W - 1 \notin Meaning
          BY <2>1, <3>4, WidthsAssumption DEF Word
        <4>2. W - 1 \notin Shift(byte.bits, bitpos)
          BY <1>1, <1>3, <2>7, WidthsAssumption DEF Shift
        <4> QED BY <2>2, <3>3, <4>1, <4>2, DoesNotFit
      <3>5. CASE bitpos < V - 1 /\ byte.bits # Word(Bits)
        <4>1. PICK c \in Word(Bits) : c \notin byte.bits
          BY <1>3, <3>5 DEF Word
        <4>2. n + 1 # Longest
          BY <1>1, <2>1, <2>4, <3>5, LongestBits, WidthsAssumption
        <4>3. n + 2 =< Longest /\ (n + 2) * Bits =< Longest * Bits
              /\ (n + 2) * Bits = n * Bits + Bits + Bits
          <5>1. n + 1 \in Nat /\ (n + 1) + 1 = n + 2 /\ n + 2 =< Longest
            BY <1>1, <2>4, <4>2
          <5> QED BY <1>1, <2>4, <5>1, Multiples, WidthsAssumption
        <4>4. c + bitpos \in W..(V - 1)
          <5>1. c \in 0..(Bits - 1)
            BY <4>1 DEF Word
          <5>2. bitpos + Bits =< V - 1 /\ bitpos >= W
            BY <2>1, <2>7, <4>3, LongestBits, WidthsAssumption
          <5> QED BY <1>1, <5>1, <5>2, WidthsAssumption
        <4>5. c + bitpos \notin Meaning /\ c + bitpos \notin Shift(byte.bits, bitpos)
          BY <1>1, <1>3, <2>3, <4>1, WidthsAssumption DEF Word, Shift
        <4> QED BY <2>2, <3>3, <4>4, <4>5, DoesNotFit
      <3>6. CASE bitpos < V - 1 /\ ~byte.more
        <4>1. n + 1 # Longest
          BY <1>1, <2>1, <2>4, <3>6, LongestBits, WidthsAssumption
        <4>2. n + 2 =< Longest /\ (n + 2) * Bits =< Longest * Bits
              /\ (n + 2) * Bits = n * Bits + Bits + Bits
          <5>1. n + 1 \in Nat /\ (n + 1) + 1 = n + 2 /\ n + 2 =< Longest
            BY <1>1, <2>4, <4>1
          <5> QED BY <1>1, <2>4, <5>1, Multiples, WidthsAssumption
        <4>3. bitpos + Bits =< V - 1
          BY <2>1, <4>2, LongestBits, WidthsAssumption
        <4>4. V - 1 \notin Meaning /\ V - 1 \notin Shift(byte.bits, bitpos)
          BY <1>1, <1>3, <2>3, <4>3, WidthsAssumption DEF Word, Shift
        <4>5. V - 1 \in W..(V - 1)
          BY WidthsAssumption
        <4> QED BY <2>2, <3>3, <4>4, <4>5, DoesNotFit
      <3>7. CASE bitpos = V - 1
        <4>1. n + 1 = Longest
          <5> SUFFICES ASSUME n + 2 =< Longest PROVE FALSE
            BY <1>1, <2>4
          <5>1. n + 1 \in Nat /\ (n + 1) + 1 = n + 2 /\ n + 2 \in Nat
            BY <1>1
          <5>2. (n + 2) * Bits =< Longest * Bits /\ (n + 2) * Bits = n * Bits + Bits + Bits
            BY <1>1, <2>4, <5>1, Multiples, WidthsAssumption
          <5> QED BY <2>1, <3>7, <5>2, LongestBits, WidthsAssumption
        <4>2. CASE byte.more
          BY <1>1, <1>2, <4>1, <4>2
        <4>3. CASE ~byte.more /\ byte.bits # {0}
          <5>1. PICK c \in byte.bits : c # 0
            BY <3>1, <4>3
          <5>2. c + bitpos \in Meaning' /\ c + bitpos \notin Word(V)
            BY <1>1, <1>3, <2>2, <3>7, <5>1, WidthsAssumption DEF Shift, Word
          <5> QED BY <3>3, <5>2, DoesNotFit
        <4>4. CASE ~byte.more /\ byte.bits = {0}
          <5>1. ~(bitpos < V - 1)
            BY <1>1, <3>7, WidthsAssumption
          <5>2. byte = [bits |-> {0}, more |-> FALSE]
            BY <1>3, <4>4
          <5>3. [bits |-> IF bitpos < V - 1 THEN Word(Bits) ELSE {0}, more |-> bitpos < V - 1]
                  = [bits |-> {0}, more |-> FALSE]
            <6>1. (bitpos < V - 1) = FALSE
              BY <5>1
            <6> QED BY <5>1, <6>1
          <5>4. W - 1 \notin result
            BY <3>1, <5>2, <5>3
          <5> QED BY <3>4, <5>4
        <4> QED BY <4>2, <4>3, <4>4
      <3>8. CASE bitpos < V - 1 /\ byte.bits = Word(Bits) /\ byte.more
        <4>1. byte = [bits |-> Word(Bits), more |-> TRUE]
          BY <1>3, <3>8
        <4>2. W - 1 \notin result
          BY <3>1, <3>8, <4>1
        <4> QED BY <3>4, <4>2
      <3> QED BY <1>1, <2>5, <3>5, <3>6, <3>7, <3>8, WidthsAssumption
    <2>8. CASE ~byte.more /\ LastTooWide(Advance(bitpos), byte)
      <3>1. bitpos + Bits = PastWord /\ PastWord =< V - 1
        BY <2>6, <2>8, PastWordFits DEF LastTooWide
      <3>2. W = bitpos + (W % Bits) /\ W % Bits \in Nat
        BY <1>1, <3>1, PastWordFits, WidthsAssumption
      <3>3. PICK b \in byte.bits : b \notin Word(W % Bits)
        BY <2>8 DEF LastTooWide
      <3>4. b + bitpos \in Meaning' /\ b + bitpos \in Nat /\ b + bitpos >= W
        <4>1. b \in Nat /\ b >= W % Bits
          BY <1>3, <3>2, <3>3 DEF Word
        <4>2. b + bitpos \in Meaning'
          BY <2>2 DEF Shift
        <4> QED BY <1>1, <3>2, <4>1, <4>2
      <3>5. V - 1 \notin Meaning /\ V - 1 \notin Shift(byte.bits, bitpos)
        BY <1>1, <1>3, <2>3, <3>1, WidthsAssumption DEF Word, Shift
      <3>6. V - 1 \in W..(V - 1)
        BY WidthsAssumption
      <3> QED BY <2>2, <3>4, <3>5, <3>6, DoesNotFit
    <2> QED BY <2>7, <2>8 DEF Read32, RefusedByte
  <1> QED BY <1>1, <1>4, <1>5

LEMMA RefusedStep ==
  ASSUME TypeOK, InStep, Continued, RefusedDoesNotFit, [Next]_vars
  PROVE  RefusedDoesNotFit'
  <1>1. CASE EndOfStream
    BY <1>1 DEF EndOfStream, RefusedDoesNotFit
  <1>2. CASE Overflow64
    <2>1. /\ status = "reading" /\ decoder = "varint64" /\ bitpos >= V
          /\ read' = read /\ read \in Seq(Byte)
      BY <1>2 DEF Overflow64, TooLong, TypeOK
    <2>2. Len(read) \in Nat /\ Longest \in Nat \ {0} /\ Len(read) =< Longest
      BY <2>1, LongestBits, WidthsAssumption DEF Continued, Longest
    <2>3. bitpos = Len(read) * Bits
      BY <2>1, <2>2 DEF InStep, Within
    <2>4. Len(read) = Longest
      <3> SUFFICES ASSUME Len(read) + 1 =< Longest PROVE FALSE
        BY <2>2
      <3>1. (Len(read) + 1) * Bits =< Longest * Bits
            /\ (Len(read) + 1) * Bits = Len(read) * Bits + Bits
        BY <2>2, Multiples, WidthsAssumption
      <3> QED BY <2>1, <2>2, <2>3, <3>1, LongestBits, WidthsAssumption
    <2>5. read[Longest].more
      BY <2>1, <2>2, <2>4 DEF Continued
    <2> QED BY <2>1, <2>2, <2>4, <2>5 DEF RefusedDoesNotFit
  <1>3. CASE ReadByte
    <2>0. PICK byte \in Byte : /\ read' = Append(read, byte)
                               /\ IF decoder = "varint32" THEN Read32(byte) ELSE Read64(byte)
      BY <1>3 DEF ReadByte
    <2>1. status = "reading" /\ decoder' = decoder
      BY <1>3 DEF ReadByte
    <2>2. CASE decoder = "varint32"
      BY <2>0, <2>1, <2>2, RefusedByWord DEF RefusedDoesNotFit, RefusedByte
    <2>3. CASE decoder # "varint32"
      <3>1. status' # "varint overflow"
        BY <2>0, <2>3 DEF Read64
      <3> QED BY <3>1 DEF RefusedDoesNotFit
    <2> QED BY <2>2, <2>3
  <1>4. CASE UNCHANGED vars
    BY <1>4 DEF vars, RefusedDoesNotFit, Meaning
  <1> QED BY <1>1, <1>2, <1>3, <1>4 DEF Next

(* A decoder refuses only numbers that do not fit, or take too many bytes: a negative
   number of 32 bits in ten bytes is read by pb_decode_varint32. *)
THEOREM RefusedDoesNotFitCorrect == Spec => []RefusedDoesNotFit
  <1>1. Init => RefusedDoesNotFit
    BY DEF Init, RefusedDoesNotFit
  <1>2. TypeOK /\ InStep /\ Continued /\ RefusedDoesNotFit /\ [Next]_vars => RefusedDoesNotFit'
    BY RefusedStep
  <1> QED BY <1>1, <1>2, TypeCorrect, InStepCorrect, ContinuedAlways, PTL DEF Spec

(* pb_encode_varint finds how many groups a number has. *)
LEMMA LengthFound ==
  ASSUME NEW v, v \subseteq Nat, NEW n \in 1..Longest, v \subseteq Word(n * Bits),
         Drop(v, (n - 1) * Bits) # {}
  PROVE  (CHOOSE k \in 1..Longest : Drop(v, (k - 1) * Bits) # {} /\ Drop(v, k * Bits) = {}) = n
  <1>0. Longest \in Nat /\ Bits \in Nat
    BY LongestBits, WidthsAssumption
  <1>1. \A k \in 1..Longest : k * Bits \in Nat /\ (k - 1) * Bits \in Nat
    BY <1>0, Multiples
  <1>2. PICK x \in v : x >= (n - 1) * Bits
    BY DEF Drop
  <1>3. Drop(v, n * Bits) = {}
    <2>1. n * Bits \in Nat
      BY <1>1
    <2>2. \A y \in v : ~(y >= n * Bits)
      BY <2>1 DEF Word
    <2> QED BY <2>2 DEF Drop
  <1>4. ASSUME NEW k \in 1..Longest, k < n PROVE Drop(v, k * Bits) # {}
    <2>1. k * Bits =< (n - 1) * Bits
      BY <1>0, <1>4, Multiples
    <2>2. x >= k * Bits
      BY <1>1, <1>2, <2>1
    <2> QED BY <2>2 DEF Drop
  <1>5. ASSUME NEW k \in 1..Longest, n < k PROVE Drop(v, (k - 1) * Bits) = {}
    <2>1. n * Bits =< (k - 1) * Bits
      BY <1>0, <1>5, Multiples
    <2>2. \A y \in v : y < (k - 1) * Bits
      BY <1>1, <2>1 DEF Word
    <2>3. (k - 1) * Bits \in Nat
      BY <1>1
    <2> QED BY <2>2, <2>3 DEF Drop
  <1> DEFINE Fits(k) == Drop(v, (k - 1) * Bits) # {} /\ Drop(v, k * Bits) = {}
  <1>6. Fits(n) /\ \A k \in 1..Longest : Fits(k) => k = n
    BY <1>0, <1>3, <1>4, <1>5
  <1> HIDE DEF Fits
  <1>7. (CHOOSE k \in 1..Longest : Fits(k)) = n
    BY <1>6
  <1> QED BY <1>7 DEF Fits

(* What pb_decode_varint has read, pb_encode_varint writes byte for byte, unless the last
   byte was empty: of the encodings of a number it takes the shortest. *)
THEOREM EncoderInverseCorrect == Spec => []EncoderInverse
  <1>1. TypeOK /\ InStep /\ Continued => EncoderInverse
    <2> SUFFICES ASSUME TypeOK, InStep, Continued, status = "done", decoder = "varint64",
                        Meaning \subseteq Word(V),
                        Len(read) = 1 \/ read[Len(read)].bits # {}
                 PROVE  pb_encode_varint(result) = read
      BY DEF EncoderInverse
    <2> DEFINE n == Len(read)
               group(i) == [bits |-> Drop(Meaning, (i - 1) * Bits) \cap Word(Bits), more |-> i < n]
    <2>1. read \in Seq(Byte) /\ n \in 1..Longest /\ Longest \in Nat
      BY LongestBits DEF TypeOK, Continued
    <2>2. result = Meaning
      <3>1. Within
        BY <2>1 DEF Within
      <3>2. result = Meaning \cap Word(V)
        BY <3>1 DEF InStep, Width
      <3> QED BY <3>2
    <2>3. \A i \in 1..n : read[i] = group(i)
      <3> SUFFICES ASSUME NEW i \in 1..n PROVE read[i] = group(i)
        OBVIOUS
      <3>1. read[i] \in Byte
        BY <2>1
      <3>2. read[i] = [bits |-> read[i].bits, more |-> read[i].more] /\ read[i].more \in BOOLEAN
        BY <3>1 DEF Byte
      <3>3. Drop(Meaning, (i - 1) * Bits) \cap Word(Bits) = read[i].bits
        BY <2>1, MeaningAt
      <3>4. read[i].more <=> i < n
        BY <2>1 DEF Continued
      <3>5. read[i].more = (i < n)
        BY <3>2, <3>4
      <3> QED BY <3>2, <3>3, <3>5
    <2>4. read = [i \in 1..n |-> group(i)]
      <3>1. DOMAIN read = 1..n /\ read = [i \in DOMAIN read |-> read[i]]
        BY <2>1
      <3> HIDE DEF group, n
      <3> QED BY <2>3, <3>1
    <2>5. Meaning \subseteq Word(n * Bits) /\ Meaning \subseteq Nat
      BY <2>1, MeaningBelow DEF Word
    <2>6. (IF Meaning \subseteq Word(Bits) THEN 1
           ELSE CHOOSE k \in 1..Longest :
                  Drop(Meaning, (k - 1) * Bits) # {} /\ Drop(Meaning, k * Bits) = {}) = n
      <3>1. CASE n = 1
        <4>1. n * Bits = Bits
          BY <3>1, WidthsAssumption
        <4> QED BY <2>5, <3>1, <4>1
      <3>2. CASE n # 1
        <4>1. Drop(Meaning, (n - 1) * Bits) \cap Word(Bits) # {}
          BY <2>1, <3>2, MeaningAt
        <4>2. PICK x \in Meaning : x >= (n - 1) * Bits
          BY <4>1 DEF Drop
        <4>3. 1 * Bits =< (n - 1) * Bits /\ 1 * Bits = Bits /\ (n - 1) * Bits \in Nat
          <5>1. n - 1 \in Nat /\ 1 \in Nat /\ 1 =< n - 1 /\ Bits \in Nat
            <6>1. n \in Nat /\ n >= 1 /\ n # 1
              BY <2>1, <3>2
            <6> HIDE DEF n
            <6> QED BY <6>1, WidthsAssumption
          <5>2. 1 * Bits = Bits
            BY <5>1
          <5> QED BY <5>1, <5>2, Multiples
        <4>4. x >= Bits /\ x \in Nat
          BY <2>5, <4>2, <4>3, WidthsAssumption
        <4>5. ~(Meaning \subseteq Word(Bits))
          BY <4>4, WidthsAssumption DEF Word
        <4>6. (CHOOSE k \in 1..Longest :
                 Drop(Meaning, (k - 1) * Bits) # {} /\ Drop(Meaning, k * Bits) = {}) = n
          <5>1. Drop(Meaning, (n - 1) * Bits) # {}
            BY <4>1
          <5> QED BY <2>1, <2>5, <5>1, LengthFound
        <4> QED BY <4>5, <4>6
      <3> QED BY <3>1, <3>2
    <2>7. pb_encode_varint(Meaning) = [i \in 1..n |-> group(i)]
      BY <2>6 DEF pb_encode_varint
    <2> QED BY <2>2, <2>4, <2>7
  <1> QED BY <1>1, TypeCorrect, InStepCorrect, ContinuedAlways, PTL

-----------------------------------------------------------------------------
(* The codes of a field *)

LEMMA ZigzagRoundTrip ==
  ASSUME NEW v, v \subseteq Word(V)
  PROVE  Zigzag(v) \subseteq Word(V) /\ Unzigzag(Zigzag(v)) = v
  <1> DEFINE doubled == Shift(v, 1) \cap Word(V)
  <1>0. V \in Nat /\ V > 1
    BY WidthsAssumption
  <1>1. 0 \notin doubled /\ doubled \subseteq Word(V)
    BY <1>0 DEF Shift, Word
  <1>2. \A b \in Word(V) : b \in v /\ b # V - 1 <=> b \in Drop(doubled, 1)
    <2> TAKE b \in Word(V)
    <2>1. ASSUME b \in v, b # V - 1 PROVE b \in Drop(doubled, 1)
      <3>1. b + 1 \in doubled /\ b + 1 >= 1 /\ (b + 1) - 1 = b
        BY <1>0, <2>1 DEF Shift, Word
      <3> QED BY <3>1 DEF Drop
    <2>2. ASSUME b \in Drop(doubled, 1) PROVE b \in v /\ b # V - 1
      <3>1. PICK x \in doubled : x >= 1 /\ b = x - 1
        BY <2>2 DEF Drop
      <3>2. PICK y \in v : x = y + 1
        BY <3>1 DEF Shift
      <3> QED BY <1>0, <3>1, <3>2 DEF Word
    <2> QED BY <2>1, <2>2
  <1>3. CASE V - 1 \notin v
    <2>1. Zigzag(v) = doubled /\ Unzigzag(doubled) = Drop(doubled, 1)
      BY <1>1, <1>3 DEF Zigzag, Unzigzag
    <2>2. Drop(doubled, 1) \subseteq Word(V)
      BY <1>0 DEF Drop, Word
    <2> HIDE DEF doubled
    <2> QED BY <1>1, <1>2, <1>3, <2>1, <2>2
  <1>4. CASE V - 1 \in v
    <2>1. Zigzag(v) = Not(doubled, V) /\ 0 \in Not(doubled, V) /\ Not(doubled, V) \subseteq Word(V)
      BY <1>0, <1>1, <1>4 DEF Zigzag, Not, Word
    <2>2. Unzigzag(Not(doubled, V)) = Not(Drop(Not(doubled, V), 1), V)
      BY <2>1 DEF Unzigzag
    <2>3. \A b \in Word(V) : b \in Drop(Not(doubled, V), 1) <=> b \notin v
      <3> TAKE b \in Word(V)
      <3>1. CASE b = V - 1
        <4>1. b \in v
          BY <1>4, <3>1
        <4>2. b \notin Drop(Not(doubled, V), 1)
          BY <1>0, <3>1 DEF Drop, Not, Word
        <4> QED BY <4>1, <4>2
      <3>2. CASE b # V - 1
        <4>1. b + 1 \in Word(V) /\ b + 1 >= 1 /\ (b + 1) - 1 = b
          BY <1>0, <3>2 DEF Word
        <4>2. b + 1 \in doubled <=> b \in Drop(doubled, 1)
          <5>1. b + 1 \in doubled => b \in Drop(doubled, 1)
            BY <4>1 DEF Drop
          <5>2. ASSUME b \in Drop(doubled, 1) PROVE b + 1 \in doubled
            <6>1. PICK x \in doubled : x >= 1 /\ b = x - 1
              BY <5>2 DEF Drop
            <6>2. x = b + 1
              BY <6>1 DEF Word
            <6> QED BY <6>1, <6>2
          <5> QED BY <5>1, <5>2
        <4>3. b \in Drop(Not(doubled, V), 1) <=> b + 1 \notin doubled
          <5>1. b + 1 \notin doubled => b \in Drop(Not(doubled, V), 1)
            BY <4>1 DEF Drop, Not
          <5>2. ASSUME b \in Drop(Not(doubled, V), 1) PROVE b + 1 \notin doubled
            <6>1. PICK x \in Not(doubled, V) : x >= 1 /\ b = x - 1
              BY <5>2 DEF Drop
            <6>2. x = b + 1
              BY <6>1 DEF Not, Word
            <6> QED BY <6>1, <6>2 DEF Not
          <5> QED BY <5>1, <5>2
        <4> QED BY <1>2, <3>2, <4>2, <4>3
      <3> QED BY <3>1, <3>2
    <2> HIDE DEF doubled
    <2>4. Not(Drop(Not(doubled, V), 1), V) = v
      BY <2>3 DEF Not
    <2> QED BY <2>1, <2>2, <2>4
  <1> QED BY <1>3, <1>4

LEMMA SignExtendTwice ==
  ASSUME NEW x, NEW d \in 1..V, NEW w \in 1..V, d =< w
  PROVE  /\ SignExtend(x, d) \subseteq Word(V)
         /\ SignExtend(x, d) \cap Word(d) = x \cap Word(d)
         /\ SignExtend(SignExtend(x, d), w) = SignExtend(x, d)
         /\ SignExtend(SignExtend(x, d) \cap Word(w), w) = SignExtend(x, d)
  <1> DEFINE ext == SignExtend(x, d)
  <1>0. V \in Nat /\ d \in Nat /\ w \in Nat /\ 1 =< d /\ d =< w /\ w =< V
    BY WidthsAssumption
  <1>1. ext \subseteq Word(V)
    BY <1>0 DEF SignExtend, Word
  <1>2. ext \cap Word(d) = x \cap Word(d)
    BY <1>0 DEF SignExtend, Word
  <1>3. CASE d - 1 \in x
    <2>1. ext = (x \cap Word(d)) \cup (d..(V - 1))
      BY <1>3 DEF SignExtend
    <2>2. w - 1 \in ext /\ w - 1 \in ext \cap Word(w)
      BY <1>0, <1>3, <2>1 DEF Word
    <2>3. SignExtend(ext, w) = (ext \cap Word(w)) \cup (w..(V - 1))
      BY <2>2 DEF SignExtend
    <2>4. SignExtend(ext \cap Word(w), w) = (ext \cap Word(w)) \cup (w..(V - 1))
      <3>1. (ext \cap Word(w)) \cap Word(w) = ext \cap Word(w)
        OBVIOUS
      <3> QED BY <2>2, <3>1 DEF SignExtend
    <2>5. (ext \cap Word(w)) \cup (w..(V - 1)) = ext
      BY <1>0, <2>1 DEF Word
    <2> QED BY <1>1, <1>2, <2>3, <2>4, <2>5
  <1>4. CASE d - 1 \notin x
    <2>1. ext = x \cap Word(d)
      BY <1>4 DEF SignExtend
    <2>2. w - 1 \notin ext
      BY <1>0, <1>4, <2>1 DEF Word
    <2>3. ext \cap Word(w) = ext
      BY <1>0, <2>1 DEF Word
    <2> QED BY <1>1, <1>2, <2>2, <2>3 DEF SignExtend
  <1> QED BY <1>3, <1>4

(* What is written to a field of any size and type is read back from it. *)
LEMMA FieldCodes ==
  ASSUME NEW x, NEW d \in FieldSizes, x \subseteq Word(d)
  PROVE  /\ \A type \in {"VARINT", "UVARINT", "SVARINT"} :
              pb_dec(type, pb_enc(type, x, d), d) = [ok |-> TRUE, dest |-> x]
         /\ d # V => pb_dec("VARINT", SignExtend(x, d) \cap Word(W), d) = [ok |-> TRUE, dest |-> x]
  <1>1. d \in 1..V /\ V \in 1..V /\ W \in 1..V /\ (d # V => d =< W) /\ d =< V
    BY WidthsAssumption
  <1>2. /\ SignExtend(x, d) \subseteq Word(V)
        /\ SignExtend(x, d) \cap Word(d) = x
        /\ SignExtend(SignExtend(x, d), d) = SignExtend(x, d)
    <2>1. x \cap Word(d) = x
      OBVIOUS
    <2>2. d \in 1..V /\ d =< d
      BY <1>1
    <2> QED BY <2>1, <2>2, SignExtendTwice
  <1>3. d # V => /\ SignExtend(SignExtend(x, d), W) = SignExtend(x, d)
                /\ SignExtend(SignExtend(x, d) \cap Word(W), W) = SignExtend(x, d)
    BY <1>1, SignExtendTwice
  <1>4. pb_dec("VARINT", pb_enc("VARINT", x, d), d) = [ok |-> TRUE, dest |-> x]
    BY <1>2, <1>3 DEF pb_dec, pb_enc
  <1>5. pb_dec("UVARINT", pb_enc("UVARINT", x, d), d) = [ok |-> TRUE, dest |-> x]
    BY DEF pb_dec, pb_enc
  <1>6. pb_dec("SVARINT", pb_enc("SVARINT", x, d), d) = [ok |-> TRUE, dest |-> x]
    <2>1. Unzigzag(Zigzag(SignExtend(x, d))) = SignExtend(x, d)
      BY <1>2, ZigzagRoundTrip
    <2> QED BY <1>2, <2>1 DEF pb_dec, pb_enc
  <1>7. d # V => pb_dec("VARINT", SignExtend(x, d) \cap Word(W), d) = [ok |-> TRUE, dest |-> x]
    BY <1>2, <1>3 DEF pb_dec
  <1> QED BY <1>4, <1>5, <1>6, <1>7

(* FieldRoundTrip is an invariant: the casts and the zigzag code lose nothing. *)
THEOREM FieldRoundTripCorrect == Spec => []FieldRoundTrip
  <1>1. FieldRoundTrip
    <2> SUFFICES ASSUME NEW d \in FieldSizes
                 PROVE  LET x == result \cap Word(d)
                        IN /\ \A type \in {"VARINT", "UVARINT", "SVARINT"} :
                                pb_dec(type, pb_enc(type, x, d), d) = [ok |-> TRUE, dest |-> x]
                           /\ d # V => pb_dec("VARINT", SignExtend(x, d) \cap Word(W), d)
                                        = [ok |-> TRUE, dest |-> x]
      BY DEF FieldRoundTrip
    <2>1. result \cap Word(d) \subseteq Word(d)
      OBVIOUS
    <2> QED BY <2>1, FieldCodes
  <1> QED BY <1>1, PTL
=============================================================================
