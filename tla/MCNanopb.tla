------------------------------- MODULE MCNanopb -------------------------------
(* An instance of the messages of nanopb: a report with a field of each kind, and all
   buffers of up to MaxLen units over a few units besides the encodings of messages. *)
EXTENDS NanopbEncode

CONSTANT MaxLen

F(tag, ltype, htype, atype, data_size, array_size, counted, ptr) ==
  [tag |-> tag, ltype |-> ltype, htype |-> htype, atype |-> atype, data_size |-> data_size,
   array_size |-> array_size, counted |-> counted, ptr |-> ptr]

MCTypes == {"Report", "Item"}
MCRoot  == "Report"

MCFields ==
  [t \in MCTypes |->
     IF t = "Report"
     THEN {F(1, "FIXED64", "REPEATED", "STATIC", 2, 2, TRUE, None),
           F(2, "SUBMESSAGE", "OPTIONAL", "STATIC", 0, 0, TRUE, "Item"),
           F(3, "SUBMESSAGE", "REPEATED", "POINTER", 0, 0, TRUE, "Item"),
           F(4, "STRING", "OPTIONAL", "STATIC", 2, 0, TRUE, None),
           F(5, "FIXED32", "REPEATED", "CALLBACK", 0, 0, FALSE, None)}
     ELSE {F(1, "VARINT", "REPEATED", "STATIC", 1, 2, FALSE, None),
           F(2, "VARINT", "REPEATED", "POINTER", 1, 0, TRUE, None),
           F(3, "VARINT", "REQUIRED", "STATIC", 1, 0, FALSE, None)}]

Up(n, S) == UNION {[1..k -> S] : k \in 0..n}

Items == {[g \in 1..3 |-> CASE g = 1 -> << 1, 0 >> [] g = 2 -> b [] OTHER -> << 1 >>] : b \in Up(1, {0})}

Reports ==
  {[g \in 1..5 |-> CASE g = 1 -> a [] g = 2 -> b [] g = 3 -> c [] g = 4 -> d [] OTHER -> << >>] :
     a \in Up(2, {1}), b \in Up(1, Items), c \in {p \in Up(2, Items) : Len(p) # 1 /\ (Len(p) = 2 => p[1] # p[2])}, d \in {<< >>, << << 3 >> >>}}

(* An unknown field, a callback's field, and the terminator with what may follow. *)
Extra == {<< >>, << 7 * 8 + PB_WT_STRING, 1, 9 >>, << 5 * 8 + PB_WT_STRING, 2, 0, 0 >>,
          << 5 * 8 + PB_WT_32BIT, 1, 0 >>}

(* The same report with its first two fields in two pieces: arrays item by item, the submessage in
   two messages that each have what is required. *)
InPieces(m) ==
  LET Piece(i) == [g \in 1..3 |-> IF g = 2 THEN << >> ELSE i[g]]
      Sub(i)   == << 2 * 8 + PB_WT_STRING, SizeOf("Item", i) >> \o Encode("Item", i)
  IN FlattenSeq([i \in 1..Len(m[1]) |-> << 8 + PB_WT_64BIT, m[1][i], 0, 0 >>])
     \o (IF m[2] = << >> THEN << >> ELSE Sub(m[2][1]) \o Sub(Piece(m[2][1])))
     \o Encode("Report", [m EXCEPT ![1] = << >>, ![2] = << >>])

(* Tags of both types, small values and lengths, an unknown tag, an invalid wire type. *)
Alphabet == {0, 1, 2, 8, 9, 10, 18, 24, 26, 34, 42, 45, 63}

(* An encoding with one unit replaced: lengths that claim too much or too little, other tags. *)
Damaged(b) == {[b EXCEPT ![i] = v] : i \in 1..Len(b), v \in Alphabet}

MCInputs ==
  {[buf |-> e \o Encode("Report", m) \o z, origin |-> m] : e \in Extra, z \in {<< >>, << 0, 9 >>}, m \in Reports}
  \cup {[buf |-> InPieces(m) \o e, origin |-> m] : e \in Extra, m \in Reports}
  \cup {[buf |-> b, origin |-> None] :
           b \in Up(MaxLen, Alphabet) \cup UNION {Damaged(Encode("Report", m)) : m \in {r \in Reports : r[1] # << >> /\ r[2] # << >> /\ r[4] # << >>}}}
=============================================================================
