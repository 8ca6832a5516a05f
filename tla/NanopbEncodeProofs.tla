------------------------- MODULE NanopbEncodeProofs -------------------------
(***************************************************************************)
(* Theorems about NanopbEncode for all descriptors and all messages: what is   *)
(* counted is what is written, and what is written is decoded again.           *)
(***************************************************************************)
EXTENDS NanopbEncode, NanopbMessageProofs, FiniteSetTheorems, SequenceTheorems

-----------------------------------------------------------------------------
(* Sums and concatenations *)

(* off[k]: where the part after the first k begins, of parts as long as ns says. *)
Offsets(off, ns) ==
  /\ off \in [0..Len(ns) -> Nat] /\ off[0] = 0
  /\ \A k \in 1..Len(ns) : off[k] = off[k - 1] + ns[k]

LEMMA OffsetsUnique ==
  ASSUME NEW ns \in Seq(Nat), NEW a, Offsets(a, ns), NEW b, Offsets(b, ns)
  PROVE  \A k \in 0..Len(ns) : a[k] = b[k]
<1> DEFINE S == {k \in Nat : k =< Len(ns) => a[k] = b[k]}
<1>1. 0 \in S
  BY DEF Offsets
<1>2. ASSUME NEW k \in Nat, k \in S PROVE k + 1 \in S
  <2> SUFFICES ASSUME k + 1 =< Len(ns) PROVE a[k + 1] = b[k + 1]
    OBVIOUS
  <2>1. k + 1 \in 1..Len(ns) /\ (k + 1) - 1 = k /\ a[k] = b[k]
    BY <1>2
  <2>2. a[k + 1] = a[k] + ns[k + 1] /\ b[k + 1] = b[k] + ns[k + 1]
    BY <2>1 DEF Offsets
  <2> QED
    BY <2>1, <2>2
<1>3. \A k \in Nat : k \in S
  <2> HIDE DEF S
  <2> QED
    BY <1>1, <1>2, Inductive
<1> QED
  BY <1>3

LEMMA TotalIsOffset ==
  ASSUME NEW ns \in Seq(Nat)
  PROVE  \E off : Offsets(off, ns) /\ Total(ns) = off[Len(ns)]
<1> DEFINE n == Len(ns)
           D == [i \in Nat |-> [z \in Nat |-> IF i + 1 =< n THEN z + ns[i + 1] ELSE z]]
           Is(sum) == sum = [i \in 0..n |-> IF i = 0 THEN 0 ELSE sum[i - 1] + ns[i]]
<1>1. n \in Nat /\ \A i \in 1..n : ns[i] \in Nat
  OBVIOUS
<1>2. PICK f : Goes(f, Nat, 0, D)
  <2>1. D \in [Nat -> [Nat -> Nat]]
    BY <1>1
  <2> HIDE DEF D
  <2> QED
    BY <2>1, Recursion
<1> DEFINE off == [i \in 0..n |-> f[i]]
<1>3. /\ f \in [Nat -> Nat] /\ f[0] = 0
      /\ \A i \in Nat : i + 1 =< n => f[i + 1] = f[i] + ns[i + 1]
  BY <1>1, <1>2 DEF Goes
<1>4. Offsets(off, ns)
  <2>1. ASSUME NEW k \in 1..n PROVE f[k] = f[k - 1] + ns[k]
    <3>1. PICK j \in Nat : j = k - 1 /\ j + 1 = k /\ j + 1 =< n
      BY <1>1
    <3> HIDE DEF n
    <3>2. f[j + 1] = f[j] + ns[j + 1]
      BY <3>1, <1>3
    <3> QED
      BY <3>1, <3>2
  <2> QED
    BY <1>1, <1>3, <2>1 DEF Offsets
<1>5. Is(off)
  <2>1. \A i \in 0..n : off[i] = IF i = 0 THEN 0 ELSE off[i - 1] + ns[i]
    <3>1. off[0] = 0 /\ \A i \in 1..n : off[i] = off[i - 1] + ns[i]
      BY <1>4 DEF Offsets
    <3> HIDE DEF off
    <3> QED
      BY <3>1, <1>1
  <2> QED
    BY <2>1
<1>6. Total(ns) = (CHOOSE sum : Is(sum))[n]
  BY DEF Total
<1>7. ASSUME NEW sum, Is(sum) PROVE Offsets(sum, ns)
  <2>1. \A i \in 0..n : sum[i] = IF i = 0 THEN 0 ELSE sum[i - 1] + ns[i]
    BY <1>7
  <2>2. DOMAIN sum = 0..n /\ sum = [i \in 0..n |-> sum[i]]
    BY <1>7
  <2> HIDE DEF Is
  <2> DEFINE S == {i \in Nat : i =< n => sum[i] \in Nat}
  <2>3. 0 \in S
    BY <2>1, <1>1
  <2>4. ASSUME NEW i \in Nat, i \in S PROVE i + 1 \in S
    <3> SUFFICES ASSUME i + 1 =< n PROVE sum[i + 1] \in Nat
      OBVIOUS
    <3>1. i + 1 \in 0..n /\ i + 1 # 0 /\ (i + 1) - 1 = i /\ i + 1 \in 1..n /\ sum[i] \in Nat
      BY <1>1, <2>4
    <3> QED
      BY <3>1, <2>1, <1>1
  <2>5. \A i \in Nat : i \in S
    <3> HIDE DEF S
    <3> QED
      BY <2>3, <2>4, Inductive
  <2> QED
    BY <1>1, <2>1, <2>2, <2>5 DEF Offsets
<1> QED
  <2> HIDE DEF Is, off
  <2>1. Is(CHOOSE sum : Is(sum))
    BY <1>5
  <2> QED
    BY <1>6, <1>7, <2>1

LEMMA OffsetsGrow ==
  ASSUME NEW ns \in Seq(Nat), NEW off, Offsets(off, ns)
  PROVE  \A k \in 0..Len(ns) : \A j \in 0..k : off[j] =< off[k]
<1> DEFINE S == {k \in Nat : k =< Len(ns) => \A j \in 0..k : off[j] =< off[k]}
<1>0. \A k \in 0..Len(ns) : off[k] \in Nat
  BY DEF Offsets
<1>1. 0 \in S
  BY <1>0
<1>2. ASSUME NEW k \in Nat, k \in S PROVE k + 1 \in S
  <2> SUFFICES ASSUME k + 1 =< Len(ns), NEW j \in 0..(k + 1) PROVE off[j] =< off[k + 1]
    OBVIOUS
  <2>1. k + 1 \in 1..Len(ns) /\ (k + 1) - 1 = k /\ k \in 0..Len(ns)
    OBVIOUS
  <2>2. off[k + 1] = off[k] + ns[k + 1] /\ ns[k + 1] \in Nat
    BY <2>1 DEF Offsets
  <2>3. j = k + 1 \/ j \in 0..k
    OBVIOUS
  <2>4. j \in 0..k => off[j] =< off[k] /\ off[j] \in Nat
    BY <1>0, <1>2, <2>1
  <2> QED
    BY <1>0, <2>1, <2>2, <2>3, <2>4
<1>3. \A k \in Nat : k \in S
  <2> HIDE DEF S
  <2> QED
    BY <1>1, <1>2, Inductive
<1> QED
  BY <1>3

Lens(seqs) == [k \in 1..Len(seqs) |-> Len(seqs[k])]

(* a is made of the first k of seqs, in their order and without gaps. *)
Lays(a, seqs, off, k) ==
  /\ a \in Seq(Nat) /\ Len(a) = off[k]
  /\ \A j \in 1..k : \A x \in 1..Len(seqs[j]) : a[off[j - 1] + x] = seqs[j][x]

Laid(flat, seqs, off) == Offsets(off, Lens(seqs)) /\ Lays(flat, seqs, off, Len(seqs))

LEMMA LensAreNumbers ==
  ASSUME NEW seqs \in Seq(Seq(Nat))
  PROVE  /\ Lens(seqs) \in Seq(Nat) /\ Len(Lens(seqs)) = Len(seqs)
         /\ \A k \in 1..Len(seqs) : Lens(seqs)[k] = Len(seqs[k]) /\ seqs[k] \in Seq(Nat)
<1>1. Len(seqs) \in Nat /\ \A k \in 1..Len(seqs) : Len(seqs[k]) \in Nat /\ seqs[k] \in Seq(Nat)
  OBVIOUS
<1>2. Lens(seqs) \in [1..Len(seqs) -> Nat]
  BY <1>1 DEF Lens
<1> QED
  BY <1>1, <1>2 DEF Lens

LEMMA Behind ==
  ASSUME NEW T, NEW a \in Seq(T), NEW b \in Seq(T)
  PROVE  /\ a \o b \in Seq(T) /\ Len(a \o b) = Len(a) + Len(b)
         /\ \A i \in 1..Len(a) : (a \o b)[i] = a[i]
         /\ \A i \in 1..Len(b) : (a \o b)[Len(a) + i] = b[i]
<1>1. Len(a) \in Nat /\ Len(b) \in Nat
  OBVIOUS
<1>2. \A i \in 1..Len(a) : i \in 1..(Len(a) + Len(b)) /\ i =< Len(a)
  BY <1>1
<1>3. \A i \in 1..Len(b) : /\ Len(a) + i \in 1..(Len(a) + Len(b))
                           /\ ~(Len(a) + i =< Len(a)) /\ (Len(a) + i) - Len(a) = i
  BY <1>1
<1> QED
  BY <1>2, <1>3, ConcatProperties

(* One more sequence behind the first k of them. *)
LEMMA LaysBehind ==
  ASSUME NEW seqs \in Seq(Seq(Nat)), NEW off, Offsets(off, Lens(seqs)), NEW k \in Nat,
         k + 1 =< Len(seqs), NEW a, Lays(a, seqs, off, k)
  PROVE  Lays(a \o seqs[k + 1], seqs, off, k + 1)
<1>1. k + 1 \in 1..Len(seqs) /\ (k + 1) - 1 = k /\ seqs[k + 1] \in Seq(Nat)
  OBVIOUS
<1>2. a \in Seq(Nat) /\ Len(a) = off[k] /\ Len(a) \in Nat
  BY DEF Lays
<1> DEFINE b == seqs[k + 1]
           c == a \o b
<1>3. /\ c \in Seq(Nat) /\ Len(c) = Len(a) + Len(b)
      /\ \A i \in 1..Len(a) : c[i] = a[i]
      /\ \A i \in 1..Len(b) : c[Len(a) + i] = b[i]
  <2>1. b \in Seq(Nat) /\ a \in Seq(Nat)
    BY <1>1, <1>2
  <2> HIDE DEF b
  <2>2. \A T : \A u, v \in Seq(T) :
          /\ u \o v \in Seq(T) /\ Len(u \o v) = Len(u) + Len(v)
          /\ \A i \in 1..Len(u) : (u \o v)[i] = u[i]
          /\ \A i \in 1..Len(v) : (u \o v)[Len(u) + i] = v[i]
    BY Behind
  <2> QED
    BY <2>1, <2>2
<1>4. Len(c) = off[k + 1]
  BY <1>1, <1>2, <1>3, LensAreNumbers DEF Offsets
<1>5. ASSUME NEW j \in 1..(k + 1), NEW x \in 1..Len(seqs[j])
      PROVE  c[off[j - 1] + x] = seqs[j][x]
  <2>1. CASE j = k + 1
    BY <1>1, <1>2, <1>3, <2>1
  <2>2. CASE j \in 1..k
    <3>1. /\ j - 1 \in 0..Len(seqs) /\ j \in 0..Len(seqs) /\ j \in 1..Len(seqs)
          /\ k \in 0..Len(seqs) /\ j \in 0..k
      BY <2>2
    <3>2. off[j] = off[j - 1] + Len(seqs[j]) /\ off[j - 1] \in Nat /\ off[k] \in Nat
      BY <3>1, LensAreNumbers DEF Offsets
    <3>3. off[j] =< off[k]
      BY <3>1, OffsetsGrow, LensAreNumbers
    <3>4. Len(seqs[j]) \in Nat /\ x \in Nat /\ 1 =< x /\ x =< Len(seqs[j])
      BY <3>1, LensAreNumbers
    <3>5. off[j - 1] + x \in 1..Len(a)
      <4>1. \A p, q, r, m, y \in Nat : q = p + m /\ q =< r /\ 1 =< y /\ y =< m => p + y \in 1..r
        OBVIOUS
      <4>2. off[j] \in Nat
        BY <3>2, <3>4
      <4> QED
        BY <1>2, <3>2, <3>3, <3>4, <4>1, <4>2
    <3>6. c[off[j - 1] + x] = a[off[j - 1] + x]
      <4> HIDE DEF c
      <4> QED
        BY <3>5, <1>3
    <3>7. a[off[j - 1] + x] = seqs[j][x]
      BY <2>2 DEF Lays
    <3> QED
      BY <3>6, <3>7
  <2>3. j = k + 1 \/ j \in 1..k
    OBVIOUS
  <2> QED
    BY <2>1, <2>2, <2>3
<1> HIDE DEF b, c
<1> QED
  BY <1>3, <1>4, <1>5 DEF Lays, b, c

LEMMA FlattenLays ==
  ASSUME NEW seqs \in Seq(Seq(Nat))
  PROVE  \E off : Laid(FlattenSeq(seqs), seqs, off) /\ Total(Lens(seqs)) = off[Len(seqs)]
<1> DEFINE n == Len(seqs)
           V == Seq(Nat)
           D == [i \in Nat |-> [z \in V |-> IF i + 2 =< n THEN z \o seqs[i + 2] ELSE z]]
           Is(fl) == fl = [i \in 1..n |-> IF i = 1 THEN seqs[i] ELSE fl[i - 1] \o seqs[i]]
<1>1. n \in Nat /\ \A i \in 1..n : seqs[i] \in V
  OBVIOUS
<1>2. PICK off : Offsets(off, Lens(seqs)) /\ Total(Lens(seqs)) = off[n]
  BY TotalIsOffset, LensAreNumbers
<1>3. CASE n = 0
  <2>1. FlattenSeq(seqs) = seqs /\ seqs = << >>
    BY <1>3 DEF FlattenSeq
  <2>2. off[n] = 0
    BY <1>2, <1>3 DEF Offsets
  <2> QED
    BY <1>2, <1>3, <2>1, <2>2 DEF Laid, Lays
<1>4. CASE n # 0
  <2>1. PICK f : Goes(f, V, seqs[1], D)
    <3>1. D \in [Nat -> [V -> V]]
      <4>1. ASSUME NEW i \in Nat, NEW z \in V, i + 2 =< n PROVE z \o seqs[i + 2] \in V
        <5>1. seqs[i + 2] \in V
          BY <1>1, <4>1
        <5> QED
          BY <5>1
      <4> HIDE DEF V, n
      <4> QED
        BY <4>1
    <3>2. seqs[1] \in V
      BY <1>1, <1>4
    <3> HIDE DEF D, V
    <3> QED
      BY <3>1, <3>2, Recursion
  <2>2. /\ f[0] = seqs[1] /\ f \in [Nat -> V]
        /\ \A i \in Nat : i + 2 =< n => f[i + 1] = f[i] \o seqs[i + 2]
    <3> HIDE DEF V
    <3> QED
      BY <2>1 DEF Goes
  <2> DEFINE g == [i \in 1..n |-> f[i - 1]]
  <2>3. Is(g)
    <3>1. ASSUME NEW i \in 1..n PROVE g[i] = IF i = 1 THEN seqs[i] ELSE g[i - 1] \o seqs[i]
      <4>1. CASE i = 1
        BY <2>2, <4>1
      <4>2. CASE i # 1
        <5>1. PICK j \in Nat : j + 2 = i /\ j + 1 = i - 1 /\ j = (i - 1) - 1
          BY <4>2
        <5>2. f[j + 1] = f[j] \o seqs[j + 2]
          <6>1. j + 2 =< n
            BY <1>1, <5>1
          <6> HIDE DEF n
          <6> QED
            BY <2>2, <6>1
        <5>3. g[i] = f[i - 1] /\ i - 1 \in 1..n /\ g[i - 1] = f[(i - 1) - 1]
          BY <4>2
        <5> QED
          BY <4>2, <5>1, <5>2, <5>3
      <4> QED
        BY <4>1, <4>2
    <3> HIDE DEF n
    <3> QED
      BY <3>1
  <2>4. FlattenSeq(seqs) = (CHOOSE fl : Is(fl))[n]
    BY <1>4 DEF FlattenSeq
  <2>5. ASSUME NEW fl, Is(fl) PROVE Laid(fl[n], seqs, off)
    <3>1. \A i \in 1..n : fl[i] = IF i = 1 THEN seqs[i] ELSE fl[i - 1] \o seqs[i]
      BY <2>5
    <3> HIDE DEF Is
    <3> DEFINE S == {k \in Nat : k + 1 =< n => Lays(fl[k + 1], seqs, off, k + 1)}
    <3>2. 0 \in S
      <4>1. off[0] = 0 /\ off[1] = Len(seqs[1]) /\ seqs[1] \in V
        BY <1>2, <1>4, <1>1, LensAreNumbers DEF Offsets
      <4>2. fl[1] = seqs[1]
        BY <3>1, <1>1, <1>4
      <4>3. \A j \in 1..1 : \A x \in 1..Len(seqs[j]) : fl[1][off[j - 1] + x] = seqs[j][x]
        BY <4>1, <4>2
      <4> QED
        BY <4>1, <4>2, <4>3 DEF Lays
    <3>3. ASSUME NEW k \in Nat, k \in S PROVE k + 1 \in S
      <4> SUFFICES ASSUME (k + 1) + 1 =< n PROVE Lays(fl[(k + 1) + 1], seqs, off, (k + 1) + 1)
        OBVIOUS
      <4>1. Lays(fl[k + 1], seqs, off, k + 1) /\ k + 1 \in Nat
        BY <1>1, <3>3
      <4>2. fl[(k + 1) + 1] = fl[k + 1] \o seqs[(k + 1) + 1]
        <5>1. (k + 1) + 1 \in 1..n /\ (k + 1) + 1 # 1 /\ ((k + 1) + 1) - 1 = k + 1
          BY <1>1
        <5> QED
          BY <5>1, <3>1
      <4> HIDE DEF S
      <4> QED
        BY <4>1, <4>2, <1>2, LaysBehind
    <3>4. \A k \in Nat : k \in S
      <4> HIDE DEF S
      <4> QED
        BY <3>2, <3>3, Inductive
    <3>5. Lays(fl[n], seqs, off, n)
      <4>1. n - 1 \in Nat /\ (n - 1) + 1 = n /\ n =< n
        BY <1>1, <1>4
      <4>2. n - 1 \in S
        <5> HIDE DEF S, n
        <5> QED
          BY <3>4, <4>1
      <4> HIDE DEF n
      <4> QED
        BY <4>1, <4>2
    <3> QED
      BY <3>5, <1>2 DEF Laid
  <2>6. Is(CHOOSE fl : Is(fl))
    <3> HIDE DEF Is, g
    <3> QED
      BY <2>3
  <2> HIDE DEF Is
  <2> QED
    BY <2>4, <2>5, <2>6, <1>2
<1> QED
  BY <1>3, <1>4
LEMMA TotalIsNumber == ASSUME NEW ns \in Seq(Nat) PROVE Total(ns) \in Nat
<1>1. PICK off : Offsets(off, ns) /\ Total(ns) = off[Len(ns)]
  BY TotalIsOffset
<1>2. Len(ns) \in 0..Len(ns)
  OBVIOUS
<1> QED
  BY <1>1, <1>2 DEF Offsets

LEMMA LengthOfFlatten ==
  ASSUME NEW seqs \in Seq(Seq(Nat))
  PROVE  /\ FlattenSeq(seqs) \in Seq(Nat)
         /\ Len(FlattenSeq(seqs)) = Total(Lens(seqs))
<1>1. PICK off : Laid(FlattenSeq(seqs), seqs, off) /\ Total(Lens(seqs)) = off[Len(seqs)]
  BY FlattenLays
<1> QED
  BY <1>1 DEF Laid, Lays

(* Multiplied out, or one by one. *)
LEMMA TotalOfEqual ==
  ASSUME NEW ns \in Seq(Nat), NEW c \in Nat, \A k \in 1..Len(ns) : ns[k] = c
  PROVE  Total(ns) = c * Len(ns)
<1>1. PICK off : Offsets(off, ns) /\ Total(ns) = off[Len(ns)]
  BY TotalIsOffset
<1> DEFINE S == {k \in Nat : k =< Len(ns) => off[k] = c * k}
<1>2. 0 \in S
  <2>1. c * 0 = 0
    OBVIOUS
  <2> QED
    BY <1>1, <2>1 DEF Offsets
<1>3. ASSUME NEW k \in Nat, k \in S PROVE k + 1 \in S
  <2> SUFFICES ASSUME k + 1 =< Len(ns) PROVE off[k + 1] = c * (k + 1)
    OBVIOUS
  <2>1. k + 1 \in 1..Len(ns) /\ (k + 1) - 1 = k /\ off[k] = c * k
    BY <1>3
  <2>2. off[k + 1] = c * k + c
    BY <1>1, <2>1 DEF Offsets
  <2>3. c * (k + 1) = c * k + c
    OBVIOUS
  <2> QED
    BY <2>2, <2>3
<1>4. Len(ns) \in S
  <2>1. Len(ns) \in Nat
    OBVIOUS
  <2> HIDE DEF S
  <2> QED
    BY <1>2, <1>3, <2>1, Inductive
<1> QED
  BY <1>1, <1>4

-----------------------------------------------------------------------------
(* Values *)

LEMMA Sizes32And64 == Size32 \in Nat \ {0} /\ Size64 \in Nat \ {0}
BY DescriptorAssumption

LEMMA ScalarEncoded ==
  ASSUME NEW f, NEW v \in Nat
  PROVE  /\ SizeOfScalar(f.ltype) \in Nat \ {0}
         /\ EncodeScalar(f, v) \in Seq(Nat)
         /\ Len(EncodeScalar(f, v)) = SizeOfScalar(f.ltype)
         /\ EncodeScalar(f, v)[1] = v
<1> DEFINE n == SizeOfScalar(f.ltype)
           z == [i \in 1..(n - 1) |-> 0]
<1>1. n \in Nat \ {0}
  BY Sizes32And64 DEF SizeOfScalar
<1> HIDE DEF n
<1>2. n - 1 \in Nat
  BY <1>1
<1>3. z \in Seq(Nat) /\ Len(z) = n - 1
  BY <1>2
<1>4. << v >> \in Seq(Nat) /\ Len(<< v >>) = 1 /\ << v >>[1] = v
  OBVIOUS
<1>5. EncodeScalar(f, v) = << v >> \o z
  BY DEF EncodeScalar, n
<1> HIDE DEF z
<1>6. \A T : \A a, b \in Seq(T) : /\ a \o b \in Seq(T) /\ Len(a \o b) = Len(a) + Len(b)
                                 /\ \A i \in 1..Len(a) : (a \o b)[i] = a[i]
  BY Behind
<1>7. /\ << v >> \o z \in Seq(Nat) /\ Len(<< v >> \o z) = 1 + (n - 1)
      /\ (<< v >> \o z)[1] = v
  <2> DEFINE a == << v >>
  <2>1. a \in Seq(Nat) /\ Len(a) = 1 /\ a[1] = v /\ 1 \in 1..1
    BY <1>4
  <2> HIDE DEF a
  <2>2. /\ a \o z \in Seq(Nat) /\ Len(a \o z) = 1 + (n - 1) /\ (a \o z)[1] = v
    <3>1. a \in Seq(Nat) /\ z \in Seq(Nat) /\ 1 \in 1..Len(a)
      BY <1>3, <2>1
    <3>2. a \o z \in Seq(Nat) /\ Len(a \o z) = Len(a) + Len(z) /\ (a \o z)[1] = a[1]
      BY <1>6, <3>1
    <3> QED
      BY <1>3, <2>1, <3>2
  <2> QED
    BY <2>2 DEF a
<1> QED
  BY <1>1, <1>5, <1>7 DEF n

Scalars(f, items) == [i \in 1..Len(items) |-> EncodeScalar(f, items[i])]

(* The size encode_array computes is the size of what it writes. *)
LEMMA PackedCounted ==
  ASSUME NEW f, f.ltype \in Packable, NEW items \in Seq(Nat)
  PROVE  /\ Scalars(f, items) \in Seq(Seq(Nat)) /\ Len(Scalars(f, items)) = Len(items)
         /\ FlattenSeq(Scalars(f, items)) \in Seq(Nat)
         /\ SizeOfPacked(f, items) \in Nat
         /\ Len(FlattenSeq(Scalars(f, items))) = SizeOfPacked(f, items)
<1> DEFINE s  == Scalars(f, items)
           n  == Len(items)
           ns == Lens(s)
           c  == SizeOfScalar(f.ltype)
<1>1. n \in Nat /\ \A i \in 1..n : items[i] \in Nat
  OBVIOUS
<1>2. \A i \in 1..n : EncodeScalar(f, items[i]) \in Seq(Nat) /\ Len(EncodeScalar(f, items[i])) = c
  BY <1>1, ScalarEncoded
<1>3. c \in Nat
  BY ScalarEncoded
<1> HIDE DEF n, c
<1>4. s = [i \in 1..n |-> EncodeScalar(f, items[i])]
  BY DEF Scalars, n
<1>5. s \in Seq(Seq(Nat)) /\ Len(s) = n /\ \A i \in 1..n : s[i] = EncodeScalar(f, items[i])
  <2>1. s \in [1..n -> Seq(Nat)]
    BY <1>2, <1>4
  <2> QED
    BY <1>1, <1>4, <2>1
<1> HIDE DEF s
<1>6. ns = [i \in 1..n |-> Len(EncodeScalar(f, items[i]))]
  BY <1>5 DEF Lens
<1>7. ns \in Seq(Nat) /\ Len(ns) = n /\ \A i \in 1..n : ns[i] = c
  <2>1. ns \in Seq(Nat) /\ Len(ns) = n
    BY <1>5, LensAreNumbers
  <2>2. \A i \in 1..n : ns[i] = c
    BY <1>2, <1>6
  <2> QED
    BY <2>1, <2>2
<1> HIDE DEF ns
<1>8. Total(ns) = c * n /\ Total(ns) \in Nat
  BY <1>3, <1>7, TotalOfEqual, TotalIsNumber
<1>9. SizeOfPacked(f, items) = Total(ns)
  <2>1. CASE f.ltype = "FIXED32"
    BY <1>8, <2>1 DEF SizeOfPacked, SizeOfScalar, c, n
  <2>2. CASE f.ltype = "FIXED64"
    BY <1>8, <2>2 DEF SizeOfPacked, SizeOfScalar, c, n
  <2>3. CASE f.ltype # "FIXED32" /\ f.ltype # "FIXED64"
    BY <1>6, <2>3 DEF SizeOfPacked, n
  <2> QED
    BY <2>1, <2>2, <2>3
<1>10. FlattenSeq(s) \in Seq(Nat) /\ Len(FlattenSeq(s)) = Total(ns)
  BY <1>5, LengthOfFlatten DEF ns
<1> QED
  BY <1>5, <1>8, <1>9, <1>10 DEF s, n
-----------------------------------------------------------------------------
(* Fields in their order *)

LEMMA FieldsOfType ==
  ASSUME NEW t \in Types
  PROVE  /\ IsFiniteSet(Fields[t]) /\ \A f \in Fields[t] : f \in FieldRecord /\ f.tag \in Nat \ {0}
         /\ \A f, g \in Fields[t] : f.tag = g.tag => f = g
<1>1. Fields[t] \subseteq FieldRecord
  BY DescriptorAssumption
<1>2. \A f \in FieldRecord : f.tag \in Nat \ {0}
  BY DEF FieldRecord
<1> QED
  BY <1>1, <1>2, DescriptorAssumption

(* s lists the set F, each element once. *)
Lists(s, F) ==
  /\ s \in Seq(F) /\ Len(s) = Cardinality(F)
  /\ \A f \in F : \E i \in 1..Len(s) : s[i] = f
  /\ \A i, j \in 1..Len(s) : s[i] = s[j] => i = j

LEMMA InOrderLists == ASSUME NEW t \in Types PROVE Lists(InOrder(t), Fields[t])
<1> DEFINE F       == Fields[t]
           N       == Cardinality(F)
           Less(f) == {g \in F : g.tag < f.tag}
           rank    == [f \in F |-> Cardinality(Less(f)) + 1]
           s       == InOrder(t)
<1>1. IsFiniteSet(F) /\ N \in Nat /\ \A f \in F : f.tag \in Nat
  BY FieldsOfType, FS_CardinalityType
<1>2. \A f, g \in F : f.tag = g.tag => f = g
  BY FieldsOfType
<1> HIDE DEF F
<1>3. \A f \in F : IsFiniteSet(Less(f)) /\ Cardinality(Less(f)) \in 0..(N - 1)
  <2> TAKE f \in F
  <2>1. Less(f) \in SUBSET F /\ f \notin Less(f)
    BY <1>1
  <2>2. IsFiniteSet(Less(f)) /\ Cardinality(Less(f)) =< N /\ Cardinality(Less(f)) # N
    <3> HIDE DEF Less
    <3> QED
      BY <1>1, <2>1, FS_Subset
  <2>3. Cardinality(Less(f)) \in Nat
    BY <2>2, FS_CardinalityType
  <2> HIDE DEF Less, N
  <2> QED
    BY <1>1, <2>2, <2>3
<1>4. ASSUME NEW f \in F, NEW g \in F, f.tag < g.tag
      PROVE  Cardinality(Less(f)) < Cardinality(Less(g))
  <2>1. Less(f) \in SUBSET Less(g) /\ f \in Less(g) /\ f \notin Less(f)
    BY <1>1, <1>4
  <2>2. Cardinality(Less(f)) =< Cardinality(Less(g)) /\ Cardinality(Less(f)) # Cardinality(Less(g))
    <3> HIDE DEF Less
    <3> QED
      BY <1>3, <2>1, FS_Subset
  <2> HIDE DEF Less, N
  <2> QED
    BY <1>1, <1>3, <2>2
<1>5. rank \in Injection(F, 1..N)
  <2>1. rank \in [F -> 1..N]
    <3> HIDE DEF Less, N
    <3> QED
      BY <1>1, <1>3
  <2>2. ASSUME NEW f \in F, NEW g \in F, rank[f] = rank[g] PROVE f = g
    <3>1. ~(f.tag < g.tag) /\ ~(g.tag < f.tag)
      <4>1. Cardinality(Less(f)) = Cardinality(Less(g))
        <5> HIDE DEF Less, N
        <5> QED
          BY <1>1, <1>3, <2>2
      <4>2. Cardinality(Less(f)) \in Nat
        <5> HIDE DEF Less, N
        <5> QED
          BY <1>1, <1>3
      <4> HIDE DEF Less, N
      <4> QED
        BY <1>4, <4>1, <4>2
    <3> QED
      BY <1>1, <1>2, <3>1
  <2> HIDE DEF rank
  <2> QED
    BY <2>1, <2>2 DEF Injection, IsInjective
<1>6. rank \in Surjection(F, 1..N)
  <2>1. IsFiniteSet(1..N) /\ Cardinality(1..N) = N
    BY <1>1, FS_Interval
  <2> HIDE DEF rank
  <2> QED
    BY <1>5, <2>1, FS_Injection
<1>7. ASSUME NEW n \in 1..N PROVE s[n] \in F /\ rank[s[n]] = n
  <2>1. PICK f \in F : rank[f] = n
    <3> HIDE DEF rank, N
    <3> QED
      BY <1>6 DEF Surjection
  <2>2. Cardinality(Less(f)) = n - 1
    <3> HIDE DEF Less
    <3> QED
      BY <1>1, <1>3, <2>1
  <2>3. s[n] = CHOOSE g \in F : Cardinality(Less(g)) = n - 1
    BY DEF InOrder, F
  <2> HIDE DEF Less, s
  <2>4. s[n] \in F /\ Cardinality(Less(s[n])) = n - 1
    BY <2>2, <2>3
  <2> QED
    BY <1>1, <2>4
<1>8. s \in [1..N -> F]
  <2> DEFINE E(i) == CHOOSE f \in F : Cardinality(Less(f)) = i - 1
  <2>1. s = [i \in 1..N |-> E(i)]
    BY DEF InOrder, F
  <2> HIDE DEF s, N, rank, E
  <2> QED
    BY <1>7, <2>1
<1>9. s \in Seq(F) /\ Len(s) = N
  <2> HIDE DEF s, N
  <2> QED
    BY <1>1, <1>8
<1>10. \A f \in F : rank[f] \in 1..N /\ s[rank[f]] = f
  <2>1. rank \in [F -> 1..N] /\ \A f, g \in F : rank[f] = rank[g] => f = g
    <3> HIDE DEF rank
    <3> QED
      BY <1>5 DEF Injection, IsInjective
  <2> HIDE DEF rank, s, N
  <2> QED
    BY <1>7, <2>1
<1> HIDE DEF s, N, rank
<1>11. /\ \A f \in F : \E i \in 1..N : s[i] = f
       /\ \A i, j \in 1..N : s[i] = s[j] => i = j
  BY <1>7, <1>10
<1> QED
  BY <1>9, <1>11 DEF Lists, s, F, N
-----------------------------------------------------------------------------
(* Counted and written *)

(* P holds messages that can be encoded, and with each of them those in it. *)
Closed(P) == \A p \in P : Encodable(p) /\ Parts(p) \subseteq P

(* The bytes given for the messages of P are as many as size says. *)
Counted(P, size, bytes) ==
  /\ size \in [P -> Nat] /\ bytes \in [P -> Seq(Nat)]
  /\ \A p \in P : Len(bytes[p]) = size[p]

Items(p, f) == p[2][f.tag]

LEMMA ItemsFit ==
  ASSUME NEW p, Encodable(p), NEW f \in Fields[p[1]]
  PROVE  /\ p[1] \in Types /\ Len(Items(p, f)) \in Nat
         /\ Items(p, f) \in Seq({Items(p, f)[i] : i \in DOMAIN Items(p, f)})
         /\ f.ltype \in Packable => Items(p, f) \in Seq(Nat)
         /\ f.ltype \in {"BYTES", "STRING", "FIXED_LENGTH_BYTES"} =>
              \A i \in 1..Len(Items(p, f)) : Items(p, f)[i] \in Seq(Nat)
<1> DEFINE e == Items(p, f)
           E == {e[i] : i \in DOMAIN e}
<1>1. /\ p[1] \in Types /\ e \in Seq(E)
      /\ \A i \in 1..Len(e) :
           CASE f.ltype \in Packable                      -> e[i] \in Nat
             [] f.ltype = "SUBMESSAGE"                    -> TRUE
             [] f.ltype = "FIXED_LENGTH_BYTES"            -> e[i] \in [1..f.data_size -> Nat]
                                                           /\ f.data_size =< SizeMax
             [] OTHER -> e[i] \in Seq(Nat) /\ FitsField(f, Len(e[i]))
  BY DEF Encodable, Items
<1>2. f.data_size \in Nat
  BY <1>1, FieldsOfType DEF FieldRecord
<1> HIDE DEF e
<1>3. Len(e) \in Nat
  <2> HIDE DEF E
  <2> QED
    BY <1>1
<1>4. ASSUME f.ltype \in Packable PROVE e \in Seq(Nat)
  <2>1. \A i \in 1..Len(e) : e[i] \in Nat
    BY <1>1, <1>4 DEF Packable
  <2>2. e = [i \in 1..Len(e) |-> e[i]]
    <3> HIDE DEF E
    <3> QED
      BY <1>1
  <2>3. e \in [1..Len(e) -> Nat]
    BY <2>1, <2>2
  <2> QED
    BY <1>3, <2>3
<1>5. ASSUME f.ltype \in {"BYTES", "STRING", "FIXED_LENGTH_BYTES"}, NEW i \in 1..Len(e)
      PROVE  e[i] \in Seq(Nat)
  <2>1. f.ltype \notin Packable /\ f.ltype # "SUBMESSAGE"
    BY <1>5 DEF Packable
  <2>2. CASE f.ltype = "FIXED_LENGTH_BYTES"
    <3>1. e[i] \in [1..f.data_size -> Nat]
      BY <1>1, <2>1, <2>2
    <3> QED
      BY <1>2, <3>1
  <2>3. CASE f.ltype # "FIXED_LENGTH_BYTES"
    BY <1>1, <2>1, <2>3
  <2> QED
    BY <2>2, <2>3
<1> QED
  BY <1>1, <1>3, <1>4, <1>5 DEF e

LEMMA KindOfField ==
  ASSUME NEW t \in Types, NEW f \in Fields[t]
  PROVE  \/ f.ltype \in Packable
         \/ f.ltype = "SUBMESSAGE" /\ f.ltype \notin Packable
         \/ /\ f.ltype \in {"BYTES", "STRING", "FIXED_LENGTH_BYTES"}
            /\ f.ltype \notin Packable /\ f.ltype # "SUBMESSAGE"
<1>1. f \in FieldRecord
  BY FieldsOfType
<1> QED
  BY <1>1 DEF FieldRecord, Packable

LEMMA ItemCounted ==
  ASSUME NEW P, Closed(P), NEW p \in P, NEW f \in Fields[p[1]], NEW i \in 1..Len(Items(p, f)),
         NEW S \in [P -> Nat], NEW size, NEW bytes, Counted(P, size, bytes)
  PROVE  /\ SizeOfItem(f, Items(p, f)[i], size) \in Nat
         /\ EncodeItem(f, Items(p, f)[i], S, bytes) \in Seq(Nat)
         /\ Len(EncodeItem(f, Items(p, f)[i], S, bytes)) = SizeOfItem(f, Items(p, f)[i], size)
<1> DEFINE v == Items(p, f)[i]
<1>1. Encodable(p) /\ p[1] \in Types
  BY ItemsFit DEF Closed
<1>2. \A n \in Nat, s \in Seq(Nat) :
        << n >> \o s \in Seq(Nat) /\ Len(<< n >> \o s) = 1 + Len(s)
  <2> TAKE n \in Nat, s \in Seq(Nat)
  <2> DEFINE a == << n >>
  <2>1. a \in Seq(Nat) /\ Len(a) = 1
    OBVIOUS
  <2>2. \A T : \A u, w \in Seq(T) : u \o w \in Seq(T) /\ Len(u \o w) = Len(u) + Len(w)
    BY Behind
  <2> HIDE DEF a
  <2>3. a \o s \in Seq(Nat) /\ Len(a \o s) = 1 + Len(s)
    BY <2>1, <2>2
  <2> QED
    BY <2>3 DEF a
<1>3. CASE f.ltype \in Packable
  <2>1. v \in Nat
    <3>1. Items(p, f) \in Seq(Nat)
      BY <1>1, <1>3, ItemsFit
    <3> QED
      BY <3>1
  <2> HIDE DEF v
  <2>2. /\ SizeOfScalar(f.ltype) \in Nat /\ EncodeScalar(f, v) \in Seq(Nat)
        /\ Len(EncodeScalar(f, v)) = SizeOfScalar(f.ltype)
    BY <2>1, ScalarEncoded
  <2>3. /\ SizeOfItem(f, v, size) = SizeOfScalar(f.ltype)
        /\ EncodeItem(f, v, S, bytes) = EncodeScalar(f, v)
    BY <1>3 DEF SizeOfItem, EncodeItem, Packable
  <2> QED
    BY <2>2, <2>3 DEF v
<1>4. CASE f.ltype = "SUBMESSAGE" /\ f.ltype \notin Packable
  <2> DEFINE q == << f.ptr, v >>
  <2>1. q \in P
    <3>1. q \in Parts(p)
      BY <1>4 DEF Parts, Items
    <3> QED
      BY <3>1 DEF Closed
  <2>2. /\ SizeOfItem(f, v, size) = 1 + size[q]
        /\ EncodeItem(f, v, S, bytes) = << S[q] >> \o bytes[q]
    BY <1>4 DEF SizeOfItem, EncodeItem
  <2> HIDE DEF q
  <2>3. S[q] \in Nat /\ size[q] \in Nat /\ bytes[q] \in Seq(Nat) /\ Len(bytes[q]) = size[q]
    BY <2>1 DEF Counted
  <2>4. /\ << S[q] >> \o bytes[q] \in Seq(Nat)
        /\ Len(<< S[q] >> \o bytes[q]) = 1 + size[q]
    BY <1>2, <2>3
  <2> QED
    BY <2>2, <2>3, <2>4
<1>5. CASE /\ f.ltype \in {"BYTES", "STRING", "FIXED_LENGTH_BYTES"}
           /\ f.ltype \notin Packable /\ f.ltype # "SUBMESSAGE"
  <2>1. v \in Seq(Nat)
    BY <1>1, <1>5, ItemsFit
  <2> HIDE DEF v
  <2>2. SizeOfItem(f, v, size) = 1 + Len(v) /\ EncodeItem(f, v, S, bytes) = << Len(v) >> \o v
    BY <1>5 DEF SizeOfItem, EncodeItem
  <2>3. << Len(v) >> \o v \in Seq(Nat) /\ Len(<< Len(v) >> \o v) = 1 + Len(v) /\ Len(v) \in Nat
    BY <1>2, <2>1
  <2> QED
    BY <2>2, <2>3 DEF v
<1> QED
  BY <1>1, <1>3, <1>4, <1>5, KindOfField
(* What the encoder of a field without packing writes for one item. *)
Pieces(p, f, S, bytes) ==
  [i \in 1..Len(Items(p, f)) |->
     << TagUnit(f, WireType(f)) >> \o EncodeItem(f, Items(p, f)[i], S, bytes)]

LEMMA TagUnits ==
  ASSUME NEW t \in Types, NEW f \in Fields[t]
  PROVE  TagUnit(f, PB_WT_STRING) \in Nat /\ TagUnit(f, WireType(f)) \in Nat /\ WireType(f) \in {0, 1, 2, 5}
<1>1. f.tag \in Nat
  BY FieldsOfType
<1>2. WireType(f) \in {0, 1, 2, 5}
  BY DEF WireType, PB_WT_VARINT, PB_WT_64BIT, PB_WT_STRING, PB_WT_32BIT
<1> QED
  BY <1>1, <1>2 DEF TagUnit, PB_WT_STRING

(* s holds the tags and items of a field, each as long as size says. *)
TaggedItems(s, f, items, size) ==
  /\ s \in Seq(Seq(Nat)) /\ Len(s) = Len(items)
  /\ \A i \in 1..Len(items) : Len(s[i]) = 1 + SizeOfItem(f, items[i], size)

LEMMA PiecesCounted ==
  ASSUME NEW P, Closed(P), NEW p \in P, NEW f \in Fields[p[1]],
         NEW S \in [P -> Nat], NEW size, NEW bytes, Counted(P, size, bytes)
  PROVE  TaggedItems(Pieces(p, f, S, bytes), f, Items(p, f), size)
<1> DEFINE n     == Len(Items(p, f))
           s     == Pieces(p, f, S, bytes)
           w     == TagUnit(f, WireType(f))
           it(i) == EncodeItem(f, Items(p, f)[i], S, bytes)
           sz(i) == SizeOfItem(f, Items(p, f)[i], size)
<1>1. p[1] \in Types /\ n \in Nat
  BY ItemsFit DEF Closed
<1>2. w \in Nat
  BY <1>1, TagUnits
<1>3. \A i \in 1..n : it(i) \in Seq(Nat) /\ Len(it(i)) = sz(i) /\ sz(i) \in Nat
  BY ItemCounted
<1>4. s = [i \in 1..n |-> << w >> \o it(i)]
  BY DEF Pieces
<1> HIDE DEF n, s, w, it, sz
<1>5. \A i \in 1..n : << w >> \o it(i) \in Seq(Nat) /\ Len(<< w >> \o it(i)) = 1 + sz(i)
  <2> TAKE i \in 1..n
  <2> DEFINE a == << w >>
             b == it(i)
  <2>1. a \in Seq(Nat) /\ Len(a) = 1 /\ b \in Seq(Nat) /\ Len(b) = sz(i)
    BY <1>2, <1>3
  <2>2. \A T : \A u, v \in Seq(T) : u \o v \in Seq(T) /\ Len(u \o v) = Len(u) + Len(v)
    BY Behind
  <2> HIDE DEF a, b
  <2>3. a \o b \in Seq(Nat) /\ Len(a \o b) = 1 + sz(i)
    BY <2>1, <2>2
  <2> QED
    BY <2>3 DEF a, b
<1>6. s \in [1..n -> Seq(Nat)] /\ \A i \in 1..n : s[i] = << w >> \o it(i)
  BY <1>4, <1>5
<1>7. s \in Seq(Seq(Nat)) /\ Len(s) = n
  BY <1>1, <1>6
<1> QED
  BY <1>5, <1>6, <1>7 DEF n, s, w, it, sz, TaggedItems

(* The size of a field without packing is that of its pieces. *)
LEMMA SizeOfPieces ==
  ASSUME NEW P, Closed(P), NEW p \in P, NEW f \in Fields[p[1]],
         NEW S \in [P -> Nat], NEW size, NEW bytes, Counted(P, size, bytes)
  PROVE  Total([i \in 1..Len(Items(p, f)) |-> 1 + SizeOfItem(f, Items(p, f)[i], size)])
           = Total(Lens(Pieces(p, f, S, bytes)))
<1> DEFINE n     == Len(Items(p, f))
           s     == Pieces(p, f, S, bytes)
           sz(i) == 1 + SizeOfItem(f, Items(p, f)[i], size)
<1>1. Len(s) = n /\ \A i \in 1..n : Len(s[i]) = sz(i)
  <2>1. TaggedItems(s, f, Items(p, f), size)
    BY PiecesCounted
  <2> HIDE DEF s
  <2> QED
    BY <2>1 DEF TaggedItems
<1> HIDE DEF n, s, sz
<1>2. Lens(s) = [i \in 1..n |-> sz(i)]
  BY <1>1 DEF Lens
<1> QED
  BY <1>2 DEF n, s, sz

LEMMA FieldCounted ==
  ASSUME NEW P, Closed(P), NEW p \in P, NEW f \in Fields[p[1]],
         NEW S \in [P -> Nat], NEW size, NEW bytes, Counted(P, size, bytes)
  PROVE  /\ SizeOfField(f, Items(p, f), size) \in Nat
         /\ EncodeField(f, Items(p, f), S, bytes) \in Seq(Nat)
         /\ Len(EncodeField(f, Items(p, f), S, bytes)) = SizeOfField(f, Items(p, f), size)
<1> DEFINE e == Items(p, f)
<1>1. Encodable(p) /\ p[1] \in Types
  BY ItemsFit DEF Closed
<1>2. CASE Packed(f) /\ e # << >>
  <2> DEFINE n == SizeOfPacked(f, e)
             b == FlattenSeq(Scalars(f, e))
             a == << TagUnit(f, PB_WT_STRING), n >>
  <2>1. e \in Seq(Nat) /\ f.ltype \in Packable
    BY <1>1, <1>2, ItemsFit DEF Packed
  <2> HIDE DEF e
  <2>2. b \in Seq(Nat) /\ n \in Nat /\ Len(b) = n
    BY <2>1, PackedCounted
  <2>3. TagUnit(f, PB_WT_STRING) \in Nat
    BY <1>1, TagUnits
  <2>4. EncodeField(f, e, S, bytes) = a \o b
    BY <1>2 DEF EncodeField, Scalars
  <2>5. SizeOfField(f, e, size) = 2 + n
    BY <1>2 DEF SizeOfField
  <2> HIDE DEF n, b
  <2>6. a \in Seq(Nat) /\ Len(a) = 2
    BY <2>2, <2>3
  <2>7. \A T : \A u, v \in Seq(T) : u \o v \in Seq(T) /\ Len(u \o v) = Len(u) + Len(v)
    BY Behind
  <2> HIDE DEF a
  <2>8. a \o b \in Seq(Nat) /\ Len(a \o b) = 2 + n
    BY <2>2, <2>6, <2>7
  <2> QED
    BY <2>2, <2>4, <2>5, <2>8 DEF e
<1>3. CASE ~(Packed(f) /\ e # << >>)
  <2> DEFINE s == Pieces(p, f, S, bytes)
  <2>1. s \in Seq(Seq(Nat))
    BY PiecesCounted DEF TaggedItems
  <2>2. EncodeField(f, e, S, bytes) = FlattenSeq(s)
    BY <1>3 DEF EncodeField, Pieces
  <2>3. SizeOfField(f, e, size) = Total(Lens(s))
    <3>1. SizeOfField(f, e, size) = Total([i \in 1..Len(e) |-> 1 + SizeOfItem(f, e[i], size)])
      BY <1>3 DEF SizeOfField
    <3> QED
      BY <3>1, SizeOfPieces
  <2> HIDE DEF s, e
  <2>4. FlattenSeq(s) \in Seq(Nat) /\ Len(FlattenSeq(s)) = Total(Lens(s)) /\ Total(Lens(s)) \in Nat
    BY <2>1, LengthOfFlatten, LensAreNumbers, TotalIsNumber
  <2> QED
    BY <2>2, <2>3, <2>4 DEF e
<1> QED
  BY <1>2, <1>3

(* What the loop of pb_encode writes for each field. *)
Sections(p, S, bytes) ==
  [k \in 1..Len(InOrder(p[1])) |-> EncodeField(InOrder(p[1])[k], Items(p, InOrder(p[1])[k]), S, bytes)]

LEMMA SectionsCounted ==
  ASSUME NEW P, Closed(P), NEW p \in P,
         NEW S \in [P -> Nat], NEW size, NEW bytes, Counted(P, size, bytes)
  PROVE  /\ Sections(p, S, bytes) \in Seq(Seq(Nat))
         /\ Len(Sections(p, S, bytes)) = Len(InOrder(p[1]))
         /\ EncodeMessage(p, S, bytes) = FlattenSeq(Sections(p, S, bytes))
         /\ SizeOfMessage(p, size) = Total(Lens(Sections(p, S, bytes)))
<1> DEFINE o      == InOrder(p[1])
           n      == Len(o)
           s      == Sections(p, S, bytes)
           sec(k) == EncodeField(o[k], Items(p, o[k]), S, bytes)
           sz(k)  == SizeOfField(o[k], Items(p, o[k]), size)
<1>1. p[1] \in Types
  BY DEF Closed, Encodable
<1>2. n \in Nat /\ \A k \in 1..n : o[k] \in Fields[p[1]]
  <2>1. o \in Seq(Fields[p[1]])
    BY <1>1, InOrderLists DEF Lists
  <2> QED
    BY <2>1
<1>3. \A k \in 1..n : sec(k) \in Seq(Nat) /\ Len(sec(k)) = sz(k)
  <2> HIDE DEF o
  <2> QED
    BY <1>2, FieldCounted
<1>4. s = [k \in 1..n |-> sec(k)]
  BY DEF Sections
<1>5. /\ EncodeMessage(p, S, bytes) = FlattenSeq([k \in 1..n |-> sec(k)])
      /\ SizeOfMessage(p, size) = Total([k \in 1..n |-> sz(k)])
  BY DEF EncodeMessage, SizeOfMessage, Items
<1> HIDE DEF o, n, s, sec, sz
<1>6. s \in [1..n -> Seq(Nat)] /\ \A k \in 1..n : s[k] = sec(k)
  BY <1>3, <1>4
<1>7. s \in Seq(Seq(Nat)) /\ Len(s) = n
  BY <1>2, <1>6
<1>8. Lens(s) = [k \in 1..n |-> sz(k)]
  BY <1>3, <1>6, <1>7 DEF Lens
<1> QED
  BY <1>4, <1>5, <1>7, <1>8 DEF o, n, s

(* The bytes of a message are as many as its size, if those of the messages in it are. *)
LEMMA MessageCounted ==
  ASSUME NEW P, Closed(P), NEW p \in P,
         NEW S \in [P -> Nat], NEW size, NEW bytes, Counted(P, size, bytes)
  PROVE  /\ SizeOfMessage(p, size) \in Nat
         /\ EncodeMessage(p, S, bytes) \in Seq(Nat)
         /\ Len(EncodeMessage(p, S, bytes)) = SizeOfMessage(p, size)
<1> DEFINE s == Sections(p, S, bytes)
<1>1. /\ s \in Seq(Seq(Nat)) /\ EncodeMessage(p, S, bytes) = FlattenSeq(s)
      /\ SizeOfMessage(p, size) = Total(Lens(s))
  BY SectionsCounted
<1> HIDE DEF s
<1> QED
  BY <1>1, LengthOfFlatten, LensAreNumbers, TotalIsNumber
-----------------------------------------------------------------------------
(* From the innermost messages outwards *)

SizeLevels(s, P) ==
  /\ s \in [Nat -> [P -> Nat]] /\ \A p \in P : s[0][p] = 0
  /\ \A n \in Nat : \A p \in P : s[n + 1][p] = SizeOfMessage(p, s[n])

BytesLevels(b, P) ==
  /\ b \in [Nat -> [P -> Seq(Nat)]] /\ \A p \in P : b[0][p] = << >>
  /\ \A n \in Nat : \A p \in P : b[n + 1][p] = EncodeMessage(p, Sizes(P), b[n])

LEMMA SizesByLevel ==
  ASSUME NEW P, Closed(P)
  PROVE  \E s : SizeLevels(s, P) /\ Sizes(P) = s[MaxNesting + 1]
<1> DEFINE X     == [P -> Nat]
           x     == [p \in P |-> 0]
           U(z)  == [p \in P |-> SizeOfMessage(p, z)]
           D     == [n \in Nat |-> [z \in X |-> U(z)]]
           Is(s) == s = [n \in Nat |-> IF n = 0 THEN x ELSE U(s[n - 1])]
<1>0. MaxNesting \in Nat
  BY OriginAssumption
<1>1. ASSUME NEW z \in X PROVE U(z) \in X
  <2> DEFINE bytes == [p \in P |-> [i \in 1..z[p] |-> 0]]
  <2>1. \A n \in Nat : [i \in 1..n |-> 0] \in Seq(Nat) /\ Len([i \in 1..n |-> 0]) = n
    OBVIOUS
  <2>2. Counted(P, z, bytes)
    BY <2>1 DEF Counted
  <2> HIDE DEF bytes
  <2> QED
    BY <2>2, MessageCounted
<1>2. x \in X
  OBVIOUS
<1>3. Sizes(P) = (CHOOSE s : Is(s))[MaxNesting + 1]
  BY DEF Sizes
<1> HIDE DEF U, x
<1>4. PICK f : Goes(f, X, x, D)
  <2>1. D \in [Nat -> [X -> X]]
    BY <1>1
  <2> HIDE DEF D, X
  <2> QED
    BY <1>2, <2>1, Recursion
<1>5. f \in [Nat -> X] /\ f[0] = x /\ \A n \in Nat : f[n + 1] = U(f[n])
  <2> HIDE DEF X
  <2> QED
    BY <1>4 DEF Goes
<1>6. Is(f)
  <2>1. \A n \in Nat : f[n] = IF n = 0 THEN x ELSE U(f[n - 1])
    <3> TAKE n \in Nat
    <3>1. n = 0 \/ (n - 1 \in Nat /\ (n - 1) + 1 = n)
      OBVIOUS
    <3> HIDE DEF X
    <3> QED
      BY <3>1, <1>5
  <2> HIDE DEF X
  <2> QED
    BY <2>1, <1>5
<1>7. ASSUME NEW s, Is(s) PROVE SizeLevels(s, P)
  <2>1. \A n \in Nat : s[n] = IF n = 0 THEN x ELSE U(s[n - 1])
    BY <1>7
  <2>2. DOMAIN s = Nat /\ s = [n \in Nat |-> s[n]]
    BY <1>7
  <2> HIDE DEF Is, X
  <2>3. s[0] = x
    BY <2>1
  <2>4. \A n \in Nat : s[n + 1] = U(s[n])
    <3> TAKE n \in Nat
    <3>1. n + 1 \in Nat /\ n + 1 # 0 /\ (n + 1) - 1 = n
      OBVIOUS
    <3> QED
      BY <3>1, <2>1
  <2>5. \A n \in Nat : s[n] \in X
    <3> DEFINE S == {n \in Nat : s[n] \in X}
    <3>1. 0 \in S /\ \A n \in Nat : n \in S => n + 1 \in S
      BY <2>3, <2>4, <1>1, <1>2
    <3> HIDE DEF S
    <3>2. \A n \in Nat : n \in S
      BY <3>1, Inductive
    <3> QED
      BY <3>2 DEF S
  <2>6. s \in [Nat -> X]
    BY <2>2, <2>5
  <2>7. \A p \in P : x[p] = 0 /\ \A z : U(z)[p] = SizeOfMessage(p, z)
    BY DEF x, U
  <2>8. \A p \in P : s[0][p] = 0 /\ \A n \in Nat : s[n + 1][p] = SizeOfMessage(p, s[n])
    BY <2>3, <2>4, <2>7
  <2> QED
    BY <2>6, <2>8 DEF SizeLevels, X
<1> QED
  <2> HIDE DEF Is
  <2>1. Is(CHOOSE s : Is(s))
    BY <1>6
  <2> QED
    BY <1>3, <1>7, <2>1

LEMMA SizesAreNumbers == ASSUME NEW P, Closed(P) PROVE Sizes(P) \in [P -> Nat]
<1>1. PICK s : SizeLevels(s, P) /\ Sizes(P) = s[MaxNesting + 1]
  BY SizesByLevel
<1>2. MaxNesting + 1 \in Nat
  BY OriginAssumption
<1> QED
  BY <1>1, <1>2 DEF SizeLevels

LEMMA BytesByLevel ==
  ASSUME NEW P, Closed(P)
  PROVE  \E b : BytesLevels(b, P) /\ Encodings(P) = b[MaxNesting + 1]
<1> DEFINE X     == [P -> Seq(Nat)]
           x     == [p \in P |-> << >>]
           S     == Sizes(P)
           U(z)  == [p \in P |-> EncodeMessage(p, S, z)]
           D     == [n \in Nat |-> [z \in X |-> U(z)]]
           Is(b) == b = [n \in Nat |-> IF n = 0 THEN x ELSE U(b[n - 1])]
<1>0. MaxNesting \in Nat /\ S \in [P -> Nat]
  BY OriginAssumption, SizesAreNumbers
<1>3. Encodings(P) = (CHOOSE b : Is(b))[MaxNesting + 1]
  BY DEF Encodings
<1> HIDE DEF S
<1>1. ASSUME NEW z \in X PROVE U(z) \in X
  <2> DEFINE size == [p \in P |-> Len(z[p])]
  <2>1. \A p \in P : z[p] \in Seq(Nat) /\ Len(z[p]) \in Nat
    OBVIOUS
  <2>2. Counted(P, size, z)
    BY <2>1 DEF Counted
  <2> HIDE DEF size
  <2> QED
    BY <1>0, <2>2, MessageCounted
<1>2. x \in X
  OBVIOUS
<1> HIDE DEF U, x
<1>4. PICK f : Goes(f, X, x, D)
  <2>1. D \in [Nat -> [X -> X]]
    BY <1>1
  <2> HIDE DEF D, X
  <2> QED
    BY <1>2, <2>1, Recursion
<1>5. f \in [Nat -> X] /\ f[0] = x /\ \A n \in Nat : f[n + 1] = U(f[n])
  <2> HIDE DEF X
  <2> QED
    BY <1>4 DEF Goes
<1>6. Is(f)
  <2>1. \A n \in Nat : f[n] = IF n = 0 THEN x ELSE U(f[n - 1])
    <3> TAKE n \in Nat
    <3>1. n = 0 \/ (n - 1 \in Nat /\ (n - 1) + 1 = n)
      OBVIOUS
    <3> HIDE DEF X
    <3> QED
      BY <3>1, <1>5
  <2> HIDE DEF X
  <2> QED
    BY <2>1, <1>5
<1>7. ASSUME NEW b, Is(b) PROVE BytesLevels(b, P)
  <2>1. \A n \in Nat : b[n] = IF n = 0 THEN x ELSE U(b[n - 1])
    BY <1>7
  <2>2. DOMAIN b = Nat /\ b = [n \in Nat |-> b[n]]
    BY <1>7
  <2> HIDE DEF Is, X
  <2>3. b[0] = x
    BY <2>1
  <2>4. \A n \in Nat : b[n + 1] = U(b[n])
    <3> TAKE n \in Nat
    <3>1. n + 1 \in Nat /\ n + 1 # 0 /\ (n + 1) - 1 = n
      OBVIOUS
    <3> QED
      BY <3>1, <2>1
  <2>5. \A n \in Nat : b[n] \in X
    <3> DEFINE I == {n \in Nat : b[n] \in X}
    <3>1. 0 \in I /\ \A n \in Nat : n \in I => n + 1 \in I
      BY <2>3, <2>4, <1>1, <1>2
    <3> HIDE DEF I
    <3>2. \A n \in Nat : n \in I
      BY <3>1, Inductive
    <3> QED
      BY <3>2 DEF I
  <2>6. b \in [Nat -> X]
    BY <2>2, <2>5
  <2>7. \A p \in P : x[p] = << >> /\ \A z : U(z)[p] = EncodeMessage(p, S, z)
    BY DEF x, U
  <2>8. \A p \in P : b[0][p] = << >> /\ \A n \in Nat : b[n + 1][p] = EncodeMessage(p, S, b[n])
    BY <2>3, <2>4, <2>7
  <2> QED
    BY <2>6, <2>8 DEF BytesLevels, X, S
<1> QED
  <2> HIDE DEF Is
  <2>1. Is(CHOOSE b : Is(b))
    BY <1>6
  <2> QED
    BY <1>3, <1>7, <2>1

(* The sizes counted are those of the bytes written, at every level. *)
LEMMA LevelsCounted ==
  ASSUME NEW P, Closed(P)
  PROVE  Counted(P, Sizes(P), Encodings(P))
<1>1. PICK s : SizeLevels(s, P) /\ Sizes(P) = s[MaxNesting + 1]
  BY SizesByLevel
<1>2. PICK b : BytesLevels(b, P) /\ Encodings(P) = b[MaxNesting + 1]
  BY BytesByLevel
<1> DEFINE I == {n \in Nat : Counted(P, s[n], b[n])}
<1>3. 0 \in I
  <2>1. s[0] \in [P -> Nat] /\ b[0] \in [P -> Seq(Nat)]
    BY <1>1, <1>2 DEF SizeLevels, BytesLevels
  <2>2. \A p \in P : s[0][p] = 0 /\ b[0][p] = << >>
    BY <1>1, <1>2 DEF SizeLevels, BytesLevels
  <2>3. Len(<< >>) = 0
    OBVIOUS
  <2>4. \A p \in P : Len(b[0][p]) = s[0][p]
    BY <2>2, <2>3
  <2> QED
    BY <2>1, <2>4 DEF Counted
<1>4. ASSUME NEW n \in Nat, n \in I PROVE n + 1 \in I
  <2>1. s[n + 1] \in [P -> Nat] /\ b[n + 1] \in [P -> Seq(Nat)]
    <3>1. s \in [Nat -> [P -> Nat]] /\ b \in [Nat -> [P -> Seq(Nat)]]
      BY <1>1, <1>2 DEF SizeLevels, BytesLevels
    <3>2. n + 1 \in Nat
      OBVIOUS
    <3> QED
      BY <3>1, <3>2
  <2>2. \A p \in P : s[n + 1][p] = SizeOfMessage(p, s[n])
                    /\ b[n + 1][p] = EncodeMessage(p, Sizes(P), b[n])
    BY <1>1, <1>2 DEF SizeLevels, BytesLevels
  <2>3. Counted(P, s[n], b[n]) /\ Sizes(P) \in [P -> Nat]
    BY <1>4, SizesAreNumbers
  <2>4. \A p \in P : Len(EncodeMessage(p, Sizes(P), b[n])) = SizeOfMessage(p, s[n])
    BY <2>3, MessageCounted
  <2> QED
    BY <2>1, <2>2, <2>4 DEF Counted
<1>5. MaxNesting + 1 \in I
  <2>1. MaxNesting + 1 \in Nat
    BY OriginAssumption
  <2> HIDE DEF I
  <2> QED
    BY <1>3, <1>4, <2>1, Inductive
<1> QED
  BY <1>1, <1>2, <1>5
-----------------------------------------------------------------------------
(* The messages an origin is made of *)

Inner(Q) == UNION {Parts(p) : p \in Q}

(* g is the beginning of AtDepth. *)
Begins(g, n, t, m) == g[0] = {<< t, m >>} /\ \A i \in 0..(n - 1) : g[i + 1] = Inner(g[i])

Depths(at, t, m) == at[0] = {<< t, m >>} /\ \A n \in Nat : at[n + 1] = Inner(at[n])

LEMMA AtDepthExists == ASSUME NEW t, NEW m PROVE Depths(AtDepth(t, m), t, m)
<1> DEFINE St(g, n) == Begins(g, n, t, m)
           x        == {<< t, m >>}
           Is(at)   == at = [n \in Nat |-> IF n = 0 THEN x ELSE Inner(at[n - 1])]
<1>0. AtDepth(t, m) = CHOOSE at : Is(at)
  BY DEF AtDepth, Inner
<1>1. \A n \in Nat : \E g : St(g, n)
  <2> DEFINE S == {n \in Nat : \E g : St(g, n)}
  <2>1. 0 \in S
    <3>1. St([i \in 0..0 |-> x], 0)
      BY DEF Begins
    <3> QED
      BY <3>1
  <2>2. ASSUME NEW n \in Nat, n \in S PROVE n + 1 \in S
    <3>1. PICK g : St(g, n)
      BY <2>2
    <3> DEFINE h == [i \in 0..(n + 1) |-> IF i = n + 1 THEN Inner(g[n]) ELSE g[i]]
    <3>2. h[0] = {<< t, m >>}
      BY <3>1 DEF Begins
    <3>3. ASSUME NEW i \in 0..n PROVE h[i + 1] = Inner(h[i])
      <4>1. CASE i = n
        <5>1. h[n] = g[n] /\ h[n + 1] = Inner(g[n])
          OBVIOUS
        <5> QED
          BY <4>1, <5>1
      <4>2. CASE i # n
        <5>1. i \in 0..(n - 1) /\ i + 1 \in 0..n /\ i + 1 # n + 1 /\ i # n + 1
          BY <4>2
        <5>2. h[i] = g[i] /\ h[i + 1] = g[i + 1]
          BY <5>1
        <5> QED
          BY <5>1, <5>2, <3>1 DEF Begins
      <4> QED
        BY <4>1, <4>2
    <3>4. St(h, n + 1)
      <4> HIDE DEF h
      <4> QED
        BY <3>2, <3>3 DEF Begins
    <3> QED
      BY <3>4
  <2>3. \A n \in Nat : n \in S
    <3> HIDE DEF S
    <3> QED
      BY <2>1, <2>2, Inductive
  <2> QED
    BY <2>3
<1>2. ASSUME NEW n \in Nat, NEW k \in Nat, NEW g, NEW h, St(g, n), St(h, k)
      PROVE  \A i \in Nat : i =< n /\ i =< k => g[i] = h[i]
  <2> DEFINE S == {i \in Nat : i =< n /\ i =< k => g[i] = h[i]}
  <2>1. 0 \in S
    BY <1>2 DEF Begins
  <2>2. ASSUME NEW i \in Nat, i \in S PROVE i + 1 \in S
    <3> SUFFICES ASSUME i + 1 =< n, i + 1 =< k PROVE g[i + 1] = h[i + 1]
      OBVIOUS
    <3>1. i \in 0..(n - 1) /\ i \in 0..(k - 1) /\ g[i] = h[i]
      BY <2>2
    <3> QED
      BY <3>1, <1>2 DEF Begins
  <2>3. \A i \in Nat : i \in S
    <3> HIDE DEF S
    <3> QED
      BY <2>1, <2>2, Inductive
  <2> QED
    BY <2>3
<1> DEFINE G(n) == CHOOSE g : St(g, n)
           f    == [n \in Nat |-> G(n)[n]]
<1>3. \A n \in Nat : St(G(n), n)
  BY <1>1
<1>4. ASSUME NEW n \in Nat PROVE f[n + 1] = Inner(f[n])
  <2>1. St(G(n), n) /\ St(G(n + 1), n + 1)
    BY <1>3
  <2>2. G(n + 1)[n] = G(n)[n]
    <3> HIDE DEF G, St
    <3> QED
      BY <2>1, <1>2
  <2>3. G(n + 1)[n + 1] = Inner(G(n + 1)[n])
    <3> HIDE DEF G
    <3> QED
      BY <2>1 DEF Begins
  <2>4. f[n] = G(n)[n] /\ f[n + 1] = G(n + 1)[n + 1]
    <3> HIDE DEF G
    <3> QED
      OBVIOUS
  <2> QED
    BY <2>2, <2>3, <2>4
<1>5. f[0] = x
  BY <1>3 DEF Begins
<1>6. Is(f)
  <2>1. \A n \in Nat : f[n] = IF n = 0 THEN x ELSE Inner(f[n - 1])
    <3> TAKE n \in Nat
    <3>1. n = 0 \/ (n - 1 \in Nat /\ (n - 1) + 1 = n)
      OBVIOUS
    <3> HIDE DEF f, x
    <3> QED
      BY <3>1, <1>4, <1>5
  <2>2. f = [n \in Nat |-> f[n]]
    <3> HIDE DEF G
    <3> QED
      OBVIOUS
  <2> HIDE DEF f, x
  <2> QED
    BY <2>1, <2>2
<1>7. ASSUME NEW at, Is(at) PROVE Depths(at, t, m)
  <2>1. \A n \in Nat : at[n] = IF n = 0 THEN x ELSE Inner(at[n - 1])
    BY <1>7
  <2> HIDE DEF Is
  <2>2. at[0] = x
    BY <2>1
  <2>3. ASSUME NEW n \in Nat PROVE at[n + 1] = Inner(at[n])
    <3>1. n + 1 \in Nat /\ n + 1 # 0 /\ (n + 1) - 1 = n
      OBVIOUS
    <3> HIDE DEF x
    <3> QED
      BY <3>1, <2>1
  <2> QED
    BY <2>2, <2>3 DEF Depths
<1> QED
  <2> HIDE DEF Is, f
  <2>1. Is(CHOOSE at : Is(at))
    BY <1>6
  <2> QED
    BY <1>0, <1>7, <2>1

(* A message that is not nested deeper than MaxNesting is made of finitely many levels. *)
LEMMA MessagesClosed ==
  ASSUME NEW t, NEW m, AtDepth(t, m)[MaxNesting + 1] = {},
         \A p \in MessagesIn(t, m) : Encodable(p)
  PROVE  Closed(MessagesIn(t, m)) /\ << t, m >> \in MessagesIn(t, m)
<1> DEFINE at == AtDepth(t, m)
<1>1. Depths(at, t, m)
  BY AtDepthExists
<1>2. MaxNesting \in Nat
  BY OriginAssumption
<1>3. MessagesIn(t, m) = UNION {at[n] : n \in 0..MaxNesting}
  BY DEF MessagesIn
<1>4. at[MaxNesting + 1] = {}
  OBVIOUS
<1> HIDE DEF at
<1>5. << t, m >> \in MessagesIn(t, m)
  <2>1. 0 \in 0..MaxNesting /\ << t, m >> \in at[0]
    BY <1>1, <1>2 DEF Depths
  <2> QED
    BY <1>3, <2>1
<1>6. ASSUME NEW p \in MessagesIn(t, m) PROVE Parts(p) \subseteq MessagesIn(t, m)
  <2>1. PICK n \in 0..MaxNesting : p \in at[n]
    BY <1>3
  <2>2. at[n + 1] = Inner(at[n])
    BY <1>1, <2>1 DEF Depths
  <2>3. Parts(p) \subseteq at[n + 1]
    BY <2>1, <2>2 DEF Inner
  <2>4. n + 1 \in 0..MaxNesting \/ n + 1 = MaxNesting + 1
    BY <1>2
  <2> QED
    BY <1>3, <1>4, <2>3, <2>4
<1> QED
  BY <1>5, <1>6 DEF Closed

(* Neither the buffer nor what it was made from changes. *)
LEMMA BufferStays == [Next]_vars => buf' = buf /\ origin' = origin
<1> DEFINE Same == buf' = buf /\ origin' = origin
<1>1. /\ Fail => Same
      /\ GiveUp => Same
      /\ \A s : Continue(s) => Same
      /\ \A s : Close(s) => Same
      /\ \A s, n, c : Open(s, n, c) => Same
  BY DEF Fail, GiveUp, Continue, Close, Open
<1>2. \A s, wire : Skip(s, wire) => Same
  BY <1>1 DEF Skip
<1>3. \A s, l, f, t, v : OpenString(s, l, f, t, v) => Same
  BY <1>1 DEF OpenString
<1> HIDE DEF Same
<1>4. \A s, f, wire : DecodeField(s, f, wire) => Same
  <2> TAKE s, f, wire
  <2>1. DecodeScalar(s, f) => Same
    BY <1>1 DEF DecodeScalar, OutOfMemory
  <2>2. DecodeBytes(s, f) => Same
    BY <1>1 DEF DecodeBytes, OutOfMemory
  <2>3. DecodeSubmessage(s, f) => Same
    BY <1>1, <1>3 DEF DecodeSubmessage, OutOfMemory
  <2>4. DecodeCallback(s, f, wire) => Same
    BY <1>1, <1>2, <1>3 DEF DecodeCallback
  <2> QED
    BY <1>1, <1>3, <2>1, <2>2, <2>3, <2>4 DEF DecodeField
<1>5. DecodeTag => Same
  BY <1>1, <1>2, <1>4 DEF DecodeTag
<1>6. EndMessage => Same
  <2> SUFFICES ASSUME EndMessage PROVE Same
    OBVIOUS
  <2>1. Fail \/ UNCHANGED <<buf, origin>> \/ \E s : Close(s)
    BY DEF EndMessage
  <2> QED
    BY <1>1, <2>1 DEF Same
<1>7. DecodeItem => Same
  <2> SUFFICES ASSUME DecodeItem PROVE Same
    OBVIOUS
  <2>1. Fail \/ GiveUp \/ UNCHANGED <<buf, origin>>
    BY DEF DecodeItem, OutOfMemory
  <2> QED
    BY <1>1, <2>1 DEF Same
<1>8. CallCallback => Same
  BY <1>1 DEF CallCallback
<1>9. EndString => Same
  BY <1>1 DEF EndString
<1>10. Returned \/ UNCHANGED vars => Same
  BY DEF Returned, vars, Same
<1> QED
  BY <1>5, <1>6, <1>7, <1>8, <1>9, <1>10 DEF Next, Same

(* The buffer is one of those given, and origin what it was made from. *)
Given == \E i \in Inputs : buf = i.buf /\ origin = i.origin

LEMMA GivenStays == Spec => []Given
<1>1. Init => Given
  BY DEF Init, Given
<1>2. Given /\ [Next]_vars => Given'
  BY BufferStays DEF Given
<1> QED
  BY <1>1, <1>2, PTL DEF Spec

(* For every type and every message that fits it: the size counted in the first pass is the
   size written in the second (SizeSuffices). *)
THEOREM SizeSufficesCorrect == Spec => []SizeSuffices
<1>1. ASSUME Given, origin # None PROVE Len(Encode(Root, origin)) = SizeOf(Root, origin)
  <2>1. PICK m : m = origin
    OBVIOUS
  <2> DEFINE P == MessagesIn(Root, m)
             r == << Root, m >>
  <2>2. Closed(P) /\ r \in P
    <3>1. /\ AtDepth(Root, m)[MaxNesting + 1] = {}
          /\ \A p \in MessagesIn(Root, m) : Encodable(p)
      BY <1>1, <2>1, OriginAssumption DEF Given
    <3> QED
      BY <3>1, MessagesClosed
  <2> HIDE DEF P, r
  <2>3. Len(Encodings(P)[r]) = Sizes(P)[r]
    BY <2>2, LevelsCounted DEF Counted
  <2> QED
    BY <2>1, <2>3 DEF Encode, SizeOf, P, r
<1>2. Given => SizeSuffices
  BY <1>1 DEF SizeSuffices
<1> QED
  BY <1>2, GivenStays, PTL
-----------------------------------------------------------------------------
(* The sizes and the encodings of the messages of an origin come to rest *)

LEMMA SizeDepends ==
  ASSUME NEW p, p[1] \in Types, NEW x, NEW y, \A q \in Parts(p) : x[q] = y[q]
  PROVE  SizeOfMessage(p, x) = SizeOfMessage(p, y)
<1> DEFINE o == InOrder(p[1])
<1>1. o \in Seq(Fields[p[1]])
  BY InOrderLists DEF Lists
<1>2. ASSUME NEW f \in Fields[p[1]]
      PROVE  SizeOfField(f, Items(p, f), x) = SizeOfField(f, Items(p, f), y)
  <2> DEFINE e == Items(p, f)
             n == Len(e)
  <2>1. ASSUME NEW i \in 1..n PROVE SizeOfItem(f, e[i], x) = SizeOfItem(f, e[i], y)
    <3>1. f.ltype = "SUBMESSAGE" => << f.ptr, e[i] >> \in Parts(p)
      BY DEF Parts, Items
    <3> DEFINE q == << f.ptr, e[i] >>
    <3> HIDE DEF q
    <3>2. f.ltype = "SUBMESSAGE" => x[q] = y[q]
      BY <3>1 DEF q
    <3>3. CASE f.ltype \in Packable
      BY <3>3 DEF SizeOfItem, Packable
    <3>4. CASE f.ltype = "SUBMESSAGE"
      <4>1. SizeOfItem(f, e[i], x) = 1 + x[q] /\ SizeOfItem(f, e[i], y) = 1 + y[q]
        BY <3>4 DEF SizeOfItem, Packable, q
      <4> QED
        BY <3>2, <3>4, <4>1
    <3>5. CASE f.ltype \notin Packable /\ f.ltype # "SUBMESSAGE"
      BY <3>5 DEF SizeOfItem
    <3> QED
      BY <3>3, <3>4, <3>5
  <2> HIDE DEF n, e
  <2>2. [i \in 1..n |-> 1 + SizeOfItem(f, e[i], x)] = [i \in 1..n |-> 1 + SizeOfItem(f, e[i], y)]
    BY <2>1
  <2> QED
    BY <2>2 DEF SizeOfField, n, e
<1>3. \A k \in 1..Len(o) : o[k] \in Fields[p[1]]
  BY <1>1
<1>4. SizeOfMessage(p, x) = Total([k \in 1..Len(o) |-> SizeOfField(o[k], Items(p, o[k]), x)])
  BY DEF SizeOfMessage, Items
<1>5. SizeOfMessage(p, y) = Total([k \in 1..Len(o) |-> SizeOfField(o[k], Items(p, o[k]), y)])
  BY DEF SizeOfMessage, Items
<1> HIDE DEF o
<1>6. [k \in 1..Len(o) |-> SizeOfField(o[k], Items(p, o[k]), x)]
      = [k \in 1..Len(o) |-> SizeOfField(o[k], Items(p, o[k]), y)]
  BY <1>2, <1>3
<1> QED
  BY <1>4, <1>5, <1>6

LEMMA BytesDepend ==
  ASSUME NEW p, p[1] \in Types, NEW S, NEW x, NEW y, \A q \in Parts(p) : x[q] = y[q]
  PROVE  EncodeMessage(p, S, x) = EncodeMessage(p, S, y)
<1> DEFINE o == InOrder(p[1])
<1>1. o \in Seq(Fields[p[1]])
  BY InOrderLists DEF Lists
<1>2. ASSUME NEW f \in Fields[p[1]]
      PROVE  EncodeField(f, Items(p, f), S, x) = EncodeField(f, Items(p, f), S, y)
  <2> DEFINE e == Items(p, f)
             n == Len(e)
             w == << TagUnit(f, WireType(f)) >>
  <2>1. ASSUME NEW i \in 1..n PROVE EncodeItem(f, e[i], S, x) = EncodeItem(f, e[i], S, y)
    <3>1. f.ltype = "SUBMESSAGE" => << f.ptr, e[i] >> \in Parts(p)
      BY DEF Parts, Items
    <3> DEFINE q == << f.ptr, e[i] >>
    <3> HIDE DEF q
    <3>2. f.ltype = "SUBMESSAGE" => x[q] = y[q]
      BY <3>1 DEF q
    <3>3. CASE f.ltype \in Packable
      BY <3>3 DEF EncodeItem, Packable
    <3>4. CASE f.ltype = "SUBMESSAGE"
      <4>1. /\ EncodeItem(f, e[i], S, x) = << S[q] >> \o x[q]
            /\ EncodeItem(f, e[i], S, y) = << S[q] >> \o y[q]
        BY <3>4 DEF EncodeItem, Packable, q
      <4> QED
        BY <3>2, <3>4, <4>1
    <3>5. CASE f.ltype \notin Packable /\ f.ltype # "SUBMESSAGE"
      BY <3>5 DEF EncodeItem
    <3> QED
      BY <3>3, <3>4, <3>5
  <2> HIDE DEF n, e, w
  <2>2. [i \in 1..n |-> w \o EncodeItem(f, e[i], S, x)] = [i \in 1..n |-> w \o EncodeItem(f, e[i], S, y)]
    BY <2>1
  <2> QED
    BY <2>2 DEF EncodeField, n, e, w
<1>3. \A k \in 1..Len(o) : o[k] \in Fields[p[1]]
  BY <1>1
<1>4. EncodeMessage(p, S, x) = FlattenSeq([k \in 1..Len(o) |-> EncodeField(o[k], Items(p, o[k]), S, x)])
  BY DEF EncodeMessage, Items
<1>5. EncodeMessage(p, S, y) = FlattenSeq([k \in 1..Len(o) |-> EncodeField(o[k], Items(p, o[k]), S, y)])
  BY DEF EncodeMessage, Items
<1> HIDE DEF o
<1>6. [k \in 1..Len(o) |-> EncodeField(o[k], Items(p, o[k]), S, x)]
      = [k \in 1..Len(o) |-> EncodeField(o[k], Items(p, o[k]), S, y)]
  BY <1>2, <1>3
<1> QED
  BY <1>4, <1>5, <1>6

(* A message as Encodings takes it: not nested too deep, and all it is made of can be encoded. *)
Shallow(t, m) ==
  AtDepth(t, m)[MaxNesting + 1] = {} /\ \A p \in MessagesIn(t, m) : Encodable(p)

LEMMA DepthsOfShallow ==
  ASSUME NEW t, NEW m, Shallow(t, m), NEW d \in Nat, NEW q \in AtDepth(t, m)[d]
  PROVE  /\ d =< MaxNesting /\ q \in MessagesIn(t, m) /\ q[1] \in Types
         /\ \A r \in Parts(q) : r \in AtDepth(t, m)[d + 1]
<1> DEFINE at == AtDepth(t, m)
           I  == {n \in Nat : at[MaxNesting + 1 + n] = {}}
<1>1. MaxNesting \in Nat
  BY OriginAssumption
<1>2. Depths(at, t, m)
  BY AtDepthExists
<1>3. 0 \in I
  BY <1>1 DEF Shallow
<1>4. ASSUME NEW n \in Nat, n \in I PROVE n + 1 \in I
  <2>1. MaxNesting + 1 + n \in Nat /\ (MaxNesting + 1 + n) + 1 = MaxNesting + 1 + (n + 1)
    BY <1>1
  <2>2. at[(MaxNesting + 1 + n) + 1] = Inner(at[MaxNesting + 1 + n])
    <3> HIDE DEF at
    <3> QED
      BY <1>2, <2>1 DEF Depths
  <2>3. Inner({}) = {}
    BY DEF Inner
  <2>4. at[MaxNesting + 1 + n] = {}
    BY <1>4
  <2> HIDE DEF at
  <2>5. at[(MaxNesting + 1 + n) + 1] = {}
    BY <2>2, <2>3, <2>4
  <2>6. at[MaxNesting + 1 + (n + 1)] = {}
    BY <2>1, <2>5
  <2> QED
    BY <2>6
<1>5. \A n \in Nat : n \in I
  <2> HIDE DEF I
  <2> QED
    BY <1>3, <1>4, Inductive
<1>6. d =< MaxNesting
  <2> SUFFICES ASSUME ~(d =< MaxNesting) PROVE FALSE
    OBVIOUS
  <2>1. d - (MaxNesting + 1) \in Nat /\ MaxNesting + 1 + (d - (MaxNesting + 1)) = d
    BY <1>1
  <2> DEFINE n == d - (MaxNesting + 1)
  <2>2. n \in I /\ MaxNesting + 1 + n = d
    <3> HIDE DEF I
    <3> QED
      BY <1>5, <2>1
  <2> HIDE DEF n
  <2> QED
    BY <2>2
<1>7. q \in MessagesIn(t, m)
  BY <1>1, <1>6 DEF MessagesIn
<1>8. at[d + 1] = Inner(at[d])
  <2> HIDE DEF at
  <2> QED
    BY <1>2 DEF Depths
<1> QED
  BY <1>6, <1>7, <1>8 DEF Inner, Shallow, Encodable

LEMMA SizesRest ==
  ASSUME NEW t, NEW m, Shallow(t, m), NEW p \in MessagesIn(t, m)
  PROVE  Sizes(MessagesIn(t, m))[p] = SizeOfMessage(p, Sizes(MessagesIn(t, m)))
<1> DEFINE at == AtDepth(t, m)
           P  == MessagesIn(t, m)
           M  == MaxNesting + 1
<1>1. MaxNesting \in Nat /\ M \in Nat
  BY OriginAssumption
<1>2. Closed(P)
  BY MessagesClosed DEF Shallow
<1>3. PICK s : SizeLevels(s, P) /\ Sizes(P) = s[M]
  BY <1>2, SizesByLevel
<1>4. \A d \in Nat : \A q \in at[d] : d < M /\ q \in P /\ q[1] \in Types /\ \A r \in Parts(q) : r \in at[d + 1]
  BY <1>1, DepthsOfShallow
<1>5. PICK c \in Nat : p \in at[c]
  BY <1>1 DEF MessagesIn
<1> HIDE DEF at, P
<1> DEFINE I == {n \in Nat : \A d \in Nat : n + d >= M => \A q \in at[d] : s[n][q] = s[n + 1][q]}
<1>6. 0 \in I
  BY <1>1, <1>4
<1>7. ASSUME NEW n \in Nat, n \in I PROVE n + 1 \in I
  <2> SUFFICES ASSUME NEW d \in Nat, (n + 1) + d >= M, NEW q \in at[d]
               PROVE  s[n + 1][q] = s[(n + 1) + 1][q]
    OBVIOUS
  <2>1. n + (d + 1) >= M /\ d + 1 \in Nat /\ n + 1 \in Nat
    BY <1>1
  <2>2. \A r \in at[d + 1] : s[n][r] = s[n + 1][r]
    BY <1>7, <2>1
  <2>3. q \in P /\ q[1] \in Types /\ \A r \in Parts(q) : s[n][r] = s[n + 1][r]
    BY <1>4, <2>2
  <2>4. SizeOfMessage(q, s[n]) = SizeOfMessage(q, s[n + 1])
    BY <2>3, SizeDepends
  <2>5. s[n + 1][q] = SizeOfMessage(q, s[n]) /\ s[(n + 1) + 1][q] = SizeOfMessage(q, s[n + 1])
    BY <1>3, <2>1, <2>3 DEF SizeLevels
  <2> QED
    BY <2>4, <2>5
<1>8. M \in I
  <2> HIDE DEF I, M
  <2> QED
    BY <1>1, <1>6, <1>7, Inductive
<1>9. M + c >= M
  BY <1>1
<1>10. s[M][p] = s[M + 1][p]
  BY <1>5, <1>8, <1>9
<1>11. s[M + 1][p] = SizeOfMessage(p, s[M])
  <2> HIDE DEF M
  <2> QED
    BY <1>1, <1>3, <1>4, <1>5 DEF SizeLevels
<1> HIDE DEF M
<1> QED
  BY <1>3, <1>10, <1>11 DEF P

LEMMA EncodingsRest ==
  ASSUME NEW t, NEW m, Shallow(t, m), NEW p \in MessagesIn(t, m)
  PROVE  Encodings(MessagesIn(t, m))[p]
           = EncodeMessage(p, Sizes(MessagesIn(t, m)), Encodings(MessagesIn(t, m)))
<1> DEFINE at == AtDepth(t, m)
           P  == MessagesIn(t, m)
           S  == Sizes(P)
           M  == MaxNesting + 1
<1>1. MaxNesting \in Nat /\ M \in Nat
  BY OriginAssumption
<1>2. Closed(P)
  BY MessagesClosed DEF Shallow
<1>3. PICK b : BytesLevels(b, P) /\ Encodings(P) = b[M]
  BY <1>2, BytesByLevel
<1>4. \A d \in Nat : \A q \in at[d] : d < M /\ q \in P /\ q[1] \in Types /\ \A r \in Parts(q) : r \in at[d + 1]
  BY <1>1, DepthsOfShallow
<1>5. PICK c \in Nat : p \in at[c]
  BY <1>1 DEF MessagesIn
<1> HIDE DEF at, P
<1> DEFINE I == {n \in Nat : \A d \in Nat : n + d >= M => \A q \in at[d] : b[n][q] = b[n + 1][q]}
<1>6. 0 \in I
  BY <1>1, <1>4
<1>7. ASSUME NEW n \in Nat, n \in I PROVE n + 1 \in I
  <2> SUFFICES ASSUME NEW d \in Nat, (n + 1) + d >= M, NEW q \in at[d]
               PROVE  b[n + 1][q] = b[(n + 1) + 1][q]
    OBVIOUS
  <2>1. n + (d + 1) >= M /\ d + 1 \in Nat /\ n + 1 \in Nat
    BY <1>1
  <2>2. \A r \in at[d + 1] : b[n][r] = b[n + 1][r]
    BY <1>7, <2>1
  <2>3. q \in P /\ q[1] \in Types /\ \A r \in Parts(q) : b[n][r] = b[n + 1][r]
    BY <1>4, <2>2
  <2> HIDE DEF S
  <2>4. EncodeMessage(q, S, b[n]) = EncodeMessage(q, S, b[n + 1])
    BY <2>3, BytesDepend
  <2>5. b[n + 1][q] = EncodeMessage(q, S, b[n]) /\ b[(n + 1) + 1][q] = EncodeMessage(q, S, b[n + 1])
    BY <1>3, <2>1, <2>3 DEF BytesLevels, S
  <2> QED
    BY <2>4, <2>5
<1>8. M \in I
  <2> HIDE DEF I, M
  <2> QED
    BY <1>1, <1>6, <1>7, Inductive
<1>9. M + c >= M
  BY <1>1
<1>10. b[M][p] = b[M + 1][p]
  BY <1>5, <1>8, <1>9
<1>11. b[M + 1][p] = EncodeMessage(p, S, b[M])
  <2> HIDE DEF M
  <2> QED
    BY <1>1, <1>3, <1>4, <1>5 DEF BytesLevels
<1> HIDE DEF M
<1> QED
  BY <1>3, <1>10, <1>11 DEF P, S
-----------------------------------------------------------------------------
(* Where the parts of a message lie in the buffer *)

(* u stands in b behind the first a units. *)
Placed(b, a, u) ==
  a \in Nat /\ u \in Seq(Nat) /\ a + Len(u) =< Len(b) /\ \A x \in 1..Len(u) : b[a + x] = u[x]

(* The n sequences of seqs stand in b behind the first a units, each at its offset. *)
Parted(b, a, seqs, n, off, size) ==
  /\ off[0] = 0 /\ off[n] = size
  /\ \A k \in 0..n : off[k] \in Nat /\ off[k] =< size
  /\ \A k \in Nat : k + 1 =< n =>
       Placed(b, a + off[k], seqs[k + 1]) /\ off[k + 1] = off[k] + Len(seqs[k + 1])

LEMMA PlacedParts ==
  ASSUME NEW b, NEW seqs \in Seq(Seq(Nat)), NEW flat, NEW off, Laid(flat, seqs, off),
         NEW a, Placed(b, a, flat), Len(b) \in Nat
  PROVE  Parted(b, a, seqs, Len(seqs), off, Len(flat))
<1> DEFINE n == Len(seqs)
<1>1. /\ n \in Nat /\ Lens(seqs) \in Seq(Nat) /\ Len(Lens(seqs)) = n
      /\ \A k \in 1..n : Lens(seqs)[k] = Len(seqs[k]) /\ seqs[k] \in Seq(Nat)
  BY LensAreNumbers
<1>2. Offsets(off, Lens(seqs)) /\ Lays(flat, seqs, off, n)
  BY DEF Laid
<1>3. off \in [0..n -> Nat] /\ off[0] = 0 /\ off[n] = Len(flat)
  BY <1>1, <1>2 DEF Offsets, Lays
<1> HIDE DEF n
<1>4. \A k \in 0..n : off[k] \in Nat /\ off[k] =< Len(flat)
  <2>1. \A k \in 0..n : off[k] =< off[n]
    <3>1. \A k \in 0..n : \A j \in 0..k : off[j] =< off[k]
      BY <1>1, <1>2, OffsetsGrow
    <3>2. n \in 0..n
      BY <1>1
    <3> QED
      BY <3>1, <3>2
  <2> QED
    BY <1>3, <2>1
<1>5. ASSUME NEW k \in Nat, k + 1 =< n
      PROVE  Placed(b, a + off[k], seqs[k + 1]) /\ off[k + 1] = off[k] + Len(seqs[k + 1])
  <2> DEFINE u == seqs[k + 1]
             o == off[k]
  <2>1. k + 1 \in 1..n /\ (k + 1) - 1 = k /\ k \in 0..n /\ k + 1 \in 0..n
    BY <1>1, <1>5
  <2>2. off[k + 1] = o + Len(u) /\ u \in Seq(Nat) /\ o \in Nat /\ off[k + 1] =< Len(flat)
    BY <1>1, <1>2, <1>3, <1>4, <2>1 DEF Offsets
  <2>3. \A x \in 1..Len(u) : flat[o + x] = u[x]
    BY <1>2, <2>1 DEF Lays
  <2>4. a \in Nat /\ flat \in Seq(Nat) /\ a + Len(flat) =< Len(b) /\ \A x \in 1..Len(flat) : b[a + x] = flat[x]
    BY DEF Placed
  <2> HIDE DEF u, o
  <2>5. Len(u) \in Nat /\ Len(flat) \in Nat /\ o + Len(u) =< Len(flat)
    BY <2>2, <2>4
  <2>6. ASSUME NEW x \in 1..Len(u) PROVE b[(a + o) + x] = u[x]
    <3>1. o + x \in 1..Len(flat) /\ (a + o) + x = a + (o + x)
      BY <2>2, <2>4, <2>5
    <3> QED
      BY <2>3, <2>4, <3>1
  <2>7. a + o \in Nat /\ (a + o) + Len(u) =< Len(b)
    BY <2>2, <2>4, <2>5
  <2> QED
    BY <2>2, <2>6, <2>7 DEF Placed, u, o
<1> QED
  BY <1>3, <1>4, <1>5 DEF n, Parted

LEMMA PlacedConcat ==
  ASSUME NEW b, NEW a, NEW u \in Seq(Nat), NEW v \in Seq(Nat), Placed(b, a, u \o v), Len(b) \in Nat
  PROVE  /\ Placed(b, a, u) /\ Placed(b, a + Len(u), v)
         /\ a + Len(u) + Len(v) =< Len(b) /\ Len(u \o v) = Len(u) + Len(v)
<1> DEFINE c == u \o v
<1>1. \A T : \A d, e \in Seq(T) :
        /\ d \o e \in Seq(T) /\ Len(d \o e) = Len(d) + Len(e)
        /\ \A i \in 1..Len(d) : (d \o e)[i] = d[i]
        /\ \A i \in 1..Len(e) : (d \o e)[Len(d) + i] = e[i]
  BY Behind
<1>2. /\ c \in Seq(Nat) /\ Len(c) = Len(u) + Len(v)
      /\ \A i \in 1..Len(u) : c[i] = u[i]
      /\ \A i \in 1..Len(v) : c[Len(u) + i] = v[i]
  BY <1>1
<1>3. a \in Nat /\ a + Len(c) =< Len(b) /\ \A x \in 1..Len(c) : b[a + x] = c[x]
  BY DEF Placed
<1> HIDE DEF c
<1>4. Len(u) \in Nat /\ Len(v) \in Nat
  OBVIOUS
<1>5. ASSUME NEW x \in 1..Len(u) PROVE b[a + x] = u[x]
  <2>1. x \in 1..Len(c)
    BY <1>2, <1>4
  <2> QED
    BY <1>2, <1>3, <2>1
<1>6. ASSUME NEW x \in 1..Len(v) PROVE b[(a + Len(u)) + x] = v[x]
  <2>1. Len(u) + x \in 1..Len(c) /\ (a + Len(u)) + x = a + (Len(u) + x)
    BY <1>2, <1>3, <1>4
  <2> QED
    BY <1>2, <1>3, <2>1
<1>7. a + Len(u) \in Nat /\ a + Len(u) =< Len(b) /\ a + Len(u) + Len(v) =< Len(b)
  BY <1>2, <1>3, <1>4
<1>8. Placed(b, a, u) /\ Placed(b, a + Len(u), v)
  BY <1>3, <1>5, <1>6, <1>7 DEF Placed
<1> QED
  BY <1>2, <1>7, <1>8 DEF c

(* One unit, and what stands behind it. *)
LEMMA PlacedUnit ==
  ASSUME NEW b, NEW a, NEW x \in Nat, NEW v \in Seq(Nat), Placed(b, a, << x >> \o v), Len(b) \in Nat
  PROVE  /\ b[a + 1] = x /\ Placed(b, a + 1, v) /\ a \in Nat /\ a + 1 + Len(v) =< Len(b)
         /\ Len(<< x >> \o v) = 1 + Len(v)
<1> DEFINE u == << x >>
<1>1. u \in Seq(Nat) /\ Len(u) = 1 /\ u[1] = x /\ 1 \in 1..1
  OBVIOUS
<1>0. Placed(b, a, u \o v)
  OBVIOUS
<1> HIDE DEF u
<1>2. /\ Placed(b, a, u) /\ Placed(b, a + Len(u), v) /\ a + Len(u) + Len(v) =< Len(b)
      /\ Len(u \o v) = Len(u) + Len(v)
  <2>1. \A p, q \in Seq(Nat) : Placed(b, a, p \o q) =>
          /\ Placed(b, a, p) /\ Placed(b, a + Len(p), q) /\ a + Len(p) + Len(q) =< Len(b)
          /\ Len(p \o q) = Len(p) + Len(q)
    BY PlacedConcat
  <2> QED
    BY <1>0, <1>1, <2>1
<1>3. b[a + 1] = u[1] /\ a \in Nat
  BY <1>1, <1>2 DEF Placed
<1> QED
  BY <1>1, <1>2, <1>3 DEF u

(* One unit more. *)
LEMMA LengthOfUnit ==
  ASSUME NEW x \in Nat, NEW v \in Seq(Nat)
  PROVE  Len(<< x >> \o v) = 1 + Len(v)
<1> DEFINE u == << x >>
<1>1. u \in Seq(Nat) /\ Len(u) = 1
  OBVIOUS
<1> HIDE DEF u
<1>2. \A T : \A d, e \in Seq(T) : Len(d \o e) = Len(d) + Len(e)
  BY Behind
<1>3. Len(u \o v) = Len(u) + Len(v)
  BY <1>1, <1>2
<1> QED
  BY <1>1, <1>3 DEF u

-----------------------------------------------------------------------------
(* A buffer with an encoding *)

(* C.P: messages with those in them; C.S: their sizes; C.B: their encodings; C.b: the buffer. *)
Code(C) ==
  /\ Closed(C.P) /\ Counted(C.P, C.S, C.B)
  /\ \A p \in C.P : C.B[p] = EncodeMessage(p, C.S, C.B)
  /\ C.b \in Seq(Nat)

(* The fields of p, and their items, in the order they are written. *)
Count(p)      == Len(InOrder(p[1]))
FieldAt(p, i) == InOrder(p[1])[i]
ItemsAt(p, i) == Items(p, FieldAt(p, i))

(* The field is written as a packed array. *)
IsPacked(p, i) == Packed(FieldAt(p, i)) /\ ItemsAt(p, i) # << >>

(* Where the sections of p and the pieces of one of them begin. *)
SectionStarts(C, p) ==
  CHOOSE off : Laid(FlattenSeq(Sections(p, C.S, C.B)), Sections(p, C.S, C.B), off)

(* ... the items of its field i, with their tags. *)
PieceStarts(C, p, i) ==
  CHOOSE off : Laid(FlattenSeq(Pieces(p, FieldAt(p, i), C.S, C.B)),
                    Pieces(p, FieldAt(p, i), C.S, C.B), off)

(* ... the entries of its packed array i. *)
ScalarStarts(p, i) ==
  CHOOSE off : Laid(FlattenSeq(Scalars(FieldAt(p, i), ItemsAt(p, i))),
                    Scalars(FieldAt(p, i), ItemsAt(p, i)), off)

(* How far pb_decode has come in p, which lies behind the first a units, when it has read k
   fields and j items of the next one. *)
Rest(C, p, a, k, j) ==
  a + SectionStarts(C, p)[k] + (IF j = 0 THEN 0 ELSE PieceStarts(C, p, k + 1)[j])

(* The item v of the field f stands behind the first c units, and ends before limit. *)
PieceAt(C, f, v, c, d, limit) ==
  /\ c \in Nat /\ d \in Nat /\ d = c + 1 + Len(EncodeItem(f, v, C.S, C.B)) /\ d =< limit
  /\ C.b[c + 1] = TagUnit(f, WireType(f)) /\ Placed(C.b, c + 1, EncodeItem(f, v, C.S, C.B))

(* The packed array of the items e stands there. *)
PackedAt(C, f, e, off, c, d, limit) ==
  /\ c \in Nat /\ d \in Nat /\ C.b[c + 2] \in Nat /\ d = c + 2 + C.b[c + 2] /\ d =< limit
  /\ C.b[c + 1] = TagUnit(f, PB_WT_STRING)
  /\ Parted(C.b, c + 2, Scalars(f, e), Len(e), off, C.b[c + 2])

(* The fields of a message of the code, in the order of their tags. *)
LEMMA FieldsOfMessage ==
  ASSUME NEW C, Code(C), NEW p \in C.P
  PROVE  /\ Encodable(p) /\ p[1] \in Types /\ Count(p) \in Nat
         /\ \A i \in 1..Count(p) : FieldAt(p, i) \in Fields[p[1]] /\ Len(ItemsAt(p, i)) \in Nat
         /\ \A f \in Fields[p[1]] : \E i \in 1..Count(p) : FieldAt(p, i) = f
         /\ \A i, j \in 1..Count(p) : FieldAt(p, i).tag = FieldAt(p, j).tag => i = j
<1>1. Encodable(p) /\ p[1] \in Types
  BY DEF Code, Closed, Encodable
<1>2. Lists(InOrder(p[1]), Fields[p[1]])
  BY <1>1, InOrderLists
<1>3. /\ Count(p) \in Nat
      /\ \A i \in 1..Count(p) : FieldAt(p, i) \in Fields[p[1]]
      /\ \A f \in Fields[p[1]] : \E i \in 1..Count(p) : FieldAt(p, i) = f
      /\ \A i, j \in 1..Count(p) : FieldAt(p, i) = FieldAt(p, j) => i = j
  BY <1>2 DEF Lists, Count, FieldAt
<1>4. \A f, g \in Fields[p[1]] : f.tag = g.tag => f = g
  BY <1>1, FieldsOfType
<1>5. \A i \in 1..Count(p) : Len(ItemsAt(p, i)) \in Nat
  BY <1>1, <1>3, ItemsFit DEF ItemsAt
<1> QED
  BY <1>1, <1>3, <1>4, <1>5

(* The offsets chosen above are offsets. *)
LEMMA LaidSomewhere ==
  ASSUME NEW s \in Seq(Seq(Nat))
  PROVE  Laid(FlattenSeq(s), s, CHOOSE off : Laid(FlattenSeq(s), s, off))
<1>1. \E off : Laid(FlattenSeq(s), s, off)
  BY FlattenLays
<1> QED
  BY <1>1

(* The sections of a message in the buffer. *)
LEMMA SectionsPlaced ==
  ASSUME NEW C, Code(C), NEW p \in C.P, NEW a, Placed(C.b, a, C.B[p])
  PROVE  /\ a \in Nat /\ Len(C.B[p]) \in Nat /\ a + Len(C.B[p]) =< Len(C.b) /\ Len(C.b) \in Nat
         /\ Parted(C.b, a, Sections(p, C.S, C.B), Count(p), SectionStarts(C, p), Len(C.B[p]))
<1> DEFINE s   == Sections(p, C.S, C.B)
           off == SectionStarts(C, p)
<1>1. Closed(C.P) /\ Counted(C.P, C.S, C.B) /\ C.S \in [C.P -> Nat] /\ C.B[p] = EncodeMessage(p, C.S, C.B)
  BY DEF Code, Counted
<1>2. s \in Seq(Seq(Nat)) /\ Len(s) = Count(p) /\ C.B[p] = FlattenSeq(s)
  BY <1>1, SectionsCounted DEF Count
<1>3. Laid(C.B[p], s, off)
  <2>1. Laid(FlattenSeq(s), s, off)
    BY <1>2, LaidSomewhere DEF SectionStarts
  <2> QED
    BY <1>2, <2>1
<1>4. Len(C.b) \in Nat
  BY DEF Code
<1> HIDE DEF s, off
<1>5. Parted(C.b, a, s, Count(p), off, Len(C.B[p]))
  BY <1>2, <1>3, <1>4, PlacedParts
<1> QED
  BY <1>4, <1>5 DEF s, off, Placed

(* The section of the k-th field. *)
LEMMA SectionPlaced ==
  ASSUME NEW C, Code(C), NEW p \in C.P, NEW a, Placed(C.b, a, C.B[p]), NEW k \in Nat, k + 1 =< Count(p)
  PROVE  LET u == EncodeField(FieldAt(p, k + 1), ItemsAt(p, k + 1), C.S, C.B)
         IN /\ Rest(C, p, a, k, 0) \in Nat /\ Rest(C, p, a, k + 1, 0) \in Nat
            /\ Rest(C, p, a, k + 1, 0) = Rest(C, p, a, k, 0) + Len(u)
            /\ Rest(C, p, a, k + 1, 0) =< a + Len(C.B[p])
            /\ Placed(C.b, Rest(C, p, a, k, 0), u)
<1> DEFINE s   == Sections(p, C.S, C.B)
           off == SectionStarts(C, p)
           u   == EncodeField(FieldAt(p, k + 1), ItemsAt(p, k + 1), C.S, C.B)
<1>1. a \in Nat /\ Len(C.B[p]) \in Nat /\ Parted(C.b, a, s, Count(p), off, Len(C.B[p]))
  BY SectionsPlaced
<1>2. Count(p) \in Nat
  BY FieldsOfMessage
<1>3. s[k + 1] = u
  <2>1. k + 1 \in 1..Count(p)
    BY <1>2
  <2> QED
    BY <2>1 DEF Sections, Count, FieldAt, ItemsAt
<1> HIDE DEF s, u
<1>4. k \in 0..Count(p) /\ k + 1 \in 0..Count(p)
  BY <1>2
<1>5. /\ off[k] \in Nat /\ off[k + 1] \in Nat /\ off[k + 1] =< Len(C.B[p])
      /\ Placed(C.b, a + off[k], u) /\ off[k + 1] = off[k] + Len(u)
  BY <1>1, <1>3, <1>4 DEF Parted
<1>6. Rest(C, p, a, k, 0) = a + off[k] /\ Rest(C, p, a, k + 1, 0) = a + off[k + 1]
  <2> HIDE DEF off
  <2>1. \A x \in Nat : a + x + 0 = a + x
    BY <1>1
  <2> QED
    BY <1>5, <2>1 DEF Rest, off
<1>7. Len(u) \in Nat
  BY <1>5 DEF Placed
<1> HIDE DEF off
<1>8. a + off[k + 1] = (a + off[k]) + Len(u) /\ a + off[k + 1] =< a + Len(C.B[p])
  BY <1>1, <1>5, <1>7
<1> QED
  BY <1>1, <1>5, <1>6, <1>8 DEF u

(* The items of a field that is not packed. *)
LEMMA ItemsPlaced ==
  ASSUME NEW C, Code(C), NEW p \in C.P, NEW a, Placed(C.b, a, C.B[p]), NEW k \in Nat, k + 1 =< Count(p),
         ~IsPacked(p, k + 1)
  PROVE  /\ Rest(C, p, a, k, Len(ItemsAt(p, k + 1))) = Rest(C, p, a, k + 1, 0)
         /\ \A j \in Nat : j < Len(ItemsAt(p, k + 1)) =>
              PieceAt(C, FieldAt(p, k + 1), ItemsAt(p, k + 1)[j + 1],
                      Rest(C, p, a, k, j), Rest(C, p, a, k, j + 1), a + Len(C.B[p]))
<1> DEFINE f     == FieldAt(p, k + 1)
           e     == ItemsAt(p, k + 1)
           n     == Len(e)
           u     == EncodeField(f, e, C.S, C.B)
           s     == Pieces(p, f, C.S, C.B)
           off   == PieceStarts(C, p, k + 1)
           c     == Rest(C, p, a, k, 0)
           w     == TagUnit(f, WireType(f))
           it(j) == EncodeItem(f, e[j], C.S, C.B)
           R(j)  == Rest(C, p, a, k, j)
           limit == a + Len(C.B[p])
           last  == Rest(C, p, a, k + 1, 0)
<1>1. c \in Nat /\ last \in Nat /\ last = c + Len(u) /\ last =< limit /\ Placed(C.b, c, u)
  BY SectionPlaced
<1>2. k + 1 \in 1..Count(p) /\ Encodable(p) /\ p[1] \in Types /\ f \in Fields[p[1]] /\ n \in Nat
  BY FieldsOfMessage
<1>3. Closed(C.P) /\ Counted(C.P, C.S, C.B) /\ C.S \in [C.P -> Nat] /\ Len(C.b) \in Nat
  BY DEF Code, Counted
<1>4. s \in Seq(Seq(Nat)) /\ Len(s) = n
  <2>1. TaggedItems(s, f, Items(p, f), C.S)
    BY <1>2, <1>3, PiecesCounted
  <2> HIDE DEF s
  <2> QED
    BY <2>1 DEF TaggedItems, ItemsAt
<1>5. u = FlattenSeq(s)
  BY DEF EncodeField, Pieces, IsPacked, ItemsAt
<1>6. \A j \in 1..n : s[j] = << w >> \o it(j)
  BY DEF Pieces, ItemsAt
<1>7. w \in Nat
  BY <1>2, TagUnits
<1>8. \A j \in 1..n : it(j) \in Seq(Nat)
  <2>1. \A j \in 1..Len(Items(p, f)) : EncodeItem(f, Items(p, f)[j], C.S, C.B) \in Seq(Nat)
    BY <1>2, <1>3, ItemCounted
  <2> QED
    BY <2>1 DEF ItemsAt
<1>9. Laid(FlattenSeq(s), s, off)
  <2>1. \A q \in Seq(Seq(Nat)) : Laid(FlattenSeq(q), q, CHOOSE x : Laid(FlattenSeq(q), q, x))
    BY LaidSomewhere
  <2>2. off = CHOOSE x : Laid(FlattenSeq(s), s, x)
    BY DEF PieceStarts
  <2> HIDE DEF s, off
  <2> QED
    BY <1>4, <2>1, <2>2
<1>10. Parted(C.b, c, s, n, off, Len(u))
  <2> HIDE DEF s, off, u, n, c
  <2> QED
    BY <1>1, <1>3, <1>4, <1>5, <1>9, PlacedParts
<1>11. Len(u) \in Nat
  BY <1>1 DEF Placed
<1>12. \A j \in 0..n : off[j] \in Nat /\ off[j] =< Len(u) /\ R(j) = c + off[j]
  <2> TAKE j \in 0..n
  <2>1. off[0] = 0 /\ off[j] \in Nat /\ off[j] =< Len(u)
    BY <1>10 DEF Parted
  <2>2. PICK o : o = a + SectionStarts(C, p)[k]
    OBVIOUS
  <2>3. c = o + 0 /\ R(j) = o + (IF j = 0 THEN 0 ELSE off[j])
    BY <2>2 DEF Rest
  <2>4. o \in Nat
    <3>1. a \in Nat /\ Parted(C.b, a, Sections(p, C.S, C.B), Count(p), SectionStarts(C, p), Len(C.B[p])) /\ Count(p) \in Nat
      BY SectionsPlaced, FieldsOfMessage
    <3>2. SectionStarts(C, p)[k] \in Nat
      <4>1. k \in 0..Count(p)
        BY <3>1
      <4> QED
        BY <3>1, <4>1 DEF Parted
    <3> QED
      BY <2>2, <3>1, <3>2
  <2> HIDE DEF R, c, off
  <2> QED
    BY <2>1, <2>3, <2>4
<1> HIDE DEF f, e, u, s, off, c, w, it, R, limit, last
<1>13. R(n) = last
  <2>1. off[n] = Len(u) /\ n \in 0..n
    BY <1>2, <1>10 DEF Parted
  <2> QED
    BY <1>1, <1>12, <2>1
<1>14. ASSUME NEW j \in Nat, j < n PROVE PieceAt(C, f, e[j + 1], R(j), R(j + 1), limit)
  <2>1. j \in 0..n /\ j + 1 \in 0..n /\ j + 1 \in 1..n /\ j + 1 =< n
    BY <1>2, <1>14
  <2>2. Placed(C.b, c + off[j], s[j + 1]) /\ off[j + 1] = off[j] + Len(s[j + 1])
    BY <1>10, <2>1 DEF Parted
  <2> DEFINE x == it(j + 1)
             d == c + off[j]
  <2>3. s[j + 1] = << w >> \o x /\ x \in Seq(Nat)
    BY <1>6, <1>8, <2>1
  <2>4. R(j) = d /\ R(j + 1) = c + off[j + 1] /\ off[j] \in Nat /\ off[j + 1] \in Nat /\ off[j + 1] =< Len(u)
    BY <1>12, <2>1
  <2>5. d \in Nat
    BY <1>1, <2>4
  <2> HIDE DEF x
  <2>6. Placed(C.b, d, << w >> \o x)
    BY <2>2, <2>3
  <2> HIDE DEF d
  <2>7. C.b[d + 1] = w /\ Placed(C.b, d + 1, x) /\ Len(<< w >> \o x) = 1 + Len(x)
    <3>1. \A y \in Nat : \A v \in Seq(Nat) : Placed(C.b, d, << y >> \o v) =>
            C.b[d + 1] = y /\ Placed(C.b, d + 1, v) /\ Len(<< y >> \o v) = 1 + Len(v)
      <4>1. Len(C.b) \in Nat
        BY <1>3
      <4> TAKE y \in Nat
      <4> TAKE v \in Seq(Nat)
      <4> HAVE Placed(C.b, d, << y >> \o v)
      <4>2. Placed(C.b, d + 1, v)
        BY <4>1, PlacedUnit, Zenon
      <4>3. C.b[d + 1] = y
        BY <4>1, PlacedUnit, Zenon
      <4> QED
        BY <4>2, <4>3, LengthOfUnit
    <3> QED
      BY <1>7, <2>3, <2>6, <3>1
  <2>8. Len(x) \in Nat
    BY <2>3
  <2>9. R(j + 1) = d + 1 + Len(x) /\ R(j + 1) \in Nat /\ R(j + 1) =< limit
    <3>1. off[j + 1] = off[j] + (1 + Len(x))
      BY <2>2, <2>3, <2>7
    <3>2. d = c + off[j]
      BY DEF d
    <3>3. limit \in Nat
      <4>1. a \in Nat /\ Len(C.B[p]) \in Nat
        BY SectionsPlaced
      <4> QED
        BY <4>1 DEF limit
    <3>4. \A g, o, q, z, l, m \in Nat : q = o + (1 + z) /\ q =< l /\ g + l =< m =>
            g + q = (g + o) + 1 + z /\ g + q \in Nat /\ g + q =< m
      OBVIOUS
    <3>5. c + Len(u) =< limit
      BY <1>1
    <3>6. /\ c + off[j + 1] = (c + off[j]) + 1 + Len(x)
          /\ c + off[j + 1] \in Nat /\ c + off[j + 1] =< limit
      <4>1. PICK g, o, q, z, l, m \in Nat : g = c /\ o = off[j] /\ q = off[j + 1] /\ z = Len(x) /\ l = Len(u) /\ m = limit
        BY <1>1, <1>11, <2>4, <2>8, <3>3
      <4>2. q = o + (1 + z) /\ q =< l /\ g + l =< m
        BY <2>4, <3>1, <3>5, <4>1
      <4>3. g + q = (g + o) + 1 + z /\ g + q \in Nat /\ g + q =< m
        BY <4>2, <3>4
      <4> QED
        BY <4>1, <4>3
    <3> QED
      BY <2>4, <3>2, <3>6
  <2>10. x = EncodeItem(f, e[j + 1], C.S, C.B)
    BY DEF x, it
  <2>11. w = TagUnit(f, WireType(f))
    BY DEF w
  <2> QED
    BY <2>4, <2>5, <2>7, <2>9, <2>10, <2>11 DEF PieceAt
<1> QED
  BY <1>13, <1>14 DEF f, e, R, limit, last

(* The packed array of a field. *)
LEMMA PackedPlaced ==
  ASSUME NEW C, Code(C), NEW p \in C.P, NEW a, Placed(C.b, a, C.B[p]), NEW k \in Nat, k + 1 =< Count(p),
         IsPacked(p, k + 1)
  PROVE  PackedAt(C, FieldAt(p, k + 1), ItemsAt(p, k + 1), ScalarStarts(p, k + 1),
                  Rest(C, p, a, k, 0), Rest(C, p, a, k + 1, 0), a + Len(C.B[p]))
<1> DEFINE f     == FieldAt(p, k + 1)
           e     == ItemsAt(p, k + 1)
           n     == SizeOfPacked(f, e)
           s     == Scalars(f, e)
           v     == FlattenSeq(s)
           w     == TagUnit(f, PB_WT_STRING)
           u     == EncodeField(f, e, C.S, C.B)
           off   == ScalarStarts(p, k + 1)
           c     == Rest(C, p, a, k, 0)
           last  == Rest(C, p, a, k + 1, 0)
<1>1. /\ c \in Nat /\ last \in Nat /\ last = c + Len(u) /\ last =< a + Len(C.B[p]) /\ Placed(C.b, c, u)
  BY SectionPlaced
<1>2. k + 1 \in 1..Count(p) /\ Encodable(p) /\ p[1] \in Types /\ f \in Fields[p[1]] /\ Len(C.b) \in Nat
  BY FieldsOfMessage DEF Code
<1>3. e \in Seq(Nat) /\ f.ltype \in Packable
  BY <1>2, ItemsFit DEF IsPacked, Packed, ItemsAt
<1>4. s \in Seq(Seq(Nat)) /\ Len(s) = Len(e) /\ v \in Seq(Nat) /\ n \in Nat /\ Len(v) = n
  <2> HIDE DEF e, f
  <2> QED
    BY <1>3, PackedCounted
<1>5. w \in Nat
  BY <1>2, TagUnits
<1>6. u = << w, n >> \o v
  BY DEF IsPacked, EncodeField, Scalars
<1>7. Laid(v, s, off)
  <2>1. \A q \in Seq(Seq(Nat)) : Laid(FlattenSeq(q), q, CHOOSE x : Laid(FlattenSeq(q), q, x))
    BY LaidSomewhere
  <2>2. off = CHOOSE x : Laid(FlattenSeq(s), s, x)
    BY DEF ScalarStarts
  <2> HIDE DEF s, off
  <2> QED
    BY <1>4, <2>1, <2>2
<1> HIDE DEF f, e, n, s, v, w, u, off, c, last
<1> DEFINE x == << w, n >>
<1>8. x \in Seq(Nat) /\ Len(x) = 2 /\ x[1] = w /\ x[2] = n /\ 1 \in 1..2 /\ 2 \in 1..2
  BY <1>4, <1>5
<1>9. u = x \o v
  BY <1>6
<1> HIDE DEF x
<1>10. Placed(C.b, c, x) /\ Placed(C.b, c + 2, v) /\ Len(u) = 2 + n
  <2>1. Placed(C.b, c, x \o v)
    BY <1>1, <1>9
  <2>2. Placed(C.b, c, x) /\ Placed(C.b, c + Len(x), v) /\ Len(x \o v) = Len(x) + Len(v)
    <3>1. \A q, r \in Seq(Nat) : Placed(C.b, c, q \o r) =>
            Placed(C.b, c, q) /\ Placed(C.b, c + Len(q), r) /\ Len(q \o r) = Len(q) + Len(r)
      BY <1>2, PlacedConcat
    <3> QED
      BY <1>4, <1>8, <2>1, <3>1
  <2> QED
    BY <1>4, <1>8, <1>9, <2>2
<1>11. C.b[c + 1] = w /\ C.b[c + 2] = n
  BY <1>8, <1>10 DEF Placed
<1>12. Parted(C.b, c + 2, s, Len(e), off, n)
  BY <1>2, <1>4, <1>7, <1>10, PlacedParts
<1>13. last = c + 2 + n
  BY <1>1, <1>4, <1>10
<1>14. w = TagUnit(f, PB_WT_STRING) /\ s = Scalars(f, e)
  BY DEF w, s
<1>15. PackedAt(C, f, e, off, c, last, a + Len(C.B[p]))
  BY <1>1, <1>4, <1>11, <1>12, <1>13, <1>14 DEF PackedAt
<1> QED
  BY <1>15 DEF f, e, off, c, last

(* Where a message begins and ends. *)
LEMMA MessagePlaced ==
  ASSUME NEW C, Code(C), NEW p \in C.P, NEW a, Placed(C.b, a, C.B[p])
  PROVE  /\ Rest(C, p, a, 0, 0) = a /\ Rest(C, p, a, Count(p), 0) = a + Len(C.B[p])
         /\ a \in Nat /\ Len(C.B[p]) \in Nat /\ a + Len(C.B[p]) =< Len(C.b) /\ Len(C.b) \in Nat
<1> DEFINE off == SectionStarts(C, p)
<1>1. /\ a \in Nat /\ Len(C.B[p]) \in Nat /\ a + Len(C.B[p]) =< Len(C.b) /\ Len(C.b) \in Nat
      /\ Parted(C.b, a, Sections(p, C.S, C.B), Count(p), off, Len(C.B[p]))
  BY SectionsPlaced
<1>2. off[0] = 0 /\ off[Count(p)] = Len(C.B[p])
  BY <1>1 DEF Parted
<1>3. Rest(C, p, a, 0, 0) = a + off[0] + 0 /\ Rest(C, p, a, Count(p), 0) = a + off[Count(p)] + 0
  BY DEF Rest
<1> HIDE DEF off
<1> QED
  BY <1>1, <1>2, <1>3
-----------------------------------------------------------------------------
(* The message as far as it has been read *)

(* The first j items of e. *)
Upto(e, j) == [i \in 1..j |-> e[i]]

(* The first items of a field. *)
LEMMA UptoFacts ==
  ASSUME NEW E, NEW e \in Seq(E)
  PROVE  /\ Upto(e, 0) = << >> /\ Upto(e, Len(e)) = e
         /\ \A j \in Nat : j =< Len(e) => Upto(e, j) \in Seq(E) /\ Len(Upto(e, j)) = j
         /\ \A j \in Nat : j < Len(e) => Append(Upto(e, j), e[j + 1]) = Upto(e, j + 1)
         /\ Len(e) > 0 => << e[1] >> = Upto(e, 1)
<1>1. e = [i \in 1..Len(e) |-> e[i]] /\ Len(e) \in Nat /\ \A i \in 1..Len(e) : e[i] \in E
  OBVIOUS
<1>2. Upto(e, 0) = << >>
  <2>1. 1..0 = {}
    OBVIOUS
  <2> QED
    BY <2>1 DEF Upto
<1>3. ASSUME NEW j \in Nat, j =< Len(e)
      PROVE  Upto(e, j) \in Seq(E) /\ Len(Upto(e, j)) = j /\ \A i \in 1..j : Upto(e, j)[i] = e[i]
  <2>1. \A i \in 1..j : e[i] \in E
    BY <1>1, <1>3
  <2>2. Upto(e, j) \in [1..j -> E]
    BY <2>1 DEF Upto
  <2> QED
    BY <2>2 DEF Upto
<1>4. ASSUME NEW j \in Nat, j < Len(e) PROVE Append(Upto(e, j), e[j + 1]) = Upto(e, j + 1)
  <2> DEFINE a == Upto(e, j)
             v == e[j + 1]
             b == Append(a, v)
  <2>1. a \in Seq(E) /\ Len(a) = j /\ v \in E /\ \A i \in 1..j : a[i] = e[i]
    <3>1. j =< Len(e) /\ j + 1 \in 1..Len(e)
      BY <1>1, <1>4
    <3> QED
      BY <1>1, <1>3, <3>1
  <2> HIDE DEF a
  <2>2. b \in Seq(E) /\ Len(b) = j + 1 /\ b[j + 1] = v /\ \A i \in 1..j : b[i] = a[i]
    BY <2>1
  <2> HIDE DEF b, v
  <2>3. b = [i \in 1..(j + 1) |-> b[i]]
    BY <2>2
  <2>4. \A i \in 1..(j + 1) : b[i] = e[i]
    <3> TAKE i \in 1..(j + 1)
    <3>1. i = j + 1 \/ i \in 1..j
      OBVIOUS
    <3> QED
      BY <2>1, <2>2, <3>1 DEF v
  <2>5. b = Upto(e, j + 1)
    BY <2>3, <2>4 DEF Upto
  <2> QED
    BY <2>5 DEF b, a, v
<1>5. ASSUME Len(e) > 0 PROVE << e[1] >> = Upto(e, 1)
  <2>1. 1..1 = {1}
    OBVIOUS
  <2>2. << e[1] >> = [i \in 1..1 |-> e[1]]
    OBVIOUS
  <2>3. \A i \in 1..1 : e[i] = e[1]
    BY <2>1
  <2>4. [i \in 1..1 |-> e[1]] = [i \in 1..1 |-> e[i]]
    BY <2>3
  <2> QED
    BY <2>2, <2>4 DEF Upto
<1>6. Upto(e, Len(e)) = e
  BY <1>1 DEF Upto
<1> QED
  BY <1>2, <1>3, <1>4, <1>5, <1>6

(* Which field has the tag g. *)
Index(p, g) == CHOOSE i \in 1..Count(p) : FieldAt(p, i).tag = g

(* The value of p when k fields and j items of the next one have been read. *)
Partial(p, k, j) ==
  [g \in Tags(p[1]) |-> IF Index(p, g) =< k THEN p[2][g]
                        ELSE IF Index(p, g) = k + 1 THEN Upto(p[2][g], j) ELSE << >>]

(* A tag belongs to one field of the message. *)
LEMMA Indexed ==
  ASSUME NEW C, Code(C), NEW p \in C.P
  PROVE  /\ \A g \in Tags(p[1]) : Index(p, g) \in 1..Count(p) /\ FieldAt(p, Index(p, g)).tag = g
         /\ \A i \in 1..Count(p) : /\ FieldAt(p, i).tag \in Tags(p[1]) /\ Index(p, FieldAt(p, i).tag) = i
                                   /\ Field(p[1], FieldAt(p, i).tag) = FieldAt(p, i)
                                   /\ FieldAt(p, i).tag \in Nat \ {0}
<1>1. /\ p[1] \in Types /\ Count(p) \in Nat /\ \A i \in 1..Count(p) : FieldAt(p, i) \in Fields[p[1]]
      /\ \A f \in Fields[p[1]] : \E i \in 1..Count(p) : FieldAt(p, i) = f
      /\ \A i, j \in 1..Count(p) : FieldAt(p, i).tag = FieldAt(p, j).tag => i = j
  BY FieldsOfMessage
<1>2. \A g \in Tags(p[1]) : \E i \in 1..Count(p) : FieldAt(p, i).tag = g
  BY <1>1 DEF Tags
<1>3. \A i \in 1..Count(p) : /\ FieldAt(p, i).tag \in Tags(p[1]) /\ Field(p[1], FieldAt(p, i).tag) = FieldAt(p, i)
                             /\ FieldAt(p, i).tag \in Nat \ {0}
  BY <1>1, FieldFound, FieldsOfType
<1>4. \A g \in Tags(p[1]) : Index(p, g) \in 1..Count(p) /\ FieldAt(p, Index(p, g)).tag = g
  BY <1>2 DEF Index
<1> QED
  BY <1>1, <1>3, <1>4

(* What has been read of the field i. *)
LEMMA PartialItems ==
  ASSUME NEW C, Code(C), NEW p \in C.P, NEW k \in Nat, NEW j, NEW i \in 1..Count(p)
  PROVE  Partial(p, k, j)[FieldAt(p, i).tag] =
           IF i =< k THEN ItemsAt(p, i) ELSE IF i = k + 1 THEN Upto(ItemsAt(p, i), j) ELSE << >>
<1>1. FieldAt(p, i).tag \in Tags(p[1]) /\ Index(p, FieldAt(p, i).tag) = i
  BY Indexed
<1> QED
  BY <1>1 DEF Partial, ItemsAt, Items

(* A value is what it holds of each field. *)
LEMMA SameItems ==
  ASSUME NEW C, Code(C), NEW p \in C.P, NEW u, NEW v,
         u = [g \in Tags(p[1]) |-> u[g]], v = [g \in Tags(p[1]) |-> v[g]],
         \A i \in 1..Count(p) : u[FieldAt(p, i).tag] = v[FieldAt(p, i).tag]
  PROVE  u = v
<1>1. \A g \in Tags(p[1]) : u[g] = v[g]
  BY Indexed
<1> QED
  BY <1>1

(* The items of a field are a sequence. *)
LEMMA ItemsAreSeq ==
  ASSUME NEW C, Code(C), NEW p \in C.P, NEW i \in 1..Count(p)
  PROVE  \E E : ItemsAt(p, i) \in Seq(E)
<1>1. Encodable(p) /\ FieldAt(p, i) \in Fields[p[1]]
  BY FieldsOfMessage
<1> QED
  BY <1>1, ItemsFit DEF ItemsAt

(* Nothing is read at first, all of the message at the end, and the end of a field is the
   beginning of the next one. *)
LEMMA PartialBounds ==
  ASSUME NEW C, Code(C), NEW p \in C.P
  PROVE  /\ Partial(p, 0, 0) = Defaults(p[1])
         /\ Partial(p, Count(p), 0) = p[2]
         /\ \A k \in Nat : k + 1 =< Count(p) =>
              Partial(p, k, Len(ItemsAt(p, k + 1))) = Partial(p, k + 1, 0)
<1> DEFINE D     == Defaults(p[1])
           fn(u) == u = [g \in Tags(p[1]) |-> u[g]]
<1>1. Count(p) \in Nat /\ Encodable(p)
  BY FieldsOfMessage
<1>2. fn(D) /\ fn(p[2]) /\ \A k, j : fn(Partial(p, k, j))
  BY <1>1 DEF Defaults, Encodable, Partial
<1>3. \A u, v : /\ fn(u) /\ fn(v)
                /\ \A i \in 1..Count(p) : u[FieldAt(p, i).tag] = v[FieldAt(p, i).tag]
                => u = v
  BY SameItems
<1>4. \A k \in Nat : \A j : \A i \in 1..Count(p) :
        Partial(p, k, j)[FieldAt(p, i).tag] =
          IF i =< k THEN ItemsAt(p, i) ELSE IF i = k + 1 THEN Upto(ItemsAt(p, i), j) ELSE << >>
  BY PartialItems
<1>5. \A i \in 1..Count(p) : Upto(ItemsAt(p, i), 0) = << >> /\ Upto(ItemsAt(p, i), Len(ItemsAt(p, i))) = ItemsAt(p, i)
  BY ItemsAreSeq, UptoFacts
<1>6. \A i \in 1..Count(p) : D[FieldAt(p, i).tag] = << >> /\ p[2][FieldAt(p, i).tag] = ItemsAt(p, i)
  BY Indexed DEF Defaults, ItemsAt, Items
<1> HIDE DEF fn, D
<1>7. Partial(p, 0, 0) = D
  <2>1. \A i \in 1..Count(p) : Partial(p, 0, 0)[FieldAt(p, i).tag] = D[FieldAt(p, i).tag]
    BY <1>4, <1>5, <1>6
  <2> QED
    BY <1>2, <1>3, <2>1
<1>8. Partial(p, Count(p), 0) = p[2]
  <2>1. \A i \in 1..Count(p) : Partial(p, Count(p), 0)[FieldAt(p, i).tag] = p[2][FieldAt(p, i).tag]
    BY <1>1, <1>4, <1>6
  <2> QED
    BY <1>2, <1>3, <2>1
<1>9. ASSUME NEW k \in Nat, k + 1 =< Count(p)
      PROVE  Partial(p, k, Len(ItemsAt(p, k + 1))) = Partial(p, k + 1, 0)
  <2> DEFINE n == Len(ItemsAt(p, k + 1))
  <2>1. ASSUME NEW i \in 1..Count(p)
        PROVE  Partial(p, k, n)[FieldAt(p, i).tag] = Partial(p, k + 1, 0)[FieldAt(p, i).tag]
    <3>1. k + 1 \in Nat
      OBVIOUS
    <3>2. Partial(p, k + 1, 0)[FieldAt(p, i).tag] = IF i =< k + 1 THEN ItemsAt(p, i) ELSE << >>
      BY <1>4, <1>5, <3>1
    <3>3. Partial(p, k, n)[FieldAt(p, i).tag] =
            IF i =< k THEN ItemsAt(p, i) ELSE IF i = k + 1 THEN Upto(ItemsAt(p, i), n) ELSE << >>
      BY <1>4
    <3>4. i = k + 1 => Upto(ItemsAt(p, i), n) = ItemsAt(p, i)
      BY <1>5
    <3> QED
      BY <3>2, <3>3, <3>4
  <2> HIDE DEF n
  <2>2. Partial(p, k, n) = Partial(p, k + 1, 0)
    BY <1>2, <1>3, <2>1
  <2> QED
    BY <2>2 DEF n
<1> QED
  BY <1>7, <1>8, <1>9 DEF D

(* A further item. *)
LEMMA PartialStored ==
  ASSUME NEW C, Code(C), NEW p \in C.P, NEW k \in Nat, k + 1 =< Count(p),
         NEW j \in Nat, j < Len(ItemsAt(p, k + 1))
  PROVE  /\ Store(FieldAt(p, k + 1), Partial(p, k, j), ItemsAt(p, k + 1)[j + 1]) = Partial(p, k, j + 1)
         /\ Partial(p, k, j)[FieldAt(p, k + 1).tag] = Upto(ItemsAt(p, k + 1), j)
         /\ Len(Upto(ItemsAt(p, k + 1), j)) = j
<1> DEFINE f     == FieldAt(p, k + 1)
           e     == ItemsAt(p, k + 1)
           u     == Partial(p, k, j)
           v     == Store(f, u, e[j + 1])
           w     == Partial(p, k, j + 1)
           fn(x) == x = [g \in Tags(p[1]) |-> x[g]]
<1>1. k + 1 \in 1..Count(p) /\ Encodable(p) /\ f \in Fields[p[1]] /\ Len(e) \in Nat /\ f \in FieldRecord
  <2>1. Count(p) \in Nat /\ k + 1 \in 1..Count(p)
    BY FieldsOfMessage
  <2>2. f \in Fields[p[1]] /\ p[1] \in Types
    BY <2>1, FieldsOfMessage
  <2> QED
    BY <2>1, <2>2, FieldsOfMessage, FieldsOfType
<1>2. PICK E : e \in Seq(E)
  BY <1>1, ItemsAreSeq
<1>3. /\ Len(Upto(e, j)) = j /\ Append(Upto(e, j), e[j + 1]) = Upto(e, j + 1)
      /\ << e[1] >> = Upto(e, 1)
  <2>1. j < Len(e) /\ Len(e) > 0 /\ j =< Len(e)
    BY <1>1
  <2> HIDE DEF e
  <2> QED
    BY <1>2, <2>1, UptoFacts
<1>4. f.htype # "REPEATED" => j = 0
  <2>1. f.htype # "REPEATED" => Len(e) =< 1
    <3>1. e = p[2][f.tag]
      BY DEF ItemsAt, Items
    <3>2. /\ f.htype = "REQUIRED" => Len(p[2][f.tag]) = 1
          /\ f.htype = "OPTIONAL" => Len(p[2][f.tag]) =< 1
      BY <1>1 DEF Encodable
    <3>3. f.htype \in {"REQUIRED", "OPTIONAL", "REPEATED"}
      BY <1>1 DEF FieldRecord
    <3>4. PICK l \in Nat : l = Len(e) /\ l = Len(p[2][f.tag])
      BY <1>1, <3>1
    <3>5. f.htype # "REPEATED" => l =< 1
      <4>1. CASE f.htype = "REQUIRED"
        <5>1. Len(p[2][f.tag]) = 1
          BY <3>2, <4>1
        <5>2. l = 1
          BY <3>4, <5>1
        <5> QED
          BY <5>2
      <4>2. CASE f.htype = "OPTIONAL"
        BY <3>2, <3>4, <4>2
      <4> QED
        BY <3>3, <4>1, <4>2
    <3> QED
      BY <3>4, <3>5
  <2>2. j < Len(e)
    OBVIOUS
  <2> HIDE DEF e, f
  <2> QED
    BY <1>1, <2>1, <2>2
<1>5. u[f.tag] = Upto(e, j) /\ w[f.tag] = Upto(e, j + 1)
  <2>1. ~(k + 1 =< k)
    OBVIOUS
  <2> QED
    BY <1>1, <2>1, PartialItems
<1>6. fn(u) /\ fn(w) /\ f.tag \in Tags(p[1])
  <2>1. fn(u) /\ fn(w)
    BY DEF Partial
  <2>2. f.tag \in Tags(p[1])
    BY <1>1 DEF Tags
  <2> QED
    BY <2>1, <2>2
<1>11. PICK x : /\ v = [u EXCEPT ![f.tag] = x]
                /\ x = IF f.htype = "REPEATED" THEN Append(u[f.tag], e[j + 1]) ELSE << e[j + 1] >>
  <2> HIDE DEF u, e, f
  <2> QED
    BY DEF Store
<1>12. fn(v) /\ v[f.tag] = x /\ \A g \in Tags(p[1]) : g # f.tag => v[g] = u[g]
  <2> HIDE DEF u, w, v, f, e
  <2> QED
    BY <1>6, <1>11
<1>7. v[f.tag] = w[f.tag]
  <2>1. v[f.tag] = IF f.htype = "REPEATED" THEN Append(u[f.tag], e[j + 1]) ELSE << e[j + 1] >>
    BY <1>11, <1>12
  <2> HIDE DEF u, v, w, e, f
  <2> QED
    BY <1>3, <1>4, <1>5, <2>1
<1>8. ASSUME NEW i \in 1..Count(p), i # k + 1
      PROVE  v[FieldAt(p, i).tag] = w[FieldAt(p, i).tag]
  <2>1. FieldAt(p, i).tag # f.tag /\ FieldAt(p, i).tag \in Tags(p[1])
    <3>1. \A a, b \in 1..Count(p) : FieldAt(p, a).tag = FieldAt(p, b).tag => a = b
      BY FieldsOfMessage
    <3> QED
      BY <1>1, <1>8, <3>1, Indexed
  <2>2. v[FieldAt(p, i).tag] = u[FieldAt(p, i).tag]
    BY <1>12, <2>1
  <2>3. u[FieldAt(p, i).tag] = (IF i =< k THEN ItemsAt(p, i) ELSE << >>)
    BY <1>8, PartialItems
  <2>4. w[FieldAt(p, i).tag] = (IF i =< k THEN ItemsAt(p, i) ELSE << >>)
    BY <1>8, PartialItems
  <2> HIDE DEF u, v, w
  <2> QED
    BY <2>2, <2>3, <2>4
<1>9. \A i \in 1..Count(p) : v[FieldAt(p, i).tag] = w[FieldAt(p, i).tag]
  BY <1>7, <1>8
<1>10. v = w
  <2> HIDE DEF u, v, w
  <2> QED
    BY <1>6, <1>9, <1>12, SameItems
<1> QED
  BY <1>3, <1>5, <1>10
-----------------------------------------------------------------------------
(* A frame that reads an encoding *)

(* The field i has been begun when k fields and j items of the next one have been read, or
   its tag has been. *)
Begun(k, j, tagged, i) == i =< k \/ (i = k + 1 /\ (j > 0 \/ tagged))

(* What pb_decode_noinit has noted by then. *)
Marked(s, p, k, j, tagged) ==
  /\ \A i \in 1..Count(p) :
       Begun(k, j, tagged, i) /\ FieldAt(p, i).htype = "REQUIRED" => FieldAt(p, i).tag \in s.seen
  /\ s.fixed # 0 =>
       \E i \in 1..Count(p) : /\ Begun(k, j, tagged, i) /\ FieldAt(p, i).tag = s.fixed
                              /\ IsFixedCount(FieldAt(p, i)) /\ ItemsAt(p, i) # << >>
  /\ \A i \in 1..Count(p) :
       i = k + 1 /\ Begun(k, j, tagged, i) /\ IsFixedCount(FieldAt(p, i)) => s.fixed = FieldAt(p, i).tag

(* The stream s ends at e, or goes on with the terminator there. *)
Ends(C, s, e) == s.end = e \/ (s.end > e /\ C.b[e] = 0)

(* s reads the message p behind the first a units: k fields and j items of the next one, and
   the tag of one more if tagged. *)
Reads(C, s, p, a, k, j, tagged) ==
  /\ s.loop = "message" /\ p \in C.P /\ Placed(C.b, a, C.B[p]) /\ k \in 0..Count(p) /\ j \in Nat
  /\ s.type = p[1] /\ s.val = Partial(p, k, j) /\ Marked(s, p, k, j, tagged)
  /\ Ends(C, s, a + Len(C.B[p]) + 1)

(* s is before the item j + 1 of the field k + 1, or at the end of the message. *)
Faces(C, s, p, a, k, j) ==
  /\ Reads(C, s, p, a, k, j, FALSE) /\ s.pos = Rest(C, p, a, k, j) + 1
  /\ \/ k = Count(p) /\ j = 0
     \/ /\ k + 1 =< Count(p) /\ j < Len(ItemsAt(p, k + 1))
        /\ IsPacked(p, k + 1) => j = 0

(* A field that has been read is noted, so the next one may begin. *)
LEMMA MarkedTurns ==
  ASSUME NEW C, Code(C), NEW p \in C.P, NEW k \in Nat, k + 1 =< Count(p), NEW s, NEW tagged,
         Marked(s, p, k, Len(ItemsAt(p, k + 1)), tagged)
  PROVE  Marked(s, p, k + 1, 0, FALSE)
<1> DEFINE n == Len(ItemsAt(p, k + 1))
<1>1. Count(p) \in Nat /\ k + 1 \in 1..Count(p) /\ n \in Nat
  BY FieldsOfMessage
<1>2. FieldAt(p, k + 1).htype = "REQUIRED" => n # 0
  <2>1. Encodable(p) /\ FieldAt(p, k + 1) \in Fields[p[1]]
    BY <1>1, FieldsOfMessage
  <2>2. FieldAt(p, k + 1).htype = "REQUIRED" => n = 1
    BY <2>1 DEF Encodable, ItemsAt, Items
  <2> HIDE DEF n
  <2> QED
    BY <2>2
<1> HIDE DEF n
<1>3. \A i \in 1..Count(p) : Begun(k + 1, 0, FALSE, i) => Begun(k, n, tagged, i) \/ (i = k + 1 /\ n = 0)
  BY <1>1 DEF Begun
<1>4. \A i \in 1..Count(p) : Begun(k, n, tagged, i) => Begun(k + 1, 0, FALSE, i)
  BY <1>1 DEF Begun
<1>5. \A i \in 1..Count(p) : ~(i = (k + 1) + 1 /\ Begun(k + 1, 0, FALSE, i))
  BY <1>1 DEF Begun
<1>6. Marked(s, p, k, n, tagged)
  BY DEF n
<1>7. \A i \in 1..Count(p) : Begun(k + 1, 0, FALSE, i) /\ FieldAt(p, i).htype = "REQUIRED" => FieldAt(p, i).tag \in s.seen
  <2> SUFFICES ASSUME NEW i \in 1..Count(p), Begun(k + 1, 0, FALSE, i), FieldAt(p, i).htype = "REQUIRED"
               PROVE  FieldAt(p, i).tag \in s.seen
    OBVIOUS
  <2>1. Begun(k, n, tagged, i)
    BY <1>2, <1>3
  <2> QED
    BY <1>6, <2>1 DEF Marked
<1>8. s.fixed # 0 =>
        \E i \in 1..Count(p) : /\ Begun(k + 1, 0, FALSE, i) /\ FieldAt(p, i).tag = s.fixed
                               /\ IsFixedCount(FieldAt(p, i)) /\ ItemsAt(p, i) # << >>
  BY <1>4, <1>6 DEF Marked
<1> QED
  BY <1>5, <1>7, <1>8 DEF Marked

(* A further item changes nothing that is noted. *)
LEMMA MarkedItem ==
  ASSUME NEW s, NEW p, NEW k \in Nat, NEW j \in Nat, Marked(s, p, k, j, TRUE), Count(p) \in Nat
  PROVE  \A tagged : Marked(s, p, k, j + 1, tagged)
<1>1. \A i \in 1..Count(p) : \A tagged : Begun(k, j + 1, tagged, i) <=> Begun(k, j, TRUE, i)
  BY DEF Begun
<1> QED
  BY <1>1 DEF Marked

(* Fields without items are passed over. *)
LEMMA Turned ==
  ASSUME NEW C, Code(C), NEW s, NEW p, NEW a, NEW k,
         Reads(C, s, p, a, k, 0, FALSE), s.pos = Rest(C, p, a, k, 0) + 1
  PROVE  \E i, j : Faces(C, s, p, a, i, j)
<1> DEFINE N    == Count(p)
           G(i) == Reads(C, s, p, a, i, 0, FALSE) /\ s.pos = Rest(C, p, a, i, 0) + 1
           Z    == \E i, j : Faces(C, s, p, a, i, j)
           S    == {n \in Nat : \A i \in 0..N : i + n = N /\ G(i) => Z}
<1>2. p \in C.P /\ Placed(C.b, a, C.B[p]) /\ k \in 0..N
  BY DEF Reads
<1>3. N \in Nat
  BY <1>2, FieldsOfMessage
<1>4. ASSUME NEW i \in 0..N, G(i), i = N PROVE Z
  BY <1>4 DEF Faces
<1>5. ASSUME NEW i \in 0..N, G(i), i + 1 =< N, ItemsAt(p, i + 1) # << >> PROVE Z
  <2>1. Len(ItemsAt(p, i + 1)) > 0
    <3>1. i + 1 \in 1..N
      BY <1>3, <1>5
    <3>2. \E E : ItemsAt(p, i + 1) \in Seq(E)
      BY <1>2, <3>1, ItemsAreSeq
    <3>3. \A E : \A e \in Seq(E) : e # << >> => Len(e) > 0
      OBVIOUS
    <3> QED
      BY <1>5, <3>2, <3>3
  <2>2. Faces(C, s, p, a, i, 0)
    BY <1>5, <2>1 DEF Faces
  <2> QED
    BY <2>2
<1>6. ASSUME NEW i \in 0..N, G(i), i + 1 =< N, ItemsAt(p, i + 1) = << >> PROVE G(i + 1)
  <2>1. i \in Nat /\ i + 1 \in 0..N /\ Len(ItemsAt(p, i + 1)) = 0 /\ ~IsPacked(p, i + 1)
    BY <1>3, <1>6 DEF IsPacked
  <2>2. Rest(C, p, a, i, 0) = Rest(C, p, a, i + 1, 0)
    <3>1. Rest(C, p, a, i, Len(ItemsAt(p, i + 1))) = Rest(C, p, a, i + 1, 0)
      BY <1>2, <1>6, <2>1, ItemsPlaced
    <3> QED
      BY <2>1, <3>1
  <2>3. Partial(p, i, 0) = Partial(p, i + 1, 0)
    <3>1. Partial(p, i, Len(ItemsAt(p, i + 1))) = Partial(p, i + 1, 0)
      BY <1>2, <1>6, <2>1, PartialBounds
    <3> QED
      BY <2>1, <3>1
  <2>4. /\ s.loop = "message" /\ s.type = p[1] /\ s.val = Partial(p, i, 0)
        /\ Marked(s, p, i, 0, FALSE) /\ Ends(C, s, a + Len(C.B[p]) + 1)
        /\ s.pos = Rest(C, p, a, i, 0) + 1
    BY <1>6 DEF Reads
  <2>5. Marked(s, p, i + 1, 0, FALSE)
    <3>1. Marked(s, p, i, Len(ItemsAt(p, i + 1)), FALSE)
      BY <2>1, <2>4
    <3> QED
      BY <1>2, <1>6, <2>1, <3>1, MarkedTurns
  <2> QED
    BY <1>2, <2>1, <2>2, <2>3, <2>4, <2>5 DEF Reads
<1> HIDE DEF G, Z
<1>7. \A n \in Nat : n \in S
  <2>1. 0 \in S
    BY <1>3, <1>4
  <2>2. ASSUME NEW n \in Nat, n \in S PROVE n + 1 \in S
    <3>1. ASSUME NEW i \in 0..N, i + (n + 1) = N, G(i) PROVE Z
      <4>1. i + 1 \in 0..N /\ i + 1 =< N /\ (i + 1) + n = N
        BY <1>3, <3>1
      <4> QED
        BY <1>5, <1>6, <2>2, <3>1, <4>1
    <3> QED
      BY <3>1
  <2> HIDE DEF S
  <2> QED
    BY <2>1, <2>2, Inductive
<1>8. N - k \in Nat /\ k + (N - k) = N
  BY <1>2, <1>3
<1>9. G(k)
  BY DEF G
<1>10. Z
  BY <1>2, <1>7, <1>8, <1>9
<1> QED
  BY <1>10 DEF Z

(* After the last item. *)
LEMMA FieldRead ==
  ASSUME NEW C, Code(C), NEW s, NEW p, NEW a, NEW k \in Nat, NEW j, NEW tagged, k + 1 =< Count(p),
         Reads(C, s, p, a, k, j, tagged), j = Len(ItemsAt(p, k + 1)), s.pos = Rest(C, p, a, k + 1, 0) + 1
  PROVE  \E i, h : Faces(C, s, p, a, i, h)
<1> DEFINE n == Len(ItemsAt(p, k + 1))
<1>2. p \in C.P /\ Placed(C.b, a, C.B[p])
  BY DEF Reads
<1>3. Count(p) \in Nat
  BY <1>2, FieldsOfMessage
<1>4. Partial(p, k, n) = Partial(p, k + 1, 0)
  BY <1>2, PartialBounds
<1>5. /\ s.loop = "message" /\ s.type = p[1] /\ s.val = Partial(p, k, n)
      /\ Marked(s, p, k, n, tagged) /\ Ends(C, s, a + Len(C.B[p]) + 1)
  BY DEF Reads
<1>6. Marked(s, p, k + 1, 0, FALSE)
  BY <1>2, <1>5, MarkedTurns
<1>7. k + 1 \in 0..Count(p)
  BY <1>3
<1> HIDE DEF n
<1>8. Reads(C, s, p, a, k + 1, 0, FALSE)
  BY <1>2, <1>4, <1>5, <1>6, <1>7 DEF Reads
<1> QED
  BY <1>8, Turned

(* After an item that is not packed. *)
LEMMA ItemRead ==
  ASSUME NEW C, Code(C), NEW s, NEW p, NEW a, NEW k \in Nat, NEW j \in Nat, k + 1 =< Count(p),
         ~IsPacked(p, k + 1), j < Len(ItemsAt(p, k + 1)),
         Reads(C, s, p, a, k, j + 1, FALSE), s.pos = Rest(C, p, a, k, j + 1) + 1
  PROVE  \E i, h : Faces(C, s, p, a, i, h)
<1> DEFINE n == Len(ItemsAt(p, k + 1))
<1>2. p \in C.P /\ Placed(C.b, a, C.B[p])
  BY DEF Reads
<1>3. Count(p) \in Nat /\ n \in Nat
  <2>1. Count(p) \in Nat
    BY <1>2, FieldsOfMessage
  <2>2. k + 1 \in 1..Count(p)
    BY <2>1
  <2> QED
    BY <1>2, <2>1, <2>2, FieldsOfMessage
<1>4. CASE j + 1 < n
  <2>1. Faces(C, s, p, a, k, j + 1)
    BY <1>4 DEF Faces
  <2> QED
    BY <2>1
<1>5. CASE j + 1 = n
  <2>1. Rest(C, p, a, k, n) = Rest(C, p, a, k + 1, 0)
    BY <1>2, ItemsPlaced
  <2>2. s.pos = Rest(C, p, a, k + 1, 0) + 1
    BY <1>5, <2>1
  <2> QED
    BY <1>5, <2>2, FieldRead
<1> HIDE DEF n
<1>6. j < n
  BY DEF n
<1> QED
  BY <1>3, <1>4, <1>5, <1>6

-----------------------------------------------------------------------------
(* A stack that reads an encoding *)

(* c reads in the field k + 1 of the message p of s: the message q behind the first d units, or
   a packed array of which j items have been read. *)
Inside(C, s, p, a, k, j, c, q, d) ==
  /\ Reads(C, s, p, a, k, j, TRUE) /\ k + 1 =< Count(p) /\ c.field = FieldAt(p, k + 1).tag
  /\ \/ /\ c.loop = "message" /\ ~IsPacked(p, k + 1) /\ FieldAt(p, k + 1).ltype = "SUBMESSAGE"
        /\ j < Len(ItemsAt(p, k + 1)) /\ q = << FieldAt(p, k + 1).ptr, ItemsAt(p, k + 1)[j + 1] >>
        /\ c.end = Rest(C, p, a, k, j + 1) + 1 /\ c.end = d + Len(C.B[q]) + 1
     \/ /\ c.loop = "packed" /\ IsPacked(p, k + 1) /\ j =< Len(ItemsAt(p, k + 1))
        /\ c.end = Rest(C, p, a, k + 1, 0) + 1
        /\ c.pos = Rest(C, p, a, k, 0) + 2 + ScalarStarts(p, k + 1)[j] + 1

(* A place in an encoding; the frame s there, and the frame c in it. *)
At(p, a, k, j)       == [p |-> p, a |-> a, k |-> k, j |-> j]
Level(C, s, w)       == Faces(C, s, w.p, w.a, w.k, w.j)
Link(C, s, w, c, v)  == Inside(C, s, w.p, w.a, w.k, w.j, c, v.p, v.a)

(* The stack st reads the message m of the type Root; W says where each frame is. *)
Follows(C, m, st, W) ==
  /\ st[1].loop = "message" /\ W[1].p = << Root, m >>
  /\ \A i \in 1..(Len(st) - 1) : Link(C, st[i], W[i], st[i + 1], W[i + 1])
  /\ st[Len(st)].loop = "message" => Level(C, st[Len(st)], W[Len(st)])

(* What matters of the inner frame is its end. *)
LEMMA SameLink ==
  ASSUME NEW C, NEW s, NEW w, NEW c, NEW v, Link(C, s, w, c, v), c.loop = "message",
         NEW d, d.loop = "message", d.field = c.field, d.end = c.end,
         NEW x, x.p = v.p, x.a = v.a
  PROVE  Link(C, s, w, d, x)
BY DEF Link, Inside

(* In r the frame l of st goes on reading its message, as the innermost one or with one more
   in it. *)
GoesOn(C, st, W, l, r, w, v) ==
  /\ Len(st) \in Nat /\ l \in 1..Len(st) /\ Len(r) \in {l, l + 1} /\ \A i \in 1..(l - 1) : r[i] = st[i]
  /\ st[l].loop = "message" /\ r[l].loop = "message" /\ r[l].field = st[l].field
  /\ r[l].end = st[l].end /\ w.p = W[l].p /\ w.a = W[l].a
  /\ Len(r) = l => Level(C, r[l], w)
  /\ Len(r) = l + 1 => /\ Link(C, r[l], w, r[l + 1], v)
                       /\ r[l + 1].loop = "message" => Level(C, r[l + 1], v)

(* A stack that goes on in one frame still reads the message. *)
LEMMA FollowsFrom ==
  ASSUME NEW C, NEW m, NEW st, NEW W, Follows(C, m, st, W), NEW l, NEW r, NEW w, NEW v,
         GoesOn(C, st, W, l, r, w, v)
  PROVE  \E V : Follows(C, m, r, V)
<1>0. /\ Len(st) \in Nat /\ l \in 1..Len(st) /\ Len(r) \in {l, l + 1} /\ \A i \in 1..(l - 1) : r[i] = st[i]
      /\ st[l].loop = "message" /\ r[l].loop = "message" /\ r[l].field = st[l].field
      /\ r[l].end = st[l].end /\ w.p = W[l].p /\ w.a = W[l].a
      /\ Len(r) = l => Level(C, r[l], w)
      /\ Len(r) = l + 1 => /\ Link(C, r[l], w, r[l + 1], v)
                           /\ r[l + 1].loop = "message" => Level(C, r[l + 1], v)
  BY DEF GoesOn
<1> DEFINE V == [i \in Nat |-> IF i = l THEN w ELSE IF i = l + 1 THEN v ELSE W[i]]
<1>1. l \in Nat /\ l + 1 \in Nat /\ l # l + 1 /\ l > 0
  BY <1>0
<1>2. V[l] = w /\ V[l + 1] = v /\ \A i \in 1..(l - 1) : V[i] = W[i]
  BY <1>1
<1> HIDE DEF V
<1>3. r[1].loop = "message" /\ V[1].p = << Root, m >>
  <2>1. CASE l = 1
    BY <1>0, <1>2, <2>1 DEF Follows
  <2>2. CASE l # 1
    <3>1. 1 \in 1..(l - 1)
      BY <1>0, <2>2
    <3> QED
      BY <1>0, <1>2, <3>1 DEF Follows
  <2> QED
    BY <2>1, <2>2
<1>4. ASSUME NEW i \in 1..(l - 1) PROVE Link(C, r[i], V[i], r[i + 1], V[i + 1])
  <2>1. Link(C, st[i], W[i], st[i + 1], W[i + 1])
    <3>1. i \in 1..(Len(st) - 1)
      BY <1>0
    <3> QED
      BY <3>1 DEF Follows
  <2>2. r[i] = st[i] /\ V[i] = W[i]
    BY <1>0, <1>2
  <2>3. CASE i + 1 = l
    <3>1. Link(C, st[i], W[i], st[l], W[l])
      BY <2>1, <2>3
    <3>2. Link(C, st[i], W[i], r[l], w)
      BY <1>0, <3>1, SameLink
    <3> QED
      BY <1>2, <2>2, <2>3, <3>2
  <2>4. CASE i + 1 # l
    <3>1. i + 1 \in 1..(l - 1)
      BY <1>1, <2>4
    <3>2. r[i + 1] = st[i + 1] /\ V[i + 1] = W[i + 1]
      BY <1>0, <1>2, <3>1
    <3> QED
      BY <2>1, <2>2, <3>2
  <2> QED
    BY <2>3, <2>4
<1>5. CASE Len(r) = l
  <2>1. Level(C, r[Len(r)], V[Len(r)])
    BY <1>0, <1>2, <1>5
  <2> QED
    BY <1>3, <1>4, <1>5, <2>1 DEF Follows
<1>6. CASE Len(r) = l + 1
  <2>1. \A i \in 1..(Len(r) - 1) : i = l \/ i \in 1..(l - 1)
    BY <1>1, <1>6
  <2>2. Link(C, r[l], V[l], r[l + 1], V[l + 1])
    BY <1>0, <1>2, <1>6
  <2>3. r[Len(r)].loop = "message" => Level(C, r[Len(r)], V[Len(r)])
    BY <1>0, <1>2, <1>6
  <2>4. \A i \in 1..(Len(r) - 1) : Link(C, r[i], V[i], r[i + 1], V[i + 1])
    BY <1>4, <2>1, <2>2
  <2> QED
    BY <1>3, <2>3, <2>4 DEF Follows
<1> QED
  BY <1>0, <1>5, <1>6

(* What the innermost frame does, and the one around it. *)
LEMMA FollowsTop ==
  ASSUME NEW C, NEW m, NEW st, NEW W, Follows(C, m, st, W), Len(st) \in Nat \ {0}
  PROVE  /\ st[Len(st)].loop \in {"message", "packed"}
         /\ st[Len(st)].loop = "message" => Level(C, st[Len(st)], W[Len(st)])
         /\ Len(st) > 1 =>
              /\ Link(C, st[Len(st) - 1], W[Len(st) - 1], st[Len(st)], W[Len(st)])
              /\ st[Len(st) - 1].loop = "message"
         /\ Len(st) = 1 => st[Len(st)].loop = "message" /\ W[Len(st)].p = << Root, m >>
<1>1. st[Len(st)].loop = "message" => Level(C, st[Len(st)], W[Len(st)])
  BY DEF Follows
<1>2. Len(st) = 1 => st[Len(st)].loop = "message" /\ W[Len(st)].p = << Root, m >>
  BY DEF Follows
<1>3. ASSUME Len(st) > 1
      PROVE  Link(C, st[Len(st) - 1], W[Len(st) - 1], st[Len(st)], W[Len(st)])
  <2>1. Len(st) - 1 \in 1..(Len(st) - 1) /\ (Len(st) - 1) + 1 = Len(st)
    BY <1>3
  <2>2. Link(C, st[Len(st) - 1], W[Len(st) - 1], st[(Len(st) - 1) + 1], W[(Len(st) - 1) + 1])
    BY <2>1 DEF Follows
  <2> QED
    BY <2>1, <2>2
<1>4. \A s, w, c, v : Link(C, s, w, c, v) => s.loop = "message" /\ c.loop \in {"message", "packed"}
  BY DEF Link, Inside, Reads
<1>5. Len(st) = 1 \/ Len(st) > 1
  BY NotOne
<1> QED
  BY <1>1, <1>2, <1>3, <1>4, <1>5

-----------------------------------------------------------------------------
(* What a step may do to such a stack *)

(* C is in the buffer, and the stack reads m there. *)
Decodes(C, m, W) == Code(C) /\ C.b = buf /\ status = "run" /\ Follows(C, m, stack, W)

(* A step keeps to the encoding, or is stopped by realloc, or returns m. *)
Onward(C, m) == \/ status' = "failed"
                \/ status' = "run" /\ \E V : Follows(C, m, stack', V)
                \/ status' = "ok" /\ stack'[1].val = m

(* A frame with the same contents reads the same. *)
LEMMA SameReads ==
  ASSUME NEW C, NEW s, NEW p, NEW a, NEW k, NEW j, NEW tagged, Reads(C, s, p, a, k, j, tagged),
         NEW t, Labels(t, s), t.val = s.val, t.seen = s.seen, t.fixed = s.fixed, t.end = s.end
  PROVE  Reads(C, t, p, a, k, j, tagged)
<1>1. Marked(t, p, k, j, tagged) /\ Ends(C, t, a + Len(C.B[p]) + 1)
  BY DEF Reads, Marked, Ends
<1> QED
  BY <1>1 DEF Reads, Labels

(* The innermost frame goes on in its message. *)
LEMMA ContinueFollows ==
  ASSUME Inv, NEW C, NEW m, NEW W, Decodes(C, m, W), Top.loop = "message",
         NEW s, s.loop = "message", s.field = Top.field, s.end = Top.end,
         NEW w, w.p = W[Len(stack)].p, w.a = W[Len(stack)].a, Level(C, s, w), Continue(s)
  PROVE  Onward(C, m)
<1> DEFINE n == Len(stack)
           r == [stack EXCEPT ![n] = s]
<1>1. n \in Nat \ {0} /\ n \in 1..n /\ \E X : stack \in Seq(X)
  BY DEF Inv, IsStack
<1>2. stack' = r /\ status' = "run" /\ Follows(C, m, stack, W)
  BY DEF Continue, Decodes
<1>3. Len(r) = n /\ r[n] = s /\ \A i \in 1..(n - 1) : r[i] = stack[i]
  BY <1>1
<1>4. stack[n].loop = "message" /\ s.field = stack[n].field /\ s.end = stack[n].end
  BY DEF Top
<1> HIDE DEF n, r
<1>5. n = Len(stack)
  BY DEF n
<1>6. Len(r) # n + 1
  BY <1>1, <1>3
<1>8. GoesOn(C, stack, W, n, r, w, w)
  BY <1>1, <1>3, <1>4, <1>5, <1>6 DEF GoesOn
<1>7. \E V : Follows(C, m, r, V)
  BY <1>2, <1>8, FollowsFrom
<1> QED
  BY <1>2, <1>7 DEF Onward

(* A frame is opened in the message of the innermost one. *)
LEMMA OpenFollows ==
  ASSUME Inv, NEW C, NEW m, NEW W, Decodes(C, m, W), Top.loop = "message",
         NEW s, s.loop = "message", s.field = Top.field, s.end = Top.end,
         NEW w, w.p = W[Len(stack)].p, w.a = W[Len(stack)].a, NEW c, NEW v, Link(C, s, w, c, v),
         c.loop = "message" => Level(C, c, v),
         NEW size, IsFrame(s), Open(s, size, c)
  PROVE  Onward(C, m)
<1> DEFINE n == Len(stack)
           t == [s EXCEPT !.left = @ - size]
           q == [stack EXCEPT ![n] = t]
           r == q \o << c >>
<1>1. PICK X : stack \in Seq(X)
  BY DEF Inv, IsStack
<1>2. n \in Nat \ {0} /\ n \in 1..n
  BY DEF Inv, IsStack
<1>3. stack' = r /\ status' = "run" /\ Follows(C, m, stack, W)
  BY DEF Open, Decodes
<1>4. Labels(t, s) /\ t.val = s.val /\ t.seen = s.seen /\ t.fixed = s.fixed /\ t.end = s.end
  BY DEF IsFrame, IsRecord, FrameFields, Labels
<1>5. Link(C, t, w, c, v)
  <2> HIDE DEF t
  <2>1. \A p, a, k, j : Reads(C, s, p, a, k, j, TRUE) => Reads(C, t, p, a, k, j, TRUE)
    BY <1>4, SameReads
  <2> QED
    BY <2>1 DEF Link, Inside
<1>6. Len(r) = n + 1 /\ r[n] = t /\ r[n + 1] = c /\ \A i \in 1..(n - 1) : r[i] = stack[i]
  <2>1. Len(q) = n /\ q[n] = t /\ \A i \in 1..(n - 1) : q[i] = stack[i]
    BY <1>1, <1>2
  <2>2. q \in Seq(X \cup {t, c}) /\ << c >> \in Seq(X \cup {t, c})
    BY <1>1, <1>2
  <2> HIDE DEF q, n
  <2>3. Len(r) = n + 1 /\ r[n + 1] = c /\ \A i \in 1..n : r[i] = q[i]
    BY <1>2, <2>1, <2>2
  <2> QED
    BY <1>2, <2>1, <2>3
<1>7. stack[n].loop = "message" /\ t.loop = "message" /\ t.field = stack[n].field /\ t.end = stack[n].end
  BY <1>4 DEF Top, Labels
<1> HIDE DEF n, r, t, q
<1>8. n = Len(stack) /\ Len(r) # n
  BY <1>2, <1>6 DEF n
<1>9. GoesOn(C, stack, W, n, r, w, v)
  BY <1>2, <1>5, <1>6, <1>7, <1>8 DEF GoesOn
<1>10. \E V : Follows(C, m, r, V)
  BY <1>3, <1>9, FollowsFrom
<1> QED
  BY <1>3, <1>10 DEF Onward

(* The innermost frame is closed, and the one around it goes on behind it. *)
LEMMA CloseFollows ==
  ASSUME Inv, NEW C, NEW m, NEW W, Decodes(C, m, W), Len(stack) > 1, Below.loop = "message",
         NEW s, IsFrame(s), s.loop = "message", s.field = Below.field, s.end = Below.end,
         NEW w, w.p = W[Len(stack) - 1].p, w.a = W[Len(stack) - 1].a,
         Level(C, [s EXCEPT !.pos = Top.end], w), Close(s)
  PROVE  Onward(C, m)
<1> DEFINE n == Len(stack)
           t == [s EXCEPT !.pos = Top.end]
           q == SubSeq(stack, 1, n - 1)
           r == [q EXCEPT ![n - 1] = t]
<1>1. PICK X : stack \in Seq(X)
  BY DEF Inv, IsStack
<1>2. n \in Nat \ {0} /\ n - 1 \in Nat /\ n - 1 \in 1..n /\ n > 1
  BY DEF Inv, IsStack
<1>3. stack' = r /\ status' = "run" /\ Follows(C, m, stack, W)
  <2>1. Top.pos + Top.left = Top.end
    BY TopTracks DEF Tracks, Replaces
  <2> QED
    BY <2>1 DEF Close, Decodes
<1>4. t.loop = "message" /\ t.field = s.field /\ t.end = s.end
  BY DEF IsFrame, IsRecord, FrameFields
<1>5. Len(q) = n - 1 /\ q \in Seq(X) /\ \A i \in 1..(n - 1) : q[i] = stack[i]
  BY <1>1, <1>2
<1> HIDE DEF q, t
<1>6. Len(r) = n - 1 /\ r[n - 1] = t /\ \A i \in 1..((n - 1) - 1) : r[i] = stack[i]
  BY <1>2, <1>5
<1>7. stack[n - 1].loop = "message" /\ t.field = stack[n - 1].field /\ t.end = stack[n - 1].end
  BY <1>4 DEF Below
<1> HIDE DEF n, r
<1>8. n = Len(stack) /\ Len(r) # (n - 1) + 1
  BY <1>2, <1>6 DEF n
<1>9. Level(C, r[n - 1], w) /\ w.p = W[n - 1].p /\ w.a = W[n - 1].a
  BY <1>6, <1>8 DEF t
<1>10. \E V : Follows(C, m, r, V)
  <2>1. PICK l : l = n - 1
    OBVIOUS
  <2>2. l \in 1..Len(stack) /\ Len(stack) \in Nat /\ Len(r) = l /\ Len(r) # l + 1
    BY <1>2, <1>6, <1>8, <2>1
  <2>3. /\ \A i \in 1..(l - 1) : r[i] = stack[i]
        /\ stack[l].loop = "message" /\ r[l].loop = "message" /\ r[l].field = stack[l].field
        /\ r[l].end = stack[l].end /\ w.p = W[l].p /\ w.a = W[l].a /\ Level(C, r[l], w)
    BY <1>4, <1>6, <1>7, <1>9, <2>1
  <2>4. GoesOn(C, stack, W, l, r, w, w)
    BY <2>2, <2>3 DEF GoesOn
  <2> QED
    BY <1>3, <2>4, FollowsFrom
<1> QED
  BY <1>3, <1>10 DEF Onward

-----------------------------------------------------------------------------
(* The tag *)

(* The wire type of the field i. *)
WireAt(p, i) == IF IsPacked(p, i) THEN PB_WT_STRING ELSE WireType(FieldAt(p, i))

(* Before each item, and before a packed array, stands its tag. *)
LEMMA TagPlaced ==
  ASSUME NEW C, Code(C), NEW p \in C.P, NEW a, Placed(C.b, a, C.B[p]), NEW k \in Nat, k + 1 =< Count(p),
         NEW j \in Nat, j < Len(ItemsAt(p, k + 1)), IsPacked(p, k + 1) => j = 0
  PROVE  /\ Rest(C, p, a, k, j) \in Nat /\ Rest(C, p, a, k, j) + 1 =< a + Len(C.B[p])
         /\ C.b[Rest(C, p, a, k, j) + 1] = TagUnit(FieldAt(p, k + 1), WireAt(p, k + 1))
<1> DEFINE f == FieldAt(p, k + 1)
           e == ItemsAt(p, k + 1)
           R(i) == Rest(C, p, a, k, i)
           limit == a + Len(C.B[p])
<1>1. limit \in Nat
  BY MessagePlaced
<1>2. CASE ~IsPacked(p, k + 1)
  <2>1. PieceAt(C, f, e[j + 1], R(j), R(j + 1), limit)
    BY <1>2, ItemsPlaced
  <2>2. WireAt(p, k + 1) = WireType(f)
    BY <1>2 DEF WireAt
  <2> DEFINE x == EncodeItem(f, e[j + 1], C.S, C.B)
  <2>3. /\ R(j) \in Nat /\ R(j + 1) = R(j) + 1 + Len(x) /\ R(j + 1) =< limit
        /\ C.b[R(j) + 1] = TagUnit(f, WireType(f)) /\ Placed(C.b, R(j) + 1, x)
    BY <2>1 DEF PieceAt
  <2>4. Len(x) \in Nat
    BY <2>3 DEF Placed
  <2> HIDE DEF x, R, limit, f
  <2>5. R(j) + 1 =< limit
    BY <1>1, <2>3, <2>4
  <2> QED
    BY <2>2, <2>3, <2>5 DEF R, limit, f
<1>3. CASE IsPacked(p, k + 1)
  <2>1. PackedAt(C, f, e, ScalarStarts(p, k + 1), R(0), Rest(C, p, a, k + 1, 0), limit)
    BY <1>3, PackedPlaced
  <2>2. WireAt(p, k + 1) = PB_WT_STRING /\ j = 0
    BY <1>3 DEF WireAt
  <2>3. PICK y \in Nat : /\ R(0) \in Nat /\ Rest(C, p, a, k + 1, 0) = R(0) + 2 + y
                         /\ Rest(C, p, a, k + 1, 0) =< limit /\ C.b[R(0) + 1] = TagUnit(f, PB_WT_STRING)
    BY <2>1 DEF PackedAt
  <2> HIDE DEF R, limit, f
  <2>4. R(0) + 1 =< limit
    BY <1>1, <2>3
  <2> QED
    BY <2>2, <2>3, <2>4 DEF R, limit, f
<1> QED
  BY <1>2, <1>3

(* A stream has left what the message in it has. *)
LEMMA UnitsLeft ==
  ASSUME NEW s, Tracks(s), NEW C, NEW e \in Nat, Ends(C, s, e + 1), NEW x \in Nat, s.pos + x =< e + 1
  PROVE  x =< s.left
<1>1. s.pos \in Nat /\ s.left \in Nat /\ s.end \in Int /\ s.pos + s.left = s.end
  BY DEF Tracks, IsFrame, Replaces
<1>2. s.end >= e + 1
  BY <1>1 DEF Ends
<1> QED
  BY <1>1, <1>2

(* pb_decode_tag takes a tag apart. *)
LEMMA TagRead ==
  ASSUME NEW t \in Types, NEW f \in Fields[t], NEW w \in {0, 1, 2, 5}
  PROVE  TagUnit(f, w) # 0 /\ TagUnit(f, w) \div 8 = f.tag /\ TagUnit(f, w) % 8 = w
<1>1. f.tag \in Nat \ {0}
  BY FieldsOfType
<1>2. \A g \in Nat \ {0} : g * 8 + w # 0 /\ (g * 8 + w) \div 8 = g /\ (g * 8 + w) % 8 = w
  OBVIOUS
<1> QED
  BY <1>1, <1>2 DEF TagUnit

(* Before another array of fixed count, the one before is whole. *)
LEMMA FixedTurns ==
  ASSUME NEW C, Code(C), NEW s, NEW p, NEW a, NEW k, NEW j, Reads(C, s, p, a, k, j, FALSE),
         k + 1 =< Count(p) => s.fixed # FieldAt(p, k + 1).tag
  PROVE  FixedCountFull(s)
<1>1. p \in C.P /\ k \in 0..Count(p) /\ Marked(s, p, k, j, FALSE) /\ s.type = p[1] /\ s.val = Partial(p, k, j)
  BY DEF Reads
<1>2. Count(p) \in Nat /\ k \in Nat
  BY <1>1, FieldsOfMessage
<1>3. ASSUME s.fixed # 0 PROVE Len(s.val[s.fixed]) = Field(s.type, s.fixed).array_size
  <2>1. PICK i \in 1..Count(p) : /\ Begun(k, j, FALSE, i) /\ FieldAt(p, i).tag = s.fixed
                                 /\ IsFixedCount(FieldAt(p, i)) /\ ItemsAt(p, i) # << >>
    BY <1>1, <1>3 DEF Marked
  <2>2. i =< k
    BY <1>2, <2>1 DEF Begun
  <2>3. s.val[s.fixed] = ItemsAt(p, i)
    <3>1. Partial(p, k, j)[FieldAt(p, i).tag] = ItemsAt(p, i)
      BY <1>1, <1>2, <2>2, PartialItems
    <3> QED
      BY <1>1, <2>1, <3>1
  <2>4. Field(s.type, s.fixed) = FieldAt(p, i)
    BY <1>1, <2>1, Indexed
  <2>5. Encodable(p) /\ FieldAt(p, i) \in Fields[p[1]]
    BY <1>1, FieldsOfMessage
  <2>6. Len(ItemsAt(p, i)) \in {0, FieldAt(p, i).array_size}
    BY <2>1, <2>5 DEF Encodable, ItemsAt, Items
  <2>7. Len(ItemsAt(p, i)) # 0
    <3>1. \E E : ItemsAt(p, i) \in Seq(E)
      BY <1>1, ItemsAreSeq
    <3>2. \A E : \A e \in Seq(E) : e # << >> => Len(e) # 0
      OBVIOUS
    <3> QED
      BY <2>1, <3>1, <3>2
  <2> QED
    BY <2>3, <2>4, <2>6, <2>7
<1> QED
  BY <1>3 DEF FixedCountFull

(* A field is noted when its tag has been read. *)
LEMMA NotedReads ==
  ASSUME NEW C, Code(C), NEW s, IsFrame(s), NEW p, NEW a, NEW k, NEW j, Reads(C, s, p, a, k, j, FALSE),
         k + 1 =< Count(p), j < Len(ItemsAt(p, k + 1))
  PROVE  LET u == Noted(s, FieldAt(p, k + 1))
         IN Reads(C, u, p, a, k, j, TRUE) /\ Labels(u, s) /\ u.end = s.end
<1> DEFINE f == FieldAt(p, k + 1)
           t == IF IsFixedCount(f) /\ s.fixed # f.tag
                THEN [s EXCEPT !.fixed = f.tag, !.val[f.tag] = << >>] ELSE s
           u == Noted(s, f)
<1>1. /\ p \in C.P /\ k \in 0..Count(p) /\ j \in Nat /\ Marked(s, p, k, j, FALSE) /\ s.type = p[1]
      /\ s.val = Partial(p, k, j) /\ s.loop = "message" /\ Placed(C.b, a, C.B[p])
      /\ Ends(C, s, a + Len(C.B[p]) + 1)
  BY DEF Reads
<1>2. Count(p) \in Nat /\ k + 1 \in 1..Count(p) /\ k \in Nat
  BY <1>1, FieldsOfMessage
<1>3. IsFixedCount(f) /\ s.fixed # f.tag => j = 0
  BY <1>1, <1>2 DEF Marked, Begun
<1>4. IsFixedCount(f) /\ s.fixed # f.tag => s.val[f.tag] = << >>
  <2>1. Partial(p, k, j)[f.tag] = Upto(ItemsAt(p, k + 1), j)
    BY <1>1, <1>2, PartialItems
  <2>2. Upto(ItemsAt(p, k + 1), 0) = << >>
    BY <1>1, <1>2, ItemsAreSeq, UptoFacts
  <2> QED
    BY <1>1, <1>3, <2>1, <2>2
<1>5. /\ DOMAIN t = FrameFields /\ Labels(t, s) /\ t.seen = s.seen /\ t.end = s.end
      /\ t.val = s.val
      /\ t.fixed = IF IsFixedCount(f) THEN f.tag ELSE s.fixed
  <2>1. CASE IsFixedCount(f) /\ s.fixed # f.tag
    <3>1. t = [s EXCEPT !.fixed = f.tag, !.val = [s.val EXCEPT ![f.tag] = << >>]]
      BY <2>1
    <3>2. [s.val EXCEPT ![f.tag] = << >>] = s.val
      <4>1. s.val = [g \in Tags(p[1]) |-> s.val[g]]
        BY <1>1 DEF Partial
      <4> HIDE DEF f
      <4> QED
        BY <1>4, <2>1, <4>1
    <3>3. t = [s EXCEPT !.fixed = f.tag, !.val = s.val]
      BY <3>1, <3>2
    <3> HIDE DEF t, f
    <3> QED
      BY <2>1, <3>3 DEF IsFrame, IsRecord, FrameFields, Labels
  <2>2. CASE ~(IsFixedCount(f) /\ s.fixed # f.tag)
    BY <2>2 DEF IsFrame, IsRecord, Labels
  <2> QED
    BY <2>1, <2>2
<1>6. u = IF f.htype = "REQUIRED" THEN [t EXCEPT !.seen = @ \cup {f.tag}] ELSE t
  BY DEF Noted
<1> HIDE DEF t, u
<1>7. /\ Labels(u, s) /\ u.val = s.val /\ u.fixed = t.fixed /\ u.end = s.end
      /\ s.seen \subseteq u.seen
      /\ f.htype = "REQUIRED" => f.tag \in u.seen
  BY <1>5, <1>6 DEF FrameFields, Labels
<1>8. Marked(u, p, k, j, TRUE)
  <2>1. \A i \in 1..Count(p) : Begun(k, j, TRUE, i) <=> Begun(k, j, FALSE, i) \/ i = k + 1
    BY <1>2 DEF Begun
  <2>2. \A i \in 1..Count(p) :
          Begun(k, j, TRUE, i) /\ FieldAt(p, i).htype = "REQUIRED" => FieldAt(p, i).tag \in u.seen
    <3> TAKE i \in 1..Count(p)
    <3>1. Begun(k, j, FALSE, i) /\ FieldAt(p, i).htype = "REQUIRED" => FieldAt(p, i).tag \in s.seen
      BY <1>1 DEF Marked
    <3>2. i = k + 1 => FieldAt(p, i) = f
      BY DEF f
    <3> QED
      BY <1>7, <2>1, <3>1, <3>2
  <2>3. \A i \in 1..Count(p) :
          i = k + 1 /\ Begun(k, j, TRUE, i) /\ IsFixedCount(FieldAt(p, i)) => u.fixed = FieldAt(p, i).tag
    BY <1>5, <1>7 DEF f
  <2>4. u.fixed # 0 =>
          \E i \in 1..Count(p) : /\ Begun(k, j, TRUE, i) /\ FieldAt(p, i).tag = u.fixed
                                 /\ IsFixedCount(FieldAt(p, i)) /\ ItemsAt(p, i) # << >>
    <3>1. CASE IsFixedCount(f)
      <4>1. ItemsAt(p, k + 1) # << >>
        <5>1. \A h \in Nat : ~(h < 0)
          OBVIOUS
        <5>2. Len(<< >>) = 0
          OBVIOUS
        <5> QED
          BY <1>1, <5>1, <5>2
      <4> QED
        BY <1>2, <1>5, <1>7, <2>1, <3>1, <4>1 DEF f
    <3>2. CASE ~IsFixedCount(f)
      <4>1. u.fixed = s.fixed
        BY <1>5, <1>7, <3>2
      <4>2. s.fixed # 0 =>
              \E i \in 1..Count(p) : /\ Begun(k, j, FALSE, i) /\ FieldAt(p, i).tag = s.fixed
                                     /\ IsFixedCount(FieldAt(p, i)) /\ ItemsAt(p, i) # << >>
        BY <1>1 DEF Marked
      <4> QED
        BY <2>1, <4>1, <4>2
    <3> QED
      BY <3>1, <3>2
  <2> QED
    BY <2>2, <2>3, <2>4 DEF Marked
<1>9. Ends(C, u, a + Len(C.B[p]) + 1)
  BY <1>1, <1>7 DEF Ends
<1>10. Reads(C, u, p, a, k, j, TRUE)
  BY <1>1, <1>7, <1>8, <1>9 DEF Reads, Labels
<1> QED
  BY <1>7, <1>10 DEF u, f

-----------------------------------------------------------------------------
(* The item behind the tag *)

(* u has read the tag of the item j + 1 of the field k + 1 of p. *)
Tagged(C, u, p, a, k, j) ==
  /\ Reads(C, u, p, a, k, j, TRUE) /\ u.pos = Rest(C, p, a, k, j) + 2
  /\ Tracks(u) /\ u.field = Top.field
  /\ k + 1 =< Count(p) /\ j < Len(ItemsAt(p, k + 1))

(* W says that the innermost frame reads p behind the first a units. *)
Where(C, m, W, p, a) ==
  /\ Decodes(C, m, W) /\ Top.loop = "message" /\ W[Len(stack)].p = p /\ W[Len(stack)].a = a

(* The fields of a record made by At. *)
LEMMA AtFields ==
  /\ \A p, a, k, j : At(p, a, k, j).p = p /\ At(p, a, k, j).a = a /\ At(p, a, k, j).k = k /\ At(p, a, k, j).j = j
  /\ \A C, s, p, a, k, j : Faces(C, s, p, a, k, j) <=> Level(C, s, At(p, a, k, j))
BY DEF At, Level

(* The frame with the item stored. *)
LEMMA StoredReads ==
  ASSUME NEW C, Code(C), NEW u, NEW p, NEW a, NEW k, NEW j, Reads(C, u, p, a, k, j, TRUE),
         k + 1 =< Count(p), j < Len(ItemsAt(p, k + 1)),
         NEW t, Labels(t, u), t.seen = u.seen, t.fixed = u.fixed, t.end = u.end,
         t.val = Store(FieldAt(p, k + 1), u.val, ItemsAt(p, k + 1)[j + 1])
  PROVE  \A tagged : Reads(C, t, p, a, k, j + 1, tagged)
<1>1. /\ p \in C.P /\ k \in 0..Count(p) /\ j \in Nat /\ Marked(u, p, k, j, TRUE) /\ u.type = p[1]
      /\ u.val = Partial(p, k, j) /\ u.loop = "message" /\ Placed(C.b, a, C.B[p])
      /\ Ends(C, u, a + Len(C.B[p]) + 1)
  BY DEF Reads
<1>2. Count(p) \in Nat /\ k \in Nat /\ j + 1 \in Nat
  BY <1>1, FieldsOfMessage
<1>3. t.val = Partial(p, k, j + 1)
  BY <1>1, <1>2, PartialStored
<1>4. \A tagged : Marked(t, p, k, j + 1, tagged)
  <2>1. \A tagged : Marked(u, p, k, j + 1, tagged)
    BY <1>1, <1>2, MarkedItem
  <2> QED
    BY <2>1 DEF Marked
<1>5. Ends(C, t, a + Len(C.B[p]) + 1)
  BY <1>1 DEF Ends
<1> QED
  BY <1>1, <1>2, <1>3, <1>4, <1>5 DEF Reads, Labels

(* The item is stored, and the message goes on behind it. *)
LEMMA ItemFollows ==
  ASSUME Inv, NEW C, NEW m, NEW W, NEW p, NEW a, Where(C, m, W, p, a),
         NEW u, NEW k, NEW j, Tagged(C, u, p, a, k, j), ~IsPacked(p, k + 1),
         NEW r, IsFrame(r), Alike(r, u), r.end = u.end, r.pos = Rest(C, p, a, k, j + 1) + 1,
         NEW x, x = ItemsAt(p, k + 1)[j + 1],
         Continue([r EXCEPT !.val = Store(FieldAt(p, k + 1), @, x)])
  PROVE  Onward(C, m)
<1> DEFINE t == [r EXCEPT !.val = Store(FieldAt(p, k + 1), @, x)]
<1>1. Reads(C, u, p, a, k, j, TRUE) /\ k + 1 =< Count(p) /\ j < Len(ItemsAt(p, k + 1)) /\ Tracks(u)
      /\ u.field = Top.field
  BY DEF Tagged
<1>2. Code(C) /\ Decodes(C, m, W) /\ Top.loop = "message" /\ W[Len(stack)].p = p /\ W[Len(stack)].a = a
  BY DEF Where, Decodes
<1>3. /\ Labels(t, r) /\ t.seen = r.seen /\ t.fixed = r.fixed /\ t.end = r.end /\ t.pos = r.pos
      /\ t.val = Store(FieldAt(p, k + 1), r.val, x)
  BY DEF IsFrame, IsRecord, FrameFields, Labels
<1>4. Continue(t)
  OBVIOUS
<1> HIDE DEF t
<1>5. /\ Labels(t, u) /\ t.seen = u.seen /\ t.fixed = u.fixed /\ t.end = u.end
      /\ t.val = Store(FieldAt(p, k + 1), u.val, ItemsAt(p, k + 1)[j + 1])
  BY <1>3 DEF Alike, Labels
<1>6. Reads(C, t, p, a, k, j + 1, FALSE)
  BY <1>1, <1>2, <1>5, StoredReads
<1>7. k \in Nat /\ j \in Nat /\ u.loop = "message"
  <2>1. p \in C.P /\ k \in 0..Count(p) /\ j \in Nat /\ u.loop = "message"
    BY <1>1 DEF Reads
  <2> QED
    BY <2>1
<1>8. \E i, h : Faces(C, t, p, a, i, h)
  <2>1. t.pos = Rest(C, p, a, k, j + 1) + 1
    BY <1>3
  <2> QED
    BY <1>1, <1>2, <1>6, <1>7, <2>1, ItemRead
<1>9. PICK w : w.p = p /\ w.a = a /\ Level(C, t, w)
  BY <1>8, AtFields
<1>10. t.loop = "message" /\ t.field = Top.field /\ t.end = Top.end
  BY <1>1, <1>5, <1>7 DEF Labels, Tracks, Replaces, Top
<1> QED
  BY <1>2, <1>4, <1>9, <1>10, ContinueFollows

(* The piece of the buffer behind the tag, which u has left. *)
LEMMA PieceLeft ==
  ASSUME Inv, NEW C, Code(C), NEW u, NEW p, NEW a, NEW k, NEW j, Tagged(C, u, p, a, k, j),
         ~IsPacked(p, k + 1)
  PROVE  LET x == EncodeItem(FieldAt(p, k + 1), ItemsAt(p, k + 1)[j + 1], C.S, C.B)
         IN /\ Len(x) \in Nat /\ Len(x) =< u.left /\ Placed(C.b, u.pos - 1, x)
            /\ u.pos + Len(x) = Rest(C, p, a, k, j + 1) + 1
<1> DEFINE f == FieldAt(p, k + 1)
           e == ItemsAt(p, k + 1)
           x == EncodeItem(f, e[j + 1], C.S, C.B)
           limit == a + Len(C.B[p])
           c == Rest(C, p, a, k, j)
           d == Rest(C, p, a, k, j + 1)
<1>1. /\ Reads(C, u, p, a, k, j, TRUE) /\ k + 1 =< Count(p) /\ j < Len(e) /\ Tracks(u) /\ u.pos = c + 2
  BY DEF Tagged
<1>2. p \in C.P /\ k \in 0..Count(p) /\ j \in Nat /\ Placed(C.b, a, C.B[p]) /\ Ends(C, u, limit + 1)
  BY <1>1 DEF Reads
<1>3. k \in Nat /\ limit \in Nat
  BY <1>2, MessagePlaced
<1>4. PieceAt(C, f, e[j + 1], c, d, limit)
  BY <1>1, <1>2, <1>3, ItemsPlaced
<1>5. c \in Nat /\ d = c + 1 + Len(x) /\ d =< limit /\ Placed(C.b, c + 1, x)
  BY <1>4 DEF PieceAt
<1>6. Len(x) \in Nat
  BY <1>5 DEF Placed
<1> HIDE DEF c, d, limit, x
<1>7. u.pos - 1 = c + 1 /\ u.pos + Len(x) = d + 1 /\ u.pos + Len(x) =< limit + 1
  BY <1>1, <1>3, <1>5, <1>6
<1>8. Len(x) =< u.left
  BY <1>1, <1>2, <1>3, <1>6, <1>7, UnitsLeft
<1> QED
  BY <1>5, <1>6, <1>7, <1>8 DEF x, d

(* A scalar is read. *)
LEMMA ScalarFollows ==
  ASSUME Inv, NEW C, NEW m, NEW W, NEW p, NEW a, Where(C, m, W, p, a),
         NEW u, NEW k, NEW j, Tagged(C, u, p, a, k, j), ~IsPacked(p, k + 1),
         FieldAt(p, k + 1).ltype \in Packable, DecodeScalar(u, FieldAt(p, k + 1))
  PROVE  Onward(C, m)
<1> DEFINE f == FieldAt(p, k + 1)
           v == ItemsAt(p, k + 1)[j + 1]
           x == EncodeItem(f, v, C.S, C.B)
           n == SizeOfScalar(f.ltype)
<1>1. Code(C) /\ C.b = buf
  BY DEF Where, Decodes
<1>2. Reads(C, u, p, a, k, j, TRUE) /\ k + 1 =< Count(p) /\ j < Len(ItemsAt(p, k + 1)) /\ Tracks(u)
  BY DEF Tagged
<1>3. /\ Len(x) \in Nat /\ Len(x) =< u.left /\ Placed(C.b, u.pos - 1, x)
      /\ u.pos + Len(x) = Rest(C, p, a, k, j + 1) + 1
  BY <1>1, PieceLeft
<1>4. v \in Nat
  <2>1. p \in C.P /\ k \in 0..Count(p) /\ j \in Nat
    BY <1>2 DEF Reads
  <2>2. Count(p) \in Nat /\ k + 1 \in 1..Count(p) /\ Encodable(p) /\ Len(ItemsAt(p, k + 1)) \in Nat /\ f \in Fields[p[1]]
    <3>1. Count(p) \in Nat
      BY <1>1, <2>1, FieldsOfMessage
    <3>2. k + 1 \in 1..Count(p)
      BY <1>2, <2>1, <3>1
    <3> QED
      BY <1>1, <2>1, <3>1, <3>2, FieldsOfMessage
  <2>3. ItemsAt(p, k + 1) \in Seq(Nat)
    BY <2>2, ItemsFit DEF ItemsAt
  <2>4. j + 1 \in 1..Len(ItemsAt(p, k + 1))
    BY <1>2, <2>1, <2>2
  <2> QED
    BY <2>3, <2>4
<1>5. x = EncodeScalar(f, v)
  BY DEF EncodeItem, Packable
<1>6. Len(x) = n /\ x[1] = v /\ n \in Nat \ {0}
  BY <1>4, <1>5, ScalarEncoded
<1>7. buf[u.pos] = v
  <2>1. 1 \in 1..Len(x)
    BY <1>6
  <2>2. C.b[(u.pos - 1) + 1] = x[1]
    BY <1>3, <2>1 DEF Placed
  <2>3. u.pos \in Nat
    BY <1>2 DEF Tracks, IsFrame
  <2>4. (u.pos - 1) + 1 = u.pos
    BY <2>3
  <2> QED
    BY <1>1, <1>6, <2>2, <2>4
<1> HIDE DEF f, v, x, n
<1>8. n =< u.left /\ n \in Nat /\ ~(n > u.left)
  <2>1. u.left \in Nat
    BY <1>2 DEF Tracks, IsFrame
  <2> QED
    BY <1>3, <1>6, <2>1
<1>9. CASE GiveUp
  BY <1>9 DEF GiveUp, Onward
<1>10. CASE Continue([After(u, n) EXCEPT !.val = Store(f, @, buf[u.pos])])
  <2> DEFINE r == After(u, n)
  <2>1. Tracks(r) /\ r.pos = u.pos + n /\ IsFrame(u)
    BY <1>2, <1>8, AfterTracks DEF Tracks
  <2>2. Alike(r, u)
    BY <2>1, AfterAlike
  <2>3. IsFrame(r) /\ r.end = u.end /\ r.pos = Rest(C, p, a, k, j + 1) + 1
    BY <1>2, <1>3, <1>6, <2>1 DEF Tracks, Replaces
  <2>4. Continue([r EXCEPT !.val = Store(f, @, v)])
    BY <1>7, <1>10
  <2> HIDE DEF r
  <2> QED
    BY <2>2, <2>3, <2>4, ItemFollows DEF f, v
<1> QED
  BY <1>8, <1>9, <1>10 DEF DecodeScalar, OutOfMemory, f, n

(* The field and the item read next. *)
LEMMA NextItem ==
  ASSUME NEW C, Code(C), NEW u, NEW p, NEW a, NEW k, NEW j, NEW tagged, Reads(C, u, p, a, k, j, tagged),
         k + 1 =< Count(p), j < Len(ItemsAt(p, k + 1))
  PROVE  /\ p \in C.P /\ k \in Nat /\ j \in Nat /\ Placed(C.b, a, C.B[p]) /\ k + 1 \in 1..Count(p)
         /\ Encodable(p) /\ p[1] \in Types /\ FieldAt(p, k + 1) \in Fields[p[1]]
         /\ Len(ItemsAt(p, k + 1)) \in Nat /\ j + 1 \in 1..Len(ItemsAt(p, k + 1))
         /\ u.type = p[1] /\ u.loop = "message"
         /\ u.val[FieldAt(p, k + 1).tag] = Upto(ItemsAt(p, k + 1), j)
         /\ Len(u.val[FieldAt(p, k + 1).tag]) = j
<1>1. /\ p \in C.P /\ k \in 0..Count(p) /\ j \in Nat /\ Placed(C.b, a, C.B[p])
      /\ u.type = p[1] /\ u.loop = "message" /\ u.val = Partial(p, k, j)
  BY DEF Reads
<1>2. Count(p) \in Nat
  BY <1>1, FieldsOfMessage
<1>3. k \in Nat /\ k + 1 \in 1..Count(p)
  BY <1>1, <1>2
<1>4. Encodable(p) /\ p[1] \in Types /\ FieldAt(p, k + 1) \in Fields[p[1]] /\ Len(ItemsAt(p, k + 1)) \in Nat
  BY <1>1, <1>3, FieldsOfMessage
<1>5. j + 1 \in 1..Len(ItemsAt(p, k + 1))
  BY <1>1, <1>4
<1>6. u.val[FieldAt(p, k + 1).tag] = Upto(ItemsAt(p, k + 1), j) /\ Len(Upto(ItemsAt(p, k + 1), j)) = j
  BY <1>1, <1>3, PartialStored
<1> QED
  BY <1>1, <1>3, <1>4, <1>5, <1>6

(* Bytes of a message fit the field they are in. *)
LEMMA BytesFit ==
  ASSUME NEW p, Encodable(p), NEW f \in Fields[p[1]], f.ltype \in {"BYTES", "STRING", "FIXED_LENGTH_BYTES"},
         NEW i \in 1..Len(Items(p, f))
  PROVE  /\ Items(p, f)[i] \in Seq(Nat) /\ FitsField(f, Len(Items(p, f)[i]))
         /\ f.ltype = "FIXED_LENGTH_BYTES" => Len(Items(p, f)[i]) = f.data_size
         /\ f.data_size \in Nat
<1> DEFINE v == Items(p, f)[i]
<1>1. f.ltype \notin Packable /\ f.ltype # "SUBMESSAGE"
  BY DEF Packable
<1>2. (CASE f.ltype \in Packable                      -> v \in Nat
         [] f.ltype = "SUBMESSAGE"                    -> TRUE
         [] f.ltype = "FIXED_LENGTH_BYTES"            -> v \in [1..f.data_size -> Nat]
                                                       /\ f.data_size =< SizeMax
         [] OTHER -> v \in Seq(Nat) /\ FitsField(f, Len(v)))
  BY DEF Encodable, Items
<1>3. f.data_size \in Nat /\ p[1] \in Types
  BY FieldsOfType DEF FieldRecord, Encodable
<1> HIDE DEF v
<1>4. CASE f.ltype = "FIXED_LENGTH_BYTES"
  <2>1. v \in [1..f.data_size -> Nat] /\ f.data_size =< SizeMax
    BY <1>1, <1>2, <1>4
  <2>2. v \in Seq(Nat) /\ Len(v) = f.data_size
    BY <1>3, <2>1
  <2>3. FitsField(f, Len(v))
    BY <1>4, <2>1, <2>2 DEF FitsField
  <2> QED
    BY <1>3, <2>2, <2>3 DEF v
<1>5. CASE f.ltype # "FIXED_LENGTH_BYTES"
  <2>1. v \in Seq(Nat) /\ FitsField(f, Len(v))
    BY <1>1, <1>2, <1>5
  <2> QED
    BY <1>3, <1>5, <2>1 DEF v
<1> QED
  BY <1>4, <1>5

(* What stands in the buffer is what is read there. *)
LEMMA PlacedRead ==
  ASSUME NEW b, NEW a, NEW v, Placed(b, a, v), b \in Seq(Nat)
  PROVE  SubSeq(b, a + 1, (a + 1) + Len(v) - 1) = v
<1>1. /\ a \in Nat /\ v \in Seq(Nat) /\ a + Len(v) =< Len(b) /\ \A x \in 1..Len(v) : b[a + x] = v[x]
  BY DEF Placed
<1>2. PICK n \in Nat : n = Len(v)
  BY <1>1
<1>3. SubSeq(b, a + 1, (a + 1) + n - 1) = [i \in 1..n |-> b[a + i]]
  <2>1. (a + 1) + n - 1 = a + n
    BY <1>1
  <2>2. SubSeq(b, a + 1, a + n) = [i \in 1..n |-> b[a + i]]
    <3> DEFINE w == SubSeq(b, a + 1, a + n)
    <3>1. w \in Seq(Nat) /\ Len(w) = n
      BY <1>1, <1>2
    <3>2. \A i \in 1..n : w[i] = b[a + i]
      BY <1>1, <1>2
    <3>3. w = [i \in 1..n |-> w[i]]
      <4> HIDE DEF w
      <4> QED
        BY <3>1
    <3> HIDE DEF w
    <3>4. w = [i \in 1..n |-> b[a + i]]
      BY <3>2, <3>3
    <3> QED
      BY <3>4 DEF w
  <2> QED
    BY <2>1, <2>2
<1>4. v = [i \in 1..n |-> v[i]]
  BY <1>1, <1>2
<1>5. \A i \in 1..n : b[a + i] = v[i]
  BY <1>1, <1>2
<1> QED
  BY <1>2, <1>3, <1>4, <1>5

(* An item that is not a scalar begins with a length. *)
Sized(v) == << Len(v) >> \o v

(* The length, and what it counts. *)
LEMMA PlacedSized ==
  ASSUME NEW b, NEW a, NEW v \in Seq(Nat), Placed(b, a, Sized(v)), Len(b) \in Nat
  PROVE  b[a + 1] = Len(v) /\ Placed(b, a + 1, v) /\ Len(Sized(v)) = 1 + Len(v)
<1>1. PICK x \in Nat : x = Len(v)
  OBVIOUS
<1>2. Placed(b, a, << x >> \o v)
  BY <1>1 DEF Sized
<1>3. b[a + 1] = x /\ Placed(b, a + 1, v) /\ Len(<< x >> \o v) = 1 + Len(v)
  <2>1. b[a + 1] = x
    BY <1>2, PlacedUnit, Zenon
  <2>2. Placed(b, a + 1, v)
    BY <1>2, PlacedUnit
  <2>3. Len(<< x >> \o v) = 1 + Len(v)
    BY <1>2, PlacedUnit
  <2> QED
    BY <2>1, <2>2, <2>3
<1> QED
  BY <1>1, <1>3 DEF Sized

(* The stream has left what the length says. *)
LEMMA LengthLeft ==
  ASSUME Inv, NEW C, Code(C), C.b = buf, NEW u, NEW p, NEW a, NEW k, NEW j, Tagged(C, u, p, a, k, j),
         ~IsPacked(p, k + 1), NEW v \in Seq(Nat),
         EncodeItem(FieldAt(p, k + 1), ItemsAt(p, k + 1)[j + 1], C.S, C.B) = Sized(v)
  PROVE  /\ u.left # 0 /\ buf[u.pos] = Len(v) /\ Len(v) =< u.left - 1 /\ Placed(C.b, u.pos, v)
         /\ u.pos + 1 + Len(v) = Rest(C, p, a, k, j + 1) + 1
         /\ u.pos \in Nat /\ u.left \in Nat
<1>1. Len(C.b) \in Nat /\ Len(v) \in Nat
  BY DEF Code
<1>2. /\ Len(Sized(v)) \in Nat /\ Len(Sized(v)) =< u.left /\ Placed(C.b, u.pos - 1, Sized(v))
      /\ u.pos + Len(Sized(v)) = Rest(C, p, a, k, j + 1) + 1
  BY PieceLeft
<1>3. C.b[(u.pos - 1) + 1] = Len(v) /\ Placed(C.b, (u.pos - 1) + 1, v) /\ Len(Sized(v)) = 1 + Len(v)
  BY <1>1, <1>2, PlacedSized
<1>4. u.pos \in Nat /\ u.left \in Nat
  BY DEF Tagged, Tracks, IsFrame
<1>5. (u.pos - 1) + 1 = u.pos
  BY <1>4
<1>6. PICK n, x, l \in Nat : n = Len(Sized(v)) /\ n = 1 + x /\ x = Len(v) /\ l = u.left /\ n =< l
  BY <1>1, <1>2, <1>3, <1>4
<1>7. l # 0 /\ x =< l - 1
  BY <1>6
<1>8. u.pos + 1 + x = u.pos + n
  BY <1>4, <1>6
<1> QED
  BY <1>2, <1>3, <1>4, <1>5, <1>6, <1>7, <1>8

(* Bytes, a string or fixed length bytes are read. *)
LEMMA BytesFollows ==
  ASSUME Inv, NEW C, NEW m, NEW W, NEW p, NEW a, Where(C, m, W, p, a),
         NEW u, NEW k, NEW j, Tagged(C, u, p, a, k, j), ~IsPacked(p, k + 1),
         FieldAt(p, k + 1).ltype \in {"BYTES", "STRING", "FIXED_LENGTH_BYTES"},
         DecodeBytes(u, FieldAt(p, k + 1))
  PROVE  Onward(C, m)
<1> DEFINE f == FieldAt(p, k + 1)
           v == ItemsAt(p, k + 1)[j + 1]
           n == Len(v)
           r == After(u, 1)
<1>1. Code(C) /\ C.b = buf /\ buf \in Seq(Nat)
  BY DEF Where, Decodes, Inv
<1>2. Reads(C, u, p, a, k, j, TRUE) /\ k + 1 =< Count(p) /\ j < Len(ItemsAt(p, k + 1)) /\ Tracks(u)
  BY DEF Tagged
<1>3. /\ Encodable(p) /\ f \in Fields[p[1]] /\ j + 1 \in 1..Len(ItemsAt(p, k + 1))
  BY <1>1, <1>2, NextItem
<1>4. /\ v \in Seq(Nat) /\ FitsField(f, n) /\ (f.ltype = "FIXED_LENGTH_BYTES" => n = f.data_size)
      /\ f.data_size \in Nat
  BY <1>3, BytesFit DEF ItemsAt
<1>5. EncodeItem(f, v, C.S, C.B) = << n >> \o v
  BY DEF EncodeItem, Packable
<1> HIDE DEF f, v
<1>6. n \in Nat
  BY <1>4
<1>7. /\ u.left # 0 /\ buf[u.pos] = n /\ n =< u.left - 1 /\ Placed(C.b, u.pos, v)
      /\ u.pos + 1 + n = Rest(C, p, a, k, j + 1) + 1 /\ u.pos \in Nat /\ u.left \in Nat
  <2>1. EncodeItem(f, v, C.S, C.B) = Sized(v)
    BY <1>5 DEF Sized
  <2> QED
    BY <1>1, <1>4, <2>1, LengthLeft DEF f, v
<1>8. Tracks(r) /\ r.left = u.left - 1 /\ r.pos = u.pos + 1
  BY <1>2, <1>7, AfterTracks
<1>9. BytesRead(f, r.pos, n) = v
  <2>1. SubSeq(buf, u.pos + 1, (u.pos + 1) + n - 1) = v
    BY <1>1, <1>7, PlacedRead
  <2>2. CASE f.ltype = "FIXED_LENGTH_BYTES" /\ n = 0
    <3>1. v = << >> /\ f.data_size = 0 /\ 1..0 = {}
      BY <1>4, <2>2
    <3>2. [i \in 1..0 |-> 0] = << >>
      BY <3>1
    <3> QED
      BY <2>2, <3>1, <3>2 DEF BytesRead
  <2>3. CASE ~(f.ltype = "FIXED_LENGTH_BYTES" /\ n = 0)
    <3> HIDE DEF r, n
    <3> QED
      BY <1>8, <2>1, <2>3 DEF BytesRead
  <2> QED
    BY <2>2, <2>3
<1>10. CASE GiveUp
  BY <1>10 DEF GiveUp, Onward
<1>11. CASE Continue([After(r, n) EXCEPT !.val = Store(f, @, BytesRead(f, r.pos, n))])
  <2> DEFINE q == After(r, n)
  <2>1. n =< r.left
    BY <1>7, <1>8
  <2> HIDE DEF n
  <2>2. Tracks(q) /\ q.pos = r.pos + n
    BY <1>6, <1>8, <2>1, AfterTracks
  <2>3. Alike(q, u)
    <3>1. IsFrame(u) /\ IsFrame(r)
      BY <1>2, <1>8 DEF Tracks
    <3>2. Alike(q, r) /\ Alike(r, u)
      <4>1. \A s : IsFrame(s) => \A z : Alike(After(s, z), s)
        BY AfterAlike
      <4> QED
        BY <3>1, <4>1
    <3> HIDE DEF q, r
    <3> QED
      BY <3>2 DEF Alike, Labels
  <2>4. IsFrame(q) /\ q.end = u.end
    BY <1>2, <2>2 DEF Tracks, Replaces
  <2>5. q.pos = Rest(C, p, a, k, j + 1) + 1
    BY <1>7, <1>8, <2>2
  <2>6. Continue([q EXCEPT !.val = Store(f, @, v)])
    BY <1>9, <1>11
  <2> HIDE DEF q, r
  <2> QED
    BY <2>3, <2>4, <2>5, <2>6, ItemFollows DEF f, v
<1>12. ~(n > r.left)
  BY <1>6, <1>7, <1>8
<1> HIDE DEF n
<1>13. GiveUp \/ Continue([After(r, n) EXCEPT !.val = Store(f, @, BytesRead(f, r.pos, n))])
  BY <1>4, <1>7, <1>12 DEF DecodeBytes, OutOfMemory, f
<1> QED
  BY <1>10, <1>11, <1>13

(* A message that begins. *)
LEMMA FrameFaces ==
  ASSUME NEW C, Code(C), NEW q \in C.P, NEW d, Placed(C.b, d, C.B[q]),
         NEW s, s.loop = "message", s.type = q[1], s.val = Defaults(q[1]), s.seen = {}, s.fixed = 0,
         s.pos = d + 1, Ends(C, s, d + Len(C.B[q]) + 1)
  PROVE  \E i, j : Faces(C, s, q, d, i, j)
<1>1. Count(q) \in Nat
  BY FieldsOfMessage
<1>2. \A i \in 1..Count(q) : ~Begun(0, 0, FALSE, i)
  BY <1>1 DEF Begun
<1>3. Marked(s, q, 0, 0, FALSE)
  BY <1>2 DEF Marked
<1>4. s.val = Partial(q, 0, 0)
  BY PartialBounds
<1>5. 0 \in 0..Count(q)
  BY <1>1
<1>6. Reads(C, s, q, d, 0, 0, FALSE)
  BY <1>3, <1>4, <1>5 DEF Reads
<1>7. Rest(C, q, d, 0, 0) = d
  BY MessagePlaced
<1> QED
  BY <1>6, <1>7, Turned

(* A singular field has one item. *)
LEMMA Singular ==
  ASSUME NEW p, Encodable(p), NEW f \in Fields[p[1]], f.htype # "REPEATED",
         NEW j \in Nat, j < Len(Items(p, f))
  PROVE  j = 0
<1>1. f.htype \in {"REQUIRED", "OPTIONAL"}
  BY FieldsOfType DEF FieldRecord, Encodable
<1>2. PICK l \in Nat : l = Len(Items(p, f))
  BY ItemsFit
<1>3. l =< 1
  <2>1. CASE f.htype = "REQUIRED"
    <3>1. Len(Items(p, f)) = 1
      BY <2>1 DEF Encodable, Items
    <3>2. l = 1
      BY <1>2, <3>1
    <3> QED
      BY <3>2
  <2>2. CASE f.htype = "OPTIONAL"
    <3>1. Len(Items(p, f)) =< 1
      BY <2>2 DEF Encodable, Items
    <3> QED
      BY <1>2, <3>1
  <2> QED
    BY <1>1, <2>1, <2>2
<1> QED
  BY <1>2, <1>3

(* A submessage begins. *)
LEMMA SubmessageFollows ==
  ASSUME Inv, NEW C, NEW m, NEW W, NEW p, NEW a, Where(C, m, W, p, a),
         NEW u, NEW k, NEW j, Tagged(C, u, p, a, k, j), ~IsPacked(p, k + 1),
         FieldAt(p, k + 1).ltype = "SUBMESSAGE", DecodeSubmessage(u, FieldAt(p, k + 1))
  PROVE  Onward(C, m)
<1> DEFINE f == FieldAt(p, k + 1)
           e == ItemsAt(p, k + 1)
           q == << f.ptr, e[j + 1] >>
           n == Len(C.B[q])
           r == After(u, 1)
           c == Frame("message", f.ptr, f.tag, Defaults(f.ptr), r.pos, n)
<1>1. Code(C) /\ C.b = buf /\ buf \in Seq(Nat) /\ Decodes(C, m, W) /\ Top.loop = "message"
      /\ W[Len(stack)].p = p /\ W[Len(stack)].a = a
  BY DEF Where, Decodes, Inv
<1>2. Reads(C, u, p, a, k, j, TRUE) /\ k + 1 =< Count(p) /\ j < Len(e) /\ Tracks(u) /\ u.field = Top.field
  BY DEF Tagged
<1>3. /\ p \in C.P /\ Encodable(p) /\ f \in Fields[p[1]] /\ j + 1 \in 1..Len(e) /\ j \in Nat
      /\ u.val[f.tag] = Upto(e, j) /\ u.loop = "message" /\ k + 1 \in 1..Count(p)
  <2>1. /\ p \in C.P /\ Encodable(p) /\ f \in Fields[p[1]] /\ j \in Nat
        /\ u.loop = "message" /\ k + 1 \in 1..Count(p)
    BY <1>1, <1>2, NextItem
  <2>2. j + 1 \in 1..Len(e)
    BY <1>1, <1>2, NextItem
  <2>3. u.val[f.tag] = Upto(e, j)
    <3>1. u.val = Partial(p, k, j) /\ k \in 0..Count(p)
      BY <1>2 DEF Reads
    <3>2. Count(p) \in Nat
      BY <1>1, <2>1, FieldsOfMessage
    <3>3. k \in Nat
      BY <3>1, <3>2
    <3>4. Partial(p, k, j)[f.tag] = Upto(e, j)
      BY <1>1, <1>2, <2>1, <3>3, PartialStored
    <3> QED
      BY <3>1, <3>4
  <2> QED
    BY <2>1, <2>2, <2>3
<1>4. q \in C.P /\ q[1] = f.ptr
  <2>1. q \in Parts(p)
    BY <1>3 DEF Parts, ItemsAt, Items
  <2> QED
    BY <1>1, <1>3, <2>1 DEF Code, Closed
<1>5. C.B[q] \in Seq(Nat) /\ C.S[q] = n
  BY <1>1, <1>4 DEF Code, Counted
<1>6. EncodeItem(f, e[j + 1], C.S, C.B) = Sized(C.B[q])
  <2>1. EncodeItem(f, e[j + 1], C.S, C.B) = << C.S[q] >> \o C.B[q]
    BY DEF EncodeItem, Packable
  <2> HIDE DEF q
  <2> QED
    BY <1>5, <2>1 DEF Sized
<1>7. InitialSubmessage(u, f) = Defaults(f.ptr)
  <2>1. ASSUME f.htype # "REPEATED" PROVE u.val[f.tag] = << >>
    <3>1. j = 0
      BY <1>2, <1>3, <2>1, Singular DEF ItemsAt
    <3>2. \E E : e \in Seq(E)
      BY <1>1, <1>3, ItemsAreSeq
    <3>3. Upto(e, 0) = << >>
      BY <3>2, UptoFacts
    <3> QED
      BY <1>3, <3>1, <3>3
  <2> QED
    BY <2>1 DEF InitialSubmessage
<1> HIDE DEF q
<1>8. /\ u.left # 0 /\ buf[u.pos] = n /\ n =< u.left - 1 /\ Placed(C.b, u.pos, C.B[q])
      /\ u.pos + 1 + n = Rest(C, p, a, k, j + 1) + 1 /\ u.pos \in Nat /\ u.left \in Nat
  BY <1>1, <1>5, <1>6, LengthLeft
<1>9. n \in Nat
  BY <1>5
<1> HIDE DEF n
<1>10. Tracks(r) /\ r.left = u.left - 1 /\ r.pos = u.pos + 1 /\ Alike(r, u)
  BY <1>2, <1>8, AfterTracks, AfterAlike DEF Tracks
<1>11. r.end = u.end /\ u.end = Top.end
  BY <1>2, <1>10 DEF Tracks, Replaces, Top
<1>12. CASE GiveUp
  BY <1>12 DEF GiveUp, Onward
<1>13. CASE Open(r, n, c)
  <2>1. /\ c.loop = "message" /\ c.type = q[1] /\ c.val = Defaults(q[1]) /\ c.seen = {} /\ c.fixed = 0
        /\ c.pos = u.pos + 1 /\ c.end = u.pos + 1 + n /\ c.field = f.tag
    BY <1>4, <1>10 DEF Frame
  <2> HIDE DEF c, r
  <2>2. u.pos + n + 1 = u.pos + 1 + n
    BY <1>8, <1>9
  <2>3. Ends(C, c, u.pos + Len(C.B[q]) + 1)
    BY <2>1, <2>2 DEF Ends, n
  <2>4. PICK v : v.p = q /\ v.a = u.pos /\ Level(C, c, v)
    <3>1. \E i, h : Faces(C, c, q, u.pos, i, h)
      BY <1>1, <1>4, <1>8, <2>1, <2>3, FrameFaces
    <3> QED
      BY <3>1, AtFields
  <2>5. Reads(C, r, p, a, k, j, TRUE)
    <3>1. Labels(r, u) /\ r.val = u.val /\ r.seen = u.seen /\ r.fixed = u.fixed
      BY <1>10 DEF Alike
    <3> QED
      BY <1>2, <1>11, <3>1, SameReads
  <2> DEFINE w == At(p, a, k, j)
  <2>6. w.p = p /\ w.a = a /\ w.k = k /\ w.j = j
    BY AtFields
  <2> HIDE DEF w
  <2>7. Inside(C, r, p, a, k, j, c, q, u.pos)
    <3>1. c.end = Rest(C, p, a, k, j + 1) + 1 /\ c.end = u.pos + Len(C.B[q]) + 1
      BY <1>8, <2>1, <2>2 DEF n
    <3> QED
      BY <1>2, <2>1, <2>5, <3>1 DEF Inside, q
  <2>8. Link(C, r, w, c, v)
    BY <2>4, <2>6, <2>7 DEF Link
  <2>9. r.loop = "message" /\ r.field = Top.field /\ r.end = Top.end /\ IsFrame(r)
    BY <1>2, <1>3, <1>10, <1>11 DEF Alike, Labels, Tracks
  <2> QED
    BY <1>1, <1>13, <2>4, <2>6, <2>8, <2>9, OpenFollows
<1>14. OpenString(u, "message", f, f.ptr, Defaults(f.ptr)) \/ GiveUp
  BY <1>7 DEF DecodeSubmessage, OutOfMemory
<1>15. ~(u.left = 0 \/ buf[u.pos] > u.left - 1)
  BY <1>8, <1>9
<1>16. Open(r, n, c) \/ GiveUp
  <2> HIDE DEF n
  <2> QED
    BY <1>8, <1>14, <1>15 DEF OpenString
<1> QED
  BY <1>12, <1>13, <1>16

(* A packed array begins. *)
LEMMA PackedFollows ==
  ASSUME Inv, NEW C, NEW m, NEW W, NEW p, NEW a, Where(C, m, W, p, a),
         NEW u, NEW k, NEW j, Tagged(C, u, p, a, k, j), IsPacked(p, k + 1), j = 0,
         OpenString(u, "packed", FieldAt(p, k + 1), None, << >>)
  PROVE  Onward(C, m)
<1> DEFINE f == FieldAt(p, k + 1)
           e == ItemsAt(p, k + 1)
           r == After(u, 1)
           limit == a + Len(C.B[p])
           off == ScalarStarts(p, k + 1)
           h == Rest(C, p, a, k, 0)
           d == Rest(C, p, a, k + 1, 0)
<1>1. Code(C) /\ C.b = buf /\ buf \in Seq(Nat) /\ Decodes(C, m, W) /\ Top.loop = "message"
      /\ W[Len(stack)].p = p /\ W[Len(stack)].a = a
  BY DEF Where, Decodes, Inv
<1>2. Reads(C, u, p, a, k, j, TRUE) /\ k + 1 =< Count(p) /\ j < Len(e) /\ Tracks(u) /\ u.field = Top.field
      /\ u.pos = h + 2
  BY DEF Tagged
<1>3. /\ p \in C.P /\ k \in Nat /\ Placed(C.b, a, C.B[p]) /\ j \in Nat /\ Len(e) \in Nat
      /\ u.loop = "message"
  BY <1>1, <1>2, NextItem
<1>4. limit \in Nat /\ Ends(C, u, limit + 1)
  BY <1>1, <1>2, <1>3, MessagePlaced DEF Reads
<1>5. PackedAt(C, f, e, off, h, d, limit)
  BY <1>1, <1>2, <1>3, PackedPlaced
<1>6. PICK n \in Nat : /\ h \in Nat /\ d = h + 2 + n /\ d =< limit /\ C.b[h + 2] = n
                       /\ Parted(C.b, h + 2, Scalars(f, e), Len(e), off, n)
  BY <1>5 DEF PackedAt
<1>7. off[0] = 0
  BY <1>6 DEF Parted
<1> DEFINE c == Frame("packed", None, f.tag, << >>, r.pos, n)
<1> HIDE DEF h, d, limit
<1>8. 1 + n =< u.left /\ u.left \in Nat
  <2>1. u.pos + (1 + n) =< limit + 1
    BY <1>2, <1>4, <1>6
  <2>2. u.left \in Nat
    BY <1>2 DEF Tracks, IsFrame
  <2> QED
    BY <1>2, <1>4, <2>1, <2>2, UnitsLeft
<1>9. buf[u.pos] = n /\ u.left # 0 /\ ~(n > u.left - 1)
  BY <1>1, <1>2, <1>6, <1>8
<1>10. Tracks(r) /\ r.left = u.left - 1 /\ r.pos = u.pos + 1 /\ Alike(r, u)
  BY <1>2, <1>8, AfterTracks, AfterAlike DEF Tracks
<1>11. r.end = u.end /\ u.end = Top.end
  BY <1>2, <1>10 DEF Tracks, Replaces, Top
<1>12. Open(r, n, c)
  BY <1>9 DEF OpenString
<1>13. c.loop = "packed" /\ c.pos = u.pos + 1 /\ c.end = u.pos + 1 + n /\ c.field = f.tag
  BY <1>10 DEF Frame
<1> HIDE DEF c, r
<1>14. Reads(C, r, p, a, k, j, TRUE)
  <2>1. Labels(r, u) /\ r.val = u.val /\ r.seen = u.seen /\ r.fixed = u.fixed
    BY <1>10 DEF Alike
  <2> QED
    BY <1>2, <1>11, <2>1, SameReads
<1>15. c.end = d + 1 /\ c.pos = h + 2 + off[j] + 1
  BY <1>2, <1>6, <1>7, <1>13
<1>16. Inside(C, r, p, a, k, j, c, p, a)
  <2>1. c.end = Rest(C, p, a, k + 1, 0) + 1
    BY <1>15 DEF d
  <2>2. c.pos = Rest(C, p, a, k, 0) + 2 + ScalarStarts(p, k + 1)[j] + 1
    BY <1>15 DEF h
  <2>3. j =< Len(ItemsAt(p, k + 1))
    BY <1>2, <1>3
  <2> QED
    BY <1>2, <1>13, <1>14, <2>1, <2>2, <2>3 DEF Inside
<1> DEFINE w == At(p, a, k, j)
<1>17. w.p = p /\ w.a = a /\ w.k = k /\ w.j = j
  BY AtFields
<1> HIDE DEF w
<1>18. Link(C, r, w, c, w)
  BY <1>16, <1>17 DEF Link
<1>19. r.loop = "message" /\ r.field = Top.field /\ r.end = Top.end /\ IsFrame(r) /\ c.loop # "message"
  BY <1>2, <1>3, <1>10, <1>11, <1>13 DEF Alike, Labels, Tracks
<1> QED
  BY <1>1, <1>12, <1>17, <1>18, <1>19, OpenFollows

(* There is room for a further item. *)
LEMMA RoomLeft ==
  ASSUME NEW C, Code(C), NEW u, NEW p, NEW a, NEW k, NEW j, NEW tagged, Reads(C, u, p, a, k, j, tagged),
         k + 1 =< Count(p), j < Len(ItemsAt(p, k + 1))
  PROVE  /\ ItemsAt(p, k + 1) # << >> /\ FieldAt(p, k + 1).atype # "CALLBACK"
         /\ FieldAt(p, k + 1).htype = "REPEATED" =>
              Room(FieldAt(p, k + 1), u.val[FieldAt(p, k + 1).tag])
<1> DEFINE f == FieldAt(p, k + 1)
           e == ItemsAt(p, k + 1)
<1>2. j < Len(e)
  OBVIOUS
<1>3. Encodable(p) /\ f \in Fields[p[1]] /\ p[1] \in Types /\ j \in Nat /\ Len(e) \in Nat
  BY NextItem
<1>4. Len(u.val[f.tag]) = j
  BY NextItem
<1>5. e # << >>
  <2>1. Len(<< >>) = 0 /\ ~(j < 0)
    BY <1>3
  <2> QED
    BY <2>1
<1>6. f.atype # "CALLBACK"
  BY <1>3, <1>5 DEF Encodable, ItemsAt, Items
<1>8. f.atype \in {"STATIC", "POINTER"} /\ f.array_size \in Nat
  BY <1>3, <1>6, FieldsOfType DEF FieldRecord
<1>9. ASSUME f.htype = "REPEATED" PROVE Room(f, u.val[f.tag])
  <2>1. Len(e) =< (IF f.atype = "STATIC" THEN f.array_size ELSE SizeMax)
    BY <1>3, <1>9 DEF Encodable, ItemsAt, Items
  <2>2. SizeMax \in Nat
    BY DescriptorAssumption
  <2> HIDE DEF e, f
  <2>3. j < (IF f.atype = "STATIC" THEN f.array_size ELSE SizeMax)
    BY <1>2, <1>3, <1>8, <2>1, <2>2
  <2> QED
    BY <1>4, <2>3 DEF Room
<1> QED
  BY <1>5, <1>6, <1>9

(* The item is decoded as the field says. *)
LEMMA FieldFollows ==
  ASSUME Inv, NEW C, NEW m, NEW W, NEW p, NEW a, Where(C, m, W, p, a),
         NEW u, NEW k, NEW j, Tagged(C, u, p, a, k, j), IsPacked(p, k + 1) => j = 0,
         DecodeField(u, FieldAt(p, k + 1), WireAt(p, k + 1))
  PROVE  Onward(C, m)
<1> DEFINE f == FieldAt(p, k + 1)
           e == ItemsAt(p, k + 1)
           w == WireAt(p, k + 1)
<1>1. Code(C)
  BY DEF Where, Decodes
<1>2. Reads(C, u, p, a, k, j, TRUE) /\ k + 1 =< Count(p) /\ j < Len(e)
  BY DEF Tagged
<1>3. f \in Fields[p[1]] /\ p[1] \in Types
  BY <1>1, <1>2, NextItem
<1>5. e # << >>
  BY <1>1, <1>2, RoomLeft
<1>6. f.atype # "CALLBACK"
  BY <1>1, <1>2, RoomLeft
<1>7. f.ltype \in Packable \cup {"BYTES", "STRING", "FIXED_LENGTH_BYTES", "SUBMESSAGE"}
  BY <1>3, FieldsOfType DEF FieldRecord
<1>9. f.htype = "REPEATED" => Room(f, u.val[f.tag])
  BY <1>1, <1>2, RoomLeft
<1>10. CASE IsPacked(p, k + 1)
  <2>1. f.htype = "REPEATED" /\ f.ltype \in Packable /\ w = PB_WT_STRING /\ j = 0
    BY <1>10 DEF IsPacked, Packed, WireAt
  <2>2. OpenString(u, "packed", f, None, << >>)
    <3> HIDE DEF f, w
    <3> QED
      BY <1>6, <2>1 DEF DecodeField, f, w
  <2> QED
    BY <1>10, <2>1, <2>2, PackedFollows
<1>11. CASE ~IsPacked(p, k + 1)
  <2>1. ~(f.htype = "REPEATED" /\ f.ltype \in Packable)
    BY <1>5, <1>11 DEF IsPacked, Packed
  <2>2. DecodeField(u, f, w)
    OBVIOUS
  <2> HIDE DEF f, w
  <2>3. CASE f.ltype \in Packable
    <3>1. f.htype # "REPEATED" /\ f.ltype # "SUBMESSAGE"
      BY <2>1, <2>3 DEF Packable
    <3>2. DecodeScalar(u, f)
      BY <1>6, <2>2, <2>3, <3>1 DEF DecodeField
    <3> QED
      BY <1>11, <2>3, <3>2, ScalarFollows DEF f
  <2>4. CASE f.ltype = "SUBMESSAGE"
    <3>1. f.ltype \notin Packable
      BY <2>4 DEF Packable
    <3>2. DecodeSubmessage(u, f)
      BY <1>6, <1>9, <2>2, <2>4, <3>1 DEF DecodeField
    <3> QED
      BY <1>11, <2>4, <3>2, SubmessageFollows DEF f
  <2>5. CASE f.ltype \in {"BYTES", "STRING", "FIXED_LENGTH_BYTES"}
    <3>1. f.ltype \notin Packable /\ f.ltype # "SUBMESSAGE"
      BY <2>5 DEF Packable
    <3>2. DecodeBytes(u, f)
      BY <1>6, <1>9, <2>2, <3>1 DEF DecodeField
    <3> QED
      BY <1>11, <2>5, <3>2, BytesFollows DEF f
  <2> QED
    BY <1>7, <2>3, <2>4, <2>5
<1> QED
  BY <1>10, <1>11

(* At the end of its message a stream finds nothing, or the terminator; before it, a tag. *)
LEMMA EndFound ==
  ASSUME Inv, NEW C, Code(C), C.b = buf, NEW p, NEW a, NEW k, NEW j, Faces(C, Top, p, a, k, j)
  PROVE  /\ AtEnd => k = Count(p) /\ j = 0
         /\ ~AtEnd => k + 1 =< Count(p) /\ j < Len(ItemsAt(p, k + 1)) /\ (IsPacked(p, k + 1) => j = 0)
<1> DEFINE limit == a + Len(C.B[p])
           c == Rest(C, p, a, k, j)
<1>1. /\ Reads(C, Top, p, a, k, j, FALSE) /\ Top.pos = c + 1
      /\ \/ k = Count(p) /\ j = 0
         \/ /\ k + 1 =< Count(p) /\ j < Len(ItemsAt(p, k + 1))
            /\ IsPacked(p, k + 1) => j = 0
  BY DEF Faces
<1>2. /\ p \in C.P /\ k \in 0..Count(p) /\ j \in Nat /\ Placed(C.b, a, C.B[p]) /\ Ends(C, Top, limit + 1)
  BY <1>1 DEF Reads
<1>3. limit \in Nat /\ Count(p) \in Nat
  BY <1>2, MessagePlaced, FieldsOfMessage
<1>4. Tracks(Top) /\ Top.left \in Nat /\ Top.pos \in Nat /\ Top.end \in Int /\ Top.pos + Top.left = Top.end
  BY TopTracks DEF Tracks, IsFrame, Replaces, Top
<1>5. CASE k = Count(p) /\ j = 0
  <2>1. Top.pos = limit + 1
    BY <1>1, <1>2, <1>5, MessagePlaced
  <2>2. AtEnd
    <3> HIDE DEF limit
    <3> QED
      BY <1>2, <1>3, <1>4, <2>1 DEF AtEnd, Ends
  <2> QED
    BY <1>5, <2>2
<1>6. CASE k + 1 =< Count(p) /\ j < Len(ItemsAt(p, k + 1)) /\ (IsPacked(p, k + 1) => j = 0)
  <2>1. k \in Nat
    BY <1>2, <1>3
  <2>2. c \in Nat /\ c + 1 =< limit /\ C.b[c + 1] = TagUnit(FieldAt(p, k + 1), WireAt(p, k + 1))
    BY <1>2, <1>6, <2>1, TagPlaced
  <2>3. FieldAt(p, k + 1) \in Fields[p[1]] /\ p[1] \in Types
    BY <1>1, <1>6, NextItem
  <2>4. WireAt(p, k + 1) \in {0, 1, 2, 5}
    BY DEF WireAt, WireType, PB_WT_VARINT, PB_WT_64BIT, PB_WT_STRING, PB_WT_32BIT
  <2>5. buf[Top.pos] # 0
    BY <1>1, <2>2, <2>3, <2>4, TagRead
  <2>6. 1 =< Top.left
    <3> HIDE DEF limit, c
    <3>1. Top.pos + 1 =< limit + 1
      BY <1>1, <1>3, <2>2
    <3> QED
      BY <1>2, <1>3, <1>4, <3>1, UnitsLeft
  <2>7. ~AtEnd
    BY <1>4, <2>5, <2>6 DEF AtEnd
  <2> QED
    BY <1>6, <2>7
<1> QED
  BY <1>1, <1>5, <1>6

(* A tag is read, and the item behind it. *)
LEMMA TagFollows ==
  ASSUME Inv, NEW C, NEW m, NEW W, Decodes(C, m, W), DecodeTag
  PROVE  Onward(C, m)
<1> DEFINE p == W[Len(stack)].p
           a == W[Len(stack)].a
           k == W[Len(stack)].k
           j == W[Len(stack)].j
           s == After(Top, 1)
           f == FieldAt(p, k + 1)
           e == ItemsAt(p, k + 1)
           u == Noted(s, f)
<1>1. Code(C) /\ C.b = buf /\ Follows(C, m, stack, W) /\ Top.loop = "message" /\ ~AtEnd
  BY DEF Decodes, DecodeTag
<1>2. Tracks(Top) /\ Len(stack) \in Nat \ {0}
  BY TopTracks
<1>3. Faces(C, Top, p, a, k, j)
  BY <1>1, <1>2, FollowsTop DEF Level, Top
<1> HIDE DEF p, a, k, j
<1>4. k + 1 =< Count(p) /\ j < Len(e) /\ (IsPacked(p, k + 1) => j = 0)
  BY <1>1, <1>3, EndFound
<1>5. Reads(C, Top, p, a, k, j, FALSE) /\ Top.pos = Rest(C, p, a, k, j) + 1
  BY <1>3 DEF Faces
<1>6. /\ p \in C.P /\ k \in Nat /\ j \in Nat /\ Placed(C.b, a, C.B[p]) /\ k + 1 \in 1..Count(p)
      /\ p[1] \in Types /\ f \in Fields[p[1]] /\ Top.type = p[1]
  BY <1>1, <1>4, <1>5, NextItem
<1>7. buf[Top.pos] = TagUnit(f, WireAt(p, k + 1)) /\ Rest(C, p, a, k, j) \in Nat
  <2>1. /\ C.b[Rest(C, p, a, k, j) + 1] = TagUnit(f, WireAt(p, k + 1))
        /\ Rest(C, p, a, k, j) \in Nat
    BY <1>1, <1>4, <1>6, TagPlaced
  <2> QED
    BY <1>1, <1>5, <2>1
<1>8. WireAt(p, k + 1) \in {0, 1, 2, 5}
  BY DEF WireAt, WireType, PB_WT_VARINT, PB_WT_64BIT, PB_WT_STRING, PB_WT_32BIT
<1>9. buf[Top.pos] \div 8 = f.tag /\ buf[Top.pos] % 8 = WireAt(p, k + 1)
  BY <1>6, <1>7, <1>8, TagRead
<1>10. 1 =< Top.left
  <2>1. Top.left \in Nat /\ Top.left > 0
    BY <1>1, <1>2 DEF AtEnd, Tracks, IsFrame
  <2> QED
    BY <2>1
<1>11. Tracks(s) /\ s.pos = Top.pos + 1 /\ Alike(s, Top) /\ IsFrame(s) /\ s.end = Top.end
  <2>1. Tracks(s) /\ s.pos = Top.pos + 1
    BY <1>2, <1>10, AfterTracks
  <2>2. Alike(s, Top)
    BY <1>2, AfterAlike DEF Tracks
  <2> QED
    BY <2>1, <2>2 DEF Tracks, Replaces, Top
<1> HIDE DEF s
<1>12. Reads(C, s, p, a, k, j, FALSE)
  <2>1. Labels(s, Top) /\ s.val = Top.val /\ s.seen = Top.seen /\ s.fixed = Top.fixed
    BY <1>11 DEF Alike
  <2> QED
    BY <1>5, <1>11, <2>1, SameReads
<1>13. s.type = p[1]
  BY <1>6, <1>11 DEF Alike, Labels
<1>14. f.tag \in Tags(s.type) /\ Field(s.type, f.tag) = f
  BY <1>1, <1>6, <1>13, Indexed
<1>15. ~(IsFixedCount(f) /\ s.fixed # f.tag /\ ~FixedCountFull(s))
  BY <1>1, <1>4, <1>12, FixedTurns
<1>16. DecodeField(u, f, WireAt(p, k + 1))
  <2> DEFINE tag  == buf[Top.pos] \div 8
             wire == buf[Top.pos] % 8
  <2>1. IF tag \notin Tags(s.type) THEN Skip(s, wire)
        ELSE LET g == Field(s.type, tag)
             IN IF IsFixedCount(g) /\ s.fixed # tag /\ ~FixedCountFull(s) THEN Fail
                ELSE DecodeField(Noted(s, g), g, wire)
    BY DEF DecodeTag, s
  <2>2. tag = f.tag /\ wire = WireAt(p, k + 1)
    BY <1>9
  <2> HIDE DEF tag, wire, f
  <2> QED
    BY <1>14, <1>15, <2>1, <2>2
<1>17. Tagged(C, u, p, a, k, j)
  <2>1. Reads(C, u, p, a, k, j, TRUE) /\ Labels(u, s)
    BY <1>1, <1>4, <1>11, <1>12, NotedReads
  <2>2. Tracks(u) /\ u.pos = s.pos
    BY <1>11, NotedTracks
  <2> HIDE DEF u, e
  <2>3. u.pos = Rest(C, p, a, k, j) + 2
    BY <1>5, <1>7, <1>11, <2>2
  <2>4. u.field = Top.field
    BY <1>11, <2>1 DEF Alike, Labels
  <2> QED
    BY <1>4, <2>1, <2>2, <2>3, <2>4 DEF Tagged, e
<1>18. Where(C, m, W, p, a)
  BY <1>1 DEF Where, p, a
<1> HIDE DEF u
<1> QED
  BY <1>4, <1>16, <1>17, <1>18, FieldFollows

-----------------------------------------------------------------------------
(* The end of a message *)

(* A message that has been read to its end is whole. *)
LEMMA MessageWhole ==
  ASSUME NEW C, Code(C), NEW s, NEW p, NEW a, Reads(C, s, p, a, Count(p), 0, FALSE)
  PROVE  FixedCountFull(s) /\ RequiredPresent(s) /\ s.val = p[2]
<1>1. /\ p \in C.P /\ s.type = p[1] /\ s.val = Partial(p, Count(p), 0)
      /\ Marked(s, p, Count(p), 0, FALSE)
  BY DEF Reads
<1>2. Count(p) \in Nat
  BY <1>1, FieldsOfMessage
<1>3. FixedCountFull(s)
  <2>1. ~(Count(p) + 1 =< Count(p))
    BY <1>2
  <2> QED
    BY <2>1, FixedTurns
<1>4. ASSUME NEW f \in Fields[s.type], f.htype = "REQUIRED" PROVE f.tag \in s.seen
  <2>1. PICK i \in 1..Count(p) : FieldAt(p, i) = f
    BY <1>1, FieldsOfMessage
  <2>2. Begun(Count(p), 0, FALSE, i)
    BY <1>2 DEF Begun
  <2> QED
    BY <1>1, <1>4, <2>1, <2>2 DEF Marked
<1>5. s.val = p[2]
  BY <1>1, PartialBounds
<1> QED
  BY <1>3, <1>4, <1>5 DEF RequiredPresent

(* The frame around the innermost one, which is inside its message. *)
LEMMA BelowInside ==
  ASSUME Inv, NEW C, NEW m, NEW W, Decodes(C, m, W), Len(stack) > 1,
         NEW p, NEW a, NEW k, NEW j, W[Len(stack) - 1].p = p, W[Len(stack) - 1].a = a,
         W[Len(stack) - 1].k = k, W[Len(stack) - 1].j = j
  PROVE  /\ Inside(C, Below, p, a, k, j, Top, W[Len(stack)].p, W[Len(stack)].a)
         /\ Below.loop = "message" /\ IsFrame(Below) /\ Reads(C, Below, p, a, k, j, TRUE)
         /\ p \in C.P /\ k \in Nat /\ j \in Nat /\ Placed(C.b, a, C.B[p]) /\ k + 1 \in 1..Count(p)
         /\ k + 1 =< Count(p) /\ FieldAt(p, k + 1) \in Fields[p[1]]
         /\ Field(Below.type, Top.field) = FieldAt(p, k + 1)
<1>1. Code(C) /\ Follows(C, m, stack, W) /\ Len(stack) \in Nat \ {0}
  BY TopTracks DEF Decodes
<1>2. Inside(C, Below, p, a, k, j, Top, W[Len(stack)].p, W[Len(stack)].a) /\ Below.loop = "message"
  BY <1>1, FollowsTop DEF Link, Below, Top
<1>3. /\ Reads(C, Below, p, a, k, j, TRUE) /\ k + 1 =< Count(p)
      /\ Top.field = FieldAt(p, k + 1).tag
  BY <1>2 DEF Inside
<1>4. /\ p \in C.P /\ k \in 0..Count(p) /\ j \in Nat /\ Placed(C.b, a, C.B[p]) /\ Below.type = p[1]
  BY <1>3 DEF Reads
<1>5. Count(p) \in Nat
  BY <1>1, <1>4, FieldsOfMessage
<1>6. k \in Nat /\ k + 1 \in 1..Count(p)
  BY <1>3, <1>4, <1>5
<1>7. Field(p[1], FieldAt(p, k + 1).tag) = FieldAt(p, k + 1) /\ FieldAt(p, k + 1) \in Fields[p[1]]
  BY <1>1, <1>4, <1>6, Indexed, FieldsOfMessage
<1>8. IsFrame(Below)
  <2>1. Len(stack) - 1 \in 1..Len(stack)
    BY TopTracks
  <2> QED
    BY <2>1 DEF Inv, IsStack, Below
<1> QED
  BY <1>2, <1>3, <1>4, <1>6, <1>7, <1>8

(* The message is over, and the one around it goes on behind it. *)
LEMMA SubmessageEnds ==
  ASSUME Inv, NEW C, NEW m, NEW W, Decodes(C, m, W), Len(stack) > 1, Top.loop = "message",
         NEW v, v = W[Len(stack)].p[2], Close([Below EXCEPT !.val = Store(Field(Below.type, Top.field), @, v)])
  PROVE  Onward(C, m)
<1> DEFINE p == W[Len(stack) - 1].p
           a == W[Len(stack) - 1].a
           k == W[Len(stack) - 1].k
           j == W[Len(stack) - 1].j
           q == W[Len(stack)].p
           f == FieldAt(p, k + 1)
           e == ItemsAt(p, k + 1)
           t == [Below EXCEPT !.val = Store(f, @, v)]
           z == [t EXCEPT !.pos = Top.end]
<1>0. Code(C)
  BY DEF Decodes
<1>1. /\ Inside(C, Below, p, a, k, j, Top, q, W[Len(stack)].a)
      /\ Below.loop = "message" /\ IsFrame(Below) /\ Reads(C, Below, p, a, k, j, TRUE)
      /\ p \in C.P /\ k \in Nat /\ j \in Nat /\ k + 1 =< Count(p)
      /\ Field(Below.type, Top.field) = f
  BY BelowInside
<1>2. Close(t)
  BY <1>1
<1>3. q = W[Len(stack)].p
  OBVIOUS
<1> HIDE DEF q
<1>4. /\ ~IsPacked(p, k + 1) /\ j < Len(e) /\ q = << f.ptr, e[j + 1] >>
      /\ Top.end = Rest(C, p, a, k, j + 1) + 1
  BY <1>1 DEF Inside
<1>5. v = e[j + 1]
  BY <1>3, <1>4
<1>6. /\ IsFrame(t) /\ Labels(t, Below) /\ t.seen = Below.seen /\ t.fixed = Below.fixed
      /\ t.end = Below.end /\ t.val = Store(f, Below.val, v)
  <2>1. IsFrame(Below)
    BY <1>1
  <2> HIDE DEF f
  <2> QED
    BY <2>1 DEF IsFrame, IsRecord, FrameFields, Labels
<1>7. z = [t EXCEPT !.pos = Top.end]
  OBVIOUS
<1> HIDE DEF t, z
<1>8. Reads(C, t, p, a, k, j + 1, FALSE)
  BY <1>0, <1>1, <1>4, <1>5, <1>6, StoredReads
<1>9. Labels(z, t) /\ z.val = t.val /\ z.seen = t.seen /\ z.fixed = t.fixed /\ z.end = t.end /\ z.pos = Top.end
  BY <1>6, <1>7 DEF IsFrame, IsRecord, FrameFields, Labels
<1>10. Reads(C, z, p, a, k, j + 1, FALSE)
  BY <1>8, <1>9, SameReads
<1>11. \E i, h : Faces(C, z, p, a, i, h)
  BY <1>0, <1>1, <1>4, <1>9, <1>10, ItemRead
<1>12. PICK w : w.p = p /\ w.a = a /\ Level(C, z, w)
  BY <1>11, AtFields
<1>13. t.loop = "message" /\ t.field = Below.field
  BY <1>1, <1>6 DEF Labels
<1> QED
  BY <1>1, <1>2, <1>6, <1>7, <1>12, <1>13, CloseFollows

(* A message ends: the outermost one, or one in another. *)
LEMMA EndFollows ==
  ASSUME Inv, NEW C, NEW m, NEW W, Decodes(C, m, W), EndMessage
  PROVE  Onward(C, m)
<1> DEFINE p == W[Len(stack)].p
           a == W[Len(stack)].a
           s == IF Top.left = 0 THEN Top ELSE After(Top, 1)
           f == Field(Below.type, Top.field)
<1>1. Code(C) /\ C.b = buf /\ Follows(C, m, stack, W) /\ Top.loop = "message" /\ AtEnd
  BY DEF Decodes, EndMessage
<1>2. Tracks(Top) /\ Len(stack) \in Nat \ {0}
  BY TopTracks
<1>3. Faces(C, Top, p, a, W[Len(stack)].k, W[Len(stack)].j)
  BY <1>1, <1>2, FollowsTop DEF Level, Top
<1>4. Len(stack) = 1 => p = << Root, m >>
  BY <1>1, <1>2, FollowsTop
<1>5. p = W[Len(stack)].p
  OBVIOUS
<1> HIDE DEF p, a
<1>6. W[Len(stack)].k = Count(p) /\ W[Len(stack)].j = 0
  BY <1>1, <1>3, EndFound
<1>7. Reads(C, Top, p, a, Count(p), 0, FALSE)
  BY <1>3, <1>6 DEF Faces
<1>8. Alike(s, Top) /\ s.end = Top.end
  <2>1. CASE Top.left = 0
    BY <2>1 DEF Alike, Labels
  <2>2. CASE Top.left # 0
    <3>1. Tracks(After(Top, 1))
      BY <1>2, <2>2, LengthRead
    <3>2. Alike(After(Top, 1), Top)
      BY <1>2, AfterAlike DEF Tracks
    <3> QED
      BY <1>2, <2>2, <3>1, <3>2 DEF Tracks, Replaces
  <2> QED
    BY <2>1, <2>2
<1> HIDE DEF s
<1>9. Reads(C, s, p, a, Count(p), 0, FALSE)
  BY <1>7, <1>8, SameReads DEF Alike
<1>10. FixedCountFull(s) /\ RequiredPresent(s) /\ s.val = p[2]
  BY <1>1, <1>9, MessageWhole
<1>11. CASE Len(stack) = 1
  <2>1. status' = "ok" /\ stack' = << s >>
    BY <1>10, <1>11 DEF EndMessage, s
  <2>2. s.val = m
    BY <1>4, <1>10, <1>11
  <2> QED
    BY <2>1, <2>2 DEF Onward
<1>12. CASE Len(stack) # 1
  <2>1. Close([Below EXCEPT !.val = Store(f, @, s.val)])
    BY <1>10, <1>12 DEF EndMessage, s
  <2>2. Len(stack) > 1
    BY <1>2, <1>12, NotOne
  <2>3. s.val = W[Len(stack)].p[2]
    BY <1>5, <1>10
  <2> QED
    BY <1>1, <2>1, <2>2, <2>3, SubmessageEnds
<1> QED
  BY <1>11, <1>12

-----------------------------------------------------------------------------
(* The items of a packed array *)

(* What is left of a packed array: nothing, or a further item. *)
LEMMA PackedLeft ==
  ASSUME NEW C, Code(C), NEW s, NEW p, NEW a, NEW k, NEW j, NEW c, NEW q, NEW d,
         Inside(C, s, p, a, k, j, c, q, d), c.loop = "packed"
  PROVE  /\ j = Len(ItemsAt(p, k + 1)) => c.pos = c.end
         /\ j # Len(ItemsAt(p, k + 1)) =>
              /\ j < Len(ItemsAt(p, k + 1)) /\ C.b[c.pos] = ItemsAt(p, k + 1)[j + 1]
              /\ SizeOfScalar(FieldAt(p, k + 1).ltype) \in Nat \ {0}
              /\ c.pos + SizeOfScalar(FieldAt(p, k + 1).ltype) =< c.end
              /\ c.pos + SizeOfScalar(FieldAt(p, k + 1).ltype)
                 = Rest(C, p, a, k, 0) + 2 + ScalarStarts(p, k + 1)[j + 1] + 1
<1> DEFINE f   == FieldAt(p, k + 1)
           e   == ItemsAt(p, k + 1)
           off == ScalarStarts(p, k + 1)
           h   == Rest(C, p, a, k, 0)
           z   == Rest(C, p, a, k + 1, 0)
           n   == SizeOfScalar(f.ltype)
           x   == Scalars(f, e)[j + 1]
<1>1. /\ Reads(C, s, p, a, k, j, TRUE) /\ k + 1 =< Count(p) /\ IsPacked(p, k + 1) /\ j =< Len(e)
      /\ c.end = z + 1 /\ c.pos = h + 2 + off[j] + 1
  BY DEF Inside
<1>2. p \in C.P /\ k \in 0..Count(p) /\ j \in Nat /\ Placed(C.b, a, C.B[p])
  BY <1>1 DEF Reads
<1>3. Count(p) \in Nat
  BY <1>2, FieldsOfMessage
<1>4. k \in Nat /\ k + 1 \in 1..Count(p)
  BY <1>1, <1>2, <1>3
<1>5. Encodable(p) /\ f \in Fields[p[1]] /\ Len(e) \in Nat
  BY <1>2, <1>4, FieldsOfMessage
<1>6. PackedAt(C, f, e, off, h, z, a + Len(C.B[p]))
  BY <1>1, <1>2, <1>4, PackedPlaced
<1>7. f.ltype \in Packable /\ e \in Seq(Nat)
  <2>1. f.ltype \in Packable
    BY <1>1 DEF IsPacked, Packed
  <2> QED
    BY <1>5, <2>1, ItemsFit DEF ItemsAt
<1> HIDE DEF h, z, e, off
<1>8. PICK y \in Nat : /\ h \in Nat /\ z = h + 2 + y
                       /\ Parted(C.b, h + 2, Scalars(f, e), Len(e), off, y)
  BY <1>6 DEF PackedAt
<1>9. CASE j = Len(e)
  <2>1. off[j] = y
    BY <1>8, <1>9 DEF Parted
  <2>2. c.pos = c.end
    BY <1>1, <1>8, <2>1
  <2> QED
    BY <1>9, <2>2 DEF e
<1>10. CASE j # Len(e)
  <2>1. j < Len(e) /\ j + 1 =< Len(e) /\ j \in 0..Len(e) /\ j + 1 \in 0..Len(e) /\ j + 1 \in 1..Len(e)
    BY <1>1, <1>2, <1>5, <1>10
  <2>2. x = EncodeScalar(f, e[j + 1])
    BY <2>1 DEF Scalars
  <2>3. e[j + 1] \in Nat
    BY <1>7, <2>1
  <2>4. Len(x) = n /\ x[1] = e[j + 1] /\ n \in Nat \ {0}
    BY <1>7, <2>2, <2>3, ScalarEncoded
  <2> HIDE DEF n, x
  <2>5. /\ off[j] \in Nat /\ off[j + 1] \in Nat /\ off[j + 1] =< y
        /\ Placed(C.b, h + 2 + off[j], x) /\ off[j + 1] = off[j] + Len(x)
    BY <1>2, <1>8, <2>1 DEF Parted, x
  <2>6. C.b[h + 2 + off[j] + 1] = e[j + 1]
    <3>1. 1 \in 1..Len(x)
      BY <2>4
    <3>2. C.b[(h + 2 + off[j]) + 1] = x[1]
      BY <2>5, <3>1 DEF Placed
    <3> QED
      BY <2>4, <3>2
  <2>7. c.pos + n =< c.end /\ c.pos + n = h + 2 + off[j + 1] + 1
    BY <1>1, <1>8, <2>4, <2>5
  <2> QED
    BY <1>1, <1>10, <2>1, <2>4, <2>6, <2>7 DEF e, h, off, n
<1> QED
  BY <1>9, <1>10 DEF e

(* A packed array ends. *)
LEMMA StringFollows ==
  ASSUME Inv, NEW C, NEW m, NEW W, Decodes(C, m, W), EndString
  PROVE  Onward(C, m)
<1> DEFINE p == W[Len(stack) - 1].p
           a == W[Len(stack) - 1].a
           k == W[Len(stack) - 1].k
           j == W[Len(stack) - 1].j
           e == ItemsAt(p, k + 1)
           z == [Below EXCEPT !.pos = Top.end]
<1>1. /\ Code(C) /\ C.b = buf /\ Follows(C, m, stack, W) /\ Top.loop \in {"packed", "callback"}
      /\ Top.left = 0 /\ Len(stack) > 1 /\ Close(Below)
  BY DEF Decodes, EndString
<1>2. Tracks(Top) /\ Len(stack) \in Nat \ {0}
  BY TopTracks
<1>3. Top.loop = "packed"
  BY <1>1, <1>2, FollowsTop DEF Top
<1>4. /\ Inside(C, Below, p, a, k, j, Top, W[Len(stack)].p, W[Len(stack)].a)
      /\ Below.loop = "message" /\ IsFrame(Below) /\ Reads(C, Below, p, a, k, j, TRUE)
      /\ p \in C.P /\ k \in Nat /\ j \in Nat /\ k + 1 =< Count(p)
  BY <1>1, BelowInside
<1>5. p = W[Len(stack) - 1].p /\ a = W[Len(stack) - 1].a
  OBVIOUS
<1> HIDE DEF p, a, k, j
<1>6. Top.end = Rest(C, p, a, k + 1, 0) + 1
  BY <1>3, <1>4 DEF Inside
<1>7. j = Len(e)
  <2>1. Top.pos + 0 = Top.end /\ Top.pos \in Nat
    BY <1>1, <1>2 DEF Tracks, Replaces, IsFrame, Top
  <2>2. \A n \in Nat \ {0} : ~(Top.pos + n =< Top.end)
    BY <2>1
  <2> QED
    BY <1>1, <1>3, <1>4, <2>2, PackedLeft
<1>8. Labels(z, Below) /\ z.val = Below.val /\ z.seen = Below.seen /\ z.fixed = Below.fixed
      /\ z.end = Below.end /\ z.pos = Top.end
  BY <1>4 DEF IsFrame, IsRecord, FrameFields, Labels
<1>9. z = [Below EXCEPT !.pos = Top.end]
  OBVIOUS
<1> HIDE DEF z, e
<1>10. Reads(C, z, p, a, k, j, TRUE)
  BY <1>4, <1>8, SameReads
<1>11. \E i, h : Faces(C, z, p, a, i, h)
  BY <1>1, <1>4, <1>6, <1>7, <1>8, <1>10, FieldRead DEF e
<1>12. PICK w : w.p = p /\ w.a = a /\ Level(C, z, w)
  BY <1>11, AtFields
<1> QED
  BY <1>1, <1>4, <1>5, <1>9, <1>12, CloseFollows

(* An item of a packed array is read. *)
LEMMA DecodeItemFollows ==
  ASSUME Inv, NEW C, NEW m, NEW W, Decodes(C, m, W), DecodeItem
  PROVE  Onward(C, m)
<1> DEFINE p == W[Len(stack) - 1].p
           a == W[Len(stack) - 1].a
           k == W[Len(stack) - 1].k
           j == W[Len(stack) - 1].j
           f == FieldAt(p, k + 1)
           e == ItemsAt(p, k + 1)
           n == SizeOfScalar(f.ltype)
           c == After(Top, n)
           v == e[j + 1]
           b == [Below EXCEPT !.val = Store(f, @, v)]
           l == Len(stack)
           w == At(p, a, k, j + 1)
<1>1. /\ Code(C) /\ C.b = buf /\ Follows(C, m, stack, W) /\ status = "run" /\ Top.loop = "packed"
      /\ Top.left > 0
  BY DEF Decodes, DecodeItem
<1>2. Tracks(Top) /\ l \in Nat \ {0}
  BY TopTracks
<1>3. l > 1
  BY <1>1, <1>2, FollowsTop, NotOne DEF Top
<1>4. /\ Inside(C, Below, p, a, k, j, Top, W[l].p, W[l].a)
      /\ Below.loop = "message" /\ IsFrame(Below) /\ Reads(C, Below, p, a, k, j, TRUE)
      /\ p \in C.P /\ k \in Nat /\ j \in Nat /\ k + 1 =< Count(p) /\ f \in Fields[p[1]]
      /\ Field(Below.type, Top.field) = f
  BY <1>1, <1>3, BelowInside
<1>5. p = W[l - 1].p /\ a = W[l - 1].a
  OBVIOUS
<1> HIDE DEF p, a, k, j
<1>6. IsPacked(p, k + 1) /\ Top.end = Rest(C, p, a, k + 1, 0) + 1 /\ Top.field = f.tag
  BY <1>1, <1>4 DEF Inside
<1>7. Top.pos + Top.left = Top.end /\ Top.pos \in Nat /\ Top.left \in Nat /\ Top.end \in Int
  BY <1>2 DEF Tracks, Replaces, IsFrame, Top
<1>8. j # Len(e)
  <2>1. Top.pos # Top.end
    BY <1>1, <1>7
  <2> QED
    BY <1>1, <1>4, <2>1, PackedLeft
<1>9. /\ j < Len(e) /\ buf[Top.pos] = v /\ n \in Nat \ {0} /\ Top.pos + n =< Top.end
      /\ Top.pos + n = Rest(C, p, a, k, 0) + 2 + ScalarStarts(p, k + 1)[j + 1] + 1
  BY <1>1, <1>4, <1>8, PackedLeft
<1>10. f.htype = "REPEATED"
  BY <1>6 DEF IsPacked, Packed
<1>11. Room(f, Below.val[f.tag])
  BY <1>1, <1>4, <1>9, <1>10, RoomLeft
<1> HIDE DEF n, v
<1>12. n =< Top.left /\ n \in Nat
  BY <1>7, <1>9
<1>13. Field(Below.type, Top.field) = f
  BY <1>4
<1>14. CASE GiveUp
  BY <1>14 DEF GiveUp, Onward
<1>15. CASE /\ stack' = [stack EXCEPT ![l] = c, ![l - 1].val = Store(f, @, buf[Top.pos])]
            /\ status' = status
  <2>1. PICK X : stack \in Seq(X)
    BY DEF Inv, IsStack
  <2>2. PICK g \in Nat : g = l - 1 /\ l = g + 1 /\ g \in 1..l /\ g # l /\ l \in 1..l
    BY <1>2, <1>3
  <2>3. Below = stack[g]
    BY <2>2 DEF Below
  <2>4. stack' = [stack EXCEPT ![l] = c, ![g] = b]
    <3>1. stack' = [stack EXCEPT ![l] = c, ![g].val = Store(f, @, v)]
      BY <1>9, <1>15, <2>2
    <3> HIDE DEF c, l, f
    <3> QED
      BY <2>1, <2>2, <2>3, <3>1
  <2>5. Tracks(c) /\ c.pos = Top.pos + n /\ Alike(c, Top) /\ c.end = Top.end
    <3>1. Tracks(c) /\ c.pos = Top.pos + n
      BY <1>2, <1>12, AfterTracks
    <3>2. Alike(c, Top)
      BY <1>2, AfterAlike DEF Tracks
    <3> QED
      BY <3>1, <3>2 DEF Tracks, Replaces, Top
  <2>6. /\ Labels(b, Below) /\ b.seen = Below.seen /\ b.fixed = Below.fixed
        /\ b.end = Below.end /\ b.val = Store(f, Below.val, v)
    <3> HIDE DEF f
    <3> QED
      BY <1>4 DEF IsFrame, IsRecord, FrameFields, Labels
  <2> HIDE DEF c, b
  <2>7. Reads(C, b, p, a, k, j + 1, TRUE)
    BY <1>1, <1>4, <1>9, <2>6, StoredReads DEF v
  <2>8. Inside(C, b, p, a, k, j + 1, c, p, a)
    <3>1. c.loop = "packed" /\ c.field = FieldAt(p, k + 1).tag /\ c.end = Rest(C, p, a, k + 1, 0) + 1
      BY <1>1, <1>6, <2>5 DEF Alike, Labels
    <3>2. c.pos = Rest(C, p, a, k, 0) + 2 + ScalarStarts(p, k + 1)[j + 1] + 1
      BY <1>9, <2>5
    <3>3. j + 1 =< Len(ItemsAt(p, k + 1))
      <4>1. Len(ItemsAt(p, k + 1)) \in Nat
        BY <1>1, <1>4, <1>9, NextItem
      <4> QED
        BY <1>4, <1>9, <4>1
    <3> QED
      BY <1>4, <1>6, <2>7, <3>1, <3>2, <3>3 DEF Inside
  <2>9. w.p = p /\ w.a = a /\ w.k = k /\ w.j = j + 1
    BY AtFields
  <2> HIDE DEF w
  <2>10. Link(C, b, w, c, w)
    BY <2>8, <2>9 DEF Link
  <2> DEFINE st == [stack EXCEPT ![l] = c, ![g] = b]
  <2>11. Len(st) = l /\ st[l] = c /\ st[g] = b /\ \A i \in 1..(g - 1) : st[i] = stack[i]
    BY <2>1, <2>2
  <2>12. stack' = st
    BY <2>4
  <2> HIDE DEF st
  <2>13. /\ b.loop = "message" /\ b.field = stack[g].field /\ b.end = stack[g].end
         /\ stack[g].loop = "message" /\ c.loop = "packed"
    BY <1>1, <1>4, <2>3, <2>5, <2>6 DEF Alike, Labels
  <2>14. w.p = W[g].p /\ w.a = W[g].a
    BY <1>5, <2>2, <2>9
  <2>15. GoesOn(C, stack, W, g, st, w, w)
    <3>1. Len(st) = g + 1 /\ Len(st) # g /\ Len(stack) \in Nat /\ g \in 1..Len(stack)
      BY <1>2, <2>2, <2>11
    <3>2. st[g + 1] = c
      BY <2>2, <2>11
    <3> QED
      BY <2>10, <2>11, <2>13, <2>14, <3>1, <3>2 DEF GoesOn
  <2>16. \E V : Follows(C, m, st, V)
    BY <1>1, <2>15, FollowsFrom
  <2> QED
    BY <1>1, <1>15, <2>12, <2>16 DEF Onward
<1>16. \/ (n > Top.left \/ ~Room(f, Below.val[f.tag])) /\ Fail
       \/ /\ stack' = [stack EXCEPT ![l] = c, ![l - 1].val = Store(f, @, buf[Top.pos])]
          /\ status' = status
       \/ GiveUp
  <2> HIDE DEF f
  <2> QED
    BY <1>13 DEF DecodeItem, OutOfMemory, n
<1>17. ~(n > Top.left)
  BY <1>7, <1>12
<1> QED
  BY <1>11, <1>14, <1>15, <1>16, <1>17

-----------------------------------------------------------------------------
(* The round trip *)

(* A step of the decoder that reads m. *)
LEMMA StepFollows ==
  ASSUME Inv, NEW C, NEW m, NEW W, Decodes(C, m, W), Next
  PROVE  Onward(C, m)
<1>1. Follows(C, m, stack, W) /\ status = "run" /\ Len(stack) \in Nat \ {0}
  BY TopTracks DEF Decodes
<1>2. Top.loop \in {"message", "packed"}
  BY <1>1, FollowsTop DEF Top
<1>3. ~CallCallback /\ ~Returned
  BY <1>1, <1>2 DEF CallCallback, Returned
<1>4. DecodeTag \/ EndMessage \/ DecodeItem \/ EndString
  BY <1>3 DEF Next
<1> QED
  BY <1>4, TagFollows, EndFollows, DecodeItemFollows, StringFollows

(* Behind the first j units stands a field that the type Root has not, and how many units
   pb_skip_field passes over behind its tag. *)
Foreign(j) ==
  /\ buf[j + 1] # 0 /\ buf[j + 1] \div 8 \notin Tags(Root)
  /\ buf[j + 1] % 8 \in {PB_WT_VARINT, PB_WT_64BIT, PB_WT_STRING, PB_WT_32BIT}
  /\ buf[j + 1] % 8 = PB_WT_STRING => j + 2 =< Len(buf)

Passed(j) ==
  CASE buf[j + 1] % 8 = PB_WT_VARINT -> 1
    [] buf[j + 1] % 8 = PB_WT_64BIT  -> Size64
    [] buf[j + 1] % 8 = PB_WT_32BIT  -> Size32
    [] OTHER                         -> 1 + buf[j + 2]

(* The first k units are such fields, which begin behind the first j for each j of S. *)
Unknown(k, S) ==
  /\ S \subseteq 0..k /\ 0 \in S
  /\ \A j \in S \ {k} : Foreign(j) /\ j + 1 + Passed(j) \in S

(* Behind them stands what pb_encode writes for the message, and nothing else before the end of
   the buffer or a terminator. *)
WrittenBehind(k) ==
  LET d == k + Len(Encode(Root, origin))
  IN /\ d =< Len(buf) /\ SubSeq(buf, k + 1, d) = Encode(Root, origin)
     /\ Len(buf) > d => buf[d + 1] = 0

(* The buffer is an encoding of its message: pb_encode wrote it, and fields of a later version of
   the type may stand before it. *)
Written == \E k \in 0..Len(buf) : WrittenBehind(k) /\ \E S \in SUBSET (0..k) : Unknown(k, S)

(* pb_decode has read nothing of the message yet. *)
Empty(s) ==
  /\ s.loop = "message" /\ s.type = Root /\ s.val = Defaults(Root) /\ s.seen = {} /\ s.fixed = 0

(* It passes over the fields before the encoding. *)
Passing(k, S) ==
  /\ k \in 0..Len(buf) /\ WrittenBehind(k) /\ Unknown(k, S)
  /\ status = "run" /\ Len(stack) = 1 /\ Empty(Top) /\ Top.pos - 1 \in S \ {k}

(* It passes over those fields, or is on its way through the encoding, or has returned the message
   of it. *)
Restores ==
  Written /\ origin # None =>
    /\ status # "error" /\ (status = "ok" => stack[1].val = origin)
    /\ status = "run" => (\E C, W : Decodes(C, origin, W)) \/ (\E k, S : Passing(k, S))

(* The encoding of the message is a buffer as above. *)
LEMMA CodeExists ==
  ASSUME Inv, Given, origin # None, NEW m, m = origin
  PROVE  \E C : /\ Code(C) /\ C.b = buf /\ << Root, m >> \in C.P
                /\ C.B[<< Root, m >>] = Encode(Root, m)
<1> DEFINE P == MessagesIn(Root, m)
           C == [P |-> P, S |-> Sizes(P), B |-> Encodings(P), b |-> buf]
<1>1. Shallow(Root, m)
  BY OriginAssumption DEF Given, Shallow
<1>2. Closed(P) /\ << Root, m >> \in P
  BY <1>1, MessagesClosed DEF Shallow
<1>3. \A p \in P : Encodings(P)[p] = EncodeMessage(p, Sizes(P), Encodings(P))
  BY <1>1, EncodingsRest
<1>4. Encode(Root, m) = Encodings(P)[<< Root, m >>]
  BY DEF Encode
<1> HIDE DEF P
<1>5. Counted(P, Sizes(P), Encodings(P))
  BY <1>2, LevelsCounted
<1>6. C.P = P /\ C.S = Sizes(P) /\ C.B = Encodings(P) /\ C.b = buf
  OBVIOUS
<1> HIDE DEF C
<1>7. Code(C)
  BY <1>2, <1>3, <1>5, <1>6 DEF Code, Inv
<1> QED
  BY <1>2, <1>4, <1>6, <1>7

(* pb_decode begins at the beginning of the encoding. *)
LEMMA EncodingBegins ==
  ASSUME Inv, Given, origin # None, NEW k \in Nat, WrittenBehind(k),
         NEW st, Len(st) = 1, NEW t, st[1] = t, Empty(t), t.pos = k + 1, t.end = Len(buf) + 1
  PROVE  \E C, W : Code(C) /\ C.b = buf /\ Follows(C, origin, st, W)
<1>1. PICK m : m = origin
  OBVIOUS
<1>2. PICK C : /\ Code(C) /\ C.b = buf /\ << Root, m >> \in C.P /\ C.B[<< Root, m >>] = Encode(Root, m)
  BY <1>1, CodeExists
<1> DEFINE q == << Root, m >>
           e == Encode(Root, m)
           n == Len(e)
<1>3. q \in C.P /\ q[1] = Root /\ C.B[q] = e /\ e \in Seq(Nat) /\ buf \in Seq(Nat)
  BY <1>2 DEF Code, Counted, Inv
<1>4. k + n =< Len(buf) /\ SubSeq(buf, k + 1, k + n) = e /\ (Len(buf) > k + n => buf[k + n + 1] = 0)
  BY <1>1 DEF WrittenBehind
<1> HIDE DEF e
<1>5. n \in Nat /\ Len(buf) \in Nat
  BY <1>3
<1>6. Placed(C.b, k, C.B[q])
  <2>1. PICK x \in Nat : x = n
    BY <1>5
  <2>2. \A i \in 1..x : SubSeq(buf, k + 1, k + x)[i] = buf[k + i]
    BY <1>3, <1>4, <2>1
  <2>3. \A i \in 1..n : buf[k + i] = e[i]
    BY <1>4, <2>1, <2>2
  <2> QED
    BY <1>2, <1>3, <1>4, <2>3 DEF Placed
<1>8. Ends(C, t, k + Len(C.B[q]) + 1)
  <2>1. CASE Len(buf) = k + n
    BY <1>3, <2>1 DEF Ends
  <2>2. CASE Len(buf) # k + n
    <3> HIDE DEF n
    <3>1. t.end > k + n + 1 /\ Len(buf) > k + n
      BY <1>4, <1>5, <2>2
    <3>2. C.b[k + n + 1] = 0
      BY <1>2, <1>4, <3>1
    <3> QED
      BY <1>3, <3>1, <3>2 DEF Ends, n
  <2> QED
    BY <2>1, <2>2
<1> HIDE DEF q, n
<1>9. \E i, j : Faces(C, t, q, k, i, j)
  <2>1. /\ t.loop = "message" /\ t.type = q[1] /\ t.val = Defaults(q[1]) /\ t.seen = {}
        /\ t.fixed = 0
    BY <1>3 DEF Empty
  <2> QED
    BY <1>2, <1>3, <1>6, <1>8, <2>1, FrameFaces
<1>10. PICK w : w.p = q /\ w.a = k /\ Level(C, t, w)
  BY <1>9, AtFields
<1> DEFINE W == << w >>
<1>11. W[1] = w
  OBVIOUS
<1> HIDE DEF W
<1>12. Follows(C, m, st, W)
  BY <1>10, <1>11 DEF Follows, Empty, q
<1> QED
  BY <1>1, <1>2, <1>12

LEMMA InitRestores == Inv /\ Given /\ Init => Restores
<1> SUFFICES ASSUME Inv, Given, Init, Written, origin # None
             PROVE  (\E C, W : Decodes(C, origin, W)) \/ (\E k, S : Passing(k, S))
  BY DEF Restores, Init
<1>1. PICK k \in 0..Len(buf) : WrittenBehind(k) /\ \E S \in SUBSET (0..k) : Unknown(k, S)
  BY DEF Written
<1>2. PICK S : Unknown(k, S)
  BY <1>1
<1>3. stack = << Frame("message", Root, 0, Defaults(Root), 1, Len(buf)) >> /\ status = "run"
  BY DEF Init
<1>4. Len(stack) = 1 /\ Empty(Top) /\ Top.pos = 1
  BY <1>3 DEF Top, Frame, Empty
<1>5. k \in Nat /\ Len(buf) \in Nat /\ stack[1] = Top
  BY <1>1, <1>3, <1>4 DEF Inv, Top
<1>6. CASE k = 0
  <2>1. Top.pos = k + 1 /\ Top.end = Len(buf) + 1
    BY <1>4, <1>6 DEF Inv, Nested, Top
  <2>2. \E C, W : Code(C) /\ C.b = buf /\ Follows(C, origin, stack, W)
    BY <1>1, <1>4, <1>5, <2>1, EncodingBegins
  <2> QED
    BY <1>3, <2>2 DEF Decodes
<1>7. CASE k # 0
  <2>1. Top.pos - 1 = 0
    BY <1>4
  <2>2. Top.pos - 1 \in S \ {k}
    BY <1>2, <1>7, <2>1 DEF Unknown
  <2> QED
    BY <1>1, <1>2, <1>3, <1>4, <2>2 DEF Passing
<1> QED
  BY <1>6, <1>7

(* A field that the type has not is passed over. *)
LEMMA UnknownPassed ==
  ASSUME Inv, NEW k, NEW S, Passing(k, S), Next
  PROVE  \E t : /\ status' = "run" /\ Len(stack') = 1 /\ stack'[1] = t /\ Empty(t)
                /\ t.pos \in Nat /\ t.pos - 1 \in S /\ t.end = Len(buf) + 1
<1> DEFINE j == Top.pos - 1
           s == After(Top, 1)
           n == Passed(j)
           t == After(s, n)
<1>1. /\ S \subseteq 0..k /\ j \in S /\ j # k /\ Foreign(j) /\ j + 1 + n \in S
      /\ status = "run" /\ Len(stack) = 1 /\ Empty(Top)
  <2>1. Unknown(k, S) /\ j \in S \ {k} /\ status = "run" /\ Len(stack) = 1 /\ Empty(Top)
    BY DEF Passing
  <2> HIDE DEF j
  <2> QED
    BY <2>1 DEF Unknown
<1>2. Len(buf) \in Nat /\ k \in 0..Len(buf)
  BY DEF Passing, Inv
<1>3. Tracks(Top) /\ Top = stack[Len(stack)] /\ Top = stack[1]
  BY <1>1, TopTracks DEF Top
<1>4. Top.pos \in Nat /\ Top.left \in Nat /\ Top.pos + Top.left = Len(buf) + 1 /\ Top.end = Len(buf) + 1
  BY <1>3 DEF Tracks, IsFrame, Replaces, Inv, Nested
<1>5. j \in Nat /\ j + 1 = Top.pos /\ j < k /\ j + 1 =< Len(buf)
  BY <1>1, <1>2, <1>4
<1>6. /\ buf[Top.pos] # 0 /\ buf[Top.pos] \div 8 \notin Tags(Root)
      /\ buf[Top.pos] % 8 \in {PB_WT_VARINT, PB_WT_64BIT, PB_WT_STRING, PB_WT_32BIT}
      /\ buf[Top.pos] % 8 = PB_WT_STRING => j + 2 =< Len(buf)
  BY <1>1, <1>5 DEF Foreign
<1>7. Top.left > 0 /\ 1 =< Top.left /\ ~AtEnd
  BY <1>4, <1>5, <1>6 DEF AtEnd
<1>8. Tracks(s) /\ s.pos = j + 2 /\ s.left = Top.left - 1 /\ s.left \in Nat
  <2>1. Tracks(s) /\ s.pos = Top.pos + 1 /\ s.left = Top.left - 1
    BY <1>3, <1>7, AfterTracks
  <2> QED
    BY <1>4, <1>5, <1>7, <2>1
<1>9. Empty(s)
  <2>1. Alike(s, Top)
    BY <1>3, AfterAlike DEF Tracks
  <2> QED
    BY <1>1, <2>1 DEF Empty, Alike, Labels
<1>10. Skip(s, buf[Top.pos] % 8)
  <2>1. Top.loop = "message" /\ s.type = Root
    BY <1>1, <1>9 DEF Empty
  <2>2. DecodeTag
    BY <1>1, <1>7, <2>1 DEF Next, EndMessage, DecodeItem, CallCallback, EndString, Returned
  <2> QED
    BY <1>6, <2>1, <2>2 DEF DecodeTag
<1>11. n \in Nat
  <2>1. Size32 \in Nat /\ Size64 \in Nat
    BY DescriptorAssumption
  <2>2. CASE buf[Top.pos] % 8 = PB_WT_STRING
    <3>1. j + 2 \in 1..Len(buf)
      BY <1>2, <1>5, <1>6, <2>2
    <3>2. buf[j + 2] \in Nat
      BY <3>1 DEF Inv
    <3>3. n = 1 + buf[j + 2]
      BY <1>5, <2>2 DEF Passed, PB_WT_STRING, PB_WT_VARINT, PB_WT_64BIT, PB_WT_32BIT
    <3> QED
      BY <3>2, <3>3
  <2>3. CASE buf[Top.pos] % 8 # PB_WT_STRING
    <3>1. n = 1 \/ n = Size64 \/ n = Size32
      BY <1>5, <1>6, <2>3 DEF Passed, PB_WT_STRING, PB_WT_VARINT, PB_WT_64BIT, PB_WT_32BIT
    <3> QED
      BY <2>1, <3>1
  <2> QED
    BY <2>2, <2>3
<1>12. n =< s.left /\ ~(n > s.left)
  <2>1. PICK i \in Nat : i = n
    BY <1>11
  <2>2. j + 1 + i =< k
    <3>1. k \in Nat
      BY <1>2
    <3> HIDE DEF j, n
    <3>2. j + 1 + i \in 0..k
      BY <1>1, <2>1
    <3> QED
      BY <3>1, <3>2
  <2>3. PICK l \in Nat : l = Len(buf)
    BY <1>2
  <2> HIDE DEF n, s, j
  <2>4. k =< l /\ s.left = l - j - 1
    BY <1>2, <1>4, <1>5, <1>8, <2>3
  <2>5. i =< s.left
    BY <1>2, <1>5, <2>2, <2>3, <2>4
  <2> QED
    BY <1>8, <2>1, <2>5
<1>13. stack' = [stack EXCEPT ![Len(stack)] = t] /\ status' = status
  <2> DEFINE wire == buf[Top.pos] % 8
             c == CASE wire = PB_WT_VARINT -> 1
                    [] wire = PB_WT_64BIT  -> Size64
                    [] wire = PB_WT_32BIT  -> Size32
                    [] wire = PB_WT_STRING -> IF s.left = 0 THEN 1 ELSE 1 + buf[s.pos]
                    [] OTHER               -> s.left + 1
  <2>1. wire = PB_WT_STRING => s.left # 0 /\ buf[s.pos] = buf[j + 2]
    BY <1>2, <1>4, <1>5, <1>6, <1>8
  <2>2. c = n
    <3> HIDE DEF s, j
    <3>1. buf[j + 1] % 8 = wire
      BY <1>5
    <3> HIDE DEF wire
    <3>2. wire \in {PB_WT_VARINT, PB_WT_64BIT, PB_WT_STRING, PB_WT_32BIT}
      BY <1>6 DEF wire
    <3> QED
      BY <2>1, <3>1, <3>2 DEF Passed, PB_WT_STRING, PB_WT_VARINT, PB_WT_64BIT, PB_WT_32BIT
  <2>3. IF c > s.left THEN Fail ELSE Continue(After(s, c))
    BY <1>10 DEF Skip
  <2> HIDE DEF c, n, s
  <2> QED
    BY <1>12, <2>2, <2>3 DEF Continue
<1>14. Tracks(t) /\ t.pos = s.pos + n
  BY <1>8, <1>11, <1>12, AfterTracks
<1>15. Empty(t)
  <2>1. Alike(t, s)
    BY <1>8, AfterAlike DEF Tracks
  <2> QED
    BY <1>9, <2>1 DEF Empty, Alike, Labels
<1>16. t.pos \in Nat /\ t.pos - 1 = j + 1 + n /\ t.end = Len(buf) + 1
  <2>1. PICK i \in Nat : i = n
    BY <1>11
  <2>2. t.pos = j + 2 + i
    BY <1>8, <1>14, <2>1
  <2>3. t.end = Len(buf) + 1
    BY <1>3, <1>4, <1>14 DEF Tracks, Replaces
  <2> HIDE DEF t, n
  <2> QED
    BY <1>5, <2>1, <2>2, <2>3
<1> HIDE DEF t, n, j
<1>17. Len(stack') = 1 /\ stack'[1] = t
  BY <1>1, <1>13 DEF Inv, IsStack
<1> QED
  BY <1>1, <1>13, <1>15, <1>16, <1>17

(* No step leaves the fields before the encoding, but into it. *)
LEMMA StepPasses ==
  ASSUME Inv, Given, origin # None, NEW k, NEW S, Passing(k, S), Next
  PROVE  /\ status' = "run"
         /\ (\E C, W : Decodes(C, origin, W)') \/ (\E j, T : Passing(j, T)')
<1>1. PICK t : /\ status' = "run" /\ Len(stack') = 1 /\ stack'[1] = t /\ Empty(t)
               /\ t.pos \in Nat /\ t.pos - 1 \in S /\ t.end = Len(buf) + 1
  BY UnknownPassed
<1>2. buf' = buf /\ origin' = origin
  BY BufferStays
<1>3. k \in Nat /\ k \in 0..Len(buf) /\ WrittenBehind(k) /\ Unknown(k, S)
  BY DEF Passing, Inv
<1>4. CASE t.pos - 1 = k
  <2>1. t.pos = k + 1
    BY <1>1, <1>4
  <2>2. \E C, W : Code(C) /\ C.b = buf /\ Follows(C, origin, stack', W)
    BY <1>1, <1>3, <2>1, EncodingBegins
  <2> QED
    BY <1>1, <1>2, <2>2 DEF Decodes
<1>5. CASE t.pos - 1 # k
  <2>1. Top' = t
    BY <1>1 DEF Top
  <2>2. WrittenBehind(k)'
    BY <1>2, <1>3 DEF WrittenBehind
  <2>3. Unknown(k, S)'
    BY <1>2, <1>3 DEF Unknown, Foreign, Passed
  <2>4. (Passing(k, S))'
    BY <1>1, <1>2, <1>3, <1>5, <2>1, <2>2, <2>3 DEF Passing, Empty
  <2> QED
    BY <1>1, <2>4
<1> QED
  BY <1>4, <1>5

(* No step leaves the encoding. *)
LEMMA StepRestores == Inv /\ Given /\ Restores /\ [Next]_vars => Restores'
<1> SUFFICES ASSUME Inv, Given, Restores, [Next]_vars, Written', origin' # None
             PROVE  /\ status' # "error" /\ (status' = "ok" => stack'[1].val = origin')
                    /\ status' = "run" => (\E C, W : Decodes(C, origin, W)') \/ (\E k, S : Passing(k, S)')
  BY DEF Restores
<1>1. buf' = buf /\ origin' = origin
  BY BufferStays
<1>2. Written /\ origin # None
  BY <1>1 DEF Written, WrittenBehind, Unknown, Foreign, Passed
<1>3. /\ status # "error" /\ (status = "ok" => stack[1].val = origin)
      /\ status = "run" => (\E C, W : Decodes(C, origin, W)) \/ (\E k, S : Passing(k, S))
  BY <1>2 DEF Restores
<1>4. CASE UNCHANGED vars
  <2>1. status' = status /\ stack' = stack
    BY <1>4 DEF vars
  <2>2. Top' = Top
    BY <2>1 DEF Top
  <2>3. \A k, S : Passing(k, S) => Passing(k, S)'
    BY <1>1, <2>1, <2>2 DEF Passing, Empty, WrittenBehind, Unknown, Foreign, Passed
  <2>4. \A C, W : Decodes(C, origin, W) => Decodes(C, origin, W)'
    BY <1>1, <2>1 DEF Decodes
  <2> QED
    BY <1>1, <1>3, <2>1, <2>3, <2>4
<1>5. CASE status # "run"
  <2>1. UNCHANGED vars
    BY <1>5 DEF Next, DecodeTag, EndMessage, DecodeItem, CallCallback, EndString, Returned
  <2> QED
    BY <1>4, <2>1
<1>6. CASE status = "run" /\ Next /\ \E k, S : Passing(k, S)
  BY <1>2, <1>6, StepPasses
<1>7. CASE status = "run" /\ Next /\ \E C, W : Decodes(C, origin, W)
  <2>1. PICK m : m = origin
    OBVIOUS
  <2>2. PICK C, W : Decodes(C, m, W)
    BY <1>7, <2>1
  <2>3. Onward(C, m)
    BY <1>7, <2>2, StepFollows
  <2>4. CASE status' = "failed"
    BY <2>4
  <2>5. CASE status' = "ok" /\ stack'[1].val = m
    BY <1>1, <2>1, <2>5
  <2>6. CASE status' = "run" /\ \E V : Follows(C, m, stack', V)
    BY <1>1, <2>1, <2>2, <2>6 DEF Decodes
  <2> QED
    BY <2>3, <2>4, <2>5, <2>6 DEF Onward
<1> QED
  BY <1>3, <1>4, <1>5, <1>6, <1>7

(* A buffer that pb_encode wrote, with or without a terminator behind it and fields of a later
   version of the type before it, is never refused by pb_decode, and what pb_decode makes of it is
   the message: for all message types and values, and every depth of messages in messages. *)
THEOREM RoundTripCorrect == Spec => [](Written => RoundTrip)
<1>1. Init => Inv /\ Given
  BY InitNested DEF Init, Given
<1>2. Inv /\ Given /\ Init => Restores
  BY InitRestores
<1>3. Given /\ [Next]_vars => Given'
  BY BufferStays DEF Given
<1>4. Inv /\ Given /\ Restores /\ [Next]_vars => Inv' /\ Restores'
  BY StepKeeps, StepRestores
<1>5. Restores => (Written => RoundTrip)
  BY DEF Restores, RoundTrip
<1> QED
  BY <1>1, <1>2, <1>3, <1>4, <1>5, PTL DEF Spec
=============================================================================
