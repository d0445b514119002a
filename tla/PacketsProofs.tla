---------------------------- MODULE PacketsProofs ----------------------------
(***************************************************************************)
(* Proofs about Packets for any messages, networks, nonces, addresses,     *)
(* radiotap headers as drivers align them, alterations and further reads   *)
(* into the buffer: what fits is received as it was sent, the socket       *)
(* filter's program decides exactly what it should, and nothing altered is *)
(* taken for a message. Of the sender's address and of a signal behind     *)
(* padding the theorems say only what DeliveredIntact and FittingAccepted  *)
(* do. The hypotheses MacIsClear, DistinctNetworks and Detectable say what *)
(* the code presupposes.                                                   *)
(***************************************************************************)
EXTENDS Packets, FiniteSetTheorems, SequenceTheorems, WellFoundedInduction, TLAPS

\* There is a least element.
LEMMA LeastNumber ==
  ASSUME NEW S \in SUBSET Nat, S # {}
  PROVE  \E m \in S : \A j \in S : m <= j
<1>1. PICK m \in S : \A j \in S : <<j, m>> \notin OpToRel(<, Nat)
  BY WFMin, NatLessThanWellFounded
<1>2. ASSUME NEW j \in S PROVE ~ (j < m)
  BY <1>1, Zenon DEF OpToRel
<1> QED
  BY <1>2
------------------------------------------------------------------------------
(* Bits.                                                                   *)

\* Bits, written with numbers.
LEMMA BitIs ==
  ASSUME NEW b
  PROVE  /\ Bit(b, 1) = ((b \div 1) % 2 = 1)
         /\ Bit(b, 2) = ((b \div 2) % 2 = 1)
         /\ Bit(b, 3) = ((b \div 4) % 2 = 1)
         /\ Bit(b, 4) = ((b \div 8) % 2 = 1)
         /\ Bit(b, 5) = ((b \div 16) % 2 = 1)
         /\ Bit(b, 6) = ((b \div 32) % 2 = 1)
         /\ Bit(b, 7) = ((b \div 64) % 2 = 1)
         /\ Bit(b, 8) = ((b \div 128) % 2 = 1)
BY DEF Bit, Weight

\* A sum of weights of distinct bits has these bits.
LEMMA SumBits ==
  ASSUME NEW v \in [1..8 -> {0, 1}], NEW s,
         s = v[1] + 2 * v[2] + 4 * v[3] + 8 * v[4] + 16 * v[5] + 32 * v[6] + 64 * v[7] + 128 * v[8]
  PROVE  /\ s \in Byte
         /\ (s \div 1) % 2 = v[1] /\ (s \div 2) % 2 = v[2]
         /\ (s \div 4) % 2 = v[3] /\ (s \div 8) % 2 = v[4]
         /\ (s \div 16) % 2 = v[5] /\ (s \div 32) % 2 = v[6]
         /\ (s \div 64) % 2 = v[7] /\ (s \div 128) % 2 = v[8]
<1>1. /\ v[1] \in {0, 1} /\ v[2] \in {0, 1} /\ v[3] \in {0, 1} /\ v[4] \in {0, 1}
      /\ v[5] \in {0, 1} /\ v[6] \in {0, 1} /\ v[7] \in {0, 1} /\ v[8] \in {0, 1}
  OBVIOUS
<1>2. s \in Byte
  BY <1>1 DEF Byte
<1>3. (s \div 2) % 2 = v[2]
  BY <1>1
<1>10. (s \div 1) % 2 = v[1]
  <2>1. s \div 1 = s
    BY <1>2 DEF Byte
  <2>2. s % 2 = v[1]
    BY <1>1
  <2> QED BY <2>1, <2>2
<1>4. (s \div 4) % 2 = v[3]
  BY <1>1
<1>5. (s \div 8) % 2 = v[4]
  BY <1>1
<1>6. (s \div 16) % 2 = v[5]
  BY <1>1
<1>7. (s \div 32) % 2 = v[6]
  BY <1>1
<1>8. (s \div 64) % 2 = v[7]
  BY <1>1
<1>9. (s \div 128) % 2 = v[8]
  BY <1>1
<1> QED BY <1>2, <1>3, <1>4, <1>5, <1>6, <1>7, <1>8, <1>9, <1>10

\* A byte is the sum of the weights of its bits.
LEMMA ByteIsSum ==
  ASSUME NEW b \in Byte
  PROVE  b = ((b \div 1) % 2) + 2 * ((b \div 2) % 2) + 4 * ((b \div 4) % 2)
               + 8 * ((b \div 8) % 2) + 16 * ((b \div 16) % 2) + 32 * ((b \div 32) % 2)
               + 64 * ((b \div 64) % 2) + 128 * ((b \div 128) % 2)
BY DEF Byte

\* FromBits makes a byte with the bits it is given.
LEMMA FromBitsFacts ==
  ASSUME NEW f \in [1..8 -> BOOLEAN]
  PROVE  FromBits(f) \in Byte /\ \A i \in 1..8 : Bit(FromBits(f), i) = f[i]
<1> DEFINE v == [i \in 1..8 |-> IF f[i] THEN 1 ELSE 0]
           w(i) == IF f[i] THEN Weight[i] ELSE 0
           s == FromBits(f)
<1>1. v \in [1..8 -> {0, 1}] /\ \A i \in 1..8 : (v[i] = 1) = f[i]
  OBVIOUS
<1>2. /\ w(1) = v[1] /\ w(2) = 2 * v[2] /\ w(3) = 4 * v[3] /\ w(4) = 8 * v[4]
      /\ w(5) = 16 * v[5] /\ w(6) = 32 * v[6] /\ w(7) = 64 * v[7] /\ w(8) = 128 * v[8]
  BY DEF Weight
<1>3. s = w(1) + w(2) + w(3) + w(4) + w(5) + w(6) + w(7) + w(8)
  BY Zenon DEF FromBits
<1> HIDE DEF w, s, v
<1>4. s = v[1] + 2 * v[2] + 4 * v[3] + 8 * v[4] + 16 * v[5] + 32 * v[6] + 64 * v[7] + 128 * v[8]
  BY <1>2, <1>3
<1>5. /\ s \in Byte
      /\ (s \div 1) % 2 = v[1] /\ (s \div 2) % 2 = v[2]
      /\ (s \div 4) % 2 = v[3] /\ (s \div 8) % 2 = v[4]
      /\ (s \div 16) % 2 = v[5] /\ (s \div 32) % 2 = v[6]
      /\ (s \div 64) % 2 = v[7] /\ (s \div 128) % 2 = v[8]
  BY <1>1, <1>4, SumBits
<1>6. ASSUME NEW i \in 1..8 PROVE Bit(s, i) = f[i]
  <2>1. \/ i = 1 \/ i = 2 \/ i = 3 \/ i = 4 \/ i = 5 \/ i = 6 \/ i = 7 \/ i = 8
    OBVIOUS
  <2>2. Bit(s, i) = (v[i] = 1)
    BY <1>5, <2>1, BitIs
  <2> QED BY <1>1, <2>2
<1> QED BY <1>5, <1>6 DEF s

\* Bytes with the same bits are the same.
LEMMA SameBits ==
  ASSUME NEW a \in Byte, NEW b \in Byte, \A i \in 1..8 : Bit(a, i) = Bit(b, i)
  PROVE  a = b
<1> DEFINE p(c, k) == (c \div k) % 2
<1>1. \A c \in Byte, k \in {1, 2, 4, 8, 16, 32, 64, 128} : p(c, k) \in {0, 1}
  BY DEF Byte
<1>2. ASSUME NEW c \in Byte
      PROVE  c = p(c, 1) + 2 * p(c, 2) + 4 * p(c, 4) + 8 * p(c, 8)
                   + 16 * p(c, 16) + 32 * p(c, 32) + 64 * p(c, 64) + 128 * p(c, 128)
  BY ByteIsSum
<1>3. /\ (p(a, 1) = 1) = (p(b, 1) = 1) /\ (p(a, 2) = 1) = (p(b, 2) = 1)
      /\ (p(a, 4) = 1) = (p(b, 4) = 1) /\ (p(a, 8) = 1) = (p(b, 8) = 1)
      /\ (p(a, 16) = 1) = (p(b, 16) = 1) /\ (p(a, 32) = 1) = (p(b, 32) = 1)
      /\ (p(a, 64) = 1) = (p(b, 64) = 1) /\ (p(a, 128) = 1) = (p(b, 128) = 1)
  BY BitIs
<1> HIDE DEF p
<1>4. \A k \in {1, 2, 4, 8, 16, 32, 64, 128} : p(a, k) = p(b, k)
  BY <1>1, <1>3
<1> QED BY <1>2, <1>4

\* The three operators: bytes, and their bits.
LEMMA XorFacts ==
  ASSUME NEW a, NEW b
  PROVE  BitXor(a, b) \in Byte /\ \A i \in 1..8 : Bit(BitXor(a, b), i) = (Bit(a, i) # Bit(b, i))
<1> DEFINE f == [i \in 1..8 |-> Bit(a, i) # Bit(b, i)]
<1>1. f \in [1..8 -> BOOLEAN] /\ \A i \in 1..8 : f[i] = (Bit(a, i) # Bit(b, i))
  OBVIOUS
<1>2. BitXor(a, b) = FromBits(f)
  BY DEF BitXor
<1> HIDE DEF f
<1> QED BY <1>1, <1>2, FromBitsFacts

\* The bits of a conjunction.
LEMMA AndFacts ==
  ASSUME NEW a, NEW b
  PROVE  BitAnd(a, b) \in Byte /\ \A i \in 1..8 : Bit(BitAnd(a, b), i) = (Bit(a, i) /\ Bit(b, i))
<1> DEFINE f == [i \in 1..8 |-> Bit(a, i) /\ Bit(b, i)]
<1>1. f \in [1..8 -> BOOLEAN] /\ \A i \in 1..8 : f[i] = (Bit(a, i) /\ Bit(b, i))
  BY DEF Bit
<1>2. BitAnd(a, b) = FromBits(f)
  BY DEF BitAnd
<1> HIDE DEF f
<1> QED BY <1>1, <1>2, FromBitsFacts

\* The bits of a disjunction.
LEMMA OrFacts ==
  ASSUME NEW a, NEW b
  PROVE  BitOr(a, b) \in Byte /\ \A i \in 1..8 : Bit(BitOr(a, b), i) = (Bit(a, i) \/ Bit(b, i))
<1> DEFINE f == [i \in 1..8 |-> Bit(a, i) \/ Bit(b, i)]
<1>1. f \in [1..8 -> BOOLEAN] /\ \A i \in 1..8 : f[i] = (Bit(a, i) \/ Bit(b, i))
  BY DEF Bit
<1>2. BitOr(a, b) = FromBits(f)
  BY DEF BitOr
<1> HIDE DEF f
<1> QED BY <1>1, <1>2, FromBitsFacts

\* What was encrypted is decrypted by the same stream.
LEMMA XorTwice ==
  ASSUME NEW a \in Byte, NEW k
  PROVE  BitXor(BitXor(a, k), k) = a
<1>1. BitXor(BitXor(a, k), k) \in Byte
  BY XorFacts
<1>2. ASSUME NEW i \in 1..8 PROVE Bit(BitXor(BitXor(a, k), k), i) = Bit(a, i)
  <2>1. /\ Bit(BitXor(BitXor(a, k), k), i) = (Bit(BitXor(a, k), i) # Bit(k, i))
        /\ Bit(BitXor(a, k), i) = (Bit(a, i) # Bit(k, i))
    BY XorFacts
  <2>2. Bit(a, i) \in BOOLEAN /\ Bit(k, i) \in BOOLEAN
    BY DEF Bit
  <2> QED BY <2>1, <2>2
<1> QED BY <1>1, <1>2, SameBits

\* The bits of the numbers the code masks with.
LEMMA BitsOfMasks ==
  ASSUME NEW i \in 1..8
  PROVE  /\ ~Bit(0, i)
         /\ Bit(255, i)
         /\ Bit(252, i) = (i \notin {1, 2})
         /\ Bit(4, i) = (i = 3)
         /\ Bit(8, i) = (i = 4)
<1>1. \/ i = 1 \/ i = 2 \/ i = 3 \/ i = 4 \/ i = 5 \/ i = 6 \/ i = 7 \/ i = 8
  OBVIOUS
<1>2. ~Bit(0, i)
  <2>1. /\ ~Bit(0, 1) /\ ~Bit(0, 2) /\ ~Bit(0, 3) /\ ~Bit(0, 4)
        /\ ~Bit(0, 5) /\ ~Bit(0, 6) /\ ~Bit(0, 7) /\ ~Bit(0, 8)
    BY DEF Bit, Weight
  <2> QED BY <1>1, <2>1
<1>3. Bit(255, i)
  <2>1. /\ Bit(255, 1) /\ Bit(255, 2) /\ Bit(255, 3) /\ Bit(255, 4)
        /\ Bit(255, 5) /\ Bit(255, 6) /\ Bit(255, 7) /\ Bit(255, 8)
    BY DEF Bit, Weight
  <2> QED BY <1>1, <2>1
<1>4. Bit(252, i) = (i \notin {1, 2})
  BY <1>1, BitIs
<1>5. Bit(4, i) = (i = 3)
  BY <1>1, BitIs
<1>6. Bit(8, i) = (i = 4)
  BY <1>1, BitIs
<1> QED BY <1>2, <1>3, <1>4, <1>5, <1>6

\* Zero and all ones.
LEMMA Neutral ==
  ASSUME NEW a \in Byte
  PROVE  /\ BitOr(0, a) = a /\ BitOr(a, 0) = a
         /\ BitAnd(a, 255) = a /\ BitAnd(a, 0) = 0 /\ BitAnd(0, a) = 0
<1>1. 0 \in Byte
  BY DEF Byte
<1>2. ASSUME NEW i \in 1..8
      PROVE  /\ Bit(BitOr(0, a), i) = Bit(a, i) /\ Bit(BitOr(a, 0), i) = Bit(a, i)
             /\ Bit(BitAnd(a, 255), i) = Bit(a, i)
             /\ Bit(BitAnd(a, 0), i) = Bit(0, i) /\ Bit(BitAnd(0, a), i) = Bit(0, i)
  <2>1. ~Bit(0, i) /\ Bit(255, i) /\ Bit(a, i) \in BOOLEAN
    BY BitsOfMasks DEF Bit
  <2>2. Bit(0, i) = FALSE
    BY <2>1 DEF Bit
  <2>3. Bit(BitOr(0, a), i) = (Bit(0, i) \/ Bit(a, i)) /\ Bit(BitOr(a, 0), i) = (Bit(a, i) \/ Bit(0, i))
    BY OrFacts
  <2>4. Bit(BitAnd(a, 255), i) = (Bit(a, i) /\ Bit(255, i))
    BY AndFacts
  <2>5. /\ Bit(BitAnd(a, 0), i) = (Bit(a, i) /\ Bit(0, i))
        /\ Bit(BitAnd(0, a), i) = (Bit(0, i) /\ Bit(a, i))
    BY AndFacts
  <2>6. Bit(BitOr(0, a), i) = Bit(a, i) /\ Bit(BitOr(a, 0), i) = Bit(a, i)
    BY <2>1, <2>3
  <2>7. Bit(BitAnd(a, 255), i) = Bit(a, i)
    BY <2>1, <2>4
  <2>8. Bit(BitAnd(a, 0), i) = Bit(0, i) /\ Bit(BitAnd(0, a), i) = Bit(0, i)
    BY <2>1, <2>2, <2>5
  <2> QED BY <2>6, <2>7, <2>8
<1>3. /\ BitOr(0, a) \in Byte /\ BitOr(a, 0) \in Byte
      /\ BitAnd(a, 255) \in Byte /\ BitAnd(a, 0) \in Byte /\ BitAnd(0, a) \in Byte
  BY AndFacts, OrFacts
<1>4. BitOr(0, a) = a /\ BitOr(a, 0) = a
  BY <1>2, <1>3, SameBits
<1>5. BitAnd(a, 255) = a
  BY <1>2, <1>3, SameBits
<1>6. BitAnd(a, 0) = 0 /\ BitAnd(0, a) = 0
  BY <1>1, <1>2, <1>3, SameBits
<1> QED BY <1>4, <1>5, <1>6
------------------------------------------------------------------------------
(* The checksum.                                                           *)

\* The indexes other than p of bytes that have bit b.
Others(s, p, b) == {i \in (1..Len(s)) \ {p} : Bit(s[i], b)}

\* A bit counts once more where it is set at p.
LEMMA CountSplit ==
  ASSUME NEW s \in Seq(Byte), NEW p \in 1..Len(s), NEW b \in 1..8
  PROVE  /\ Cardinality(Others(s, p, b)) \in Nat
         /\ Cardinality({i \in DOMAIN s : Bit(s[i], b)})
              = Cardinality(Others(s, p, b)) + ((s[p] \div Weight[b]) % 2)
<1> DEFINE O == Others(s, p, b)
           A == {i \in DOMAIN s : Bit(s[i], b)}
           bit == (s[p] \div Weight[b]) % 2
<1>1. DOMAIN s = 1..Len(s) /\ Len(s) \in Nat /\ s[p] \in Byte
  BY LenProperties, ElementOfSeq
<1>2. IsFiniteSet(O)
  <2>1. IsFiniteSet(1..Len(s))
    BY <1>1, FS_Interval
  <2> QED BY <2>1, FS_Subset DEF Others
<1>3. p \notin O
  BY DEF Others
<1>4. Cardinality(O) \in Nat
  BY <1>2, FS_CardinalityType
<1>5. bit \in {0, 1}
  <2>1. Weight[b] \in {1, 2, 4, 8, 16, 32, 64, 128}
    BY DEF Weight
  <2>2. ASSUME NEW v \in Byte, NEW w \in {1, 2, 4, 8, 16, 32, 64, 128}
        PROVE  (v \div w) % 2 \in {0, 1}
    <3>1. v \div w \in Nat
      BY DEF Byte
    <3> QED BY <3>1
  <2> QED BY <1>1, <2>1, <2>2
<1>6. CASE Bit(s[p], b)
  <2>1. A = O \cup {p}
    BY <1>1, <1>6 DEF Others
  <2>2. bit = 1
    BY <1>6 DEF Bit
  <2> HIDE DEF O, A, bit
  <2>3. Cardinality(O \cup {p}) = Cardinality(O) + 1
    BY <1>2, <1>3, FS_AddElement
  <2>4. Cardinality(O) \in Nat /\ Cardinality(A) = Cardinality(O) + bit
    BY <1>4, <2>1, <2>2, <2>3
  <2> QED BY <2>4, Zenon DEF O, A, bit
<1>7. CASE ~Bit(s[p], b)
  <2>1. A = O
    BY <1>1, <1>7 DEF Others
  <2>2. bit = 0
    BY <1>5, <1>7 DEF Bit
  <2> HIDE DEF O, A, bit
  <2>3. Cardinality(O) \in Nat /\ Cardinality(A) = Cardinality(O) + bit
    BY <1>4, <2>1, <2>2
  <2> QED BY <2>3, Zenon DEF O, A, bit
<1> QED BY <1>6, <1>7

\* Numbers, weighted as the bits of a byte.
Weighted(f) == f[1] + 2 * f[2] + 4 * f[3] + 8 * f[4] + 16 * f[5] + 32 * f[6] + 64 * f[7] + 128 * f[8]

\* Weighted numbers add up.
LEMMA WeightedSum ==
  ASSUME NEW f \in [1..8 -> Nat], NEW x \in [1..8 -> Nat], NEW c,
         \A b \in 1..8 : c[b] = f[b] + x[b]
  PROVE  /\ Weighted(f) \in Nat /\ Weighted(x) \in Nat
         /\ Weighted(c) = Weighted(f) + Weighted(x)
<1>1. /\ f[1] \in Nat /\ f[2] \in Nat /\ f[3] \in Nat /\ f[4] \in Nat
      /\ f[5] \in Nat /\ f[6] \in Nat /\ f[7] \in Nat /\ f[8] \in Nat
  OBVIOUS
<1>2. /\ x[1] \in Nat /\ x[2] \in Nat /\ x[3] \in Nat /\ x[4] \in Nat
      /\ x[5] \in Nat /\ x[6] \in Nat /\ x[7] \in Nat /\ x[8] \in Nat
  OBVIOUS
<1>3. /\ c[1] = f[1] + x[1] /\ c[2] = f[2] + x[2] /\ c[3] = f[3] + x[3] /\ c[4] = f[4] + x[4]
      /\ c[5] = f[5] + x[5] /\ c[6] = f[6] + x[6] /\ c[7] = f[7] + x[7] /\ c[8] = f[8] + x[8]
  OBVIOUS
<1>4. Weighted(f) \in Nat
  BY <1>1 DEF Weighted
<1>5. Weighted(x) \in Nat
  BY <1>2 DEF Weighted
<1>6. Weighted(c) = Weighted(f) + Weighted(x)
  BY <1>1, <1>2, <1>3 DEF Weighted
<1> QED BY <1>4, <1>5, <1>6

\* A byte is its weighted bits.
LEMMA WeightedBits ==
  ASSUME NEW v \in Byte, NEW x \in [1..8 -> Nat],
         \A b \in 1..8 : x[b] = (v \div Weight[b]) % 2
  PROVE  v = Weighted(x)
<1>1. /\ x[1] = (v \div 1) % 2 /\ x[2] = (v \div 2) % 2 /\ x[3] = (v \div 4) % 2
      /\ x[4] = (v \div 8) % 2 /\ x[5] = (v \div 16) % 2 /\ x[6] = (v \div 32) % 2
      /\ x[7] = (v \div 64) % 2 /\ x[8] = (v \div 128) % 2
  BY DEF Weight
<1>2. v = ((v \div 1) % 2) + 2 * ((v \div 2) % 2) + 4 * ((v \div 4) % 2)
             + 8 * ((v \div 8) % 2) + 16 * ((v \div 16) % 2) + 32 * ((v \div 32) % 2)
             + 64 * ((v \div 64) % 2) + 128 * ((v \div 128) % 2)
  BY ByteIsSum
<1> QED BY <1>1, <1>2, Zenon DEF Weighted

\* The sum of the other bytes.
SumOthers(s, p) == Weighted([b \in 1..8 |-> Cardinality(Others(s, p, b))])

\* The sum is that of the others and the byte at p.
LEMMA SumSplit ==
  ASSUME NEW s \in Seq(Byte), NEW p \in 1..Len(s)
  PROVE  SumOthers(s, p) \in Nat /\ Sum(s) = (SumOthers(s, p) + s[p]) % 256
<1> DEFINE c == [b \in 1..8 |-> Cardinality({i \in DOMAIN s : Bit(s[i], b)})]
           f == [b \in 1..8 |-> Cardinality(Others(s, p, b))]
           x == [b \in 1..8 |-> (s[p] \div Weight[b]) % 2]
<1>1. s[p] \in Byte
  BY ElementOfSeq
<1>2. Sum(s) = Weighted(c) % 256
  <2>1. /\ Weight[1] = 1 /\ Weight[2] = 2 /\ Weight[3] = 4 /\ Weight[4] = 8
        /\ Weight[5] = 16 /\ Weight[6] = 32 /\ Weight[7] = 64 /\ Weight[8] = 128
    BY DEF Weight
  <2> DEFINE n(b) == Cardinality({i \in DOMAIN s : Bit(s[i], b)})
  <2>2. Sum(s) = (Weight[1] * n(1) + Weight[2] * n(2) + Weight[3] * n(3) + Weight[4] * n(4)
          + Weight[5] * n(5) + Weight[6] * n(6) + Weight[7] * n(7) + Weight[8] * n(8)) % 256
    BY Zenon DEF Sum
  <2>3. /\ c[1] = n(1) /\ c[2] = n(2) /\ c[3] = n(3) /\ c[4] = n(4)
        /\ c[5] = n(5) /\ c[6] = n(6) /\ c[7] = n(7) /\ c[8] = n(8)
    <3>1. /\ 1 \in 1..8 /\ 2 \in 1..8 /\ 3 \in 1..8 /\ 4 \in 1..8
          /\ 5 \in 1..8 /\ 6 \in 1..8 /\ 7 \in 1..8 /\ 8 \in 1..8
      OBVIOUS
    <3> QED BY <3>1, Zenon
  <2>4. ASSUME NEW b \in 1..8 PROVE n(b) \in Nat
    <3>1. IsFiniteSet(1..Len(s)) /\ DOMAIN s = 1..Len(s)
      BY LenProperties, FS_Interval
    <3>2. IsFiniteSet({i \in DOMAIN s : Bit(s[i], b)})
      BY <3>1, FS_Subset
    <3> QED BY <3>2, FS_CardinalityType
  <2> HIDE DEF n, c
  <2>5. 1 * n(1) = n(1)
    BY <2>4
  <2> QED BY <2>1, <2>2, <2>3, <2>5, Zenon DEF Weighted
<1>3. ASSUME NEW b \in 1..8 PROVE f[b] \in Nat /\ x[b] \in Nat /\ c[b] = f[b] + x[b]
  <2>1. f[b] = Cardinality(Others(s, p, b)) /\ x[b] = (s[p] \div Weight[b]) % 2
    OBVIOUS
  <2>2. c[b] = Cardinality({i \in DOMAIN s : Bit(s[i], b)})
    OBVIOUS
  <2>3. (s[p] \div Weight[b]) % 2 \in Nat
    <3>1. \A v \in Byte, w \in {1, 2, 4, 8, 16, 32, 64, 128} : (v \div w) % 2 \in Nat
      BY DEF Byte
    <3>2. Weight[b] \in {1, 2, 4, 8, 16, 32, 64, 128}
      BY DEF Weight
    <3> QED BY <1>1, <3>1, <3>2
  <2> HIDE DEF c, f, x
  <2> QED BY <2>1, <2>2, <2>3, CountSplit
<1>4. f \in [1..8 -> Nat] /\ x \in [1..8 -> Nat]
  <2>1. \A b \in 1..8 : f[b] \in Nat /\ x[b] \in Nat
    BY <1>3
  <2> QED BY <2>1
<1>5. \A b \in 1..8 : x[b] = (s[p] \div Weight[b]) % 2
  OBVIOUS
<1>6. SumOthers(s, p) = Weighted(f)
  BY DEF SumOthers
<1> HIDE DEF c, f, x
<1>7. s[p] = Weighted(x)
  BY <1>1, <1>4, <1>5, WeightedBits
<1>8. Weighted(f) \in Nat /\ Weighted(c) = Weighted(f) + Weighted(x)
  BY <1>3, <1>4, WeightedSum
<1> QED BY <1>2, <1>6, <1>7, <1>8

\* The sum is a byte.
LEMMA SumType ==
  ASSUME NEW s \in Seq(Byte), Len(s) > 0
  PROVE  Sum(s) \in Byte
<1>1. 1 \in 1..Len(s)
  BY LenProperties
<1>2. s[1] \in 0..255
  BY <1>1, ElementOfSeq DEF Byte
<1>3. SumOthers(s, 1) \in Nat /\ Sum(s) = (SumOthers(s, 1) + s[1]) % 256
  BY <1>1, SumSplit
<1>4. \A n \in Nat, v \in 0..255 : (n + v) % 256 \in 0..255
  OBVIOUS
<1> QED BY <1>2, <1>3, <1>4 DEF Byte

\* Two strings of the same length that differ at p only have the same others.
LEMMA SameOthers ==
  ASSUME NEW s \in Seq(Byte), NEW t \in Seq(Byte), Len(s) = Len(t), NEW p \in 1..Len(s),
         \A i \in 1..Len(s) : i # p => s[i] = t[i]
  PROVE  SumOthers(s, p) = SumOthers(t, p)
<1>1. \A b \in 1..8 : Others(s, p, b) = Others(t, p, b)
  BY DEF Others
<1> QED BY <1>1 DEF SumOthers
------------------------------------------------------------------------------
(* Strings in strings.                                                     *)

\* The string s has t after its first k bytes.
At(s, k, t) == k + Len(t) <= Len(s) /\ \A i \in 1..Len(t) : s[k + i] = t[i]

\* What was joined is found again.
LEMMA Joined ==
  ASSUME NEW s \in Seq(Byte), NEW t \in Seq(Byte)
  PROVE  /\ s \o t \in Seq(Byte) /\ Len(s \o t) = Len(s) + Len(t)
         /\ At(s \o t, 0, s) /\ At(s \o t, Len(s), t)
<1>1. Len(s) \in Nat /\ Len(t) \in Nat
  BY LenProperties
<1>2. /\ s \o t \in Seq(Byte) /\ Len(s \o t) = Len(s) + Len(t)
      /\ \A i \in 1..Len(s) + Len(t) : (s \o t)[i] = IF i <= Len(s) THEN s[i] ELSE t[i - Len(s)]
  BY ConcatProperties
<1> DEFINE u == s \o t
<1> HIDE DEF u
<1>3. ASSUME NEW i \in 1..Len(s) PROVE u[0 + i] = s[i]
  <2>1. i \in 1..Len(s) + Len(t) /\ i <= Len(s) /\ 0 + i = i
    BY <1>1
  <2> QED BY <1>2, <2>1 DEF u
<1>4. ASSUME NEW i \in 1..Len(t) PROVE u[Len(s) + i] = t[i]
  <2>1. /\ Len(s) + i \in 1..Len(s) + Len(t) /\ ~(Len(s) + i <= Len(s))
        /\ Len(s) + i - Len(s) = i
    BY <1>1
  <2> QED BY <1>2, <2>1 DEF u
<1>5. Len(u) = Len(s) + Len(t)
  BY <1>2 DEF u
<1>6. At(u, 0, s) /\ At(u, Len(s), t)
  BY <1>1, <1>3, <1>4, <1>5 DEF At
<1> QED BY <1>2, <1>6 DEF u

\* What is in a part is in the whole.
LEMMA AtInside ==
  ASSUME NEW s, NEW t \in Seq(Byte), NEW u \in Seq(Byte), Len(s) \in Nat,
         NEW k \in Nat, NEW j \in Nat, At(s, k, t), At(t, j, u)
  PROVE  At(s, k + j, u)
<1>1. Len(t) \in Nat /\ Len(u) \in Nat
  BY LenProperties
<1>2. ASSUME NEW i \in 1..Len(u) PROVE s[k + j + i] = u[i]
  <2>1. j + i \in 1..Len(t) /\ k + (j + i) = k + j + i
    BY <1>1 DEF At
  <2>2. s[k + (j + i)] = t[j + i] /\ t[j + i] = u[i]
    BY <2>1 DEF At
  <2> QED BY <2>1, <2>2
<1>3. k + j + Len(u) <= Len(s)
  BY <1>1 DEF At
<1> QED BY <1>2, <1>3 DEF At

\* Joining something to the end leaves what there is.
LEMMA AtLonger ==
  ASSUME NEW s \in Seq(Byte), NEW t \in Seq(Byte), NEW u \in Seq(Byte), NEW k \in Nat, At(s, k, u)
  PROVE  At(s \o t, k, u)
<1>1. At(s \o t, 0, s) /\ Len(s \o t) \in Nat
  BY Joined, LenProperties
<1>2. At(s \o t, 0 + k, u)
  BY <1>1, AtInside
<1> QED BY <1>2

\* A part is cut out again.
LEMMA AtCut ==
  ASSUME NEW s \in Seq(Byte), NEW t \in Seq(Byte), NEW k \in Nat, At(s, k, t)
  PROVE  SubSeq(s, k + 1, k + Len(t)) = t
<1>1. Len(t) \in Nat /\ Len(s) \in Nat
  BY LenProperties
<1>2. \A i \in k + 1..k + Len(t) : s[i] \in Byte
  <2> SUFFICES ASSUME NEW i \in k + 1..k + Len(t) PROVE s[i] \in Byte
    OBVIOUS
  <2>1. i \in 1..Len(s)
    BY <1>1 DEF At
  <2> QED BY <2>1, ElementOfSeq
<1> DEFINE c == SubSeq(s, k + 1, k + Len(t))
<1>3. /\ c \in Seq(Byte)
      /\ Len(c) = IF k + 1 <= k + Len(t) THEN k + Len(t) - (k + 1) + 1 ELSE 0
      /\ \A i \in 1..k + Len(t) - (k + 1) + 1 : c[i] = s[k + 1 + i - 1]
  <2>1. k + 1 \in Int /\ k + Len(t) \in Int
    BY <1>1
  <2> QED BY <1>2, <2>1, SubSeqProperties
<1> HIDE DEF c
<1>4. Len(c) = Len(t)
  BY <1>1, <1>3
<1>5. ASSUME NEW i \in 1..Len(c) PROVE c[i] = t[i]
  <2>1. /\ i \in 1..k + Len(t) - (k + 1) + 1 /\ i \in 1..Len(t)
        /\ k + 1 + i - 1 = k + i
    BY <1>1, <1>4
  <2> QED BY <1>3, <2>1 DEF At
<1>6. c = t
  BY <1>3, <1>4, <1>5, SeqEqual
<1> QED BY <1>6 DEF c

\* Fixed strings.
LEMMA ByteStrings ==
  ASSUME NEW n \in Nat, NEW s \in ByteString(n)
  PROVE  s \in Seq(Byte) /\ Len(s) = n /\ \A i \in 1..n : s[i] \in Byte
<1>1. s \in Seq(Byte) /\ \A i \in 1..n : s[i] \in Byte
  BY SeqDef DEF ByteString
<1>2. Len(s) \in Nat /\ DOMAIN s = 1..Len(s) /\ DOMAIN s = 1..n
  BY <1>1, LenProperties DEF ByteString
<1>3. Len(s) = n
  <2>1. CASE Len(s) < n
    <3>1. n \in 1..n /\ n \notin 1..Len(s)
      BY <1>2, <2>1
    <3> QED BY <1>2, <3>1
  <2>2. CASE n < Len(s)
    <3>1. Len(s) \in 1..Len(s) /\ Len(s) \notin 1..n
      BY <1>2, <2>2
    <3> QED BY <1>2, <3>1
  <2>3. Len(s) < n \/ n < Len(s) \/ Len(s) = n
    <3>1. Len(s) \in Int /\ n \in Int
      BY <1>2
    <3> QED BY <3>1
  <2> QED BY <2>1, <2>2, <2>3
<1> QED BY <1>1, <1>3
------------------------------------------------------------------------------
(* The serializer.                                                         *)

\* What Serialize() encrypts, with a checksum.
Body(m, reserved, checksum) ==
  <<m.type>> \o reserved \o <<checksum, Len(m.topic) % 256, Len(m.payload) % 256>>
    \o m.topic \o m.payload

\* A message that fits.
Fits(m) == m \in [type : Byte, topic : Seq(Byte), payload : Seq(Byte)] /\ ~TooBig(m)

\* As a..b, which the prover spells out number by number.
Within(x, a, b) == x \in Int /\ a <= x /\ x <= b
USE DEF Within

\* A byte is its own remainder.
LEMMA SmallRemainder ==
  ASSUME NEW x, Within(x, 0, 255)
  PROVE  (x % 256) = x
OBVIOUS

\* The lengths of what fits are bytes, and the sum of all.
LEMMA Lengths ==
  ASSUME NEW m, Fits(m)
  PROVE  /\ Within(Len(m.topic), 0, 230) /\ Within(Len(m.payload), 0, 230)
         /\ Within(PacketLength(m), 20, 250)
         /\ PacketLength(m) = 20 + Len(m.topic) + Len(m.payload)
         /\ Len(m.topic) % 256 = Len(m.topic) /\ Len(m.payload) % 256 = Len(m.payload)
<1>1. Len(m.topic) \in Nat /\ Len(m.payload) \in Nat
  BY LenProperties DEF Fits
<1>2. PacketLength(m) = 20 + Len(m.topic) + Len(m.payload)
  BY <1>1 DEF PacketLength, HeaderLen, PayloadLen
<1>3. ~(PacketLength(m) > 250)
  BY DEF Fits, TooBig, MAX_PACKET_LENGTH
<1> DEFINE t == Len(m.topic)
           p == Len(m.payload)
           q == PacketLength(m)
<1>4. t \in Nat /\ p \in Nat /\ ~(q > 250) /\ q = 20 + t + p
  BY <1>1, <1>2, <1>3, Zenon
<1> HIDE DEF t, p, q
<1>5. /\ Within(t, 0, 230) /\ Within(p, 0, 230)
      /\ Within(q, 20, 250)
      /\ q = 20 + t + p
      /\ t % 256 = t /\ p % 256 = p
  BY <1>4
<1> HIDE DEF Within
<1> QED BY <1>5, Zenon DEF t, p, q

\* Short strings.
LEMMA Short ==
  /\ \A a \in Byte : <<a>> \in Seq(Byte) /\ Len(<<a>>) = 1
  /\ \A a, b \in Byte : <<a, b>> \in Seq(Byte) /\ Len(<<a, b>>) = 2
  /\ \A a, b, c \in Byte : <<a, b, c>> \in Seq(Byte) /\ Len(<<a, b, c>>) = 3
  /\ \A a, b, c, d \in Byte : <<a, b, c, d>> \in Seq(Byte) /\ Len(<<a, b, c, d>>) = 4
OBVIOUS

\* What is where in a body.
LEMMA BodyFacts ==
  ASSUME NEW m, Fits(m), NEW reserved \in ByteString(3), NEW c \in Byte
  PROVE  LET b == Body(m, reserved, c)
         IN /\ b \in Seq(Byte) /\ Len(b) = 7 + Len(m.topic) + Len(m.payload)
            /\ b[1] = m.type /\ b[5] = c /\ b[6] = Len(m.topic) /\ b[7] = Len(m.payload)
            /\ At(b, 1, reserved)
            /\ At(b, 7, m.topic) /\ At(b, 7 + Len(m.topic), m.payload)
<1> DEFINE s1 == <<m.type>>
           s3 == <<c, Len(m.topic) % 256, Len(m.payload) % 256>>
           t == m.topic
           p == m.payload
<1>1. /\ s1 \in Seq(Byte) /\ Len(s1) = 1 /\ s1[1] = m.type
      /\ reserved \in Seq(Byte) /\ Len(reserved) = 3
  BY Short, ByteStrings DEF Fits
<1>2. /\ s3 \in Seq(Byte) /\ Len(s3) = 3
      /\ s3[1] = c /\ s3[2] = Len(t) /\ s3[3] = Len(p)
  <2>1. Len(m.topic) % 256 \in Byte /\ Len(m.payload) % 256 \in Byte
    <3>1. \A n : Within(n, 0, 230) => n \in Byte
      BY DEF Byte
    <3> HIDE DEF Within
    <3>2. /\ Within(Len(m.topic), 0, 230) /\ Within(Len(m.payload), 0, 230)
          /\ Len(m.topic) % 256 = Len(m.topic) /\ Len(m.payload) % 256 = Len(m.payload)
      BY Lengths, Zenon
    <3> QED BY <3>1, <3>2, Zenon
  <2>2. s3 \in Seq(Byte) /\ Len(s3) = 3
    BY <2>1, Short
  <2> QED BY <2>2, Lengths
<1>3. t \in Seq(Byte) /\ p \in Seq(Byte) /\ Len(t) \in Nat /\ Len(p) \in Nat
  BY LenProperties DEF Fits
<1>4. Body(m, reserved, c) = s1 \o reserved \o s3 \o t \o p
  BY DEF Body
<1> HIDE DEF s1, s3, t, p
<1> DEFINE a == s1 \o reserved
           d == a \o s3
           e == d \o t
           b == e \o p
<1>5. a \in Seq(Byte) /\ Len(a) = 4 /\ At(a, 0, s1) /\ At(a, 1, reserved)
  <2>1. /\ a \in Seq(Byte) /\ Len(a) = Len(s1) + Len(reserved)
        /\ At(a, 0, s1) /\ At(a, Len(s1), reserved)
    BY <1>1, Joined
  <2> QED BY <1>1, <2>1
<1> HIDE DEF a
<1>6. d \in Seq(Byte) /\ Len(d) = 7 /\ At(d, 0, s1) /\ At(d, 1, reserved) /\ At(d, 4, s3)
  <2>1. d \in Seq(Byte) /\ Len(d) = Len(a) + Len(s3) /\ At(d, Len(a), s3)
    BY <1>2, <1>5, Joined
  <2>2. At(d, 0, s1)
    BY <1>1, <1>2, <1>5, AtLonger
  <2>3. At(d, 1, reserved)
    BY <1>1, <1>2, <1>5, AtLonger
  <2> QED BY <1>2, <1>5, <2>1, <2>2, <2>3
<1> HIDE DEF d
<1>7. /\ e \in Seq(Byte) /\ Len(e) = 7 + Len(t)
      /\ At(e, 0, s1) /\ At(e, 1, reserved) /\ At(e, 4, s3) /\ At(e, 7, t)
  <2>1. e \in Seq(Byte) /\ Len(e) = Len(d) + Len(t) /\ At(e, Len(d), t)
    BY <1>3, <1>6, Joined
  <2>2. At(e, 0, s1)
    BY <1>1, <1>3, <1>6, AtLonger
  <2>3. At(e, 4, s3)
    BY <1>2, <1>3, <1>6, AtLonger
  <2>4. At(e, 1, reserved)
    BY <1>1, <1>3, <1>6, AtLonger
  <2> QED BY <1>6, <2>1, <2>2, <2>3, <2>4
<1> HIDE DEF e
<1>8. /\ b \in Seq(Byte) /\ Len(b) = 7 + Len(t) + Len(p)
      /\ At(b, 0, s1) /\ At(b, 1, reserved) /\ At(b, 4, s3)
      /\ At(b, 7, t) /\ At(b, 7 + Len(t), p)
  <2>1. b \in Seq(Byte) /\ Len(b) = 7 + Len(t) + Len(p) /\ At(b, 7 + Len(t), p)
    BY <1>3, <1>7, Joined
  <2>2. At(b, 0, s1)
    BY <1>1, <1>3, <1>7, AtLonger
  <2>3. At(b, 4, s3)
    BY <1>2, <1>3, <1>7, AtLonger
  <2>4. At(b, 7, t)
    BY <1>3, <1>7, AtLonger
  <2>5. At(b, 1, reserved)
    BY <1>1, <1>3, <1>7, AtLonger
  <2> QED BY <2>1, <2>2, <2>3, <2>4, <2>5
<1>9. Body(m, reserved, c) = b
  BY <1>4 DEF a, d, e
<1> HIDE DEF b
<1>10. b[1] = m.type /\ b[5] = c /\ b[6] = Len(t) /\ b[7] = Len(p)
  <2>1. b[0 + 1] = s1[1]
    BY <1>1, <1>8 DEF At
  <2>2. b[4 + 1] = s3[1] /\ b[4 + 2] = s3[2] /\ b[4 + 3] = s3[3]
    BY <1>2, <1>8 DEF At
  <2> QED BY <1>1, <1>2, <2>1, <2>2
<1> QED BY <1>8, <1>9, <1>10 DEF t, p

\* The checksum that is put in is the one that is found.
LEMMA ChecksumFound ==
  ASSUME NEW m, Fits(m), NEW reserved \in ByteString(3), NEW c,
         c = Checksum(Body(m, reserved, 0), 0)
  PROVE  c \in Byte /\ Checksum(Body(m, reserved, c), c) = c
<1> DEFINE b == Body(m, reserved, 0)
           d == Body(m, reserved, c)
           r == SumOthers(b, 5)
<1>1. 0 \in Byte
  BY DEF Byte
<1>2. b \in Seq(Byte) /\ Len(b) = 7 + Len(m.topic) + Len(m.payload) /\ b[5] = 0
  BY <1>1, BodyFacts
<1>3. Len(m.topic) \in Nat /\ Len(m.payload) \in Nat
  BY LenProperties DEF Fits
<1>4. 5 \in 1..Len(b)
  <2>1. \A x, y \in Nat : 5 \in 1..7 + x + y
    OBVIOUS
  <2> QED BY <1>2, <1>3, <2>1, Zenon
<1>5. r \in Nat /\ Sum(b) = (r + 0) % 256
  BY <1>2, <1>4, SumSplit
<1>6. c = (Sum(b) - 0) % 256
  BY DEF Checksum
<1> HIDE DEF b, r
<1>7. c = r % 256 /\ c \in Byte
  BY <1>5, <1>6 DEF Byte
<1>8. d \in Seq(Byte) /\ Len(d) = Len(b) /\ d[5] = c
  BY <1>2, <1>7, BodyFacts
<1>9. ASSUME NEW i \in 1..Len(b), i # 5 PROVE b[i] = d[i]
  <2> DEFINE t == m.topic
             p == m.payload
  <2>1. /\ b[1] = m.type /\ b[6] = Len(t) /\ b[7] = Len(p)
        /\ At(b, 1, reserved) /\ At(b, 7, t) /\ At(b, 7 + Len(t), p)
    BY <1>1, BodyFacts DEF b
  <2>2. /\ d[1] = m.type /\ d[6] = Len(t) /\ d[7] = Len(p)
        /\ At(d, 1, reserved) /\ At(d, 7, t) /\ At(d, 7 + Len(t), p)
    BY <1>7, BodyFacts
  <2> HIDE DEF d, t, p
  <2>3. Len(reserved) = 3 /\ Len(t) \in Nat /\ Len(p) \in Nat /\ Len(b) = 7 + Len(t) + Len(p)
    BY <1>2, <1>3, ByteStrings DEF t, p
  <2>4. CASE i \in {1, 6, 7}
    BY <2>1, <2>2, <2>4
  <2>5. CASE i \in 2..4
    <3>1. i - 1 \in 1..Len(reserved) /\ 1 + (i - 1) = i
      BY <2>3, <2>5
    <3>2. b[1 + (i - 1)] = reserved[i - 1] /\ d[1 + (i - 1)] = reserved[i - 1]
      BY <2>1, <2>2, <3>1 DEF At
    <3> QED BY <3>1, <3>2
  <2>6. CASE i \in 8..7 + Len(t)
    <3>1. i - 7 \in 1..Len(t) /\ 7 + (i - 7) = i
      BY <2>3, <2>6
    <3>2. b[7 + (i - 7)] = t[i - 7] /\ d[7 + (i - 7)] = t[i - 7]
      BY <2>1, <2>2, <3>1 DEF At
    <3> QED BY <3>1, <3>2
  <2>7. CASE i \in 8 + Len(t)..7 + Len(t) + Len(p)
    <3>1. i - 7 - Len(t) \in 1..Len(p) /\ 7 + Len(t) + (i - 7 - Len(t)) = i
      BY <2>3, <2>7
    <3>2. /\ b[7 + Len(t) + (i - 7 - Len(t))] = p[i - 7 - Len(t)]
          /\ d[7 + Len(t) + (i - 7 - Len(t))] = p[i - 7 - Len(t)]
      BY <2>1, <2>2, <3>1 DEF At
    <3> QED BY <3>1, <3>2
  <2>8. \/ i \in {1, 6, 7} \/ i \in 2..4 \/ i \in 8..7 + Len(t)
        \/ i \in 8 + Len(t)..7 + Len(t) + Len(p)
    BY <1>9, <2>3
  <2> QED BY <2>4, <2>5, <2>6, <2>7, <2>8
<1>10. SumOthers(d, 5) = r
  <2> HIDE DEF d
  <2>1. SumOthers(b, 5) = SumOthers(d, 5)
    BY <1>2, <1>4, <1>8, <1>9, SameOthers
  <2> QED BY <2>1 DEF r
<1>11. Sum(d) = (r + c) % 256
  <2>1. 5 \in 1..Len(d)
    BY <1>4, <1>8
  <2> HIDE DEF d
  <2> QED BY <1>8, <1>10, <2>1, SumSplit
<1>12. (((r + c) % 256) - c) % 256 = c
  <2>1. ASSUME NEW x \in Nat PROVE (((x + (x % 256)) % 256) - (x % 256)) % 256 = x % 256
    OBVIOUS
  <2> QED BY <1>5, <1>7, <2>1
<1>13. Checksum(d, c) = c
  BY <1>11, <1>12 DEF Checksum
<1> QED BY <1>7, <1>13

\* The cipher: bytes to bytes, and its own inverse.
LEMMA CryptFacts ==
  ASSUME NEW password, NEW nonce, NEW s \in Seq(Byte)
  PROVE  LET c == Crypt(password, nonce, s)
         IN c \in Seq(Byte) /\ Len(c) = Len(s) /\ Crypt(password, nonce, c) = s
<1> DEFINE k(i) == Block(password, nonce, (i - 1) \div 64, (i - 1) % 64)
           c == Crypt(password, nonce, s)
           d == Crypt(password, nonce, c)
<1>1. s \in [1..Len(s) -> Byte] /\ Len(s) \in Nat
  BY LenProperties
<1>2. c = [i \in 1..Len(s) |-> BitXor(s[i], k(i))]
  BY <1>1 DEF Crypt
<1>3. d = [i \in DOMAIN c |-> BitXor(c[i], k(i))]
  BY DEF Crypt
<1> HIDE DEF k, c, d
<1>4. c \in [1..Len(s) -> Byte]
  BY <1>2, XorFacts
<1>5. c \in Seq(Byte) /\ Len(c) = Len(s)
  BY <1>1, <1>4, ByteStrings DEF ByteString
<1>6. d = [i \in 1..Len(s) |-> BitXor(c[i], k(i))]
  BY <1>3, <1>4
<1>7. ASSUME NEW i \in 1..Len(s) PROVE d[i] = s[i]
  <2>1. s[i] \in Byte
    BY <1>1
  <2>2. d[i] = BitXor(BitXor(s[i], k(i)), k(i))
    BY <1>2, <1>6
  <2> QED BY <2>1, <2>2, XorTwice
<1>8. d = s
  BY <1>1, <1>6, <1>7
<1> QED BY <1>5, <1>8 DEF c, d

\* What is where in a packet.
LEMMA SerializeFacts ==
  ASSUME NEW net, net.ssid \in ByteString(4), net.version \in Byte,
         NEW m, Fits(m), NEW nonce \in ByteString(8), NEW reserved \in ByteString(3)
  PROVE  LET d == Serialize(net, m, nonce, reserved)
             plain == Body(m, reserved, Checksum(Body(m, reserved, 0), 0))
         IN /\ d \in Seq(Byte) /\ Len(d) = PacketLength(m)
            /\ SubSeq(d, 1, 4) = net.ssid /\ SubSeq(d, 5, 12) = nonce /\ d[13] = net.version
            /\ SubSeq(d, 14, Len(d)) = Crypt(net.password, nonce, plain)
<1> DEFINE plain == Body(m, reserved, Checksum(Body(m, reserved, 0), 0))
           x == Crypt(net.password, nonce, plain)
           v == <<net.version>>
           a == net.ssid \o nonce
           b == a \o v
           d == b \o x
<1>1. Serialize(net, m, nonce, reserved) = d
  BY Zenon DEF Serialize, Body
<1>2. plain \in Seq(Byte) /\ Len(plain) = 7 + Len(m.topic) + Len(m.payload)
  BY ChecksumFound, BodyFacts
<1> HIDE DEF plain
<1>3. x \in Seq(Byte) /\ Len(x) = Len(plain)
  BY <1>2, CryptFacts
<1>4. Len(plain) \in Nat /\ PacketLength(m) = 13 + Len(plain)
  <2>1. \A y, z \in Nat : 20 + y + z = 13 + (7 + y + z)
    OBVIOUS
  <2>2. Len(m.topic) \in Nat /\ Len(m.payload) \in Nat
    BY LenProperties DEF Fits
  <2>3. PacketLength(m) = 20 + Len(m.topic) + Len(m.payload)
    BY Lengths
  <2>4. PacketLength(m) = 13 + Len(plain)
    BY <1>2, <2>1, <2>2, <2>3, Zenon
  <2> QED BY <1>2, <2>4, LenProperties
<1>5. net.ssid \in Seq(Byte) /\ Len(net.ssid) = 4 /\ nonce \in Seq(Byte) /\ Len(nonce) = 8
  BY ByteStrings
<1>6. v \in Seq(Byte) /\ Len(v) = 1 /\ v[1] = net.version
  BY Short
<1> HIDE DEF x, v
<1>7. a \in Seq(Byte) /\ Len(a) = 12 /\ At(a, 0, net.ssid) /\ At(a, 4, nonce)
  <2>1. /\ a \in Seq(Byte) /\ Len(a) = Len(net.ssid) + Len(nonce)
        /\ At(a, 0, net.ssid) /\ At(a, Len(net.ssid), nonce)
    BY <1>5, Joined
  <2> QED BY <1>5, <2>1
<1> HIDE DEF a
<1>8. b \in Seq(Byte) /\ Len(b) = 13 /\ At(b, 0, net.ssid) /\ At(b, 4, nonce) /\ At(b, 12, v)
  <2>1. b \in Seq(Byte) /\ Len(b) = Len(a) + Len(v) /\ At(b, Len(a), v)
    BY <1>6, <1>7, Joined
  <2>2. At(b, 0, net.ssid)
    BY <1>5, <1>6, <1>7, AtLonger
  <2>3. At(b, 4, nonce)
    BY <1>5, <1>6, <1>7, AtLonger
  <2> QED BY <1>6, <1>7, <2>1, <2>2, <2>3
<1> HIDE DEF b
<1>9. /\ d \in Seq(Byte) /\ Len(d) = 13 + Len(plain)
      /\ At(d, 0, net.ssid) /\ At(d, 4, nonce) /\ At(d, 12, v) /\ At(d, 13, x)
  <2>1. d \in Seq(Byte) /\ Len(d) = Len(b) + Len(x) /\ At(d, Len(b), x)
    BY <1>3, <1>8, Joined
  <2>2. At(d, 0, net.ssid)
    BY <1>3, <1>5, <1>8, AtLonger
  <2>3. At(d, 4, nonce)
    BY <1>3, <1>5, <1>8, AtLonger
  <2>4. At(d, 12, v)
    BY <1>3, <1>6, <1>8, AtLonger
  <2> QED BY <1>3, <1>8, <2>1, <2>2, <2>3, <2>4
<1> HIDE DEF d
<1>10. SubSeq(d, 0 + 1, 0 + 4) = net.ssid /\ SubSeq(d, 4 + 1, 4 + 8) = nonce
  BY <1>5, <1>9, AtCut
<1>11. SubSeq(d, 13 + 1, 13 + Len(x)) = x
  BY <1>3, <1>9, AtCut
<1>12. d[12 + 1] = v[1]
  BY <1>6, <1>9 DEF At
<1>13. Len(d) = PacketLength(m) /\ 13 + Len(x) = Len(d)
  BY <1>3, <1>4, <1>9
<1>14. SubSeq(d, 1, 4) = net.ssid /\ SubSeq(d, 5, 12) = nonce /\ SubSeq(d, 14, Len(d)) = x
  BY <1>10, <1>11, <1>13
<1> QED BY <1>1, <1>6, <1>9, <1>12, <1>13, <1>14 DEF x, plain

\* What was serialized for a network is deserialized there, with its type, topic
\* and payload, for any lengths, nonce, password and reserved bytes.
THEOREM RoundTrip ==
  ASSUME NEW net, net.ssid \in ByteString(4), net.version = PROTO_VERSION,
         NEW m, Fits(m), NEW nonce \in ByteString(8), NEW reserved \in ByteString(3)
  PROVE  Deserialize(net, Serialize(net, m, nonce, reserved)) = {m}
<1> DEFINE d == Serialize(net, m, nonce, reserved)
           c == Checksum(Body(m, reserved, 0), 0)
           plain == Body(m, reserved, c)
           t == m.topic
           p == m.payload
<1>1. net.version \in Byte /\ net.version = 1
  BY DEF PROTO_VERSION, Byte
<1>2. /\ d \in Seq(Byte) /\ Len(d) = PacketLength(m)
      /\ SubSeq(d, 1, 4) = net.ssid /\ SubSeq(d, 5, 12) = nonce /\ d[13] = net.version
      /\ SubSeq(d, 14, Len(d)) = Crypt(net.password, nonce, plain)
  BY <1>1, SerializeFacts
<1>3. c \in Byte /\ Checksum(plain, c) = c
  BY ChecksumFound
<1>4. /\ plain \in Seq(Byte) /\ Len(plain) = 7 + Len(t) + Len(p)
      /\ plain[1] = m.type /\ plain[5] = c /\ plain[6] = Len(t) /\ plain[7] = Len(p)
      /\ At(plain, 7, t) /\ At(plain, 7 + Len(t), p)
  BY <1>3, BodyFacts
<1>5. /\ t \in Seq(Byte) /\ p \in Seq(Byte) /\ Len(t) \in Nat /\ Len(p) \in Nat
      /\ m = [type |-> m.type, topic |-> t, payload |-> p]
  BY LenProperties DEF Fits
<1>6. PacketLength(m) = 20 + Len(t) + Len(p)
  BY Lengths
<1> HIDE DEF d, c, plain, t, p
<1>7. Len(d) >= 20
  BY <1>2, <1>5, <1>6
<1>8. ValidHeader(net, d)
  BY <1>1, <1>2 DEF ValidHeader, HeaderLen, PROTO_VERSION
<1>9. Plain(net, d) = plain
  <2>1. SubSeq(d, HeaderLen + 1, Len(d)) = SubSeq(d, 14, Len(d))
    BY DEF HeaderLen
  <2>2. Plain(net, d) = Crypt(net.password, nonce, Crypt(net.password, nonce, plain))
    BY <1>2, <2>1, Zenon DEF Plain
  <2> QED BY <1>4, <2>2, CryptFacts
<1>10. ValidPayload(plain)
  <2>1. plain[5] = Checksum(plain, plain[5])
    BY <1>3, <1>4
  <2>2. PayloadLen + plain[6] + plain[7] = Len(plain)
    BY <1>4 DEF PayloadLen
  <2> QED BY <2>1, <2>2 DEF ValidPayload
<1>11. Decode(plain) = m
  <2>1. SubSeq(plain, 7 + 1, 7 + Len(t)) = t
    BY <1>4, <1>5, AtCut
  <2>2. SubSeq(plain, 7 + Len(t) + 1, 7 + Len(t) + Len(p)) = p
    <3>1. 7 + Len(t) \in Nat
      BY <1>5
    <3> QED BY <1>4, <1>5, <3>1, AtCut
  <2> QED BY <1>4, <1>5, <2>1, <2>2 DEF Decode, PayloadLen
<1>12. Len(d) >= HeaderLen + PayloadLen
  BY <1>7 DEF HeaderLen, PayloadLen
<1>13. Deserialize(net, d) = {m}
  BY <1>8, <1>9, <1>10, <1>11, <1>12 DEF Deserialize
<1> QED BY <1>13 DEF d

\* What another network sent is not taken, unless it has the same SSID and version.
LEMMA OthersIgnored ==
  ASSUME NEW net, net.ssid \in ByteString(4), net.version \in Byte,
         NEW here, net.ssid # here.ssid \/ net.version # PROTO_VERSION,
         NEW m, Fits(m), NEW nonce \in ByteString(8), NEW reserved \in ByteString(3)
  PROVE  Deserialize(here, Serialize(net, m, nonce, reserved)) = {}
<1> DEFINE d == Serialize(net, m, nonce, reserved)
<1>1. SubSeq(d, 1, 4) = net.ssid /\ d[13] = net.version
  BY SerializeFacts
<1> HIDE DEF d
<1>2. ~ValidHeader(here, d)
  BY <1>1 DEF ValidHeader, HeaderLen
<1> QED BY <1>2 DEF Deserialize, d
------------------------------------------------------------------------------
(* The frame.                                                              *)

\* What is where in a frame.
LEMMA FrameFacts ==
  ASSUME NEW dst \in ByteString(6), NEW src \in ByteString(6),
         NEW data \in Seq(Byte), Within(Len(data), 0, 250)
  PROVE  LET f == ActionFrame(dst, src, data)
         IN /\ f \in Seq(Byte) /\ Len(f) = 39 + Len(data)
            /\ f[1] = 208 /\ At(f, 4, dst) /\ At(f, 10, src)
            /\ f[25] = 127 /\ At(f, 25, OUI)
            /\ f[33] = 221 /\ f[34] = Len(data) + 5 /\ At(f, 34, OUI) /\ f[38] = 4
            /\ At(f, 39, data)
<1> DEFINE h == <<208, 0, 0, 0>>
           z == <<0, 0>>
           v == <<127>>
           y == <<0, 0, 0, 0>>
           n == <<221, ContentLen(Len(data))>>
           w == <<4, 1>>
           f1 == h \o dst
           f2 == f1 \o src
           f3 == f2 \o Broadcast
           f4 == f3 \o z
           f5 == f4 \o v
           f6 == f5 \o OUI
           f7 == f6 \o y
           f8 == f7 \o n
           f9 == f8 \o OUI
           f10 == f9 \o w
           f == f10 \o data
<1>1. ActionFrame(dst, src, data) = f
  BY Zenon DEF ActionFrame, FRAME_TYPE_ACTION
<1>2. /\ dst \in Seq(Byte) /\ Len(dst) = 6 /\ src \in Seq(Byte) /\ Len(src) = 6
  BY ByteStrings
<1>3. ContentLen(Len(data)) = Len(data) + 5 /\ ContentLen(Len(data)) \in Byte
  <2>1. \A k : Within(k, 0, 250) => (k + 5) % 256 = k + 5 /\ Within(k + 5, 0, 255)
    OBVIOUS
  <2>2. ContentLen(Len(data)) = (Len(data) + 5) % 256
    BY DEF ContentLen
  <2>3. /\ (Len(data) + 5) % 256 = Len(data) + 5
        /\ Within(Len(data) + 5, 0, 255)
    BY <2>1, Zenon
  <2>4. \A k : Within(k, 0, 255) => k \in Byte
    BY DEF Byte
  <2> QED BY <2>2, <2>3, <2>4, Zenon
<1>4. \A k \in {0, 1, 4, 24, 52, 127, 208, 221, 254, 255} : k \in Byte
  BY DEF Byte
<1>5. h \in Seq(Byte) /\ Len(h) = 4
  BY <1>4, Short
<1>5z. z \in Seq(Byte) /\ Len(z) = 2
  BY <1>4, Short
<1>5v. v \in Seq(Byte) /\ Len(v) = 1
  BY <1>4, Short
<1>5u. h[1] = 208 /\ v[1] = 127 /\ w[1] = 4
  OBVIOUS
<1>5y. y \in Seq(Byte) /\ Len(y) = 4
  BY <1>4, Short
<1>5w. w \in Seq(Byte) /\ Len(w) = 2
  BY <1>4, Short
<1>6. n \in Seq(Byte) /\ Len(n) = 2
  BY <1>3, <1>4, Short
<1>6a. n[1] = 221 /\ n[2] = Len(data) + 5
  BY <1>3
<1>7. OUI \in Seq(Byte) /\ Len(OUI) = 3
  BY <1>4, Short DEF OUI
<1>8. Broadcast \in Seq(Byte) /\ Len(Broadcast) = 6
  BY <1>4 DEF Broadcast
<1> HIDE DEF h, z, v, y, n, w
<1>9. f1 \in Seq(Byte) /\ Len(f1) = 10 /\ At(f1, 0, h) /\ At(f1, 4, dst)
  <2>1. /\ f1 \in Seq(Byte) /\ Len(f1) = Len(h) + Len(dst)
        /\ At(f1, 0, h) /\ At(f1, Len(h), dst)
    BY <1>2, <1>5, Joined
  <2> QED BY <1>2, <1>5, <2>1
<1> HIDE DEF f1
<1>10. /\ f2 \in Seq(Byte) /\ Len(f2) = 16
       /\ At(f2, 0, h) /\ At(f2, 4, dst) /\ At(f2, 10, src)
  <2>1. /\ f2 \in Seq(Byte) /\ Len(f2) = Len(f1) + Len(src) /\ At(f2, Len(f1), src)
    BY <1>2, <1>9, Joined
  <2>2. At(f2, 0, h)
    BY <1>2, <1>5, <1>9, AtLonger
  <2>3. At(f2, 4, dst)
    BY <1>2, <1>9, AtLonger
  <2> QED BY <1>2, <1>9, <2>1, <2>2, <2>3
<1> HIDE DEF f2
<1>11. /\ f3 \in Seq(Byte) /\ Len(f3) = 22
       /\ At(f3, 0, h) /\ At(f3, 4, dst) /\ At(f3, 10, src)
  <2>1. /\ f3 \in Seq(Byte) /\ Len(f3) = Len(f2) + Len(Broadcast) /\ At(f3, Len(f2), Broadcast)
    BY <1>8, <1>10, Joined
  <2>2. At(f3, 0, h)
    BY <1>5, <1>8, <1>10, AtLonger
  <2>3. At(f3, 4, dst)
    BY <1>2, <1>8, <1>10, AtLonger
  <2>4. At(f3, 10, src)
    BY <1>2, <1>8, <1>10, AtLonger
  <2> QED BY <1>8, <1>10, <2>1, <2>2, <2>3, <2>4
<1> HIDE DEF f3
<1>12. /\ f4 \in Seq(Byte) /\ Len(f4) = 24
       /\ At(f4, 0, h) /\ At(f4, 4, dst) /\ At(f4, 10, src)
  <2>1. /\ f4 \in Seq(Byte) /\ Len(f4) = Len(f3) + Len(z) /\ At(f4, Len(f3), z)
    BY <1>5z, <1>11, Joined
  <2>2. At(f4, 0, h)
    BY <1>5z, <1>5, <1>11, AtLonger
  <2>3. At(f4, 4, dst)
    BY <1>2, <1>5z, <1>11, AtLonger
  <2>4. At(f4, 10, src)
    BY <1>2, <1>5z, <1>11, AtLonger
  <2> QED BY <1>5z, <1>11, <2>1, <2>2, <2>3, <2>4
<1> HIDE DEF f4
<1>13. /\ f5 \in Seq(Byte) /\ Len(f5) = 25
       /\ At(f5, 0, h) /\ At(f5, 4, dst) /\ At(f5, 10, src) /\ At(f5, 24, v)
  <2>1. /\ f5 \in Seq(Byte) /\ Len(f5) = Len(f4) + Len(v) /\ At(f5, Len(f4), v)
    BY <1>5v, <1>12, Joined
  <2>2. At(f5, 0, h)
    BY <1>5v, <1>5, <1>12, AtLonger
  <2>3. At(f5, 4, dst)
    BY <1>2, <1>5v, <1>12, AtLonger
  <2>4. At(f5, 10, src)
    BY <1>2, <1>5v, <1>12, AtLonger
  <2> QED BY <1>5v, <1>12, <2>1, <2>2, <2>3, <2>4
<1> HIDE DEF f5
<1>14. /\ f6 \in Seq(Byte) /\ Len(f6) = 28
       /\ At(f6, 0, h) /\ At(f6, 4, dst) /\ At(f6, 10, src) /\ At(f6, 24, v)
       /\ At(f6, 25, OUI)
  <2>1. /\ f6 \in Seq(Byte) /\ Len(f6) = Len(f5) + Len(OUI) /\ At(f6, Len(f5), OUI)
    BY <1>7, <1>13, Joined
  <2>2. At(f6, 0, h)
    BY <1>5, <1>7, <1>13, AtLonger
  <2>3. At(f6, 4, dst)
    BY <1>2, <1>7, <1>13, AtLonger
  <2>4. At(f6, 10, src)
    BY <1>2, <1>7, <1>13, AtLonger
  <2>5. At(f6, 24, v)
    BY <1>5v, <1>7, <1>13, AtLonger
  <2> QED BY <1>7, <1>13, <2>1, <2>2, <2>3, <2>4, <2>5
<1> HIDE DEF f6
<1>15. /\ f7 \in Seq(Byte) /\ Len(f7) = 32
       /\ At(f7, 0, h) /\ At(f7, 4, dst) /\ At(f7, 10, src) /\ At(f7, 24, v)
       /\ At(f7, 25, OUI)
  <2>1. /\ f7 \in Seq(Byte) /\ Len(f7) = Len(f6) + Len(y) /\ At(f7, Len(f6), y)
    BY <1>5y, <1>14, Joined
  <2>2. At(f7, 0, h)
    BY <1>5y, <1>5, <1>14, AtLonger
  <2>3. At(f7, 4, dst)
    BY <1>2, <1>5y, <1>14, AtLonger
  <2>4. At(f7, 10, src)
    BY <1>2, <1>5y, <1>14, AtLonger
  <2>5. At(f7, 24, v)
    BY <1>5y, <1>5v, <1>14, AtLonger
  <2>6. At(f7, 25, OUI)
    BY <1>5y, <1>7, <1>14, AtLonger
  <2> QED BY <1>5y, <1>14, <2>1, <2>2, <2>3, <2>4, <2>5, <2>6
<1> HIDE DEF f7
<1>16. /\ f8 \in Seq(Byte) /\ Len(f8) = 34
       /\ At(f8, 0, h) /\ At(f8, 4, dst) /\ At(f8, 10, src) /\ At(f8, 24, v)
       /\ At(f8, 25, OUI) /\ At(f8, 32, n)
  <2>1. /\ f8 \in Seq(Byte) /\ Len(f8) = Len(f7) + Len(n) /\ At(f8, Len(f7), n)
    BY <1>6, <1>15, Joined
  <2>2. At(f8, 0, h)
    BY <1>5, <1>6, <1>15, AtLonger
  <2>3. At(f8, 4, dst)
    BY <1>2, <1>6, <1>15, AtLonger
  <2>4. At(f8, 10, src)
    BY <1>2, <1>6, <1>15, AtLonger
  <2>5. At(f8, 24, v)
    BY <1>5v, <1>6, <1>15, AtLonger
  <2>6. At(f8, 25, OUI)
    BY <1>6, <1>7, <1>15, AtLonger
  <2> QED BY <1>6, <1>15, <2>1, <2>2, <2>3, <2>4, <2>5, <2>6
<1> HIDE DEF f8
<1>17. /\ f9 \in Seq(Byte) /\ Len(f9) = 37
       /\ At(f9, 0, h) /\ At(f9, 4, dst) /\ At(f9, 10, src) /\ At(f9, 24, v)
       /\ At(f9, 25, OUI) /\ At(f9, 32, n) /\ At(f9, 34, OUI)
  <2>1. /\ f9 \in Seq(Byte) /\ Len(f9) = Len(f8) + Len(OUI) /\ At(f9, Len(f8), OUI)
    BY <1>7, <1>16, Joined
  <2>2. At(f9, 0, h)
    BY <1>5, <1>7, <1>16, AtLonger
  <2>3. At(f9, 4, dst)
    BY <1>2, <1>7, <1>16, AtLonger
  <2>4. At(f9, 10, src)
    BY <1>2, <1>7, <1>16, AtLonger
  <2>5. At(f9, 24, v)
    BY <1>5v, <1>7, <1>16, AtLonger
  <2>6. At(f9, 25, OUI)
    BY <1>7, <1>16, AtLonger
  <2>7. At(f9, 32, n)
    BY <1>6, <1>7, <1>16, AtLonger
  <2> QED BY <1>7, <1>16, <2>1, <2>2, <2>3, <2>4, <2>5, <2>6, <2>7
<1> HIDE DEF f9
<1>18. /\ f10 \in Seq(Byte) /\ Len(f10) = 39
       /\ At(f10, 0, h) /\ At(f10, 4, dst) /\ At(f10, 10, src) /\ At(f10, 24, v)
       /\ At(f10, 25, OUI) /\ At(f10, 32, n) /\ At(f10, 34, OUI) /\ At(f10, 37, w)
  <2>1. /\ f10 \in Seq(Byte) /\ Len(f10) = Len(f9) + Len(w) /\ At(f10, Len(f9), w)
    BY <1>5w, <1>17, Joined
  <2>2. At(f10, 0, h)
    BY <1>5w, <1>5, <1>17, AtLonger
  <2>3. At(f10, 4, dst)
    BY <1>2, <1>5w, <1>17, AtLonger
  <2>4. At(f10, 10, src)
    BY <1>2, <1>5w, <1>17, AtLonger
  <2>5. At(f10, 24, v)
    BY <1>5w, <1>5v, <1>17, AtLonger
  <2>6. At(f10, 25, OUI)
    BY <1>5w, <1>7, <1>17, AtLonger
  <2>7. At(f10, 32, n)
    BY <1>5w, <1>6, <1>17, AtLonger
  <2>8. At(f10, 34, OUI)
    BY <1>5w, <1>7, <1>17, AtLonger
  <2> QED BY <1>5w, <1>17, <2>1, <2>2, <2>3, <2>4, <2>5, <2>6, <2>7, <2>8
<1> HIDE DEF f10
<1>19. /\ f \in Seq(Byte) /\ Len(f) = 39 + Len(data)
       /\ At(f, 0, h) /\ At(f, 4, dst) /\ At(f, 10, src) /\ At(f, 24, v)
       /\ At(f, 25, OUI) /\ At(f, 32, n) /\ At(f, 34, OUI) /\ At(f, 37, w)
       /\ At(f, 39, data)
  <2>1. /\ f \in Seq(Byte) /\ Len(f) = Len(f10) + Len(data) /\ At(f, Len(f10), data)
    BY <1>18, Joined
  <2>2. At(f, 0, h)
    BY <1>5, <1>18, AtLonger
  <2>3. At(f, 4, dst)
    BY <1>2, <1>18, AtLonger
  <2>4. At(f, 10, src)
    BY <1>2, <1>18, AtLonger
  <2>5. At(f, 24, v)
    BY <1>5v, <1>18, AtLonger
  <2>6. At(f, 25, OUI)
    BY <1>7, <1>18, AtLonger
  <2>7. At(f, 32, n)
    BY <1>6, <1>18, AtLonger
  <2>8. At(f, 34, OUI)
    BY <1>7, <1>18, AtLonger
  <2>9. At(f, 37, w)
    BY <1>5w, <1>18, AtLonger
  <2> QED BY <1>18, <2>1, <2>2, <2>3, <2>4, <2>5, <2>6, <2>7, <2>8, <2>9
<1> HIDE DEF f
<1>20. f[0 + 1] = h[1] /\ f[24 + 1] = v[1] /\ f[37 + 1] = w[1]
  BY <1>5, <1>5v, <1>5w, <1>19 DEF At
<1>21. f[32 + 1] = n[1] /\ f[32 + 2] = n[2]
  BY <1>6, <1>19 DEF At
<1> QED BY <1>1, <1>5u, <1>6a, <1>19, <1>20, <1>21
------------------------------------------------------------------------------
(* The header of the capture.                                              *)

\* What CaptureAssumption says of a header.
GoodHeader(r) ==
  /\ r.words \in Nat /\ r.signal \in -128..127 /\ r.other \in Seq(Byte)
  /\ HeaderLength(r) <= MAX_PACKET_SIZE - ActionFrameLen - MAX_PACKET_LENGTH

\* The parts of a header.
FieldBits(r) == [i \in 1..8 |-> i <= 6 /\ Fields[i] \in r.present]
WordsOf(r) == [i \in 1..4 * r.words |-> IF i % 4 = 0 /\ i < 4 * r.words THEN 128 ELSE 0]
FieldsOf(r) ==
  [i \in 1..FieldsEnd(r) |->
     IF "ANT_SIGNAL" \in r.present /\ i = FieldsEnd(r) THEN r.signal % 256 ELSE 7]

\* The sizes of the fields.
LEMMA FieldSizes ==
  ASSUME NEW present
  PROVE  /\ SignalOffset(present) \in 0..16
         /\ FieldsSize(present) \in 0..17
         /\ "ANT_SIGNAL" \in present => FieldsSize(present) = SignalOffset(present) + 1
<1> DEFINE size(f) == IF f \in present THEN FieldSize[f] ELSE 0
<1>1. /\ size("TSFT") \in 0..8 /\ size("FLAGS") \in 0..1 /\ size("RATE") \in 0..1
      /\ size("CHANNEL") \in 0..4 /\ size("FHSS") \in 0..2
  BY DEF FieldSize
<1>2. SignalOffset(present) = size("TSFT") + size("FLAGS") + size("RATE") + size("CHANNEL") + size("FHSS")
  BY DEF SignalOffset
<1> HIDE DEF size
<1>3. SignalOffset(present) \in 0..16
  BY <1>1, <1>2
<1>4. FieldSize.ANT_SIGNAL = 1
  BY DEF FieldSize
<1>5. FieldsSize(present) = SignalOffset(present) + IF "ANT_SIGNAL" \in present THEN 1 ELSE 0
  BY <1>4 DEF FieldsSize
<1> QED BY <1>3, <1>5

\* What aligns the fields.
LEMMA PaddingIs ==
  ASSUME NEW r, r.words \in Nat
  PROVE  /\ Padding(r) \in 0..5
         /\ FieldsEnd(r) = Padding(r) + FieldsSize(r.present) /\ FieldsEnd(r) \in 0..22
<1>1. Padding(r) \in 0..5
  BY DEF Padding
<1> HIDE DEF Padding
<1>2. FieldsEnd(r) = Padding(r) + FieldsSize(r.present) /\ FieldsSize(r.present) \in 0..17
  BY FieldSizes DEF FieldsEnd
<1> QED BY <1>1, <1>2

\* What is where in a header.
LEMMA HeaderFacts ==
  ASSUME NEW r, GoodHeader(r)
  PROVE  LET h == RadiotapBytes(r)
         IN /\ Within(HeaderLength(r), 8, 223)
            /\ h \in Seq(Byte) /\ Len(h) = HeaderLength(r)
            /\ h[3] = HeaderLength(r) /\ h[4] = 0
            /\ h[5] = FromBits(FieldBits(r))
            /\ h[8] = IF r.words > 0 THEN 128 ELSE 0
            /\ At(h, 8, WordsOf(r)) /\ At(h, 8 + 4 * r.words, FieldsOf(r))
            /\ Len(WordsOf(r)) = 4 * r.words /\ Len(FieldsOf(r)) = FieldsEnd(r)
<1> DEFINE len == HeaderLength(r)
           s == FieldsEnd(r)
           b == <<0, 0, len % 256, len \div 256>>
           e == FromBits(FieldBits(r))
           ext == IF r.words > 0 THEN 128 ELSE 0
           c == <<e, 0, 0, ext>>
           w == WordsOf(r)
           f == FieldsOf(r)
           o == r.other
           h1 == b \o c
           h2 == h1 \o w
           h3 == h2 \o f
           h == h3 \o o
<1>1. r.words \in Nat /\ r.signal \in -128..127 /\ o \in Seq(Byte) /\ Len(o) \in Nat /\ s \in 0..22
  BY PaddingIs, LenProperties DEF GoodHeader
<1>2. RadiotapBytes(r) = h
  BY Zenon DEF RadiotapBytes, FieldBits, WordsOf, FieldsOf
<1>3. len = 8 + 4 * r.words + s + Len(o) /\ len <= 223
  BY DEF HeaderLength, GoodHeader, MAX_PACKET_SIZE, ActionFrameLen, MAX_PACKET_LENGTH
<1> HIDE DEF len, s, o
<1>4. Within(len, 8, 223)
  <2>1. \A n \in Nat, x \in 0..22, y \in Nat :
          8 + 4 * n + x + y <= 223 => Within(8 + 4 * n + x + y, 8, 223)
    OBVIOUS
  <2> QED BY <1>1, <1>3, <2>1
<1>5. len % 256 = len /\ len \div 256 = 0
  BY <1>4
<1>6. \A k \in 0..255 : k \in Byte
  BY DEF Byte
<1>7. b \in Seq(Byte) /\ Len(b) = 4
  <2>1. len \in Byte /\ 0 \in Byte
    BY <1>4, <1>6
  <2> QED BY <1>5, <2>1, Short
<1>7a. b[3] = len /\ b[4] = 0
  BY <1>5
<1>8. e \in Byte
  <2>1. FieldBits(r) \in [1..8 -> BOOLEAN]
    BY DEF FieldBits
  <2> QED BY <2>1, FromBitsFacts
<1> HIDE DEF b, e
<1>9. c \in Seq(Byte) /\ Len(c) = 4
  <2>1. ext \in Byte /\ 0 \in Byte
    BY <1>6
  <2> HIDE DEF ext
  <2> QED BY <1>8, <2>1, Short
<1>9a. c[1] = e /\ c[4] = ext
  OBVIOUS
<1> HIDE DEF c
<1>10. w \in Seq(Byte) /\ Len(w) = 4 * r.words
  <2>1. 4 * r.words \in Nat
    BY <1>1
  <2>2. w \in [1..4 * r.words -> Byte]
    BY <1>6 DEF WordsOf
  <2> QED BY <2>1, <2>2, ByteStrings DEF ByteString
<1>11. f \in Seq(Byte) /\ Len(f) = s
  <2>1. s \in Nat
    BY <1>1
  <2> DEFINE v == r.signal % 256
  <2>2. v \in Byte /\ 7 \in Byte
    <3>1. \A x \in -128..127 : ((x) % 256) \in 0..255
      OBVIOUS
    <3> QED BY <1>1, <1>6, <3>1
  <2>3. f = [i \in 1..s |-> IF "ANT_SIGNAL" \in r.present /\ i = s THEN v ELSE 7]
    BY DEF FieldsOf, s
  <2> HIDE DEF v, f
  <2>4. f \in [1..s -> Byte]
    BY <2>2, <2>3
  <2> QED BY <2>1, <2>4, ByteStrings DEF ByteString
<1> HIDE DEF w, f
<1>12. h1 \in Seq(Byte) /\ Len(h1) = 8 /\ At(h1, 0, b) /\ At(h1, 4, c)
  <2>1. /\ h1 \in Seq(Byte) /\ Len(h1) = Len(b) + Len(c)
        /\ At(h1, 0, b) /\ At(h1, Len(b), c)
    BY <1>7, <1>9, Joined
  <2> QED BY <1>7, <1>9, <2>1
<1> HIDE DEF h1
<1>13. h2 \in Seq(Byte) /\ Len(h2) = 8 + 4 * r.words /\ At(h2, 0, b) /\ At(h2, 4, c) /\ At(h2, 8, w)
  <2>1. h2 \in Seq(Byte) /\ Len(h2) = Len(h1) + Len(w) /\ At(h2, Len(h1), w)
    BY <1>10, <1>12, Joined
  <2>2. At(h2, 0, b)
    BY <1>7, <1>10, <1>12, AtLonger
  <2>3. At(h2, 4, c)
    BY <1>9, <1>10, <1>12, AtLonger
  <2> QED BY <1>10, <1>12, <2>1, <2>2, <2>3
<1> HIDE DEF h2
<1>14. /\ h3 \in Seq(Byte) /\ Len(h3) = 8 + 4 * r.words + s
       /\ At(h3, 0, b) /\ At(h3, 4, c) /\ At(h3, 8, w) /\ At(h3, 8 + 4 * r.words, f)
  <2>1. h3 \in Seq(Byte) /\ Len(h3) = Len(h2) + Len(f) /\ At(h3, Len(h2), f)
    BY <1>11, <1>13, Joined
  <2>2. At(h3, 0, b)
    BY <1>7, <1>11, <1>13, AtLonger
  <2>3. At(h3, 4, c)
    BY <1>9, <1>11, <1>13, AtLonger
  <2>4. At(h3, 8, w)
    BY <1>10, <1>11, <1>13, AtLonger
  <2> QED BY <1>11, <1>13, <2>1, <2>2, <2>3, <2>4
<1> HIDE DEF h3
<1>15. /\ h \in Seq(Byte) /\ Len(h) = 8 + 4 * r.words + s + Len(o)
       /\ At(h, 0, b) /\ At(h, 4, c) /\ At(h, 8, w) /\ At(h, 8 + 4 * r.words, f)
  <2>1. h \in Seq(Byte) /\ Len(h) = Len(h3) + Len(o)
    BY <1>1, <1>14, Joined
  <2>2. At(h, 0, b)
    BY <1>1, <1>7, <1>14, AtLonger
  <2>3. At(h, 4, c)
    BY <1>1, <1>9, <1>14, AtLonger
  <2>4. At(h, 8, w)
    BY <1>1, <1>10, <1>14, AtLonger
  <2>5. At(h, 8 + 4 * r.words, f)
    <3>1. 8 + 4 * r.words \in Nat
      BY <1>1
    <3> QED BY <1>1, <1>11, <1>14, <3>1, AtLonger
  <2> QED BY <1>14, <2>1, <2>2, <2>3, <2>4, <2>5
<1> HIDE DEF h
<1>16. h[0 + 3] = b[3] /\ h[0 + 4] = b[4]
  BY <1>7, <1>15 DEF At
<1>17. h[4 + 1] = c[1] /\ h[4 + 4] = c[4]
  BY <1>9, <1>15 DEF At
<1>18. h[3] = len /\ h[4] = 0 /\ h[5] = e /\ h[8] = ext
  BY <1>7a, <1>9a, <1>16, <1>17
<1>19. Len(h) = len
  BY <1>3, <1>15
<1> QED BY <1>2, <1>4, <1>10, <1>11, <1>15, <1>18, <1>19 DEF len, s, e, w, f


------------------------------------------------------------------------------
(* The socket filter.                                                      *)

\* A run of the filter, from its first instruction.
Start == [pc |-> 1, a |-> Zero, x |-> Zero]
Runs(data, run) ==
  run = [n \in 0..Len(Filter) |-> IF n = 0 THEN Start ELSE Step(data, run[n - 1])]

\* The instructions that a run may reach from an action frame or any other.
LEMMA Program ==
  /\ Len(Filter) = 39
  /\ Filter[1] = <<"ldb_abs", 0, 0, 3>> /\ Filter[2] = <<"lsh", 0, 0, 8>>
  /\ Filter[3] = <<"tax", 0, 0, 0>> /\ Filter[4] = <<"ldb_abs", 0, 0, 2>>
  /\ Filter[5] = <<"or_x", 0, 0, 0>> /\ Filter[6] = <<"tax", 0, 0, 0>>
  /\ Filter[7] = <<"ldb", 0, 0, 0>> /\ Filter[8] = <<"and", 0, 0, <<0, 0, 0, 252>>>>
  /\ Filter[9] = <<"jeq", 0, 29, <<0, 0, 0, 208>>>>
  /\ Filter[10] = <<"ldb", 0, 0, 0>>
  /\ Filter[11] = <<"jset", 27, 0, <<0, 0, 0, 4>>>>
  /\ Filter[12] = <<"jset", 0, 9, <<0, 0, 0, 8>>>>
  /\ Filter[22] = <<"ldw", 0, 0, 6>> /\ Filter[23] = <<"jeq", 0, 2, MacPart2>>
  /\ Filter[24] = <<"ldh", 0, 0, 4>> /\ Filter[25] = <<"jeq", 3, 13, MacPart1>>
  /\ Filter[26] = <<"jeq", 0, 12, <<255, 255, 255, 255>>>>
  /\ Filter[27] = <<"ldh", 0, 0, 4>> /\ Filter[28] = <<"jeq", 0, 10, <<0, 0, 255, 255>>>>
  /\ Filter[29] = <<"ldw", 0, 0, 24>> /\ Filter[30] = <<"jeq", 0, 8, <<127, 24, 254, 52>>>>
  /\ Filter[31] = <<"ldb", 0, 0, 32>> /\ Filter[32] = <<"jeq", 0, 6, <<0, 0, 0, 221>>>>
  /\ Filter[33] = <<"ldw", 0, 0, 33>> /\ Filter[34] = <<"and", 0, 0, <<0, 255, 255, 255>>>>
  /\ Filter[35] = <<"jeq", 0, 3, <<0, 24, 254, 52>>>>
  /\ Filter[36] = <<"ldb", 0, 0, 37>> /\ Filter[37] = <<"jeq", 0, 1, <<0, 0, 0, 4>>>>
  /\ Filter[38] = <<"ret", 0, 0, TRUE>> /\ Filter[39] = <<"ret", 0, 0, FALSE>>
BY DEF Filter

\* There is a run for any data.
LEMMA RunExists ==
  ASSUME NEW data
  PROVE  \E run : Runs(data, run)
<1> DEFINE N == Len(Filter)
           Is(n, f) == f = [d \in 0..n |-> IF d = 0 THEN Start ELSE Step(data, f[d - 1])]
           Has(n) == \E f : Is(n, f)
           Bad == {n \in 0..N : ~Has(n)}
<1>0. N \in Nat
  BY Program
<1> HIDE DEF N
<1>1. Has(0)
  <2> DEFINE g == [d \in 0..0 |-> Start]
  <2>1. g = [d \in 0..0 |-> IF d = 0 THEN Start ELSE Step(data, g[d - 1])]
    OBVIOUS
  <2> HIDE DEF g
  <2> QED BY <2>1
<1>2. ASSUME NEW n \in 0..N - 1, Has(n) PROVE Has(n + 1)
  <2>1. PICK f : Is(n, f)
    BY <1>2
  <2> DEFINE g == [d \in 0..n + 1 |-> IF d = n + 1 THEN Step(data, f[n]) ELSE f[d]]
  <2>2. n \in 0..n + 1 /\ n # n + 1 /\ n + 1 \in 0..n + 1 /\ 0 \in 0..n + 1 /\ 0 # n + 1 /\ 0 \in 0..n
    BY <1>0
  <2>3. f[0] = Start /\ \A d \in 1..n : f[d] = Step(data, f[d - 1])
    BY <1>0, <2>1
  <2>4. g[0] = Start
    BY <2>2, <2>3
  <2>5. ASSUME NEW d \in 1..n + 1 PROVE g[d] = Step(data, g[d - 1])
    <3>1. CASE d = n + 1
      <4>1. d - 1 = n
        BY <1>0, <3>1
      <4> QED BY <2>2, <3>1, <4>1
    <3>2. CASE d # n + 1
      <4>1. d \in 1..n /\ d \in 0..n + 1 /\ d - 1 \in 0..n + 1 /\ d - 1 # n + 1
        BY <1>0, <3>2
      <4> QED BY <2>3, <3>2, <4>1
    <3> QED BY <3>1, <3>2
  <2>6. ASSUME NEW d \in 0..n + 1 PROVE g[d] = IF d = 0 THEN Start ELSE Step(data, g[d - 1])
    <3>1. d = 0 \/ d \in 1..n + 1
      BY <1>0
    <3>2. d \in 1..n + 1 => d # 0
      BY <1>0
    <3> HIDE DEF g
    <3> QED BY <2>4, <2>5, <3>1, <3>2
  <2>7. g = [d \in 0..n + 1 |-> g[d]]
    OBVIOUS
  <2> HIDE DEF g
  <2>8. Is(n + 1, g)
    BY <2>6, <2>7
  <2> QED BY <2>8
<1>3. Bad = {}
  <2> SUFFICES ASSUME Bad # {} PROVE FALSE
    OBVIOUS
  <2>1. \A j \in Bad : j \in Nat /\ j \in 0..N /\ ~Has(j)
    BY <1>0
  <2>2. \A j \in 0..N : Has(j) \/ j \in Bad
    OBVIOUS
  <2> HIDE DEF Bad, Has
  <2>3. PICK m \in Bad : \A j \in Bad : m <= j
    BY <2>1, LeastNumber
  <2>4. m # 0
    BY <1>1, <2>1
  <2>5. m - 1 \in 0..N - 1 /\ m - 1 \in 0..N /\ m - 1 \notin Bad /\ m - 1 + 1 = m
    BY <1>0, <2>1, <2>3, <2>4
  <2> QED BY <1>2, <2>1, <2>2, <2>5
<1>4. N \in 0..N
  BY <1>0
<1> QED BY <1>3, <1>4 DEF Runs, N

\* What the instructions do.
LEMMA Instructions ==
  ASSUME NEW data, NEW s, NEW t, NEW e, NEW k
  PROVE  /\ Filter[s.pc] = <<"ret", t, e, k>> => Step(data, s) = s
         /\ Filter[s.pc] = <<"jeq", t, e, k>> =>
              Step(data, s) = [pc |-> s.pc + 1 + (IF s.a = k THEN t ELSE e), a |-> s.a, x |-> s.x]
         /\ Filter[s.pc] = <<"jset", t, e, k>> =>
              Step(data, s) =
                [pc |-> s.pc + 1 + (IF AndWord(s.a, k) # Zero THEN t ELSE e), a |-> s.a, x |-> s.x]
         /\ Filter[s.pc] = <<"and", t, e, k>> =>
              Step(data, s) = [pc |-> s.pc + 1, a |-> AndWord(s.a, k), x |-> s.x]
         /\ Filter[s.pc] = <<"tax", t, e, k>> =>
              Step(data, s) = [pc |-> s.pc + 1, a |-> s.a, x |-> s.a]
         /\ Filter[s.pc] = <<"lsh", t, e, k>> =>
              Step(data, s) = [pc |-> s.pc + 1, a |-> <<s.a[2], s.a[3], s.a[4], 0>>, x |-> s.x]
         /\ Filter[s.pc] = <<"or_x", t, e, k>> =>
              Step(data, s) = [pc |-> s.pc + 1, a |-> OrWord(s.a, s.x), x |-> s.x]
<1>1. Filter[s.pc] = <<"ret", t, e, k>> => Step(data, s) = s
  BY DEF Step
<1>2. Filter[s.pc] = <<"jeq", t, e, k>> =>
        Step(data, s) = [pc |-> s.pc + 1 + (IF s.a = k THEN t ELSE e), a |-> s.a, x |-> s.x]
  BY DEF Step
<1>3. Filter[s.pc] = <<"jset", t, e, k>> =>
        Step(data, s) =
          [pc |-> s.pc + 1 + (IF AndWord(s.a, k) # Zero THEN t ELSE e), a |-> s.a, x |-> s.x]
  BY DEF Step
<1>4. Filter[s.pc] = <<"and", t, e, k>> =>
        Step(data, s) = [pc |-> s.pc + 1, a |-> AndWord(s.a, k), x |-> s.x]
  BY DEF Step
<1>5. Filter[s.pc] = <<"tax", t, e, k>> =>
        Step(data, s) = [pc |-> s.pc + 1, a |-> s.a, x |-> s.a]
  BY DEF Step
<1>6. Filter[s.pc] = <<"lsh", t, e, k>> =>
        Step(data, s) = [pc |-> s.pc + 1, a |-> <<s.a[2], s.a[3], s.a[4], 0>>, x |-> s.x]
  BY DEF Step
<1>7. Filter[s.pc] = <<"or_x", t, e, k>> =>
        Step(data, s) = [pc |-> s.pc + 1, a |-> OrWord(s.a, s.x), x |-> s.x]
  BY DEF Step
<1> QED BY <1>1, <1>2, <1>3, <1>4, <1>5, <1>6, <1>7

\* What the loads do.
LEMMA Loads ==
  ASSUME NEW data, NEW s, NEW k
  PROVE  /\ \A op \in {"ldb", "ldh", "ldw"} :
              Filter[s.pc] = <<op, 0, 0, k>> =>
              Step(data, s) =
                     IF Number(s.x) + k + Size(op) <= Len(data)
                       THEN [pc |-> s.pc + 1, a |-> Load(data, Number(s.x) + k, Size(op)), x |-> s.x]
                       ELSE [pc |-> 39, a |-> s.a, x |-> s.x]
         /\ Filter[s.pc] = <<"ldb_abs", 0, 0, k>> =>
              Step(data, s) =
                IF k + 1 <= Len(data)
                  THEN [pc |-> s.pc + 1, a |-> Load(data, k, 1), x |-> s.x]
                  ELSE [pc |-> 39, a |-> s.a, x |-> s.x]
         /\ Size("ldb") = 1 /\ Size("ldh") = 2 /\ Size("ldw") = 4
<1>0. Len(Filter) = 39
  BY Program
<1> DEFINE Loaded(op, at) ==
             IF at + Size(op) <= Len(data)
               THEN [pc |-> s.pc + 1, a |-> Load(data, at, Size(op)), x |-> s.x]
               ELSE [pc |-> 39, a |-> s.a, x |-> s.x]
<1>1. Filter[s.pc] = <<"ldb", 0, 0, k>> => Step(data, s) = Loaded("ldb", Number(s.x) + k)
  <2> SUFFICES ASSUME Filter[s.pc] = <<"ldb", 0, 0, k>> PROVE Step(data, s) = Loaded("ldb", Number(s.x) + k)
    OBVIOUS
  <2>1. Filter[s.pc][1] = "ldb" /\ Filter[s.pc][4] = k
    OBVIOUS
  <2> QED BY <1>0, <2>1 DEF Step
<1>2. Filter[s.pc] = <<"ldh", 0, 0, k>> => Step(data, s) = Loaded("ldh", Number(s.x) + k)
  <2> SUFFICES ASSUME Filter[s.pc] = <<"ldh", 0, 0, k>> PROVE Step(data, s) = Loaded("ldh", Number(s.x) + k)
    OBVIOUS
  <2>1. Filter[s.pc][1] = "ldh" /\ Filter[s.pc][4] = k
    OBVIOUS
  <2> QED BY <1>0, <2>1 DEF Step
<1>3. Filter[s.pc] = <<"ldw", 0, 0, k>> => Step(data, s) = Loaded("ldw", Number(s.x) + k)
  <2> SUFFICES ASSUME Filter[s.pc] = <<"ldw", 0, 0, k>> PROVE Step(data, s) = Loaded("ldw", Number(s.x) + k)
    OBVIOUS
  <2>1. Filter[s.pc][1] = "ldw" /\ Filter[s.pc][4] = k
    OBVIOUS
  <2> QED BY <1>0, <2>1 DEF Step
<1>4. Filter[s.pc] = <<"ldb_abs", 0, 0, k>> => Step(data, s) = Loaded("ldb_abs", k)
  <2> SUFFICES ASSUME Filter[s.pc] = <<"ldb_abs", 0, 0, k>> PROVE Step(data, s) = Loaded("ldb_abs", k)
    OBVIOUS
  <2>1. Filter[s.pc][1] = "ldb_abs" /\ Filter[s.pc][4] = k
    OBVIOUS
  <2> QED BY <1>0, <2>1 DEF Step
<1>5. Size("ldb_abs") = 1 /\ Size("ldb") = 1 /\ Size("ldh") = 2 /\ Size("ldw") = 4
  BY DEF Size
<1> QED BY <1>1, <1>2, <1>3, <1>4, <1>5

\* A run goes on from each state to the next, and stays where it returns.
LEMMA RunSteps ==
  ASSUME NEW data, NEW run, Runs(data, run)
  PROVE  /\ run[0] = Start
         /\ \A n \in 0..38 : run[n + 1] = Step(data, run[n])
         /\ \A n \in 0..39 : run[n].pc \in {38, 39} => run[39].pc = run[n].pc
<1>1. run = [n \in 0..39 |-> IF n = 0 THEN Start ELSE Step(data, run[n - 1])]
  BY Program DEF Runs
<1>2. run[0] = Start
  BY <1>1
<1>3. ASSUME NEW n \in 0..38 PROVE run[n + 1] = Step(data, run[n])
  <2>1. n + 1 \in 0..39 /\ n + 1 # 0 /\ n + 1 - 1 = n
    OBVIOUS
  <2> QED BY <1>1, <2>1
<1>4. ASSUME NEW n \in 0..39, run[n].pc \in {38, 39} PROVE run[39].pc = run[n].pc
  <2> DEFINE Bad == {m \in n..39 : run[m] # run[n]}
  <2> SUFFICES ASSUME Bad # {} PROVE FALSE
    <3>1. 39 \in n..39
      OBVIOUS
    <3> QED BY <3>1
  <2>1. \A j \in Bad : j \in Nat /\ j \in n..39 /\ run[j] # run[n]
    OBVIOUS
  <2>2. \A j \in n..39 : run[j] = run[n] \/ j \in Bad
    OBVIOUS
  <2> HIDE DEF Bad
  <2>3. PICK m \in Bad : \A j \in Bad : m <= j
    BY <2>1, LeastNumber
  <2>4. m # n
    BY <2>1
  <2>5. m - 1 \in n..39 /\ m - 1 \in 0..38 /\ m - 1 \notin Bad /\ m - 1 + 1 = m
    BY <2>1, <2>3, <2>4
  <2>6. run[m - 1] = run[n] /\ run[m] = Step(data, run[m - 1])
    BY <1>3, <2>2, <2>5
  <2>7. Step(data, run[n]) = run[n]
    <3>1. Filter[38] = <<"ret", 0, 0, TRUE>> /\ Filter[39] = <<"ret", 0, 0, FALSE>>
      BY Program
    <3>2. CASE run[n].pc = 38
      BY <3>1, <3>2, Instructions
    <3>3. CASE run[n].pc = 39
      BY <3>1, <3>3, Instructions
    <3> QED BY <1>4, <3>2, <3>3
  <2> QED BY <2>1, <2>6, <2>7
<1> QED BY <1>2, <1>3, <1>4
\* What is behind the first X bytes of the data.
Behind(data, X, f) ==
  /\ f \in Seq(Byte)
  /\ \A m \in Nat \ {0} : X + m <= Len(data) <=> m <= Len(f)
  /\ \A i \in 1..Len(f) : f[i] = data[X + i] /\ f[i] \in Byte

\* That is what SubSeq() cuts out.
LEMMA BehindIs ==
  ASSUME NEW data \in Seq(Byte), NEW X \in Nat
  PROVE  Behind(data, X, SubSeq(data, X + 1, Len(data)))
<1> DEFINE f == SubSeq(data, X + 1, Len(data))
           n == Len(data)
<1>1. n \in Nat
  BY LenProperties
<1>2. \A i \in X + 1..n : data[i] \in Byte
  <2>1. \A i \in X + 1..n : i \in 1..Len(data)
    BY <1>1
  <2> QED BY <2>1, ElementOfSeq
<1>3. /\ f \in Seq(Byte)
      /\ Len(f) = IF X + 1 <= n THEN n - (X + 1) + 1 ELSE 0
      /\ \A i \in 1..n - (X + 1) + 1 : f[i] = data[X + 1 + i - 1]
  <2>1. X + 1 \in Int /\ n \in Int
    BY <1>1
  <2> QED BY <1>2, <2>1, SubSeqProperties
<1> HIDE DEF f, n
<1>4. Len(f) = IF X < n THEN n - X ELSE 0
  BY <1>1, <1>3
<1>5. \A m \in Nat \ {0} : X + m <= n <=> m <= Len(f)
  BY <1>1, <1>4
<1>6. ASSUME NEW i \in 1..Len(f) PROVE f[i] = data[X + i] /\ f[i] \in Byte
  <2>1. X < n /\ i \in 1..n - (X + 1) + 1 /\ X + 1 + i - 1 = X + i /\ X + i \in X + 1..n
    BY <1>1, <1>4
  <2> QED BY <1>2, <1>3, <2>1
<1> QED BY <1>3, <1>5, <1>6 DEF Behind, f, n

\* The masks of the program: the frame's type and subtype, and its flags.
LEMMA Masks ==
  ASSUME NEW b \in Byte
  PROVE  /\ BitAnd(b, 252) = 208 <=> b \in 208..211
         /\ b \in 208..211 => BitAnd(b, 4) = 0 /\ BitAnd(b, 8) = 0
<1> DEFINE c == BitAnd(b, 252)
           p(x, k) == (x \div k) % 2
<1>1. \A x \in Byte, k \in {1, 2, 4, 8, 16, 32, 64, 128} : p(x, k) \in {0, 1}
  BY DEF Byte
<1>2. \A x \in Byte :
        x = p(x, 1) + 2 * p(x, 2) + 4 * p(x, 4) + 8 * p(x, 8)
              + 16 * p(x, 16) + 32 * p(x, 32) + 64 * p(x, 64) + 128 * p(x, 128)
  BY ByteIsSum
<1>3. c \in Byte /\ \A i \in 1..8 : Bit(c, i) = (Bit(b, i) /\ Bit(252, i))
  BY AndFacts
<1> HIDE DEF c
<1>4. /\ ~Bit(c, 1) /\ ~Bit(c, 2) /\ \A i \in 3..8 : Bit(c, i) = Bit(b, i)
  <2>1. \A i \in 1..8 : Bit(252, i) = (i \notin {1, 2})
    BY BitsOfMasks
  <2>2. \A i \in 1..8 : Bit(b, i) \in BOOLEAN /\ Bit(c, i) \in BOOLEAN
    BY DEF Bit
  <2>3. ~Bit(252, 1) /\ ~Bit(252, 2) /\ 1 \in 1..8 /\ 2 \in 1..8
    BY DEF Bit, Weight
  <2>4. ~Bit(c, 1) /\ ~Bit(c, 2)
    BY <1>3, <2>3
  <2>5. ASSUME NEW i \in 3..8 PROVE Bit(c, i) = Bit(b, i)
    <3>1. i \in 1..8 /\ i \notin {1, 2}
      OBVIOUS
    <3>2. Bit(252, i)
      BY <2>1, <3>1
    <3>3. Bit(c, i) = (Bit(b, i) /\ Bit(252, i))
      BY <1>3, <3>1
    <3> QED BY <2>2, <3>1, <3>2, <3>3
  <2> QED BY <2>4, <2>5
<1>5. /\ ~(p(c, 1) = 1) /\ ~(p(c, 2) = 1)
      /\ (p(c, 4) = 1) = (p(b, 4) = 1) /\ (p(c, 8) = 1) = (p(b, 8) = 1)
      /\ (p(c, 16) = 1) = (p(b, 16) = 1) /\ (p(c, 32) = 1) = (p(b, 32) = 1)
      /\ (p(c, 64) = 1) = (p(b, 64) = 1) /\ (p(c, 128) = 1) = (p(b, 128) = 1)
  <2>1. /\ Bit(c, 3) = Bit(b, 3) /\ Bit(c, 4) = Bit(b, 4) /\ Bit(c, 5) = Bit(b, 5)
        /\ Bit(c, 6) = Bit(b, 6) /\ Bit(c, 7) = Bit(b, 7) /\ Bit(c, 8) = Bit(b, 8)
    BY <1>4
  <2>2. ~(p(c, 1) = 1) /\ ~(p(c, 2) = 1)
    <3>1. Bit(c, 1) = (p(c, 1) = 1) /\ Bit(c, 2) = (p(c, 2) = 1)
      BY BitIs
    <3> HIDE DEF p
    <3> QED BY <1>4, <3>1, Zenon
  <2>3. \A x \in {b, c} :
          /\ Bit(x, 3) = (p(x, 4) = 1) /\ Bit(x, 4) = (p(x, 8) = 1) /\ Bit(x, 5) = (p(x, 16) = 1)
          /\ Bit(x, 6) = (p(x, 32) = 1) /\ Bit(x, 7) = (p(x, 64) = 1) /\ Bit(x, 8) = (p(x, 128) = 1)
    BY BitIs
  <2> HIDE DEF p
  <2> QED BY <2>1, <2>2, <2>3
<1> HIDE DEF p
<1>6. p(c, 1) = 0 /\ p(c, 2) = 0 /\ \A k \in {4, 8, 16, 32, 64, 128} : p(c, k) = p(b, k)
  BY <1>1, <1>3, <1>5
<1> DEFINE e == p(b, 4) + 2 * p(b, 8) + 4 * p(b, 16) + 8 * p(b, 32) + 16 * p(b, 64) + 32 * p(b, 128)
           d == p(b, 1) + 2 * p(b, 2)
<1>7. c = 4 * e /\ b = c + d
  BY <1>1, <1>2, <1>3, <1>6
<1>8. e \in Nat /\ d \in 0..3
  BY <1>1
<1> HIDE DEF e, d
<1>9. c = 208 <=> b \in 208..211
  BY <1>7, <1>8
<1>10. ASSUME b \in 208..211 PROVE BitAnd(b, 4) = 0 /\ BitAnd(b, 8) = 0
  <2>1. ~Bit(b, 3) /\ ~Bit(b, 4)
    <3>1. b \div 4 = 52 /\ b \div 8 = 26
      BY <1>10
    <3>2. ~((b \div 4) % 2 = 1) /\ ~((b \div 8) % 2 = 1)
      BY <3>1
    <3> QED BY <3>2, BitIs, Zenon
  <2>2. \A i \in 1..8 : Bit(BitAnd(b, 4), i) = Bit(0, i) /\ Bit(BitAnd(b, 8), i) = Bit(0, i)
    <3> SUFFICES ASSUME NEW i \in 1..8
                 PROVE  Bit(BitAnd(b, 4), i) = Bit(0, i) /\ Bit(BitAnd(b, 8), i) = Bit(0, i)
      OBVIOUS
    <3>1. /\ Bit(BitAnd(b, 4), i) = (Bit(b, i) /\ Bit(4, i))
          /\ Bit(BitAnd(b, 8), i) = (Bit(b, i) /\ Bit(8, i))
      BY AndFacts
    <3>2. ~Bit(0, i) /\ Bit(4, i) = (i = 3) /\ Bit(8, i) = (i = 4)
      BY BitsOfMasks
    <3>3. Bit(0, i) = FALSE
      BY <3>2 DEF Bit
    <3> QED BY <2>1, <3>1, <3>2, <3>3
  <2>3. BitAnd(b, 4) \in Byte /\ BitAnd(b, 8) \in Byte /\ 0 \in Byte
    BY AndFacts DEF Byte
  <2> QED BY <2>2, <2>3, SameBits
<1> QED BY <1>9, <1>10 DEF c

\* What the program has still to find, from its instruction 36, 33, 31, 29 and 22 on.
IsType(f) == Len(f) >= 38 /\ f[38] = 4
IsVendor(f) == Len(f) >= 37 /\ f[35] = 24 /\ f[36] = 254 /\ f[37] = 52 /\ IsType(f)
IsElement(f) == Len(f) >= 33 /\ f[33] = 221 /\ IsVendor(f)
IsCategory(f) ==
  Len(f) >= 28 /\ f[25] = 127 /\ f[26] = 24 /\ f[27] = 254 /\ f[28] = 52 /\ IsElement(f)
IsHigh(f, mac) == f[7] = mac[3] /\ f[8] = mac[4] /\ f[9] = mac[5] /\ f[10] = mac[6]
IsLow(f, mac) == f[5] = mac[1] /\ f[6] = mac[2]
IsFor(f, mac) == Len(f) >= 10 /\ IsHigh(f, mac) /\ IsLow(f, mac)

\* A run over data with a frame behind the first X bytes.
Facing(data, run, X, f) == Runs(data, run) /\ X \in Nat /\ Behind(data, X, f)

\* The run comes to the instruction p, with a in the accumulator, and finds the frame. As
\* each step goes forward, it has not taken more steps than there are instructions before.
Reaches(run, X, p, a) ==
  \E n \in 0..38 : n < p /\ run[n].pc = p /\ run[n].a = a /\ Number(run[n].x) = X

\* The z bytes that a load finds.
SameAt(data, X, f, k, z) ==
  /\ X + k + z <= Len(data) <=> k + z <= Len(f)
  /\ k + z <= Len(f) => \A y \in 1..z : data[X + k + y] = f[k + y]

\* They are the frame's.
LEMMA SameBytes ==
  ASSUME NEW data, NEW X \in Nat, NEW f, Behind(data, X, f), NEW k \in Nat, NEW z \in 1..4
  PROVE  SameAt(data, X, f, k, z)
<1>1. Len(f) \in Nat
  BY LenProperties DEF Behind
<1>2. X + k + z <= Len(data) <=> k + z <= Len(f)
  <2>1. k + z \in Nat \ {0} /\ X + (k + z) = X + k + z
    OBVIOUS
  <2> QED BY <2>1 DEF Behind
<1>3. ASSUME k + z <= Len(f), NEW y \in 1..z PROVE data[X + k + y] = f[k + y]
  <2>1. X + (k + y) = X + k + y /\ k + y \in 1..Len(f)
    BY <1>1, <1>3
  <2> QED BY <2>1 DEF Behind
<1> QED BY <1>2, <1>3 DEF SameAt

\* The run comes to the instruction p in the state s, and goes on from there.
StandsAt(data, run, X, p, a, s) ==
  /\ s.pc = p /\ s.a = a /\ Number(s.x) = X
  /\ \A b : \A q \in p + 1..38 :
       Step(data, s) = [pc |-> q, a |-> b, x |-> s.x] => Reaches(run, X, q, b)
  /\ Step(data, s).pc = 39 => run[39].pc = 39

\* There is such a state.
LEMMA StepFrom ==
  ASSUME NEW data, NEW run, NEW X, NEW f, Facing(data, run, X, f),
         NEW p \in 1..37, NEW a, Reaches(run, X, p, a)
  PROVE  \E s : StandsAt(data, run, X, p, a, s)
<1>1. PICK n \in 0..38 : n < p /\ run[n].pc = p /\ run[n].a = a /\ Number(run[n].x) = X
  BY DEF Reaches
<1>2. n + 1 \in 0..38 /\ n + 1 \in 0..39
  BY <1>1
<1>3. /\ run[n + 1] = Step(data, run[n])
      /\ run[n + 1].pc = 39 => run[39].pc = 39
  BY <1>2, RunSteps DEF Facing
<1> DEFINE s == run[n]
<1>4. ASSUME NEW b, NEW q \in p + 1..38, Step(data, s) = [pc |-> q, a |-> b, x |-> s.x]
      PROVE  Reaches(run, X, q, b)
  <2>1. n + 1 < q
    BY <1>1
  <2>2. run[n + 1].pc = q /\ run[n + 1].a = b /\ Number(run[n + 1].x) = X
    BY <1>1, <1>3, <1>4
  <2> QED BY <1>2, <2>1, <2>2 DEF Reaches
<1> HIDE DEF s
<1>5. s.pc = p /\ s.a = a /\ Number(s.x) = X
  BY <1>1 DEF s
<1>6. Step(data, s).pc = 39 => run[39].pc = 39
  BY <1>3 DEF s
<1>7. StandsAt(data, run, X, p, a, s)
  <2>1. \A b : \A q \in p + 1..38 :
          Step(data, s) = [pc |-> q, a |-> b, x |-> s.x] => Reaches(run, X, q, b)
    BY <1>4
  <2> QED BY <1>5, <1>6, <2>1, Zenon DEF StandsAt
<1> QED BY <1>7

\* A load of one byte from the frame: when it ends before, it is dropped.
LEMMA ByteLoad ==
  ASSUME NEW data, NEW run, NEW X, NEW f, Facing(data, run, X, f),
         NEW p \in 1..37, NEW a, Reaches(run, X, p, a), NEW k \in Nat,
         Filter[p] = <<"ldb", 0, 0, k>>
  PROVE  /\ k + 1 <= Len(f) => Reaches(run, X, p + 1, <<0, 0, 0, f[k + 1]>>)
         /\ ~(k + 1 <= Len(f)) => run[39].pc = 39
<1>0. Runs(data, run) /\ X \in Nat /\ Behind(data, X, f)
  BY DEF Facing
<1>p. PICK s : StandsAt(data, run, X, p, a, s)
  BY StepFrom
<1>1. /\ s.pc = p /\ s.a = a /\ Number(s.x) = X
      /\ \A b : \A q \in p + 1..38 :
           Step(data, s) = [pc |-> q, a |-> b, x |-> s.x] => Reaches(run, X, q, b)
      /\ Step(data, s).pc = 39 => run[39].pc = 39
  BY <1>p DEF StandsAt
<1>2. Step(data, s) =
        IF X + k + 1 <= Len(data)
          THEN [pc |-> p + 1, a |-> Load(data, X + k, 1), x |-> s.x]
          ELSE [pc |-> 39, a |-> a, x |-> s.x]
  <2>1. Filter[s.pc] = <<"ldb", 0, 0, k>> /\ "ldb" \in {"ldb", "ldh", "ldw"}
    BY <1>1
  <2> QED BY <1>1, <2>1, Loads
<1>3. Load(data, X + k, 1) = <<0, 0, 0, data[X + k + 1]>>
  BY DEF Load
<1>4. /\ X + k + 1 <= Len(data) <=> k + 1 <= Len(f)
      /\ k + 1 <= Len(f) => data[X + k + 1] = f[k + 1]
  <2>1. 1 \in 1..1 /\ 1 \in 1..4
    OBVIOUS
  <2>2. SameAt(data, X, f, k, 1)
    BY <1>0, <2>1, SameBytes
  <2> QED BY <2>1, <2>2 DEF SameAt
<1>5. CASE k + 1 <= Len(f)
  <2>1. Step(data, s) = [pc |-> p + 1, a |-> <<0, 0, 0, f[k + 1]>>, x |-> s.x]
    BY <1>2, <1>3, <1>4, <1>5
  <2>2. p + 1 \in p + 1..38
    OBVIOUS
  <2> QED BY <1>1, <1>5, <2>1, <2>2
<1>6. CASE ~(k + 1 <= Len(f))
  <2>1. Step(data, s).pc = 39
    BY <1>2, <1>4, <1>6
  <2> QED BY <1>1, <1>6, <2>1
<1> QED BY <1>5, <1>6

\* A load of two bytes from the frame: when it ends before, it is dropped.
LEMMA HalfLoad ==
  ASSUME NEW data, NEW run, NEW X, NEW f, Facing(data, run, X, f),
         NEW p \in 1..37, NEW a, Reaches(run, X, p, a), NEW k \in Nat,
         Filter[p] = <<"ldh", 0, 0, k>>
  PROVE  /\ k + 2 <= Len(f) => Reaches(run, X, p + 1, <<0, 0, f[k + 1], f[k + 2]>>)
         /\ ~(k + 2 <= Len(f)) => run[39].pc = 39
<1>0. Runs(data, run) /\ X \in Nat /\ Behind(data, X, f)
  BY DEF Facing
<1>p. PICK s : StandsAt(data, run, X, p, a, s)
  BY StepFrom
<1>1. /\ s.pc = p /\ s.a = a /\ Number(s.x) = X
      /\ \A b : \A q \in p + 1..38 :
           Step(data, s) = [pc |-> q, a |-> b, x |-> s.x] => Reaches(run, X, q, b)
      /\ Step(data, s).pc = 39 => run[39].pc = 39
  BY <1>p DEF StandsAt
<1>2. Step(data, s) =
        IF X + k + 2 <= Len(data)
          THEN [pc |-> p + 1, a |-> Load(data, X + k, 2), x |-> s.x]
          ELSE [pc |-> 39, a |-> a, x |-> s.x]
  <2>1. Filter[s.pc] = <<"ldh", 0, 0, k>> /\ "ldh" \in {"ldb", "ldh", "ldw"}
    BY <1>1
  <2> QED BY <1>1, <2>1, Loads
<1>3. Load(data, X + k, 2) = <<0, 0, data[X + k + 1], data[X + k + 2]>>
  BY DEF Load
<1>4. /\ X + k + 2 <= Len(data) <=> k + 2 <= Len(f)
      /\ k + 2 <= Len(f) => data[X + k + 1] = f[k + 1] /\ data[X + k + 2] = f[k + 2]
  <2>1. 1 \in 1..2 /\ 2 \in 1..2 /\ 2 \in 1..4
    OBVIOUS
  <2>2. SameAt(data, X, f, k, 2)
    BY <1>0, <2>1, SameBytes
  <2> QED BY <2>1, <2>2 DEF SameAt
<1>5. CASE k + 2 <= Len(f)
  <2>1. Step(data, s) = [pc |-> p + 1, a |-> <<0, 0, f[k + 1], f[k + 2]>>, x |-> s.x]
    BY <1>2, <1>3, <1>4, <1>5
  <2>2. p + 1 \in p + 1..38
    OBVIOUS
  <2> QED BY <1>1, <1>5, <2>1, <2>2
<1>6. CASE ~(k + 2 <= Len(f))
  <2>1. Step(data, s).pc = 39
    BY <1>2, <1>4, <1>6
  <2> QED BY <1>1, <1>6, <2>1
<1> QED BY <1>5, <1>6

\* A load of four bytes from the frame: when it ends before, it is dropped.
LEMMA WordLoad ==
  ASSUME NEW data, NEW run, NEW X, NEW f, Facing(data, run, X, f),
         NEW p \in 1..37, NEW a, Reaches(run, X, p, a), NEW k \in Nat,
         Filter[p] = <<"ldw", 0, 0, k>>
  PROVE  /\ k + 4 <= Len(f) => Reaches(run, X, p + 1, <<f[k + 1], f[k + 2], f[k + 3], f[k + 4]>>)
         /\ ~(k + 4 <= Len(f)) => run[39].pc = 39
<1>0. Runs(data, run) /\ X \in Nat /\ Behind(data, X, f)
  BY DEF Facing
<1>p. PICK s : StandsAt(data, run, X, p, a, s)
  BY StepFrom
<1>1. /\ s.pc = p /\ s.a = a /\ Number(s.x) = X
      /\ \A b : \A q \in p + 1..38 :
           Step(data, s) = [pc |-> q, a |-> b, x |-> s.x] => Reaches(run, X, q, b)
      /\ Step(data, s).pc = 39 => run[39].pc = 39
  BY <1>p DEF StandsAt
<1>2. Step(data, s) =
        IF X + k + 4 <= Len(data)
          THEN [pc |-> p + 1, a |-> Load(data, X + k, 4), x |-> s.x]
          ELSE [pc |-> 39, a |-> a, x |-> s.x]
  <2>1. Filter[s.pc] = <<"ldw", 0, 0, k>> /\ "ldw" \in {"ldb", "ldh", "ldw"}
    BY <1>1
  <2> QED BY <1>1, <2>1, Loads
<1>3. Load(data, X + k, 4) = <<data[X + k + 1], data[X + k + 2], data[X + k + 3], data[X + k + 4]>>
  BY DEF Load
<1>4. /\ X + k + 4 <= Len(data) <=> k + 4 <= Len(f)
      /\ k + 4 <= Len(f) =>
           /\ data[X + k + 1] = f[k + 1] /\ data[X + k + 2] = f[k + 2]
           /\ data[X + k + 3] = f[k + 3] /\ data[X + k + 4] = f[k + 4]
  <2>1. 1 \in 1..4 /\ 2 \in 1..4 /\ 3 \in 1..4 /\ 4 \in 1..4 /\ 4 \in 1..4
    OBVIOUS
  <2>2. SameAt(data, X, f, k, 4)
    BY <1>0, <2>1, SameBytes
  <2> QED BY <2>1, <2>2 DEF SameAt
<1>5. CASE k + 4 <= Len(f)
  <2>1. Step(data, s) = [pc |-> p + 1, a |-> <<f[k + 1], f[k + 2], f[k + 3], f[k + 4]>>, x |-> s.x]
    BY <1>2, <1>3, <1>4, <1>5
  <2>2. p + 1 \in p + 1..38
    OBVIOUS
  <2> QED BY <1>1, <1>5, <2>1, <2>2
<1>6. CASE ~(k + 4 <= Len(f))
  <2>1. Step(data, s).pc = 39
    BY <1>2, <1>4, <1>6
  <2> QED BY <1>1, <1>6, <2>1
<1> QED BY <1>5, <1>6

\* A jump if the accumulator has the value.
LEMMA Jump ==
  ASSUME NEW data, NEW run, NEW X, NEW f, Facing(data, run, X, f),
         NEW p \in 1..37, NEW a, Reaches(run, X, p, a), NEW t \in Nat, NEW e \in Nat, NEW k,
         Filter[p] = <<"jeq", t, e, k>>, p + 1 + t <= 39, p + 1 + e <= 39
  PROVE  LET q == p + 1 + (IF a = k THEN t ELSE e)
         IN IF q = 39 THEN run[39].pc = 39 ELSE Reaches(run, X, q, a)
<1>p. PICK s : StandsAt(data, run, X, p, a, s)
  BY StepFrom
<1>1. /\ s.pc = p /\ s.a = a /\ Number(s.x) = X
      /\ \A b : \A q \in p + 1..38 :
           Step(data, s) = [pc |-> q, a |-> b, x |-> s.x] => Reaches(run, X, q, b)
      /\ Step(data, s).pc = 39 => run[39].pc = 39
  BY <1>p DEF StandsAt
<1> DEFINE q == p + 1 + (IF a = k THEN t ELSE e)
<1>2. Step(data, s) = [pc |-> q, a |-> a, x |-> s.x]
  <2>1. Filter[s.pc] = <<"jeq", t, e, k>>
    BY <1>1
  <2> QED BY <1>1, <2>1, Instructions
<1>3. q \in p + 1..38 \/ q = 39
  OBVIOUS
<1> HIDE DEF q
<1>4. q = 39 => run[39].pc = 39
  <2>1. Step(data, s).pc = q
    BY <1>2
  <2> QED BY <1>1, <2>1
<1>5. q # 39 => Reaches(run, X, q, a)
  BY <1>1, <1>2, <1>3
<1> QED BY <1>4, <1>5 DEF q

\* A jump if one of the bits is set.
LEMMA BitJump ==
  ASSUME NEW data, NEW run, NEW X, NEW f, Facing(data, run, X, f),
         NEW p \in 1..37, NEW a, Reaches(run, X, p, a), NEW t \in Nat, NEW e \in Nat, NEW k,
         Filter[p] = <<"jset", t, e, k>>, p + 1 + t <= 39, p + 1 + e <= 39
  PROVE  LET q == p + 1 + (IF AndWord(a, k) # Zero THEN t ELSE e)
         IN IF q = 39 THEN run[39].pc = 39 ELSE Reaches(run, X, q, a)
<1>p. PICK s : StandsAt(data, run, X, p, a, s)
  BY StepFrom
<1>1. /\ s.pc = p /\ s.a = a /\ Number(s.x) = X
      /\ \A b : \A q \in p + 1..38 :
           Step(data, s) = [pc |-> q, a |-> b, x |-> s.x] => Reaches(run, X, q, b)
      /\ Step(data, s).pc = 39 => run[39].pc = 39
  BY <1>p DEF StandsAt
<1> DEFINE q == p + 1 + (IF AndWord(a, k) # Zero THEN t ELSE e)
<1>2. Step(data, s) = [pc |-> q, a |-> a, x |-> s.x]
  <2>1. Filter[s.pc] = <<"jset", t, e, k>>
    BY <1>1
  <2> QED BY <1>1, <2>1, Instructions
<1>3. q \in p + 1..38 \/ q = 39
  OBVIOUS
<1> HIDE DEF q
<1>4. q = 39 => run[39].pc = 39
  <2>1. Step(data, s).pc = q
    BY <1>2
  <2> QED BY <1>1, <2>1
<1>5. q # 39 => Reaches(run, X, q, a)
  BY <1>1, <1>2, <1>3
<1> QED BY <1>4, <1>5 DEF q

\* The other bits are cleared.
LEMMA Mask ==
  ASSUME NEW data, NEW run, NEW X, NEW f, Facing(data, run, X, f),
         NEW p \in 1..37, NEW a, Reaches(run, X, p, a), NEW k,
         Filter[p] = <<"and", 0, 0, k>>
  PROVE  Reaches(run, X, p + 1, AndWord(a, k))
<1>p. PICK s : StandsAt(data, run, X, p, a, s)
  BY StepFrom
<1>1. /\ s.pc = p /\ s.a = a /\ Number(s.x) = X
      /\ \A b : \A q \in p + 1..38 :
           Step(data, s) = [pc |-> q, a |-> b, x |-> s.x] => Reaches(run, X, q, b)
      /\ Step(data, s).pc = 39 => run[39].pc = 39
  BY <1>p DEF StandsAt
<1>2. Step(data, s) = [pc |-> p + 1, a |-> AndWord(a, k), x |-> s.x]
  <2>1. Filter[s.pc] = <<"and", 0, 0, k>>
    BY <1>1
  <2> QED BY <1>1, <2>1, Instructions
<1>3. p + 1 \in p + 1..38
  OBVIOUS
<1> QED BY <1>1, <1>2, <1>3

\* The program has passed the frame.
LEMMA Return ==
  ASSUME NEW data, NEW run, NEW X, NEW f, Facing(data, run, X, f), NEW a, Reaches(run, X, 38, a)
  PROVE  run[39].pc = 38
<1>1. PICK n \in 0..38 : run[n].pc = 38
  BY DEF Reaches
<1>2. n \in 0..39 /\ run[n].pc \in {38, 39}
  BY <1>1
<1> QED BY <1>1, <1>2, RunSteps DEF Facing

\* The program from its instruction 36 on: the type of the content.
LEMMA From36 ==
  ASSUME NEW data, NEW run, NEW X, NEW f, Facing(data, run, X, f),
         NEW a, Reaches(run, X, 36, a)
  PROVE  run[39].pc = IF IsType(f) THEN 38 ELSE 39
<1>1. Filter[36] = <<"ldb", 0, 0, 37>> /\ Filter[37] = <<"jeq", 0, 1, <<0, 0, 0, 4>>>>
  BY Program
<1>2. Len(f) \in Nat
  BY LenProperties DEF Facing, Behind
<1>3. /\ 37 + 1 <= Len(f) => Reaches(run, X, 36 + 1, <<0, 0, 0, f[37 + 1]>>)
      /\ ~(37 + 1 <= Len(f)) => run[39].pc = 39
  <2>1. 36 \in 1..37 /\ 37 \in Nat
    OBVIOUS
  <2> QED BY <1>1, <2>1, ByteLoad
<1>4. CASE 38 <= Len(f)
  <2> DEFINE v == <<0, 0, 0, f[38]>>
             y == <<0, 0, 0, 4>>
  <2>1. Reaches(run, X, 37, v)
    BY <1>3, <1>4
  <2>2. v = y <=> f[38] = 4
    OBVIOUS
  <2> HIDE DEF v
  <2>3. LET q == 37 + 1 + (IF v = y THEN 0 ELSE 1)
        IN IF q = 39 THEN run[39].pc = 39 ELSE Reaches(run, X, q, v)
    <3>1. 37 \in 1..37 /\ 0 \in Nat /\ 1 \in Nat /\ 37 + 1 + 0 <= 39 /\ 37 + 1 + 1 <= 39
      OBVIOUS
    <3>2. Filter[37] = <<"jeq", 0, 1, y>>
      BY <1>1
    <3> HIDE DEF y
    <3> QED BY <2>1, <3>1, <3>2, Jump
  <2>4. f[38] = 4 => run[39].pc = 38
    <3>1. f[38] = 4 => Reaches(run, X, 38, v)
      BY <2>2, <2>3
    <3> QED BY <3>1, Return
  <2>5. f[38] # 4 => run[39].pc = 39
    BY <2>2, <2>3
  <2> QED BY <1>2, <1>4, <2>4, <2>5 DEF IsType
<1>5. CASE ~(38 <= Len(f))
  BY <1>2, <1>3, <1>5 DEF IsType
<1> QED BY <1>4, <1>5
\* The words that the program compares with.
LEMMA Words ==
  /\ \A a, b : (<<0, 0, 0, a>> = <<0, 0, 0, b>>) = (a = b)
  /\ \A a, b, c, d : (<<0, 0, a, b>> = <<0, 0, c, d>>) = (a = c /\ b = d)
  /\ \A a, b, c, d, e, g, h, i :
       (<<a, b, c, d>> = <<e, g, h, i>>) = (a = e /\ b = g /\ c = h /\ d = i)
OBVIOUS

\* A check: the run goes on if the word is the expected one, and else it drops the frame.
LEMMA Check ==
  ASSUME NEW data, NEW run, NEW X, NEW f, Facing(data, run, X, f),
         NEW p \in 1..37, NEW a, Reaches(run, X, p, a), NEW e \in Nat, NEW k,
         Filter[p] = <<"jeq", 0, e, k>>, p + e = 38
  PROVE  IF a = k THEN Reaches(run, X, p + 1, a) ELSE run[39].pc = 39
<1>1. p + 1 + 0 <= 39 /\ p + 1 + e <= 39 /\ 0 \in Nat
  OBVIOUS
<1>2. LET j == p + 1 + (IF a = k THEN 0 ELSE e)
      IN IF j = 39 THEN run[39].pc = 39 ELSE Reaches(run, X, j, a)
  BY <1>1, Jump
<1>3. p + 1 + 0 = p + 1 /\ p + 1 # 39 /\ p + 1 + e = 39
  OBVIOUS
<1> QED BY <1>2, <1>3

\* From its instruction 33 on: the three bytes of the organization before the type.
LEMMA From33 ==
  ASSUME NEW data, NEW run, NEW X, NEW f, Facing(data, run, X, f),
         NEW a, Reaches(run, X, 33, a)
  PROVE  run[39].pc = IF IsVendor(f) THEN 38 ELSE 39
<1>1. /\ Filter[33] = <<"ldw", 0, 0, 33>> /\ Filter[34] = <<"and", 0, 0, <<0, 255, 255, 255>>>>
      /\ Filter[35] = <<"jeq", 0, 3, <<0, 24, 254, 52>>>>
  BY Program
<1>2. Len(f) \in Nat
  BY LenProperties DEF Facing, Behind
<1>3. /\ 33 + 4 <= Len(f) => Reaches(run, X, 33 + 1, <<f[33 + 1], f[33 + 2], f[33 + 3], f[33 + 4]>>)
      /\ ~(33 + 4 <= Len(f)) => run[39].pc = 39
  <2>1. 33 \in 1..37 /\ 33 \in Nat
    OBVIOUS
  <2> QED BY <1>1, <2>1, WordLoad, SMTT(30)
<1>4. CASE 37 <= Len(f)
  <2> DEFINE v == <<f[34], f[35], f[36], f[37]>>
             mask == <<0, 255, 255, 255>>
             w == <<0, f[35], f[36], f[37]>>
             y == <<0, 24, 254, 52>>
  <2>1. Reaches(run, X, 34, v)
    BY <1>3, <1>4
  <2>2. AndWord(v, mask) = w
    <3>1. 34 \in 1..Len(f) /\ 35 \in 1..Len(f) /\ 36 \in 1..Len(f) /\ 37 \in 1..Len(f)
      BY <1>2, <1>4
    <3>2. f[34] \in Byte /\ f[35] \in Byte /\ f[36] \in Byte /\ f[37] \in Byte
      BY <3>1 DEF Facing, Behind
    <3>3. /\ BitAnd(f[34], 0) = 0 /\ BitAnd(f[35], 255) = f[35]
          /\ BitAnd(f[36], 255) = f[36] /\ BitAnd(f[37], 255) = f[37]
      BY <3>2, Neutral
    <3>4. AndWord(v, mask) =
            <<BitAnd(f[34], 0), BitAnd(f[35], 255), BitAnd(f[36], 255), BitAnd(f[37], 255)>>
      BY DEF AndWord
    <3> QED BY <3>3, <3>4
  <2>3. w = y <=> f[35] = 24 /\ f[36] = 254 /\ f[37] = 52
    BY Words
  <2> HIDE DEF v, w
  <2>4. Reaches(run, X, 35, w)
    <3>1. Filter[34] = <<"and", 0, 0, mask>> /\ 34 \in 1..37 /\ 34 + 1 = 35
      BY <1>1
    <3> HIDE DEF mask
    <3>2. Reaches(run, X, 34 + 1, AndWord(v, mask))
      BY <2>1, <3>1, Mask
    <3> QED BY <2>2, <3>1, <3>2
  <2>5. IF w = y THEN Reaches(run, X, 35 + 1, w) ELSE run[39].pc = 39
    <3>1. 35 \in 1..37 /\ 3 \in Nat /\ 35 + 3 = 38
      OBVIOUS
    <3>2. Filter[35] = <<"jeq", 0, 3, y>>
      BY <1>1
    <3> HIDE DEF y
    <3> QED BY <2>4, <3>1, <3>2, Check
  <2>6. w = y => run[39].pc = IF IsType(f) THEN 38 ELSE 39
    BY <2>5, From36
  <2> HIDE DEF y
  <2> QED BY <1>4, <2>3, <2>5, <2>6 DEF IsVendor
<1>5. CASE ~(37 <= Len(f))
  BY <1>2, <1>3, <1>5 DEF IsVendor
<1> QED BY <1>4, <1>5

\* From its instruction 31 on: the identifier of the element.
LEMMA From31 ==
  ASSUME NEW data, NEW run, NEW X, NEW f, Facing(data, run, X, f),
         NEW a, Reaches(run, X, 31, a)
  PROVE  run[39].pc = IF IsElement(f) THEN 38 ELSE 39
<1>1. Filter[31] = <<"ldb", 0, 0, 32>> /\ Filter[32] = <<"jeq", 0, 6, <<0, 0, 0, 221>>>>
  BY Program
<1>2. Len(f) \in Nat
  BY LenProperties DEF Facing, Behind
<1>3. /\ 32 + 1 <= Len(f) => Reaches(run, X, 31 + 1, <<0, 0, 0, f[32 + 1]>>)
      /\ ~(32 + 1 <= Len(f)) => run[39].pc = 39
  <2>1. 31 \in 1..37 /\ 32 \in Nat
    OBVIOUS
  <2> QED BY <1>1, <2>1, ByteLoad
<1>4. CASE 33 <= Len(f)
  <2> DEFINE v == <<0, 0, 0, f[33]>>
             y == <<0, 0, 0, 221>>
  <2>1. Reaches(run, X, 32, v)
    BY <1>3, <1>4
  <2>2. v = y <=> f[33] = 221
    BY Words
  <2> HIDE DEF v
  <2>3. IF v = y THEN Reaches(run, X, 32 + 1, v) ELSE run[39].pc = 39
    <3>1. 32 \in 1..37 /\ 6 \in Nat /\ 32 + 6 = 38
      OBVIOUS
    <3>2. Filter[32] = <<"jeq", 0, 6, y>>
      BY <1>1
    <3> HIDE DEF y
    <3> QED BY <2>1, <3>1, <3>2, Check
  <2>4. v = y => run[39].pc = IF IsVendor(f) THEN 38 ELSE 39
    BY <2>3, From33
  <2> HIDE DEF y
  <2> QED BY <1>4, <2>2, <2>3, <2>4 DEF IsElement
<1>5. CASE ~(33 <= Len(f))
  BY <1>2, <1>3, <1>5 DEF IsElement
<1> QED BY <1>4, <1>5

\* From its instruction 29 on: the category and the organization of the action.
LEMMA From29 ==
  ASSUME NEW data, NEW run, NEW X, NEW f, Facing(data, run, X, f),
         NEW a, Reaches(run, X, 29, a)
  PROVE  run[39].pc = IF IsCategory(f) THEN 38 ELSE 39
<1>1. Filter[29] = <<"ldw", 0, 0, 24>> /\ Filter[30] = <<"jeq", 0, 8, <<127, 24, 254, 52>>>>
  BY Program
<1>2. Len(f) \in Nat
  BY LenProperties DEF Facing, Behind
<1>3. /\ 24 + 4 <= Len(f) => Reaches(run, X, 29 + 1, <<f[24 + 1], f[24 + 2], f[24 + 3], f[24 + 4]>>)
      /\ ~(24 + 4 <= Len(f)) => run[39].pc = 39
  <2>1. 29 \in 1..37 /\ 24 \in Nat
    OBVIOUS
  <2> QED BY <1>1, <2>1, WordLoad, SMTT(30)
<1>4. CASE 28 <= Len(f)
  <2> DEFINE v == <<f[25], f[26], f[27], f[28]>>
             y == <<127, 24, 254, 52>>
  <2>1. Reaches(run, X, 30, v)
    BY <1>3, <1>4
  <2>2. v = y <=> f[25] = 127 /\ f[26] = 24 /\ f[27] = 254 /\ f[28] = 52
    BY Words
  <2> HIDE DEF v
  <2>3. IF v = y THEN Reaches(run, X, 30 + 1, v) ELSE run[39].pc = 39
    <3>1. 30 \in 1..37 /\ 8 \in Nat /\ 30 + 8 = 38
      OBVIOUS
    <3>2. Filter[30] = <<"jeq", 0, 8, y>>
      BY <1>1
    <3> HIDE DEF y
    <3> QED BY <2>1, <3>1, <3>2, Check
  <2>4. v = y => run[39].pc = IF IsElement(f) THEN 38 ELSE 39
    BY <2>3, From31
  <2> HIDE DEF y
  <2> QED BY <1>4, <2>2, <2>3, <2>4 DEF IsCategory
<1>5. CASE ~(28 <= Len(f))
  BY <1>2, <1>3, <1>5 DEF IsCategory
<1> QED BY <1>4, <1>5
\* From its instruction 24 on: the address starts like the bridge's.
LEMMA From24 ==
  ASSUME NEW data, NEW run, NEW X, NEW f, Facing(data, run, X, f), Len(f) >= 10,
         NEW a, Reaches(run, X, 24, a)
  PROVE  run[39].pc = IF IsLow(f, LocalMac) /\ IsCategory(f) THEN 38 ELSE 39
<1>1. Filter[24] = <<"ldh", 0, 0, 4>> /\ Filter[25] = <<"jeq", 3, 13, MacPart1>>
  BY Program
<1>2. Len(f) \in Nat
  BY LenProperties DEF Facing, Behind
<1> DEFINE v == <<0, 0, f[5], f[6]>>
<1>3. Reaches(run, X, 25, v)
  <2>1. 24 \in 1..37 /\ 4 \in Nat
    OBVIOUS
  <2>2. 4 + 2 <= Len(f) => Reaches(run, X, 24 + 1, <<0, 0, f[4 + 1], f[4 + 2]>>)
    BY <1>1, <2>1, HalfLoad
  <2>3. 4 + 2 <= Len(f)
    BY <1>2
  <2> QED BY <2>2, <2>3
<1>4. v = MacPart1 <=> IsLow(f, LocalMac)
  BY Words DEF MacPart1, IsLow
<1> HIDE DEF v
<1>5. LET q == 25 + 1 + (IF v = MacPart1 THEN 3 ELSE 13)
      IN IF q = 39 THEN run[39].pc = 39 ELSE Reaches(run, X, q, v)
  <2>1. 25 \in 1..37 /\ 3 \in Nat /\ 13 \in Nat /\ 25 + 1 + 3 <= 39 /\ 25 + 1 + 13 <= 39
    OBVIOUS
  <2> QED BY <1>1, <1>3, <2>1, Jump
<1>6. CASE IsLow(f, LocalMac)
  <2>1. Reaches(run, X, 29, v)
    BY <1>4, <1>5, <1>6
  <2> QED BY <1>6, <2>1, From29
<1>7. CASE ~IsLow(f, LocalMac)
  BY <1>4, <1>5, <1>7
<1> QED BY <1>6, <1>7

\* From its instruction 26 on: the address is that of all nodes.
LEMMA From26 ==
  ASSUME NEW data, NEW run, NEW X, NEW f, Facing(data, run, X, f), Len(f) >= 10,
         Reaches(run, X, 26, <<f[7], f[8], f[9], f[10]>>)
  PROVE  run[39].pc =
           IF IsHigh(f, Broadcast) /\ IsLow(f, Broadcast) /\ IsCategory(f) THEN 38 ELSE 39
<1>1. /\ Filter[26] = <<"jeq", 0, 12, <<255, 255, 255, 255>>>>
      /\ Filter[27] = <<"ldh", 0, 0, 4>> /\ Filter[28] = <<"jeq", 0, 10, <<0, 0, 255, 255>>>>
  BY Program
<1>2. Len(f) \in Nat
  BY LenProperties DEF Facing, Behind
<1> DEFINE u == <<f[7], f[8], f[9], f[10]>>
           v == <<0, 0, f[5], f[6]>>
           y == <<255, 255, 255, 255>>
           z == <<0, 0, 255, 255>>
<1>3. (u = y <=> IsHigh(f, Broadcast)) /\ (v = z <=> IsLow(f, Broadcast))
  <2>1. /\ Broadcast[1] = 255 /\ Broadcast[2] = 255 /\ Broadcast[3] = 255
        /\ Broadcast[4] = 255 /\ Broadcast[5] = 255 /\ Broadcast[6] = 255
    BY DEF Broadcast
  <2> QED BY <2>1, Words DEF IsHigh, IsLow
<1>4. Reaches(run, X, 26, u) /\ Filter[26] = <<"jeq", 0, 12, y>> /\ Filter[28] = <<"jeq", 0, 10, z>>
  BY <1>1
<1> HIDE DEF u, y, z
<1>5. IF u = y THEN Reaches(run, X, 26 + 1, u) ELSE run[39].pc = 39
  <2>1. 26 \in 1..37 /\ 12 \in Nat /\ 26 + 12 = 38
    OBVIOUS
  <2> QED BY <1>4, <2>1, Check
<1>6. CASE u = y
  <2>1. Reaches(run, X, 27, u)
    BY <1>5, <1>6
  <2>2. Reaches(run, X, 28, v)
    <3>1. 27 \in 1..37 /\ 4 \in Nat
      OBVIOUS
    <3>2. 4 + 2 <= Len(f) => Reaches(run, X, 27 + 1, <<0, 0, f[4 + 1], f[4 + 2]>>)
      BY <1>1, <2>1, <3>1, HalfLoad
    <3>3. 4 + 2 <= Len(f)
      BY <1>2
    <3> QED BY <3>2, <3>3
  <2> HIDE DEF v
  <2>3. IF v = z THEN Reaches(run, X, 28 + 1, v) ELSE run[39].pc = 39
    <3>1. 28 \in 1..37 /\ 10 \in Nat /\ 28 + 10 = 38
      OBVIOUS
    <3> QED BY <1>4, <2>2, <3>1, Check
  <2>4. v = z => run[39].pc = IF IsCategory(f) THEN 38 ELSE 39
    <3>1. v = z => Reaches(run, X, 29, v)
      BY <2>3
    <3> QED BY <3>1, From29
  <2> QED BY <1>3, <1>6, <2>3, <2>4
<1>7. CASE u # y
  BY <1>3, <1>5, <1>7
<1> QED BY <1>6, <1>7

\* Its address is the bridge's or that of all.
IsDestination(f) == IsFor(f, LocalMac) \/ IsFor(f, Broadcast)

\* From its instruction 22 on: the address, in two parts.
LEMMA From22 ==
  ASSUME NEW data, NEW run, NEW X, NEW f, Facing(data, run, X, f), MacIsClear,
         NEW a, Reaches(run, X, 22, a)
  PROVE  run[39].pc = IF IsDestination(f) /\ IsCategory(f) THEN 38 ELSE 39
<1>1. Filter[22] = <<"ldw", 0, 0, 6>> /\ Filter[23] = <<"jeq", 0, 2, MacPart2>>
  BY Program
<1>2. Len(f) \in Nat
  BY LenProperties DEF Facing, Behind
<1>3. /\ 6 + 4 <= Len(f) => Reaches(run, X, 22 + 1, <<f[6 + 1], f[6 + 2], f[6 + 3], f[6 + 4]>>)
      /\ ~(6 + 4 <= Len(f)) => run[39].pc = 39
  <2>1. 22 \in 1..37 /\ 6 \in Nat
    OBVIOUS
  <2> QED BY <1>1, <2>1, WordLoad, SMTT(30)
<1>4. CASE 10 <= Len(f)
  <2> DEFINE u == <<f[7], f[8], f[9], f[10]>>
  <2>1. Reaches(run, X, 23, u)
    BY <1>3, <1>4
  <2>2. u = MacPart2 <=> IsHigh(f, LocalMac)
    BY Words DEF MacPart2, IsHigh
  <2>3. u = <<255, 255, 255, 255>> <=> IsHigh(f, Broadcast)
    <3>1. /\ Broadcast[3] = 255 /\ Broadcast[4] = 255 /\ Broadcast[5] = 255 /\ Broadcast[6] = 255
      BY DEF Broadcast
    <3> QED BY <3>1, Words DEF IsHigh
  <2> HIDE DEF u
  <2>4. LET q == 23 + 1 + (IF u = MacPart2 THEN 0 ELSE 2)
        IN IF q = 39 THEN run[39].pc = 39 ELSE Reaches(run, X, q, u)
    <3>1. 23 \in 1..37 /\ 0 \in Nat /\ 2 \in Nat /\ 23 + 1 + 0 <= 39 /\ 23 + 1 + 2 <= 39
      OBVIOUS
    <3> QED BY <1>1, <2>1, <3>1, Jump
  <2>5. CASE IsHigh(f, LocalMac)
    <3>1. Reaches(run, X, 24, u)
      BY <2>2, <2>4, <2>5
    <3>2. Len(f) >= 10
      BY <1>2, <1>4
    <3>3. run[39].pc = IF IsLow(f, LocalMac) /\ IsCategory(f) THEN 38 ELSE 39
      BY <3>1, <3>2, From24
    <3>4. IsHigh(f, Broadcast) => LocalMac = Broadcast
      BY <2>2, <2>3, <2>5 DEF MacIsClear
    <3> QED BY <2>5, <3>2, <3>3, <3>4 DEF IsDestination, IsFor
  <2>6. CASE ~IsHigh(f, LocalMac)
    <3>1. Reaches(run, X, 26, u)
      BY <2>2, <2>4, <2>6
    <3>2. Len(f) >= 10
      BY <1>2, <1>4
    <3>3. run[39].pc =
            IF IsHigh(f, Broadcast) /\ IsLow(f, Broadcast) /\ IsCategory(f) THEN 38 ELSE 39
      BY <3>1, <3>2, From26 DEF u
    <3> QED BY <2>6, <3>2, <3>3 DEF IsDestination, IsFor
  <2> QED BY <2>5, <2>6
<1>5. CASE ~(10 <= Len(f))
  BY <1>2, <1>3, <1>5 DEF IsDestination, IsFor
<1> QED BY <1>4, <1>5
\* From its instruction 10 on: neither of the two flags is that of an action frame.
LEMMA From10 ==
  ASSUME NEW data, NEW run, NEW X, NEW f, Facing(data, run, X, f), MacIsClear,
         Len(f) >= 1, f[1] \in 208..211, NEW a, Reaches(run, X, 10, a)
  PROVE  run[39].pc = IF IsDestination(f) /\ IsCategory(f) THEN 38 ELSE 39
<1>1. /\ Filter[10] = <<"ldb", 0, 0, 0>>
      /\ Filter[11] = <<"jset", 27, 0, <<0, 0, 0, 4>>>> /\ Filter[12] = <<"jset", 0, 9, <<0, 0, 0, 8>>>>
  BY Program
<1> DEFINE v == <<0, 0, 0, f[1]>>
           y == <<0, 0, 0, 4>>
           z == <<0, 0, 0, 8>>
<1>2. Reaches(run, X, 11, v)
  <2>1. 10 \in 1..37 /\ 0 \in Nat
    OBVIOUS
  <2>2. 0 + 1 <= Len(f) => Reaches(run, X, 10 + 1, <<0, 0, 0, f[0 + 1]>>)
    BY <1>1, <2>1, ByteLoad
  <2> QED BY <2>2
<1>3. AndWord(v, y) = Zero /\ AndWord(v, z) = Zero
  <2>1. f[1] \in Byte /\ 0 \in Byte
    BY DEF Byte
  <2>2. BitAnd(f[1], 4) = 0 /\ BitAnd(f[1], 8) = 0 /\ BitAnd(0, 0) = 0
    BY <2>1, Masks, Neutral
  <2> QED BY <2>2 DEF AndWord, Zero
<1>4. Filter[11] = <<"jset", 27, 0, y>> /\ Filter[12] = <<"jset", 0, 9, z>>
  BY <1>1
<1> HIDE DEF v, y, z
<1>5. Reaches(run, X, 12, v)
  <2>1. 11 \in 1..37 /\ 27 \in Nat /\ 0 \in Nat /\ 11 + 1 + 27 <= 39 /\ 11 + 1 + 0 <= 39
    OBVIOUS
  <2>2. LET q == 11 + 1 + (IF AndWord(v, y) # Zero THEN 27 ELSE 0)
        IN IF q = 39 THEN run[39].pc = 39 ELSE Reaches(run, X, q, v)
    BY <1>2, <1>4, <2>1, BitJump
  <2> QED BY <1>3, <2>2
<1>6. Reaches(run, X, 22, v)
  <2>1. 12 \in 1..37 /\ 0 \in Nat /\ 9 \in Nat /\ 12 + 1 + 0 <= 39 /\ 12 + 1 + 9 <= 39
    OBVIOUS
  <2>2. LET q == 12 + 1 + (IF AndWord(v, z) # Zero THEN 0 ELSE 9)
        IN IF q = 39 THEN run[39].pc = 39 ELSE Reaches(run, X, q, v)
    BY <1>4, <1>5, <2>1, BitJump
  <2> QED BY <1>3, <2>2
<1> QED BY <1>6, From22

\* From its instruction 7 on: the type and the subtype of the frame.
LEMMA From7 ==
  ASSUME NEW data, NEW run, NEW X, NEW f, Facing(data, run, X, f), MacIsClear,
         NEW a, Reaches(run, X, 7, a)
  PROVE  run[39].pc =
           IF Len(f) >= 1 /\ f[1] \in 208..211 /\ IsDestination(f) /\ IsCategory(f) THEN 38 ELSE 39
<1>1. /\ Filter[7] = <<"ldb", 0, 0, 0>> /\ Filter[8] = <<"and", 0, 0, <<0, 0, 0, 252>>>>
      /\ Filter[9] = <<"jeq", 0, 29, <<0, 0, 0, 208>>>>
  BY Program
<1>2. Len(f) \in Nat
  BY LenProperties DEF Facing, Behind
<1>3. /\ 0 + 1 <= Len(f) => Reaches(run, X, 7 + 1, <<0, 0, 0, f[0 + 1]>>)
      /\ ~(0 + 1 <= Len(f)) => run[39].pc = 39
  <2>1. 7 \in 1..37 /\ 0 \in Nat
    OBVIOUS
  <2> QED BY <1>1, <2>1, ByteLoad
<1>4. CASE 1 <= Len(f)
  <2> DEFINE v == <<0, 0, 0, f[1]>>
             mask == <<0, 0, 0, 252>>
             w == <<0, 0, 0, BitAnd(f[1], 252)>>
             y == <<0, 0, 0, 208>>
  <2>1. Reaches(run, X, 8, v)
    BY <1>3, <1>4
  <2>2. f[1] \in Byte
    <3>1. 1 \in 1..Len(f)
      BY <1>2, <1>4
    <3> QED BY <3>1 DEF Facing, Behind
  <2>3. AndWord(v, mask) = w
    <3>1. 0 \in Byte
      BY DEF Byte
    <3>2. BitAnd(0, 0) = 0
      BY <3>1, Neutral
    <3> QED BY <3>2 DEF AndWord
  <2>4. w = y <=> f[1] \in 208..211
    <3>1. w = y <=> BitAnd(f[1], 252) = 208
      BY Words
    <3> QED BY <2>2, <3>1, Masks
  <2>5. Filter[8] = <<"and", 0, 0, mask>> /\ Filter[9] = <<"jeq", 0, 29, y>>
    BY <1>1
  <2> HIDE DEF v, w, y, mask
  <2>6. Reaches(run, X, 9, w)
    <3>1. 8 \in 1..37 /\ 8 + 1 = 9
      OBVIOUS
    <3>2. Reaches(run, X, 8 + 1, AndWord(v, mask))
      BY <2>1, <2>5, <3>1, Mask
    <3> QED BY <2>3, <3>1, <3>2
  <2>7. IF w = y THEN Reaches(run, X, 9 + 1, w) ELSE run[39].pc = 39
    <3>1. 9 \in 1..37 /\ 29 \in Nat /\ 9 + 29 = 38
      OBVIOUS
    <3> QED BY <2>5, <2>6, <3>1, Check
  <2>8. CASE w = y
    <3>1. Reaches(run, X, 10, w) /\ Len(f) >= 1 /\ f[1] \in 208..211
      BY <1>2, <1>4, <2>4, <2>7, <2>8
    <3>2. run[39].pc = IF IsDestination(f) /\ IsCategory(f) THEN 38 ELSE 39
      BY <3>1, From10
    <3> QED BY <3>1, <3>2
  <2>9. CASE w # y
    BY <2>4, <2>7, <2>9
  <2> QED BY <2>8, <2>9
<1>5. CASE ~(1 <= Len(f))
  BY <1>2, <1>3, <1>5
<1> QED BY <1>4, <1>5

\* The first instructions find the end of the header of the capture: they leave its length,
\* which is written lowest byte first, in the index register.
LEMMA Prologue ==
  ASSUME NEW data \in Seq(Byte), Len(data) >= 4, NEW run, Runs(data, run)
  PROVE  \E a : Reaches(run, RadiotapLen(data), 7, a)
<1> DEFINE d3 == data[3]
           d4 == data[4]
           w3 == <<0, 0, 0, d3>>
           w4 == <<0, 0, 0, d4>>
           h == <<0, 0, d4, 0>>
           w == <<0, 0, d4, d3>>
<1>1. d3 \in Byte /\ d4 \in Byte /\ 0 \in Byte
  <2>1. 3 \in 1..Len(data) /\ 4 \in 1..Len(data)
    BY LenProperties
  <2> QED BY <2>1, ElementOfSeq DEF Byte
<1>2. /\ run[0] = [pc |-> 1, a |-> Zero, x |-> Zero]
      /\ run[1] = Step(data, run[0]) /\ run[2] = Step(data, run[1]) /\ run[3] = Step(data, run[2])
      /\ run[4] = Step(data, run[3]) /\ run[5] = Step(data, run[4]) /\ run[6] = Step(data, run[5])
  <2>1. run[0] = Start /\ \A n \in 0..38 : run[n + 1] = Step(data, run[n])
    BY RunSteps
  <2>2. /\ 0 \in 0..38 /\ 1 \in 0..38 /\ 2 \in 0..38 /\ 3 \in 0..38 /\ 4 \in 0..38 /\ 5 \in 0..38
        /\ 0 + 1 = 1 /\ 1 + 1 = 2 /\ 2 + 1 = 3 /\ 3 + 1 = 4 /\ 4 + 1 = 5 /\ 5 + 1 = 6
    OBVIOUS
  <2> QED BY <2>1, <2>2 DEF Start
<1>3. /\ Filter[1] = <<"ldb_abs", 0, 0, 3>> /\ Filter[2] = <<"lsh", 0, 0, 8>>
      /\ Filter[3] = <<"tax", 0, 0, 0>> /\ Filter[4] = <<"ldb_abs", 0, 0, 2>>
      /\ Filter[5] = <<"or_x", 0, 0, 0>> /\ Filter[6] = <<"tax", 0, 0, 0>>
  BY Program
<1>4. Load(data, 3, 1) = w4 /\ Load(data, 2, 1) = w3
  BY DEF Load
<1>5. OrWord(w3, h) = w
  <2>1. BitOr(0, 0) = 0 /\ BitOr(0, d4) = d4 /\ BitOr(d3, 0) = d3
    BY <1>1, Neutral
  <2> QED BY <2>1 DEF OrWord
<1>6. w4[2] = 0 /\ w4[3] = 0 /\ w4[4] = d4
  OBVIOUS
<1>7. Number(w) = RadiotapLen(data)
  <2>1. Number(w) = d4 * 256 + d3
    <3>1. Number(w) = ((0 * 256 + 0) * 256 + d4) * 256 + d3
      BY DEF Number
    <3>2. \A i, j \in Byte : ((0 * 256 + 0) * 256 + i) * 256 + j = i * 256 + j
      BY DEF Byte
    <3> QED BY <1>1, <3>1, <3>2
  <2>2. \A i, j \in Byte : i * 256 + j = j + 256 * i
    BY DEF Byte
  <2> QED BY <1>1, <2>1, <2>2 DEF RadiotapLen
<1>8. 3 + 1 <= Len(data) /\ 2 + 1 <= Len(data)
  BY LenProperties
<1> HIDE DEF w3, w4, h, w, d3, d4
<1>9. run[1] = [pc |-> 2, a |-> w4, x |-> Zero]
  <2>1. Filter[run[0].pc] = <<"ldb_abs", 0, 0, 3>> /\ run[0].pc = 1 /\ run[0].x = Zero
    BY <1>2, <1>3
  <2>2. Step(data, run[0]) =
          IF 3 + 1 <= Len(data)
            THEN [pc |-> run[0].pc + 1, a |-> Load(data, 3, 1), x |-> run[0].x]
            ELSE [pc |-> 39, a |-> run[0].a, x |-> run[0].x]
    BY <2>1, Loads
  <2> QED BY <1>2, <1>4, <1>8, <2>1, <2>2
<1>10. run[2] = [pc |-> 3, a |-> h, x |-> Zero]
  <2>1. Filter[run[1].pc] = <<"lsh", 0, 0, 8>> /\ run[1].pc = 2 /\ run[1].x = Zero /\ run[1].a = w4
    BY <1>3, <1>9
  <2>2. Step(data, run[1]) =
          [pc |-> run[1].pc + 1, a |-> <<run[1].a[2], run[1].a[3], run[1].a[4], 0>>, x |-> run[1].x]
    BY <2>1 DEF Step
  <2> QED BY <1>2, <1>6, <2>1, <2>2 DEF h
<1>11. run[3] = [pc |-> 4, a |-> h, x |-> h]
  <2>1. Filter[run[2].pc] = <<"tax", 0, 0, 0>> /\ run[2].pc = 3 /\ run[2].a = h
    BY <1>3, <1>10
  <2>2. Step(data, run[2]) = [pc |-> run[2].pc + 1, a |-> run[2].a, x |-> run[2].a]
    BY <2>1, Instructions
  <2> QED BY <1>2, <2>1, <2>2
<1>12. run[4] = [pc |-> 5, a |-> w3, x |-> h]
  <2>1. Filter[run[3].pc] = <<"ldb_abs", 0, 0, 2>> /\ run[3].pc = 4 /\ run[3].x = h
    BY <1>3, <1>11
  <2>2. Step(data, run[3]) =
          IF 2 + 1 <= Len(data)
            THEN [pc |-> run[3].pc + 1, a |-> Load(data, 2, 1), x |-> run[3].x]
            ELSE [pc |-> 39, a |-> run[3].a, x |-> run[3].x]
    BY <2>1, Loads
  <2> QED BY <1>2, <1>4, <1>8, <2>1, <2>2
<1>13. run[5] = [pc |-> 6, a |-> w, x |-> h]
  <2>1. Filter[run[4].pc] = <<"or_x", 0, 0, 0>> /\ run[4].pc = 5 /\ run[4].a = w3 /\ run[4].x = h
    BY <1>3, <1>12
  <2>2. Step(data, run[4]) = [pc |-> run[4].pc + 1, a |-> OrWord(run[4].a, run[4].x), x |-> run[4].x]
    BY <2>1, Instructions
  <2> QED BY <1>2, <1>5, <2>1, <2>2
<1>14. run[6] = [pc |-> 7, a |-> w, x |-> w]
  <2>1. Filter[run[5].pc] = <<"tax", 0, 0, 0>> /\ run[5].pc = 6 /\ run[5].a = w
    BY <1>3, <1>13
  <2>2. Step(data, run[5]) = [pc |-> run[5].pc + 1, a |-> run[5].a, x |-> run[5].a]
    BY <2>1, Instructions
  <2> QED BY <1>2, <2>1, <2>2
<1>15. 6 \in 0..38 /\ 6 < 7 /\ run[6].pc = 7 /\ run[6].a = w /\ Number(run[6].x) = RadiotapLen(data)
  BY <1>7, <1>14
<1> QED BY <1>15 DEF Reaches

\* A part is a string if its bytes are.
LEMMA SameString ==
  ASSUME NEW f \in Seq(Byte), NEW k \in Nat, NEW t \in Seq(Byte), k + Len(t) <= Len(f)
  PROVE  SubSeq(f, k + 1, k + Len(t)) = t <=> \A i \in 1..Len(t) : f[k + i] = t[i]
<1>1. Len(t) \in Nat /\ Len(f) \in Nat
  BY LenProperties
<1>2. ASSUME \A i \in 1..Len(t) : f[k + i] = t[i] PROVE SubSeq(f, k + 1, k + Len(t)) = t
  <2>1. At(f, k, t)
    BY <1>1, <1>2 DEF At
  <2> QED BY <2>1, AtCut
<1>3. ASSUME SubSeq(f, k + 1, k + Len(t)) = t, NEW i \in 1..Len(t) PROVE f[k + i] = t[i]
  <2>1. \A j \in k + 1..k + Len(t) : f[j] \in Byte
    <3>1. \A j \in k + 1..k + Len(t) : j \in 1..Len(f)
      BY <1>1
    <3> QED BY <3>1, ElementOfSeq
  <2> DEFINE c == SubSeq(f, k + 1, k + Len(t))
  <2>2. \A j \in 1..k + Len(t) - (k + 1) + 1 : c[j] = f[k + 1 + j - 1]
    <3>1. k + 1 \in Int /\ k + Len(t) \in Int
      BY <1>1
    <3>2. /\ c \in Seq(Byte)
          /\ Len(c) = IF k + 1 <= k + Len(t) THEN k + Len(t) - (k + 1) + 1 ELSE 0
          /\ \A j \in 1..k + Len(t) - (k + 1) + 1 : c[j] = f[k + 1 + j - 1]
      BY <2>1, <3>1, SubSeqProperties
    <3> QED BY <3>2
  <2>3. i \in 1..k + Len(t) - (k + 1) + 1 /\ k + 1 + i - 1 = k + i
    BY <1>1
  <2> QED BY <1>3, <2>2, <2>3
<1> QED BY <1>2, <1>3

\* The fields that the program compares are those that make an ESP-NOW frame.
LEMMA SameFields ==
  ASSUME NEW f \in Seq(Byte)
  PROVE  IsEspNow(f) <=>
           Len(f) >= 1 /\ f[1] \in 208..211 /\ IsDestination(f) /\ IsCategory(f)
<1>0. OUI \in Seq(Byte) /\ Len(OUI) = 3 /\ OUI[1] = 24 /\ OUI[2] = 254 /\ OUI[3] = 52
  <2>1. 24 \in Byte /\ 254 \in Byte /\ 52 \in Byte
    BY DEF Byte
  <2>2. OUI \in Seq(Byte) /\ Len(OUI) = 3
    BY <2>1, Short DEF OUI
  <2> QED BY <2>2 DEF OUI
<1>1. Len(f) \in Nat
  BY LenProperties
<1>2. ~(Len(f) >= 38) => ~IsEspNow(f) /\ ~IsCategory(f)
  BY DEF IsEspNow, IsCategory, IsElement, IsVendor, IsType
<1> SUFFICES ASSUME Len(f) >= 38
             PROVE  IsEspNow(f) <=>
                      Len(f) >= 1 /\ f[1] \in 208..211 /\ IsDestination(f) /\ IsCategory(f)
  BY <1>2
<1>3. ASSUME NEW k \in Nat, NEW t \in Seq(Byte), k + Len(t) <= 38
      PROVE  SubSeq(f, k + 1, k + Len(t)) = t <=> \A i \in 1..Len(t) : f[k + i] = t[i]
  <2>1. k + Len(t) <= Len(f)
    <3>1. Len(t) \in Nat
      BY LenProperties
    <3> QED BY <1>1, <1>3, <3>1
  <2> QED BY <2>1, SameString
<1>4. ASSUME NEW mac \in ByteString(6)
      PROVE  SubSeq(f, 5, 10) = mac <=> IsFor(f, mac)
  <2>1. mac \in Seq(Byte) /\ Len(mac) = 6
    BY <1>4, ByteStrings
  <2>2. 4 \in Nat /\ 4 + 6 <= 38 /\ 4 + 1 = 5 /\ 4 + 6 = 10
    OBVIOUS
  <2>3. SubSeq(f, 5, 10) = mac <=> \A i \in 1..6 : f[4 + i] = mac[i]
    BY <1>3, <2>1, <2>2
  <2>4. (\A i \in 1..6 : f[4 + i] = mac[i]) <=> IsHigh(f, mac) /\ IsLow(f, mac)
    <3>1. \A i \in 1..6 : i = 1 \/ i = 2 \/ i = 3 \/ i = 4 \/ i = 5 \/ i = 6
      OBVIOUS
    <3>2. /\ 1 \in 1..6 /\ 2 \in 1..6 /\ 3 \in 1..6 /\ 4 \in 1..6 /\ 5 \in 1..6 /\ 6 \in 1..6
          /\ 4 + 1 = 5 /\ 4 + 2 = 6 /\ 4 + 3 = 7 /\ 4 + 4 = 8 /\ 4 + 5 = 9 /\ 4 + 6 = 10
      OBVIOUS
    <3> QED BY <3>1, <3>2 DEF IsHigh, IsLow
  <2>5. Len(f) >= 10
    BY <1>1
  <2> QED BY <2>3, <2>4, <2>5 DEF IsFor
<1>5. SubSeq(f, 5, 10) \in {LocalMac, Broadcast} <=> IsDestination(f)
  <2>1. Broadcast \in ByteString(6)
    BY DEF Broadcast, ByteString, Byte
  <2>2. LocalMac \in ByteString(6)
    BY NodesAssumption
  <2> QED BY <1>4, <2>1, <2>2 DEF IsDestination
<1>6. SubSeq(f, 25, 28) = <<127>> \o OUI <=> f[25] = 127 /\ f[26] = 24 /\ f[27] = 254 /\ f[28] = 52
  <2> DEFINE v == <<127>>
             t == v \o OUI
  <2>1. /\ v \in Seq(Byte) /\ Len(v) = 1 /\ v[1] = 127
        /\ OUI \in Seq(Byte) /\ Len(OUI) = 3 /\ OUI[1] = 24 /\ OUI[2] = 254 /\ OUI[3] = 52
    <3>1. 127 \in Byte
      BY DEF Byte
    <3> QED BY <1>0, <3>1, Short
  <2> HIDE DEF v
  <2>2. t \in Seq(Byte) /\ Len(t) = Len(v) + Len(OUI) /\ At(t, 0, v) /\ At(t, Len(v), OUI)
    <3>1. v \in Seq(Byte) /\ OUI \in Seq(Byte)
      BY <2>1
    <3> QED BY <3>1, Joined
  <2> HIDE DEF t
  <2>3. t[1] = 127 /\ t[2] = 24 /\ t[3] = 254 /\ t[4] = 52 /\ Len(t) = 4
    <3>1. t[0 + 1] = 127 /\ t[1 + 1] = 24 /\ t[1 + 2] = 254 /\ t[1 + 3] = 52
      BY <2>1, <2>2 DEF At
    <3> QED BY <2>1, <2>2, <3>1
  <2>4. SubSeq(f, 25, 28) = t <=> \A i \in 1..4 : f[24 + i] = t[i]
    <3>1. 24 \in Nat /\ 24 + Len(t) <= 38
      BY <2>3
    <3>2. SubSeq(f, 24 + 1, 24 + Len(t)) = t <=> \A i \in 1..Len(t) : f[24 + i] = t[i]
      BY <1>3, <2>2, <3>1
    <3> QED BY <2>3, <3>2
  <2>5. (\A i \in 1..4 : f[24 + i] = t[i]) <=>
          f[25] = t[1] /\ f[26] = t[2] /\ f[27] = t[3] /\ f[28] = t[4]
    <3>1. \A i \in 1..4 : i = 1 \/ i = 2 \/ i = 3 \/ i = 4
      OBVIOUS
    <3>2. /\ 1 \in 1..4 /\ 2 \in 1..4 /\ 3 \in 1..4 /\ 4 \in 1..4
          /\ 24 + 1 = 25 /\ 24 + 2 = 26 /\ 24 + 3 = 27 /\ 24 + 4 = 28
      OBVIOUS
    <3> QED BY <3>1, <3>2
  <2>6. SubSeq(f, 25, 28) = t <=> f[25] = 127 /\ f[26] = 24 /\ f[27] = 254 /\ f[28] = 52
    BY <2>3, <2>4, <2>5
  <2>7. <<127>> \o OUI = t
    BY Zenon DEF t, v
  <2> QED BY <2>6, <2>7, Zenon
<1>7. SubSeq(f, 35, 37) = OUI <=> f[35] = 24 /\ f[36] = 254 /\ f[37] = 52
  <2>3. SubSeq(f, 35, 37) = OUI <=> \A i \in 1..3 : f[34 + i] = OUI[i]
    <3>1. 34 \in Nat /\ 34 + 3 <= 38 /\ 34 + 1 = 35 /\ 34 + 3 = 37
      OBVIOUS
    <3> QED BY <1>0, <1>3, <3>1
  <2>4. (\A i \in 1..3 : f[34 + i] = OUI[i]) <=> f[35] = OUI[1] /\ f[36] = OUI[2] /\ f[37] = OUI[3]
    <3>1. \A i \in 1..3 : i = 1 \/ i = 2 \/ i = 3
      OBVIOUS
    <3>2. 1 \in 1..3 /\ 2 \in 1..3 /\ 3 \in 1..3 /\ 34 + 1 = 35 /\ 34 + 2 = 36 /\ 34 + 3 = 37
      OBVIOUS
    <3> QED BY <3>1, <3>2
  <2> QED BY <1>0, <2>3, <2>4
<1>8. Len(f) >= 1 /\ Len(f) >= 28 /\ Len(f) >= 33 /\ Len(f) >= 37
  BY <1>1
<1> QED BY <1>5, <1>6, <1>7, <1>8 DEF IsEspNow, IsCategory, IsElement, IsVendor, IsType

\* The program, jumps and masks and all, passes exactly the frames with the fields of an
\* ESP-NOW action frame to this bridge: whatever the bytes before and behind the fields.
THEOREM FilterDecides ==
  ASSUME MacIsClear, NEW data \in Seq(Byte), Len(data) >= 4
  PROVE  Passes(data) <=> IsEspNow(SubSeq(data, RadiotapLen(data) + 1, Len(data)))
<1> DEFINE X == RadiotapLen(data)
           f == SubSeq(data, X + 1, Len(data))
           run == CHOOSE run : Runs(data, run)
<1>1. Runs(data, run)
  BY RunExists
<1>2. Passes(data) = (Filter[run[Len(Filter)].pc] = <<"ret", 0, 0, TRUE>>)
  BY Zenon DEF Passes, Runs, Start
<1>3. X \in Nat
  <2>1. 3 \in 1..Len(data) /\ 4 \in 1..Len(data)
    BY LenProperties
  <2>2. data[3] \in Byte /\ data[4] \in Byte
    BY <2>1, ElementOfSeq
  <2>3. \A i, j \in Byte : i + 256 * j \in Nat
    BY DEF Byte
  <2> QED BY <2>2, <2>3 DEF RadiotapLen
<1>4. PICK a : Reaches(run, X, 7, a)
  BY <1>1, Prologue
<1> HIDE DEF run, X
<1>5. Behind(data, X, f)
  BY <1>3, BehindIs
<1> HIDE DEF f
<1>6. Facing(data, run, X, f)
  BY <1>1, <1>3, <1>5 DEF Facing
<1>7. run[39].pc =
        IF Len(f) >= 1 /\ f[1] \in 208..211 /\ IsDestination(f) /\ IsCategory(f) THEN 38 ELSE 39
  BY <1>4, <1>6, From7
<1>8. f \in Seq(Byte)
  BY <1>5 DEF Behind
<1>9. run[39].pc = IF IsEspNow(f) THEN 38 ELSE 39
  BY <1>7, <1>8, SameFields
<1>10. /\ Filter[38] = <<"ret", 0, 0, TRUE>> /\ Filter[39] = <<"ret", 0, 0, FALSE>>
       /\ Len(Filter) = 39
  BY Program
<1>11. <<"ret", 0, 0, FALSE>> # <<"ret", 0, 0, TRUE>>
  OBVIOUS
<1> QED BY <1>2, <1>9, <1>10, <1>11 DEF f, X
------------------------------------------------------------------------------
(* What the adapter makes of a capture.                                    *)

\* What SubSeq() cuts out of bytes.
LEMMA Cut ==
  ASSUME NEW s \in Seq(Byte), NEW k \in Nat, NEW n \in Nat, k + n <= Len(s)
  PROVE  LET c == SubSeq(s, k + 1, k + n)
         IN c \in Seq(Byte) /\ Len(c) = n /\ \A i \in 1..n : c[i] = s[k + i]
<1>1. Len(s) \in Nat
  BY LenProperties
<1>2. \A i \in k + 1..k + n : s[i] \in Byte
  <2> SUFFICES ASSUME NEW i \in k + 1..k + n PROVE s[i] \in Byte
    OBVIOUS
  <2>1. i \in 1..Len(s)
    BY <1>1
  <2> QED BY <2>1, ElementOfSeq
<1> DEFINE c == SubSeq(s, k + 1, k + n)
<1>3. /\ c \in Seq(Byte)
      /\ Len(c) = IF k + 1 <= k + n THEN k + n - (k + 1) + 1 ELSE 0
      /\ \A i \in 1..k + n - (k + 1) + 1 : c[i] = s[k + 1 + i - 1]
  <2>1. k + 1 \in Int /\ k + n \in Int
    OBVIOUS
  <2> QED BY <1>2, <2>1, SubSeqProperties
<1> HIDE DEF c
<1>4. Len(c) = n
  BY <1>3
<1>5. ASSUME NEW i \in 1..n PROVE c[i] = s[k + i]
  <2>1. i \in 1..k + n - (k + 1) + 1 /\ k + 1 + i - 1 = k + i
    OBVIOUS
  <2> QED BY <1>3, <2>1
<1> QED BY <1>3, <1>4, <1>5 DEF c

\* Where two strings are the same, the same is cut out of them.
LEMMA SameCut ==
  ASSUME NEW s \in Seq(Byte), NEW t \in Seq(Byte), NEW k \in Nat, NEW n \in Nat,
         k + n <= Len(s), k + n <= Len(t), \A i \in 1..n : s[k + i] = t[k + i]
  PROVE  SubSeq(s, k + 1, k + n) = SubSeq(t, k + 1, k + n)
<1> DEFINE c == SubSeq(s, k + 1, k + n)
           d == SubSeq(t, k + 1, k + n)
<1>1. c \in Seq(Byte) /\ Len(c) = n /\ \A i \in 1..n : c[i] = s[k + i]
  BY Cut
<1>2. d \in Seq(Byte) /\ Len(d) = n /\ \A i \in 1..n : d[i] = t[k + i]
  BY Cut
<1> HIDE DEF c, d
<1>3. Len(c) = Len(d) /\ \A i \in 1..Len(c) : c[i] = d[i]
  BY <1>1, <1>2
<1>4. c = d
  BY <1>1, <1>2, <1>3, SeqEqual
<1> QED BY <1>4 DEF c, d

\* The capture: a header, a frame, and what the driver leaves after it.
LEMMA CaptureFacts ==
  ASSUME NEW r, GoodHeader(r), NEW f \in Seq(Byte), NEW u \in Seq(Byte)
  PROVE  LET c == RadiotapBytes(r) \o f \o u
         IN /\ c \in Seq(Byte) /\ Len(c) = HeaderLength(r) + Len(f) + Len(u)
            /\ At(c, 0, RadiotapBytes(r)) /\ At(c, HeaderLength(r), f)
<1> DEFINE h == RadiotapBytes(r)
           a == h \o f
           c == a \o u
           n == HeaderLength(r)
<1>1. h \in Seq(Byte) /\ Len(h) = n /\ n \in Nat
  BY HeaderFacts
<1> HIDE DEF h, n
<1>2. a \in Seq(Byte) /\ Len(a) = n + Len(f) /\ At(a, 0, h) /\ At(a, n, f)
  <2>1. a \in Seq(Byte) /\ Len(a) = Len(h) + Len(f) /\ At(a, 0, h) /\ At(a, Len(h), f)
    BY <1>1, Joined
  <2> QED BY <1>1, <2>1
<1> HIDE DEF a
<1>3. c \in Seq(Byte) /\ Len(c) = Len(a) + Len(u)
  BY <1>2, Joined
<1>4. At(c, 0, h)
  BY <1>1, <1>2, AtLonger
<1>5. At(c, n, f)
  BY <1>1, <1>2, AtLonger
<1> QED BY <1>2, <1>3, <1>4, <1>5 DEF h, a, n

\* Reading as much as the buffer holds keeps what lies before its end.
LEMMA ReadKeeps ==
  ASSUME NEW c \in Seq(Byte), NEW k \in Nat, NEW t \in Seq(Byte), At(c, k, t), k + Len(t) <= 512
  PROVE  Read(c) \in Seq(Byte) /\ At(Read(c), k, t)
<1>1. Len(c) \in Nat /\ Len(t) \in Nat
  BY LenProperties
<1>2. CASE Len(c) > 512
  <2> DEFINE s == SubSeq(c, 1, 512)
  <2>1. Read(c) = s
    BY <1>2 DEF Read, MAX_PACKET_SIZE
  <2>2. \A i \in 1..512 : c[i] \in Byte
    <3>1. \A i \in 1..512 : i \in 1..Len(c)
      BY <1>1, <1>2
    <3> QED BY <3>1, ElementOfSeq
  <2>3. /\ s \in Seq(Byte)
        /\ Len(s) = IF 1 <= 512 THEN 512 - 1 + 1 ELSE 0
        /\ \A i \in 1..512 - 1 + 1 : s[i] = c[1 + i - 1]
    <3>1. 1 \in Int /\ 512 \in Int
      OBVIOUS
    <3> QED BY <2>2, <3>1, SubSeqProperties
  <2> HIDE DEF s
  <2>4. ASSUME NEW i \in 1..Len(t) PROVE s[k + i] = t[i]
    <3>1. k + i \in 1..512 - 1 + 1 /\ 1 + (k + i) - 1 = k + i
      BY <1>1
    <3>2. c[k + i] = t[i]
      BY DEF At
    <3> QED BY <2>3, <3>1, <3>2
  <2>5. k + Len(t) <= Len(s)
    BY <2>3
  <2> QED BY <2>1, <2>3, <2>4, <2>5 DEF At
<1>3. CASE ~(Len(c) > 512)
  BY <1>3 DEF Read, MAX_PACKET_SIZE
<1> QED BY <1>2, <1>3

\* The signal's strength as the driver gave it, and that it is told if it can be found.
Rssi(r) == IF "ANT_SIGNAL" \in r.present THEN r.signal ELSE SIGNAL_MIN
Told(strength, r) == Padding(r) = 0 => strength = Rssi(r)

\* The header is read back: its length, the fields that are there, the words that follow
\* the first and, without padding, the signal's strength.
LEMMA HeaderRead ==
  ASSUME NEW r, GoodHeader(r), NEW c \in Seq(Byte), At(c, 0, RadiotapBytes(r))
  PROVE  /\ RadiotapLen(c) = HeaderLength(r)
         /\ ValidRadiotap(c)
         /\ Told(Signal(c), r)
<1> DEFINE h == RadiotapBytes(r)
           n == HeaderLength(r)
           w == r.words
           z == FieldsSize(r.present)
           q == Padding(r)
           e == FromBits(FieldBits(r))
           off == SignalOffset(r.present)
           l == Len(r.other)
<1>1. /\ Within(n, 8, 223) /\ h \in Seq(Byte) /\ Len(h) = n
      /\ h[3] = n /\ h[4] = 0 /\ h[5] = e
      /\ h[8] = IF w > 0 THEN 128 ELSE 0
      /\ At(h, 8, WordsOf(r)) /\ At(h, 8 + 4 * w, FieldsOf(r))
      /\ Len(WordsOf(r)) = 4 * w /\ Len(FieldsOf(r)) = FieldsEnd(r)
  BY HeaderFacts
<1>1a. FieldsEnd(r) = q + z /\ q \in 0..5
  BY PaddingIs DEF GoodHeader
<1>2. w \in Nat /\ r.signal \in -128..127 /\ n = 8 + 4 * w + (q + z) + l /\ l \in Nat
  BY <1>1a, LenProperties DEF GoodHeader, HeaderLength
<1>3. /\ off \in 0..16 /\ z \in 0..17
      /\ "ANT_SIGNAL" \in r.present => z = off + 1
  BY FieldSizes
<1> HIDE DEF h, n, w, z, q, e, off, l
<1>4. Len(c) \in Nat /\ n <= Len(c) /\ \A i \in 1..n : c[i] = h[i]
  <2>1. Len(c) \in Nat /\ 0 + Len(h) <= Len(c) /\ \A i \in 1..Len(h) : c[0 + i] = h[i]
    BY LenProperties DEF At, h
  <2> QED BY <1>1, <2>1
<1>5. c[3] = n /\ c[4] = 0 /\ c[5] = e /\ c[8] = IF w > 0 THEN 128 ELSE 0
  <2>1. 3 \in 1..n /\ 4 \in 1..n /\ 5 \in 1..n /\ 8 \in 1..n
    BY <1>1
  <2> QED BY <1>1, <1>4, <2>1
<1>6. RadiotapLen(c) = n
  <2>1. \A x \in 8..223 : x + 256 * 0 = x
    OBVIOUS
  <2> QED BY <1>1, <1>5, <2>1 DEF RadiotapLen
<1>7. \A i \in 1..6 : Fields[i] \in Present(c) <=> Fields[i] \in r.present
  <2>1. FieldBits(r) \in [1..8 -> BOOLEAN]
    BY DEF FieldBits
  <2>2. \A i \in 1..8 : Bit(e, i) = FieldBits(r)[i]
    BY <2>1, FromBitsFacts DEF e
  <2>3. \A i \in 1..6 : Bit(e, i) <=> Fields[i] \in r.present
    <3> SUFFICES ASSUME NEW i \in 1..6 PROVE Bit(e, i) <=> Fields[i] \in r.present
      OBVIOUS
    <3>1. i \in 1..8 /\ i <= 6
      OBVIOUS
    <3>2. FieldBits(r)[i] = (Fields[i] \in r.present)
      BY <3>1 DEF FieldBits
    <3> QED BY <2>2, <3>1, <3>2
  <2>4. Present(c) = {Fields[i] : i \in {j \in 1..6 : Bit(e, j)}}
    BY <1>5 DEF Present
  <2> QED BY <2>3, <2>4
<1>8. \A f \in {"TSFT", "FLAGS", "RATE", "CHANNEL", "FHSS", "ANT_SIGNAL"} :
        f \in Present(c) <=> f \in r.present
  <2>1. /\ Fields[1] = "TSFT" /\ Fields[2] = "FLAGS" /\ Fields[3] = "RATE"
        /\ Fields[4] = "CHANNEL" /\ Fields[5] = "FHSS" /\ Fields[6] = "ANT_SIGNAL"
    BY DEF Fields
  <2>2. 1 \in 1..6 /\ 2 \in 1..6 /\ 3 \in 1..6 /\ 4 \in 1..6 /\ 5 \in 1..6 /\ 6 \in 1..6
    OBVIOUS
  <2> QED BY <1>7, <2>1, <2>2
<1>9. SignalOffset(Present(c)) = off /\ FieldsSize(Present(c)) = z
  <2>1. SignalOffset(Present(c)) = off
    BY <1>8 DEF SignalOffset, off
  <2>2. FieldsSize(Present(c)) = z
    BY <1>8, <2>1 DEF FieldsSize, off, z
  <2> QED BY <2>1, <2>2
<1>10. \A i \in 0..w : Extended(c, i) <=> i < w
  <2> SUFFICES ASSUME NEW i \in 0..w PROVE Extended(c, i) <=> i < w
    OBVIOUS
  <2>1. CASE i = 0
    <3>1. 8 + 4 * i = 8
      BY <2>1
    <3> QED BY <1>2, <1>5, <2>1, <3>1 DEF Extended
  <2>2. CASE i # 0
    <3>1. 4 * i \in 1..4 * w /\ 8 + 4 * i \in 1..n
      <4>1. \A x, k \in Nat, y \in 0..22 : \A j \in 0..x :
              j # 0 => 4 * j \in 1..4 * x /\ 8 + 4 * j \in 1..8 + 4 * x + y + k
        OBVIOUS
      <4>2. q + z \in 0..22
        BY <1>1a, <1>3
      <4> QED BY <1>2, <2>2, <4>1, <4>2
    <3>2. c[8 + 4 * i] = WordsOf(r)[4 * i]
      BY <1>1, <1>4, <3>1 DEF At
    <3>3. WordsOf(r)[4 * i] = IF (4 * i) % 4 = 0 /\ 4 * i < 4 * w THEN 128 ELSE 0
      BY <3>1 DEF WordsOf, w
    <3>4. (4 * i) % 4 = 0
      BY <1>2
    <3>5. 4 * i < 4 * w <=> i < w
      BY <1>2
    <3> QED BY <3>2, <3>3, <3>4, <3>5 DEF Extended
  <2> QED BY <2>1, <2>2
<1>11. Extensions(c) = w
  <2>1. CASE w = 0
    <3>1. ~Extended(c, 0)
      BY <1>10, <2>1
    <3> QED BY <2>1, <3>1 DEF Extensions
  <2>2. CASE w # 0
    <3> DEFINE room == (RadiotapLen(c) - 8 - FieldsSize(Present(c))) \div 4
               last == {i \in 0..room : ~Extended(c, i)}
    <3>1. room \in Nat /\ w <= room
      <4>1. \A x, k \in Nat, y \in 0..17, v \in 0..5 :
              /\ (8 + 4 * x + (v + y) + k - 8 - y) \div 4 \in Nat
              /\ x <= (8 + 4 * x + (v + y) + k - 8 - y) \div 4
        OBVIOUS
      <4>2. room = (n - 8 - z) \div 4
        BY <1>6, <1>9
      <4> HIDE DEF room
      <4> QED BY <1>1a, <1>2, <1>3, <4>1, <4>2
    <3> HIDE DEF room
    <3>2. w \in last /\ \A i \in last : w <= i
      BY <1>2, <1>10, <3>1
    <3>3. \A i \in last : i \in Int
      BY <3>1
    <3>4. Extended(c, 0)
      BY <1>2, <1>10, <2>2
    <3>5. Extensions(c) = IF last = {} THEN -1 ELSE CHOOSE i \in last : \A m \in last : i <= m
      BY <3>4, Zenon DEF Extensions, room
    <3> HIDE DEF last
    <3>6. \A i \in last : (\A m \in last : i <= m) => i = w
      BY <1>2, <3>2, <3>3
    <3> QED BY <3>2, <3>5, <3>6
  <2> QED BY <2>1, <2>2
<1>12. ValidRadiotap(c)
  <2>1. Len(c) >= 8 /\ Len(c) >= 8 + z /\ w >= 0
    <3>1. \A x, k, m \in Nat, y \in 0..17, v \in 0..5 :
            8 + 4 * x + (v + y) + k <= m => m >= 8 /\ m >= 8 + y /\ x >= 0
      OBVIOUS
    <3> QED BY <1>1a, <1>2, <1>3, <1>4, <3>1
  <2> QED BY <1>9, <1>11, <2>1 DEF ValidRadiotap
<1>13. ASSUME q = 0 PROVE Signal(c) = Rssi(r)
  <2> DEFINE b == c[8 + 4 * w + off + 1]
  <2>1. Signal(c) = IF "ANT_SIGNAL" \notin r.present THEN SIGNAL_MIN ELSE IF b > 127 THEN b - 256 ELSE b
    BY <1>8, <1>9, <1>11 DEF Signal
  <2>2. CASE "ANT_SIGNAL" \in r.present
    <3>1. z \in 1..z /\ 8 + 4 * w + off + 1 = 8 + 4 * w + z /\ 8 + 4 * w + z \in 1..n
      <4>1. \A x, k \in Nat, y \in 0..17, o \in 0..16 :
              y = o + 1 => /\ y \in 1..y /\ 8 + 4 * x + o + 1 = 8 + 4 * x + y
                           /\ 8 + 4 * x + y \in 1..8 + 4 * x + (0 + y) + k
        OBVIOUS
      <4> QED BY <1>2, <1>3, <1>13, <2>2, <4>1
    <3>0. FieldsEnd(r) = z
      BY <1>1a, <1>3, <1>13
    <3>2. b = FieldsOf(r)[z]
      BY <1>1, <1>4, <3>0, <3>1 DEF At
    <3>3. FieldsOf(r)[z] = r.signal % 256
      BY <2>2, <3>0, <3>1 DEF FieldsOf
    <3>4. \A x \in -128..127 : (IF x % 256 > 127 THEN (x % 256) - 256 ELSE x % 256) = x
      OBVIOUS
    <3>5. b = r.signal % 256
      BY <3>2, <3>3
    <3> HIDE DEF b
    <3>6. (IF b > 127 THEN b - 256 ELSE b) = r.signal
      BY <1>2, <3>4, <3>5
    <3> QED BY <2>1, <2>2, <3>6 DEF Rssi
  <2>3. CASE "ANT_SIGNAL" \notin r.present
    BY <2>1, <2>3 DEF Rssi
  <2> QED BY <2>2, <2>3
<1> QED BY <1>6, <1>12, <1>13 DEF n, q, Told

\* What the adapter takes from the frame g behind n bytes, with the strength e.
Taken(g, n, e) ==
  IF g[1] # FRAME_TYPE_ACTION THEN {}
  ELSE {[at |-> n + p.at, data |-> p.data, rssi |-> e] : p \in ActionData(g)}

\* The address in a frame is where it is told to be.
LEMMA AddressBehind ==
  ASSUME NEW d \in Seq(Byte), NEW n \in Nat, NEW g, Behind(d, n, g), Len(g) >= 39
  PROVE  /\ SubSeq(d, n + 11, n + 11 + 5) = SubSeq(g, 11, 16)
         /\ n + 11 + 5 <= Len(d)
<1>1. g \in Seq(Byte) /\ Len(g) \in Nat /\ Len(d) \in Nat
  BY LenProperties DEF Behind
<1>2. n + Len(g) <= Len(d) /\ \A i \in 1..Len(g) : d[n + i] = g[i]
  BY <1>1 DEF Behind
<1> DEFINE t == SubSeq(g, 10 + 1, 10 + 6)
<1>3. t \in Seq(Byte) /\ Len(t) = 6 /\ \A i \in 1..6 : t[i] = g[10 + i]
  <2>1. 10 \in Nat /\ 6 \in Nat /\ 10 + 6 <= Len(g)
    BY <1>1
  <2> QED BY <1>1, <2>1, Cut
<1> HIDE DEF t
<1>4. At(d, n + 10, t)
  <2>1. ASSUME NEW i \in 1..6 PROVE d[n + 10 + i] = t[i]
    <3>1. 10 + i \in 1..Len(g) /\ n + 10 + i = n + (10 + i)
      BY <1>1
    <3> QED BY <1>2, <1>3, <3>1
  <2>2. n + 10 + 6 <= Len(d)
    BY <1>1, <1>2
  <2> QED BY <1>3, <2>1, <2>2 DEF At
<1>5. SubSeq(d, (n + 10) + 1, (n + 10) + 6) = t
  <2>1. n + 10 \in Nat
    OBVIOUS
  <2> QED BY <1>3, <1>4, <2>1, AtCut
<1>6. (n + 10) + 1 = n + 11 /\ (n + 10) + 6 = n + 11 + 5 /\ n + 11 + 5 <= Len(d)
  BY <1>1, <1>2
<1> QED BY <1>5, <1>6 DEF t

\* If a string is at a place, what is behind that place starts with it.
LEMMA BehindStarts ==
  ASSUME NEW d \in Seq(Byte), NEW n \in Nat, NEW g, Behind(d, n, g),
         NEW f \in Seq(Byte), At(d, n, f)
  PROVE  At(g, 0, f)
<1>1. g \in Seq(Byte) /\ Len(g) \in Nat /\ Len(f) \in Nat
  BY LenProperties DEF Behind
<1>2. \A m \in Nat \ {0} : n + m <= Len(d) <=> m <= Len(g)
  BY DEF Behind
<1>3. Len(f) <= Len(g)
  <2>1. CASE Len(f) = 0
    BY <1>1, <2>1
  <2>2. CASE Len(f) # 0
    BY <1>1, <1>2, <2>2 DEF At
  <2> QED BY <2>1, <2>2
<1>4. ASSUME NEW i \in 1..Len(f) PROVE g[0 + i] = f[i]
  <2>1. i \in 1..Len(g) /\ 0 + i = i
    BY <1>1, <1>3
  <2>2. g[i] = d[n + i]
    BY <2>1 DEF Behind
  <2>3. d[n + i] = f[i]
    BY DEF At
  <2> QED BY <2>1, <2>2, <2>3
<1> QED BY <1>1, <1>3, <1>4 DEF At

\* What is behind the header starts with the frame.
LEMMA FrameFound ==
  ASSUME NEW r, GoodHeader(r), NEW f \in Seq(Byte), Len(f) <= 289, NEW u \in Seq(Byte)
  PROVE  LET d == Read(RadiotapBytes(r) \o f \o u)
         IN /\ d \in Seq(Byte) /\ HeaderLength(r) \in Nat /\ Told(Signal(d), r)
            /\ \E g \in Seq(Byte) :
                 /\ At(g, 0, f) /\ Len(g) <= Len(f) + Len(u)
                 /\ Behind(d, HeaderLength(r), g)
                 /\ RawPacket(d) = Taken(g, HeaderLength(r), Signal(d))
<1> DEFINE h == RadiotapBytes(r)
           c == h \o f \o u
           d == Read(c)
           n == HeaderLength(r)
           g == SubSeq(d, n + 1, Len(d))
<1>1. Within(n, 8, 223) /\ h \in Seq(Byte) /\ Len(h) = n /\ Len(f) \in Nat /\ Len(u) \in Nat
  BY HeaderFacts, LenProperties
<1>2. /\ c \in Seq(Byte) /\ Len(c) = n + Len(f) + Len(u)
      /\ At(c, 0, h) /\ At(c, n, f)
  BY CaptureFacts
<1> HIDE DEF h, c, n
<1>3. d \in Seq(Byte) /\ At(d, 0, h) /\ At(d, n, f)
  <2>1. 0 + Len(h) <= 512 /\ n + Len(f) <= 512 /\ n \in Nat /\ 0 \in Nat
    BY <1>1
  <2>2. d \in Seq(Byte) /\ At(d, 0, h)
    BY <1>1, <1>2, <2>1, ReadKeeps
  <2>3. At(d, n, f)
    BY <1>1, <1>2, <2>1, ReadKeeps
  <2> QED BY <2>2, <2>3
<1>4. Len(d) \in Nat /\ Len(d) <= Len(c)
  <2>1. CASE Len(c) > 512
    <3>1. d = SubSeq(c, 1, 512)
      BY <2>1 DEF Read, MAX_PACKET_SIZE
    <3>2. \A i \in 1..512 : c[i] \in Byte
      <4>1. \A i \in 1..512 : i \in 1..Len(c)
        BY <1>1, <1>2, <2>1
      <4> QED BY <1>2, <4>1, ElementOfSeq
    <3>3. Len(SubSeq(c, 1, 512)) = IF 1 <= 512 THEN 512 - 1 + 1 ELSE 0
      <4>1. 1 \in Int /\ 512 \in Int
        OBVIOUS
      <4> QED BY <3>2, <4>1, SubSeqProperties
    <3>4. Len(d) = 512
      BY <3>1, <3>3
    <3>5. Len(c) \in Nat
      BY <1>2, LenProperties
    <3> QED BY <2>1, <3>4, <3>5
  <2>2. CASE ~(Len(c) > 512)
    <3>1. d = c
      BY <2>2 DEF Read, MAX_PACKET_SIZE
    <3> QED BY <1>1, <1>2, <3>1
  <2> QED BY <2>1, <2>2
<1>5. RadiotapLen(d) = n /\ ValidRadiotap(d) /\ Told(Signal(d), r)
  BY <1>3, HeaderRead DEF h, n
<1> HIDE DEF d
<1>6. Behind(d, n, g)
  <2>1. n \in Nat
    BY <1>1
  <2> QED BY <1>3, <2>1, BehindIs
<1>7. RawPacket(d) = Taken(g, n, Signal(d))
  BY <1>5, Zenon DEF RawPacket, Taken
<1> HIDE DEF g
<1>8. g \in Seq(Byte) /\ Len(g) \in Nat
  BY <1>6, LenProperties DEF Behind
<1>9. At(g, 0, f)
  <2>1. n \in Nat
    BY <1>1
  <2> QED BY <1>3, <1>6, <2>1, BehindStarts
<1>10. Len(g) <= Len(f) + Len(u)
  <2>1. CASE Len(g) = 0
    BY <1>1, <2>1
  <2>2. CASE Len(g) # 0
    <3>1. n + Len(g) <= Len(d)
      BY <1>6, <1>8, <2>2 DEF Behind
    <3> QED BY <1>1, <1>2, <1>4, <1>8, <3>1
  <2> QED BY <2>1, <2>2
<1>11. n \in Nat
  BY <1>1
<1> QED BY <1>3, <1>5, <1>6, <1>7, <1>8, <1>9, <1>10, <1>11 DEF d, c, h, n

\* From a captured frame the adapter hands on where the sender's address is, the data
\* and the strength.
LEMMA FrameRead ==
  ASSUME NEW r, GoodHeader(r), NEW dst \in ByteString(6), NEW src \in ByteString(6),
         NEW data \in Seq(Byte), Within(Len(data), 0, 250), NEW u \in Seq(Byte),
         NEW c, c = Read(RadiotapBytes(r) \o ActionFrame(dst, src, data) \o u)
  PROVE  LET at == HeaderLength(r) + 11
         IN /\ SubSeq(c, at, at + 5) = src /\ Told(Signal(c), r)
            /\ RawPacket(c) = {[at |-> at, data |-> data, rssi |-> Signal(c)]}
<1> DEFINE f == ActionFrame(dst, src, data)
           l == Len(data)
<1>1. /\ f \in Seq(Byte) /\ Len(f) = 39 + l /\ f[1] = 208 /\ f[34] = l + 5
      /\ At(f, 10, src) /\ At(f, 39, data)
  BY FrameFacts
<1>2. Within(l, 0, 250)
  OBVIOUS
<1> HIDE DEF f, l
<1> DEFINE n == HeaderLength(r)
<1>3. /\ c \in Seq(Byte) /\ n \in Nat /\ Told(Signal(c), r)
      /\ \E g \in Seq(Byte) :
           /\ At(g, 0, f) /\ Len(g) <= Len(f) + Len(u)
           /\ Behind(c, n, g) /\ RawPacket(c) = Taken(g, n, Signal(c))
  <2>1. Len(f) <= 289
    BY <1>1, <1>2
  <2>2. f \in Seq(Byte)
    BY <1>1
  <2>3. c = Read(RadiotapBytes(r) \o f \o u)
    BY DEF f
  <2> HIDE DEF GoodHeader
  <2>4. LET d == Read(RadiotapBytes(r) \o f \o u)
        IN /\ d \in Seq(Byte) /\ n \in Nat /\ Told(Signal(d), r)
           /\ \E g \in Seq(Byte) :
                /\ At(g, 0, f) /\ Len(g) <= Len(f) + Len(u)
                /\ Behind(d, n, g) /\ RawPacket(d) = Taken(g, n, Signal(d))
    BY <2>1, <2>2, FrameFound DEF n
  <2> HIDE DEF n
  <2> QED BY <2>3, <2>4, Zenon
<1> HIDE DEF n
<1> DEFINE e == Signal(c)
<1> HIDE DEF e
<1>3a. PICK g \in Seq(Byte) :
         /\ At(g, 0, f) /\ Len(g) <= Len(f) + Len(u)
         /\ Behind(c, n, g) /\ RawPacket(c) = Taken(g, n, e)
  BY <1>3 DEF e
<1>4. Len(g) \in Nat /\ Len(g) >= 39 + l /\ g[1] = 208 /\ g[34] = l + 5
  <2>1. Len(g) \in Nat /\ 0 + Len(f) <= Len(g) /\ \A i \in 1..Len(f) : g[0 + i] = f[i]
    BY <1>3a, LenProperties DEF At
  <2>2. 1 \in 1..Len(f) /\ 34 \in 1..Len(f) /\ 0 + 1 = 1 /\ 0 + 34 = 34
    BY <1>1, <1>2
  <2>3. g[1] = f[1] /\ g[34] = f[34]
    BY <2>1, <2>2
  <2> QED BY <1>1, <1>2, <2>1, <2>3
<1>5. At(g, 10, src) /\ At(g, 39, data)
  <2>4. src \in Seq(Byte)
    <3>1. 6 \in Nat
      OBVIOUS
    <3> QED BY <3>1, ByteStrings
  <2>1. src \in Seq(Byte) /\ 0 + 10 = 10 /\ 0 + 39 = 39 /\ 10 \in Nat /\ 39 \in Nat /\ 0 \in Nat
    BY <2>4
  <2>2. At(g, 0 + 10, src)
    BY <1>1, <1>3a, <1>4, <2>1, AtInside
  <2>3. At(g, 0 + 39, data)
    BY <1>1, <1>3a, <1>4, <2>1, AtInside
  <2> QED BY <2>1, <2>2, <2>3
<1>6. SubSeq(g, 11, 16) = src
  <2>1. src \in Seq(Byte) /\ Len(src) = 6
    <3>1. 6 \in Nat
      OBVIOUS
    <3> QED BY <3>1, ByteStrings
  <2>2. 10 + 1 = 11 /\ 10 + 6 = 16 /\ 10 \in Nat
    OBVIOUS
  <2>3. SubSeq(g, 10 + 1, 10 + Len(src)) = src
    BY <1>3a, <1>5, <2>1, <2>2, AtCut
  <2> QED BY <2>1, <2>2, <2>3
<1>7. SubSeq(g, 40, 39 + l) = data
  <2>1. SubSeq(g, 39 + 1, 39 + Len(data)) = data
    BY <1>3a, <1>5, AtCut
  <2> QED BY <2>1 DEF l
<1>8. DataLen(g[34]) = l
  <2>1. Within(l, 0, 255)
    BY <1>2
  <2>2. g[34] - 5 = l
    BY <1>2, <1>4
  <2>3. (l % 256) = l
    BY <2>1, SmallRemainder
  <2> QED BY <2>2, <2>3, Zenon DEF DataLen
<1>9. ActionData(g) = {[at |-> 11, data |-> data]}
  <2>3. \A x, y \in Nat : y >= 39 + x => y >= 39
    OBVIOUS
  <2>4. l \in Nat
    BY <1>2
  <2>1. Len(g) >= ActionFrameLen /\ Len(g) >= ActionFrameLen + DataLen(g[34])
    BY <1>4, <1>8, <2>3, <2>4 DEF ActionFrameLen
  <2>2. SubSeq(g, ActionFrameLen + 1, ActionFrameLen + DataLen(g[34])) = data
    BY <1>7, <1>8 DEF ActionFrameLen
  <2> QED BY <2>1, <2>2 DEF ActionData
<1>10. Taken(g, n, e) = {[at |-> n + 11, data |-> data, rssi |-> e]}
  BY <1>4, <1>9 DEF Taken, FRAME_TYPE_ACTION
<1>11. SubSeq(c, n + 11, n + 11 + 5) = src
  <2>1. Len(g) >= 39
    BY <1>2, <1>4
  <2> QED BY <1>3, <1>3a, <1>6, <2>1, AddressBehind
<1> QED BY <1>3, <1>3a, <1>10, <1>11 DEF n, e

\* A frame to the bridge or to all nodes passes the filter, whatever is around it.
LEMMA OwnPasses ==
  ASSUME MacIsClear, NEW r, GoodHeader(r), NEW dst \in {LocalMac, Broadcast},
         NEW src \in ByteString(6), NEW data \in Seq(Byte), Within(Len(data), 0, 250),
         NEW u \in Seq(Byte)
  PROVE  Passes(RadiotapBytes(r) \o ActionFrame(dst, src, data) \o u)
<1> DEFINE h == RadiotapBytes(r)
           f == ActionFrame(dst, src, data)
           l == Len(data)
           c == h \o f \o u
           n == HeaderLength(r)
           g == SubSeq(c, n + 1, Len(c))
<1>1. Within(n, 8, 223) /\ h \in Seq(Byte) /\ Len(h) = n
  BY HeaderFacts
<1>2. dst \in ByteString(6)
  <2>1. Broadcast \in ByteString(6)
    BY DEF Broadcast, ByteString, Byte
  <2> QED BY <2>1, NodesAssumption
<1>3. /\ f \in Seq(Byte) /\ Len(f) = 39 + l
      /\ f[1] = 208 /\ At(f, 4, dst)
      /\ f[25] = 127 /\ At(f, 25, OUI)
      /\ f[33] = 221 /\ At(f, 34, OUI) /\ f[38] = 4
  BY <1>2, FrameFacts
<1>4. Within(l, 0, 250)
  OBVIOUS
<1> HIDE DEF f, l
<1>5. /\ c \in Seq(Byte) /\ Len(c) = n + Len(f) + Len(u)
      /\ At(c, 0, h) /\ At(c, n, f)
  BY <1>3, CaptureFacts
<1> HIDE DEF c
<1>6. RadiotapLen(c) = n
  BY <1>5, HeaderRead
<1> HIDE DEF h, n
<1>7. Behind(c, n, g)
  <2>1. n \in Nat
    BY <1>1
  <2> QED BY <1>5, <2>1, BehindIs
<1> HIDE DEF g
<1>8. At(g, 0, f)
  <2>1. n \in Nat
    BY <1>1
  <2> QED BY <1>3, <1>5, <1>7, <2>1, BehindStarts
<1>9. g \in Seq(Byte) /\ Len(g) \in Nat
  BY <1>7, LenProperties DEF Behind
<1>10. Len(g) >= 39
  <2>1. 0 + Len(f) <= Len(g)
    BY <1>8 DEF At
  <2>2. \A x \in 0..250, y \in Nat : 0 + (39 + x) <= y => y >= 39
    OBVIOUS
  <2> QED BY <1>3, <1>4, <1>9, <2>1, <2>2
<1>11. \A i \in 1..39 : g[i] = f[i]
  <2>1. \A i \in 1..Len(f) : g[0 + i] = f[i]
    BY <1>8 DEF At
  <2>4. ASSUME NEW i \in 1..39 PROVE g[i] = f[i]
    <3>1. i \in 1..Len(f) /\ 0 + i = i
      BY <1>3, <1>4
    <3> QED BY <2>1, <3>1
  <2> QED BY <2>4
<1>12. IsDestination(g) /\ g[1] \in 208..211
  <2>1. dst[1] = g[5] /\ dst[2] = g[6] /\ dst[3] = g[7] /\ dst[4] = g[8] /\ dst[5] = g[9] /\ dst[6] = g[10]
    <3>1. Len(dst) = 6
      <4>1. 6 \in Nat
        OBVIOUS
      <4> QED BY <1>2, <4>1, ByteStrings
    <3>2. \A i \in 1..Len(dst) : f[4 + i] = dst[i]
      BY <1>3, Zenon DEF At
    <3>3. \A i \in 1..6 : f[4 + i] = dst[i]
      BY <3>1, <3>2, Zenon
    <3> QED BY <1>11, <3>3
  <2>2. IsFor(g, dst)
    BY <1>9, <1>10, <2>1 DEF IsFor, IsHigh, IsLow
  <2>3. g[1] = 208
    <3>1. 1 \in 1..39
      OBVIOUS
    <3>2. g[1] = f[1]
      BY <1>11, <3>1
    <3>3. f[1] = 208
      BY <1>3
    <3> QED BY <3>2, <3>3
  <2> QED BY <2>2, <2>3 DEF IsDestination
<1>13. IsCategory(g)
  <2>1. Len(OUI) = 3 /\ OUI[1] = 24 /\ OUI[2] = 254 /\ OUI[3] = 52
    BY DEF OUI
  <2>2. \A k \in Nat : At(f, k, OUI) => f[k + 1] = 24 /\ f[k + 2] = 254 /\ f[k + 3] = 52
    <3>1. 1 \in 1..3 /\ 2 \in 1..3 /\ 3 \in 1..3
      OBVIOUS
    <3> QED BY <2>1, <3>1 DEF At
  <2>3. f[25 + 1] = 24 /\ f[25 + 2] = 254 /\ f[25 + 3] = 52
    <3>1. 25 \in Nat /\ At(f, 25, OUI)
      BY <1>3
    <3> QED BY <2>2, <3>1
  <2>5. f[34 + 1] = 24 /\ f[34 + 2] = 254 /\ f[34 + 3] = 52
    <3>1. 34 \in Nat /\ At(f, 34, OUI)
      BY <1>3
    <3> QED BY <2>2, <3>1
  <2>6. /\ g[25] = f[25] /\ g[26] = f[25 + 1] /\ g[27] = f[25 + 2] /\ g[28] = f[25 + 3]
        /\ g[33] = f[33] /\ g[35] = f[34 + 1] /\ g[36] = f[34 + 2] /\ g[37] = f[34 + 3]
        /\ g[38] = f[38]
    BY <1>11
  <2>4. /\ g[25] = 127 /\ g[26] = 24 /\ g[27] = 254 /\ g[28] = 52
        /\ g[33] = 221 /\ g[35] = 24 /\ g[36] = 254 /\ g[37] = 52 /\ g[38] = 4
    BY <1>3, <2>3, <2>5, <2>6
  <2>7. Len(g) >= 28 /\ Len(g) >= 33 /\ Len(g) >= 37 /\ Len(g) >= 38
    BY <1>9, <1>10
  <2> QED BY <2>4, <2>7 DEF IsCategory, IsElement, IsVendor, IsType
<1>14. IsEspNow(g)
  <2>1. Len(g) >= 1 /\ g \in Seq(Byte)
    BY <1>9, <1>10
  <2> QED BY <1>12, <1>13, <2>1, SameFields
<1>15. Len(c) >= 4
  BY <1>1, <1>3, <1>4, <1>5, LenProperties
<1>16. Passes(c) <=> IsEspNow(SubSeq(c, RadiotapLen(c) + 1, Len(c)))
  <2>1. c \in Seq(Byte)
    BY <1>5
  <2> QED BY <1>15, <2>1, FilterDecides
<1>17. Passes(c)
  BY <1>6, <1>14, <1>16 DEF g
<1> QED BY <1>17 DEF c, f, h

------------------------------------------------------------------------------
(* The invariant.                                                          *)

\* A message was sent.
Chosen ==
  /\ origin \in [net : Networks, dst : Destinations, m : Messages, altered : BOOLEAN]
  /\ ~TooBig(origin.m)

\* The frames that may have been sent, that may be on the air, and that may be captured.
Sent ==
  {ActionFrame(origin.dst, SenderMac, Serialize(origin.net, origin.m, nonce, reserved)) :
     nonce \in Nonces, reserved \in Reserved}
OnAir ==
  IF origin.altered THEN {Altered(f, alteration) : f \in Sent, alteration \in Alterations}
  ELSE Sent
Captures == {RadiotapBytes(radiotap) \o f \o trailer : f \in OnAir, trailer \in Trailers}

\* The serialized message.
Carries(d) ==
  \E nonce \in ByteString(8), reserved \in ByteString(3) :
    d = Serialize(origin.net, origin.m, nonce, reserved)

\* What is chosen to be sent fits and can be serialized.
LEMMA ChosenFacts ==
  ASSUME Chosen
  PROVE  /\ origin.net \in Networks /\ origin.net.ssid \in ByteString(4)
         /\ origin.net.version \in Byte
         /\ Fits(origin.m) /\ Within(PacketLength(origin.m), 20, 250)
         /\ origin.dst \in ByteString(6) /\ SenderMac \in ByteString(6)
<1>1. /\ origin.net \in Networks /\ origin.dst \in Destinations /\ origin.m \in Messages
      /\ ~TooBig(origin.m)
  BY DEF Chosen
<1>2. Fits(origin.m)
  BY <1>1, MessagesAssumption DEF Fits
<1>3. Within(PacketLength(origin.m), 20, 250)
  BY <1>2, Lengths
<1> QED BY <1>1, <1>2, <1>3, NodesAssumption

\* The bytes that carry a message; the bridge gets it back if it is of its network.
LEMMA CarriedFacts ==
  ASSUME Chosen, NEW d, Carries(d)
  PROVE  /\ d \in Seq(Byte) /\ Within(Len(d), 20, 250)
         /\ origin.net = Network => Deserialize(Network, d) = {origin.m}
         /\ DistinctNetworks /\ origin.net # Network => Deserialize(Network, d) = {}
<1>1. /\ origin.net \in Networks /\ origin.net.ssid \in ByteString(4)
      /\ origin.net.version \in Byte
      /\ Fits(origin.m) /\ Within(PacketLength(origin.m), 20, 250)
  BY ChosenFacts
<1> DEFINE net == origin.net
           m == origin.m
<1>2. PICK nonce \in ByteString(8), reserved \in ByteString(3) : d = Serialize(net, m, nonce, reserved)
  BY DEF Carries
<1> HIDE DEF net, m
<1>3. net.ssid \in ByteString(4) /\ net.version \in Byte /\ Fits(m) /\ net \in Networks
  BY <1>1 DEF net, m
<1>4. d \in Seq(Byte) /\ Len(d) = PacketLength(m)
  BY <1>2, <1>3, SerializeFacts
<1>5. ASSUME net = Network PROVE Deserialize(Network, d) = {m}
  <2>1. net.version = PROTO_VERSION
    BY <1>5, NodesAssumption
  <2>2. Deserialize(net, Serialize(net, m, nonce, reserved)) = {m}
    BY <1>3, <2>1, RoundTrip
  <2> QED BY <1>2, <1>5, <2>2
<1>6. ASSUME DistinctNetworks, net # Network PROVE Deserialize(Network, d) = {}
  <2>1. net.ssid # Network.ssid \/ net.version # PROTO_VERSION
    BY <1>3, <1>6 DEF DistinctNetworks
  <2>2. Deserialize(Network, Serialize(net, m, nonce, reserved)) = {}
    BY <1>3, <2>1, OthersIgnored
  <2> QED BY <1>2, <2>2
<1> QED BY <1>1, <1>4, <1>5, <1>6 DEF net, m

\* What is sent is an action frame around such bytes.
LEMMA SentFacts ==
  ASSUME Chosen, NEW f \in Sent
  PROVE  \E d : Carries(d) /\ f = ActionFrame(origin.dst, SenderMac, d)
<1>1. PICK nonce \in Nonces, reserved \in Reserved :
        f = ActionFrame(origin.dst, SenderMac, Serialize(origin.net, origin.m, nonce, reserved))
  BY DEF Sent
<1>2. Carries(Serialize(origin.net, origin.m, nonce, reserved))
  BY MessagesAssumption DEF Carries
<1> QED BY <1>1, <1>2

\* A frame with one byte altered, or cut.
LEMMA AlteredFacts ==
  ASSUME NEW f \in Seq(Byte), Within(Len(f), 59, 289), NEW a \in Alterations
  PROVE  LET g == Altered(f, a)
         IN /\ g \in Seq(Byte)
            /\ a.byte = -1 => Len(g) = a.at
            /\ a.byte # -1 => /\ a.byte \in Byte /\ Len(g) = Len(f) /\ g[a.at] = a.byte
                              /\ \A i \in 1..Len(f) : i # a.at => g[i] = f[i]
            /\ Len(g) <= 289
<1> DEFINE g == Altered(f, a)
<1>1. Within(a.at, 1, 59) /\ a.byte \in Byte \cup {-1}
  <2>1. a.at \in 1..39 + 13 + 7 /\ a.byte \in Byte \cup {-1}
    BY CaptureAssumption DEF ActionFrameLen, HeaderLen, PayloadLen
  <2>2. \A k \in 1..39 + 13 + 7 : Within(k, 1, 59)
    OBVIOUS
  <2> QED BY <2>1, <2>2
<1>4. a.at \in 1..Len(f) /\ Len(f) \in Nat /\ a.at <= 289 /\ a.at \in Int /\ 1 \in Int
      /\ (IF 1 <= a.at THEN a.at - 1 + 1 ELSE 0) = a.at /\ Len(f) <= 289
      /\ \A i \in 1..a.at : i \in 1..Len(f)
  <2> DEFINE x == a.at
             y == Len(f)
  <2>1. Within(x, 1, 59) /\ Within(y, 59, 289)
    BY <1>1
  <2> HIDE DEF x, y
  <2>2. /\ x \in 1..y /\ y \in Nat /\ x <= 289 /\ x \in Int /\ 1 \in Int
        /\ (IF 1 <= x THEN x - 1 + 1 ELSE 0) = x /\ y <= 289
        /\ \A i \in 1..x : i \in 1..y
    BY <2>1
  <2> QED BY <2>2 DEF x, y
<1>2. CASE a.byte = -1
  <2>1. g = SubSeq(f, 1, a.at)
    BY <1>2 DEF Altered
  <2>2. \A i \in 1..a.at : f[i] \in Byte
    BY <1>4, ElementOfSeq
  <2>3. SubSeq(f, 1, a.at) \in Seq(Byte)
        /\ Len(SubSeq(f, 1, a.at)) = IF 1 <= a.at THEN a.at - 1 + 1 ELSE 0
    BY <1>4, <2>2, SubSeqProperties
  <2>4. Len(g) = a.at /\ a.at <= 289
    BY <1>4, <2>1, <2>3
  <2> QED BY <1>2, <2>1, <2>3, <2>4
<1>3. CASE a.byte # -1
  <2>1. g = [f EXCEPT ![a.at] = a.byte] /\ a.byte \in Byte
    BY <1>1, <1>3 DEF Altered
  <2>2. a.at \in 1..Len(f) /\ Len(f) \in Nat /\ Len(f) <= 289
    BY <1>4
  <2>3. g \in Seq(Byte) /\ Len(g) = Len(f)
    BY <2>1, <2>2, ExceptSeq
  <2>4. g[a.at] = a.byte /\ \A i \in 1..Len(f) : i # a.at => g[i] = f[i]
    BY <2>1, <2>2, LenProperties
  <2> QED BY <1>3, <2>1, <2>2, <2>3, <2>4
<1> QED BY <1>2, <1>3

\* What is on the air is not longer than the longest frame.
LEMMA OnAirFacts ==
  ASSUME Chosen, NEW f \in OnAir
  PROVE  f \in Seq(Byte) /\ Len(f) <= 289
<1>1. ASSUME NEW g \in Sent PROVE g \in Seq(Byte) /\ Within(Len(g), 59, 289)
  <2>1. PICK d : Carries(d) /\ g = ActionFrame(origin.dst, SenderMac, d)
    BY SentFacts
  <2>2. d \in Seq(Byte) /\ Within(Len(d), 20, 250)
    BY <2>1, CarriedFacts
  <2>3. Within(Len(d), 0, 250) /\ Within(39 + Len(d), 59, 289)
    <3> DEFINE x == Len(d)
    <3>1. Within(x, 20, 250)
      BY <2>2
    <3> HIDE DEF x
    <3>2. Within(x, 0, 250) /\ Within(39 + x, 59, 289)
      BY <3>1
    <3> QED BY <3>2 DEF x
  <2>4. origin.dst \in ByteString(6) /\ SenderMac \in ByteString(6)
    BY ChosenFacts
  <2>5. LET x == ActionFrame(origin.dst, SenderMac, d) IN x \in Seq(Byte) /\ Len(x) = 39 + Len(d)
    BY <2>2, <2>3, <2>4, FrameFacts
  <2> QED BY <2>1, <2>3, <2>5
<1>2. CASE ~origin.altered
  <2>1. f \in Sent
    BY <1>2 DEF OnAir
  <2>2. f \in Seq(Byte) /\ Within(Len(f), 59, 289)
    BY <1>1, <2>1
  <2>3. \A x \in 59..289 : x <= 289
    OBVIOUS
  <2> QED BY <2>2, <2>3
<1>3. CASE origin.altered
  <2>1. PICK g \in Sent, a \in Alterations : f = Altered(g, a)
    BY <1>3 DEF OnAir
  <2>2. g \in Seq(Byte) /\ Within(Len(g), 59, 289)
    BY <1>1
  <2>3. LET x == Altered(g, a) IN x \in Seq(Byte) /\ Len(x) <= 289
    BY <2>2, AlteredFacts
  <2> QED BY <2>1, <2>3
<1> QED BY <1>2, <1>3

\* The headers of the model are of the kind that the lemmas on captures speak of.
LEMMA CapturesFacts ==
  ASSUME radiotap \in Radiotaps, Chosen, frame \in Captures
  PROVE  /\ GoodHeader(radiotap)
         /\ frame \in Seq(Byte) /\ Len(frame) >= 8
         /\ \E f \in OnAir, u \in Seq(Byte) : u \in Trailers /\ frame = RadiotapBytes(radiotap) \o f \o u
<1>1. GoodHeader(radiotap)
  BY CaptureAssumption DEF GoodHeader
<1>2. PICK f \in OnAir, u \in Trailers : frame = RadiotapBytes(radiotap) \o f \o u
  BY DEF Captures
<1>3. u \in Seq(Byte)
  BY CaptureAssumption
<1>4. f \in Seq(Byte)
  BY OnAirFacts
<1> DEFINE c == RadiotapBytes(radiotap) \o f \o u
<1>5. c \in Seq(Byte) /\ Len(c) = HeaderLength(radiotap) + Len(f) + Len(u)
  BY <1>1, <1>3, <1>4, CaptureFacts
<1>6. Within(HeaderLength(radiotap), 8, 223)
  BY <1>1, HeaderFacts
<1>7. Len(c) >= 8
  <2>1. Len(f) \in Nat /\ Len(u) \in Nat
    BY <1>3, <1>4, LenProperties
  <2>2. \A x \in 8..223, y, z \in Nat : x + y + z >= 8
    OBVIOUS
  <2> HIDE DEF c
  <2> QED BY <1>5, <1>6, <2>1, <2>2
<1> QED BY <1>1, <1>2, <1>3, <1>5, <1>7

\* At each stage the bytes are what the message sent, the changes on the air and the
\* driver may have made of it; what the new thread was given was parsed from them, and
\* the buffer still holds them unless it was read into since.
Inv ==
  /\ stage \in {"idle", "refused", "air", "captured", "filtered", "handed", "done"}
  /\ stage \in {"idle", "refused"} => frame = <<>>
  /\ stage \in {"air", "captured", "filtered", "handed", "done"} => Chosen
  /\ stage = "air" => frame \in OnAir
  /\ stage \in {"captured", "filtered", "handed", "done"} =>
       radiotap \in Radiotaps /\ frame \in Captures
  /\ stage \in {"filtered", "handed"} => Passes(frame)
  /\ handed = IF stage \in {"handed", "done"} /\ Passes(frame) THEN RawPacket(Read(frame)) ELSE {}
  /\ buffer \in Seq(Byte) /\ Len(buffer) <= 512
  /\ handed # {} => Len(Read(frame)) <= Len(buffer)
  /\ handed # {} /\ ~reread => buffer = Read(frame)
  /\ reread \in BOOLEAN
  /\ delivered = IF stage = "done" THEN Received ELSE {}

\* Of bytes at most what the buffer holds is read.
LEMMA ReadFits ==
  ASSUME NEW c \in Seq(Byte)
  PROVE  Read(c) \in Seq(Byte) /\ Len(Read(c)) <= 512
<1>1. Len(c) \in Nat
  BY LenProperties
<1>2. CASE Len(c) > 512
  <2> DEFINE s == SubSeq(c, 1, 512)
  <2>1. Read(c) = s
    BY <1>2 DEF Read, MAX_PACKET_SIZE
  <2>2. \A i \in 1..512 : c[i] \in Byte
    <3>1. \A i \in 1..512 : i \in 1..Len(c)
      BY <1>1, <1>2
    <3> QED BY <3>1, ElementOfSeq
  <2>3. s \in Seq(Byte) /\ Len(s) = IF 1 <= 512 THEN 512 - 1 + 1 ELSE 0
    <3>1. 1 \in Int /\ 512 \in Int
      OBVIOUS
    <3> QED BY <2>2, <3>1, SubSeqProperties
  <2> HIDE DEF s
  <2> QED BY <2>1, <2>3
<1>3. CASE ~(Len(c) > 512)
  BY <1>1, <1>3 DEF Read, MAX_PACKET_SIZE
<1> QED BY <1>2, <1>3

\* What lies over the buffer leaves it bytes, not fewer than there were.
LEMMA OverlaidFacts ==
  ASSUME buffer \in Seq(Byte), Len(buffer) <= 512, NEW data \in NextReads
  PROVE  /\ Overlaid(data) \in Seq(Byte)
         /\ Len(Overlaid(data)) <= 512 /\ Len(buffer) <= Len(Overlaid(data))
<1>1. data \in Seq(Byte) /\ Len(data) <= 512
  BY CaptureAssumption DEF MAX_PACKET_SIZE
<1>2. Len(data) \in Nat /\ Len(buffer) \in Nat
  BY <1>1, LenProperties
<1> DEFINE n == IF Len(data) > Len(buffer) THEN Len(data) ELSE Len(buffer)
           o == [i \in 1..n |-> IF i <= Len(data) THEN data[i] ELSE buffer[i]]
<1>3. n \in Nat /\ n <= 512 /\ Len(buffer) <= n
  BY <1>1, <1>2
<1>4. ASSUME NEW i \in 1..n PROVE (IF i <= Len(data) THEN data[i] ELSE buffer[i]) \in Byte
  <2>1. CASE i <= Len(data)
    <3>1. i \in 1..Len(data)
      BY <1>2, <2>1
    <3>2. data[i] \in Byte
      BY <1>1, <3>1, ElementOfSeq
    <3> QED BY <2>1, <3>2
  <2>2. CASE ~(i <= Len(data))
    <3>1. i \in 1..Len(buffer)
      BY <1>2, <2>2
    <3>2. buffer[i] \in Byte
      BY <3>1, ElementOfSeq
    <3> QED BY <2>2, <3>2
  <2> QED BY <2>1, <2>2
<1>5. Overlaid(data) = o
  BY DEF Overlaid
<1> HIDE DEF n
<1>6. o \in [1..n -> Byte]
  BY <1>4
<1> HIDE DEF o
<1>7. o \in Seq(Byte) /\ Len(o) = n
  BY <1>3, <1>6, ByteStrings DEF ByteString
<1> QED BY <1>3, <1>5, <1>7

\* What is sent fits: send() has checked it, and of a probe it is presupposed.
LEMMA SentFits ==
  ASSUME NEW m \in Messages, m.type = PROBE_REQ \/ ~TooBig(m)
  PROVE  ~TooBig(m)
<1>1. CASE m.type = PROBE_REQ
  <2>1. m \in [type : Byte, topic : Seq(Byte), payload : Seq(Byte)]
    BY MessagesAssumption
  <2>2. Len(m.topic) \in Nat /\ Len(m.payload) \in Nat
    BY <2>1, LenProperties
  <2>3. PacketLength(m) \in Nat
    <3>1. PacketLength(m) = 13 + 7 + Len(m.topic) + Len(m.payload)
      BY Zenon DEF PacketLength, HeaderLen, PayloadLen
    <3>2. \A x, y \in Nat : 13 + 7 + x + y \in Nat
      OBVIOUS
    <3> QED BY <2>2, <3>1, <3>2
  <2>4. PacketLength(m) <= 250
    BY <1>1, MessagesAssumption DEF MAX_PACKET_LENGTH
  <2> QED BY <2>3, <2>4 DEF TooBig, MAX_PACKET_LENGTH
<1> QED BY <1>1

\* What is captured are bytes.
LEMMA CapturesAreBytes ==
  ASSUME radiotap \in Radiotaps, Chosen, frame \in Captures
  PROVE  frame \in Seq(Byte)
BY CapturesFacts

\* Every step of the model keeps this.
LEMMA InvHolds == Spec => []Inv
<1> USE DEF Inv
<1>1. Init => Inv
  <2>1. <<>> \in Seq(Byte) /\ Len(<<>>) <= 512
    OBVIOUS
  <2> QED BY <2>1 DEF Init
<1>2. Inv /\ [Next]_vars => Inv'
  <2> SUFFICES ASSUME Inv, [Next]_vars PROVE Inv'
    OBVIOUS
  <2>1. ASSUME NEW m \in Messages, Refuse(m) PROVE Inv'
    BY <2>1 DEF Refuse, reading
  <2>2. ASSUME NEW net \in Networks, NEW m \in Messages, NEW dst \in Destinations,
               NEW nonce \in Nonces, NEW reserved \in Reserved, Send(net, m, dst, nonce, reserved)
        PROVE  Inv'
    <3>1. /\ origin' = [net |-> net, dst |-> dst, m |-> m, altered |-> FALSE]
          /\ stage = "idle" /\ stage' = "air" /\ UNCHANGED <<buffer, handed, reread, delivered>>
          /\ m.type = PROBE_REQ \/ ~TooBig(m)
          /\ frame' = ActionFrame(dst, SenderMac, Serialize(net, m, nonce, reserved))
      BY <2>2 DEF Send, reading
    <3>5. ~TooBig(m)
      BY <3>1, SentFits
    <3>2. Chosen'
      BY <3>1, <3>5 DEF Chosen
    <3>3. frame' \in Sent' /\ ~origin'.altered
      BY <3>1 DEF Sent
    <3>4. (frame \in OnAir)'
      BY <3>3 DEF OnAir
    <3> QED BY <3>1, <3>2, <3>4
  <2>3. ASSUME NEW alteration \in Alterations, OtherTraffic(alteration) PROVE Inv'
    <3>1. /\ stage = "air" /\ stage' = "air" /\ ~origin.altered /\ Chosen /\ frame \in OnAir
          /\ origin' = [origin EXCEPT !.altered = TRUE]
          /\ UNCHANGED <<buffer, handed, reread, delivered>>
          /\ frame' = Altered(frame, alteration)
      BY <2>3 DEF OtherTraffic, reading
    <3>2. /\ origin' \in [net : Networks, dst : Destinations, m : Messages, altered : BOOLEAN]
          /\ origin'.net = origin.net /\ origin'.dst = origin.dst /\ origin'.m = origin.m
          /\ origin'.altered = TRUE
      BY <3>1 DEF Chosen
    <3>3. Chosen'
      BY <3>1, <3>2 DEF Chosen
    <3>4. Sent' = Sent
      BY <3>2 DEF Sent
    <3>5. frame \in Sent
      BY <3>1 DEF OnAir
    <3>6. (frame \in OnAir)'
      BY <3>1, <3>2, <3>4, <3>5 DEF OnAir
    <3> QED BY <3>1, <3>3, <3>6
  <2>4. ASSUME NEW r \in Radiotaps, NEW trailer \in Trailers, Capture(r, trailer) PROVE Inv'
    <3>1. /\ stage = "air" /\ stage' = "captured" /\ radiotap' = r
          /\ frame' = RadiotapBytes(r) \o frame \o trailer
          /\ origin' = origin /\ UNCHANGED <<buffer, handed, reread, delivered>>
          /\ Chosen /\ frame \in OnAir
      BY <2>4 DEF Capture, reading
    <3>2. Chosen' /\ OnAir' = OnAir
      BY <3>1 DEF Chosen, OnAir, Sent
    <3> HIDE DEF Inv
    <3>3. (frame \in Captures)'
      BY <3>1, <3>2 DEF Captures
    <3> QED BY <3>1, <3>2, <3>3 DEF Inv
  <2>5. ASSUME UNCHANGED <<origin, radiotap, frame>> 
        PROVE  Chosen' = Chosen /\ Captures' = Captures /\ OnAir' = OnAir
    BY <2>5 DEF Chosen, Captures, OnAir, Sent
  <2>6. CASE RunFilter
    <3>1. /\ UNCHANGED <<origin, radiotap, frame, buffer, handed, reread, delivered>>
          /\ stage = "captured"
      BY <2>6 DEF RunFilter, reading
    <3>2. Chosen' /\ (radiotap \in Radiotaps)' /\ (frame \in Captures)' /\ delivered = {} /\ handed = {}
      BY <2>5, <3>1
    <3>3. stage' = IF Passes(frame) THEN "filtered" ELSE "done"
      BY <2>6 DEF RunFilter
    <3>4. Received' = {}
      BY <3>1, <3>2 DEF Received
    <3> QED BY <3>1, <3>2, <3>3, <3>4
  <2>7. CASE Parse
    <3>1. /\ UNCHANGED <<origin, radiotap, frame, reread, delivered>> /\ stage = "filtered"
          /\ buffer' = Read(frame) /\ handed' = RawPacket(Read(frame))
          /\ stage' = IF handed' = {} THEN "done" ELSE "handed"
      BY <2>7 DEF Parse
    <3>2. /\ Chosen' /\ (radiotap \in Radiotaps)' /\ (frame \in Captures)' /\ Passes(frame)
          /\ delivered = {}
      BY <2>5, <3>1
    <3>3. Read(frame) \in Seq(Byte) /\ Len(Read(frame)) <= 512 /\ Len(Read(frame)) \in Nat
      <4>1. frame \in Seq(Byte)
        BY <3>1, CapturesAreBytes
      <4> QED BY <4>1, ReadFits, LenProperties
    <3>4. handed' = {} => Received' = {}
      BY DEF Received
    <3>5. Len(Read(frame)) <= Len(Read(frame))
      BY <3>3
    <3>6. /\ stage' \in {"handed", "done"} /\ (stage = "handed" => Passes(frame))'
          /\ delivered' = IF stage' = "done" THEN Received' ELSE {}
      BY <3>1, <3>2, <3>4
    <3>7. handed' = IF stage' \in {"handed", "done"} /\ Passes(frame') THEN RawPacket(Read(frame')) ELSE {}
      BY <3>1, <3>2, <3>6
    <3>8. (buffer \in Seq(Byte) /\ Len(buffer) <= 512)' /\ (buffer = Read(frame))'
          /\ (Len(Read(frame)) <= Len(buffer))' /\ (reread \in BOOLEAN)'
      BY <3>1, <3>3, <3>5
    <3> QED BY <3>2, <3>6, <3>7, <3>8
  <2>8. ASSUME NEW data \in NextReads, ReadNext(data) PROVE Inv'
    <3>1. /\ UNCHANGED <<stage, origin, radiotap, frame, handed, delivered>>
          /\ stage = "handed" /\ buffer' = Overlaid(data) /\ reread'
      BY <2>8 DEF ReadNext
    <3>2. Chosen' /\ (radiotap \in Radiotaps)' /\ (frame \in Captures)'
      BY <2>5, <3>1
    <3>3. buffer' \in Seq(Byte) /\ Len(buffer') <= 512 /\ Len(buffer) <= Len(buffer')
      BY <3>1, OverlaidFacts
    <3>4. handed # {} => Len(Read(frame)) <= Len(buffer')
      <4>1. Len(buffer) \in Nat /\ Len(buffer') \in Nat /\ Len(Read(frame)) \in Nat
        <5>1. Read(frame) \in Seq(Byte)
          BY <3>1, CapturesAreBytes, ReadFits
        <5> QED BY <3>3, <5>1, LenProperties
      <4>2. handed # {} => Len(Read(frame)) <= Len(buffer)
        OBVIOUS
      <4> QED BY <3>3, <4>1, <4>2
    <3>5. reread' \in BOOLEAN
      BY <2>8 DEF ReadNext
    <3> QED BY <3>1, <3>2, <3>3, <3>4, <3>5
  <2>9. CASE Receive
    <3>1. /\ UNCHANGED <<origin, radiotap, frame, buffer, handed, reread>>
          /\ stage = "handed" /\ stage' = "done" /\ delivered' = Received
      BY <2>9 DEF Receive
    <3>2. Chosen' /\ (radiotap \in Radiotaps)' /\ (frame \in Captures)' /\ Passes(frame)
      BY <2>5, <3>1
    <3>3. Received' = Received
      BY <3>1 DEF Received
    <3> QED BY <3>1, <3>2, <3>3
  <2>10. CASE Again
    <3>1. <<>> \in Seq(Byte) /\ Len(<<>>) <= 512
      OBVIOUS
    <3> QED BY <2>10, <3>1 DEF Again
  <2>11. CASE UNCHANGED vars
    <3>1. UNCHANGED <<stage, origin, radiotap, frame, buffer, handed, reread, delivered>>
      BY <2>11 DEF vars
    <3>2. Chosen' = Chosen /\ Captures' = Captures /\ OnAir' = OnAir
      BY <2>5, <3>1
    <3>3. Received' = Received
      BY <3>1 DEF Received
    <3> QED BY <3>1, <3>2, <3>3
  <2> QED BY <2>1, <2>2, <2>3, <2>4, <2>6, <2>7, <2>8, <2>9, <2>10, <2>11 DEF Next
<1> QED BY <1>1, <1>2, PTL DEF Spec

------------------------------------------------------------------------------
(* The theorems.                                                           *)

\* One capture gives at most one packet, and the sender's address lies in it.
LEMMA AtMostOne ==
  ASSUME NEW x \in Seq(Byte)
  PROVE  /\ RawPacket(x) = {} \/ \E p : RawPacket(x) = {p}
         /\ \A p \in RawPacket(x) : p.at + 5 <= Len(x) /\ p.at \in Nat
<1> DEFINE n == RadiotapLen(x)
           g == SubSeq(x, n + 1, Len(x))
           s == Signal(x)
<1>1. RawPacket(x) = {} \/ (ValidRadiotap(x) /\ RawPacket(x) = Taken(g, n, s))
  BY Zenon DEF RawPacket, Taken
<1>2. CASE RawPacket(x) = {}
  BY <1>2
<1>3. CASE ValidRadiotap(x) /\ RawPacket(x) = Taken(g, n, s)
  <2>1. n \in Nat
    <3>1. Len(x) >= 8 /\ Len(x) \in Nat
      BY <1>3, LenProperties DEF ValidRadiotap
    <3>2. 3 \in 1..Len(x) /\ 4 \in 1..Len(x)
      BY <3>1
    <3>3. x[3] \in Byte /\ x[4] \in Byte
      BY <3>2, ElementOfSeq
    <3>4. \A a, b \in Byte : a + 256 * b \in Nat
      BY DEF Byte
    <3> QED BY <3>3, <3>4 DEF RadiotapLen
  <2> HIDE DEF n, s
  <2>2. Behind(x, n, g)
    BY <2>1, BehindIs
  <2> HIDE DEF g
  <2>3. ActionData(g) = {} \/ \E d : ActionData(g) = {[at |-> 11, data |-> d]} /\ Len(g) >= 39
    <3>1. ActionData(g) = {} \/ Len(g) >= 39
      BY DEF ActionData, ActionFrameLen
    <3>2. ActionData(g) = {} \/ \E d : ActionData(g) = {[at |-> 11, data |-> d]}
      BY Zenon DEF ActionData
    <3> QED BY <3>1, <3>2
  <2>4. CASE ActionData(g) = {}
    <3>1. Taken(g, n, s) = {}
      BY <2>4 DEF Taken
    <3> QED BY <1>3, <3>1
  <2>5. ASSUME NEW d, ActionData(g) = {[at |-> 11, data |-> d]}, Len(g) >= 39
        PROVE  /\ Taken(g, n, s) = {} \/ \E p : Taken(g, n, s) = {p}
               /\ \A p \in Taken(g, n, s) : p.at + 5 <= Len(x) /\ p.at \in Nat
    <3>1. Taken(g, n, s) = {} \/ Taken(g, n, s) = {[at |-> n + 11, data |-> d, rssi |-> s]}
      BY <2>5 DEF Taken
    <3>2. n + 11 + 5 <= Len(x) /\ n + 11 \in Nat
      BY <2>1, <2>2, <2>5, AddressBehind
    <3> DEFINE q == [at |-> n + 11, data |-> d, rssi |-> s]
    <3>3. q.at = n + 11
      OBVIOUS
    <3> HIDE DEF q
    <3>4. Taken(g, n, s) = {} \/ Taken(g, n, s) = {q}
      BY <3>1 DEF q
    <3> QED BY <3>2, <3>3, <3>4
  <2> QED BY <1>3, <2>3, <2>4, <2>5
<1> QED BY <1>1, <1>2, <1>3

\* What is handed on of the messages in the set D.
HandedOn(D, src, rssi) == {[m |-> m, src |-> src, rssi |-> rssi] : m \in D}

\* What one packet gives.
LEMMA ReceivedIs ==
  ASSUME NEW p, handed = {p}
  PROVE  Received = HandedOn(Deserialize(Network, p.data), SubSeq(buffer, p.at, p.at + 5), p.rssi)
<1>1. Received =
        UNION {{[m |-> m, src |-> SubSeq(buffer, q.at, q.at + 5), rssi |-> q.rssi]
                  : m \in Deserialize(Network, q.data)} : q \in {p}}
  BY DEF Received
<1> QED BY <1>1 DEF HandedOn

\* The variables have their types: all that is sent, captured and handed on are bytes, a
\* frame with its header fits in the buffer of send(), and a capture gives at most one message.
THEOREM TypeCorrect == Spec => []TypeOK
<1>1. Inv => TypeOK
  <2> SUFFICES ASSUME Inv PROVE TypeOK
    OBVIOUS
  <2>1. frame \in Seq(Byte)
    <3>1. CASE stage \in {"idle", "refused"}
      <4>1. frame = <<>>
        BY <3>1 DEF Inv
      <4>2. <<>> \in Seq(Byte)
        OBVIOUS
      <4> QED BY <4>1, <4>2
    <3>2. CASE stage = "air"
      BY <3>2, OnAirFacts DEF Inv
    <3>3. CASE stage \in {"captured", "filtered", "handed", "done"}
      BY <3>3, CapturesFacts DEF Inv
    <3> QED BY <3>1, <3>2, <3>3 DEF Inv
  <2>2. \A i \in DOMAIN frame : frame[i] \in Byte
    <3>1. DOMAIN frame = 1..Len(frame)
      BY <2>1, LenProperties
    <3> QED BY <2>1, <3>1, ElementOfSeq
  <2>3. ASSUME stage = "air" PROVE Len(TXRadiotap) + Len(frame) <= MAX_PACKET_SIZE
    <3> DEFINE l == Len(frame)
    <3>1. l <= 289 /\ l \in Nat
      BY <2>1, <2>3, OnAirFacts, LenProperties DEF Inv
    <3>2. Len(TXRadiotap) = 9
      BY DEF TXRadiotap
    <3> HIDE DEF l
    <3>3. 9 + l <= 512
      BY <3>1
    <3> QED BY <3>2, <3>3 DEF l, MAX_PACKET_SIZE
  <2>4. CASE handed = {}
    <3>1. delivered = {}
      BY <2>4 DEF Inv, Received
    <3>2. Cardinality(delivered) = 0
      BY <3>1, FS_EmptySet
    <3> QED BY <2>2, <2>3, <2>4, <3>2 DEF Inv, TypeOK, MAX_PACKET_SIZE
  <2>5. CASE handed # {}
    <3> DEFINE c == Read(frame)
    <3>1. c \in Seq(Byte) /\ handed = RawPacket(c)
      BY <2>1, <2>5, ReadFits DEF Inv
    <3>2. buffer \in Seq(Byte) /\ Len(buffer) <= 512 /\ Len(c) <= Len(buffer)
      BY <2>5 DEF Inv
    <3> HIDE DEF c
    <3>3. /\ \E p : handed = {p}
          /\ \A p \in handed : p.at + 5 <= Len(c) /\ p.at \in Nat
      BY <2>5, <3>1, AtMostOne
    <3>4. Len(c) \in Nat /\ Len(buffer) \in Nat
      BY <3>1, <3>2, LenProperties
    <3>5. \A p \in handed : p.at + 5 <= Len(buffer)
      BY <3>2, <3>3, <3>4
    <3>6. PICK p : handed = {p}
      BY <3>3
    <3> DEFINE D == Deserialize(Network, p.data)
               a == SubSeq(buffer, p.at, p.at + 5)
    <3>7. delivered = {} \/ delivered = HandedOn(D, a, p.rssi)
      BY <3>6, ReceivedIs DEF Inv
    <3>8. D = {} \/ \E m : D = {m}
      BY Zenon DEF Deserialize
    <3> HIDE DEF D, a
    <3>9. delivered = {} \/ \E d : delivered = {d}
      BY <3>7, <3>8 DEF HandedOn
    <3>10. Cardinality({}) = 0 /\ \A d : Cardinality({d}) = 1
      BY FS_EmptySet, FS_Singleton
    <3>11. Cardinality(delivered) <= 1
      BY <3>9, <3>10
    <3> QED BY <2>2, <2>3, <3>2, <3>5, <3>11 DEF Inv, TypeOK, MAX_PACKET_SIZE
  <2> QED BY <2>4, <2>5
<1> QED BY <1>1, InvHolds, PTL

\* The filter passes exactly the ESP-NOW frames to the bridge or to all nodes, whatever
\* header the capture has and whatever the frame is.
THEOREM FilterIsExact ==
  ASSUME MacIsClear
  PROVE  Spec => []FilterExact
<1>1. Inv => FilterExact
  <2> SUFFICES ASSUME Inv, stage = "captured"
               PROVE  Passes(frame) <=> IsEspNow(SubSeq(frame, RadiotapLen(frame) + 1, Len(frame)))
    BY DEF FilterExact
  <2>1. frame \in Seq(Byte) /\ Len(frame) >= 8
    BY CapturesFacts DEF Inv
  <2> DEFINE l == Len(frame)
  <2>2. l \in Nat /\ l >= 8
    BY <2>1, LenProperties
  <2> HIDE DEF l
  <2>3. l >= 4
    BY <2>2
  <2>4. frame \in Seq(Byte) /\ Len(frame) >= 4
    BY <2>1, <2>3 DEF l
  <2> QED BY <2>4, FilterDecides
<1> QED BY <1>1, InvHolds, PTL

\* What a capture of an unaltered frame to the bridge or to all nodes gives.
LEMMA Intact ==
  ASSUME Inv, stage = "done", ~origin.altered
  PROVE  \E d, src, e :
           /\ Carries(d) /\ Told(e, radiotap) /\ (src = SenderMac \/ reread)
           /\ delivered = IF Passes(frame) THEN HandedOn(Deserialize(Network, d), src, e) ELSE {}
           /\ MacIsClear /\ origin.dst \in {LocalMac, Broadcast} => Passes(frame)
<1>1. GoodHeader(radiotap) /\ Chosen
  BY CapturesFacts DEF Inv
<1>2. PICK f \in OnAir, u \in Seq(Byte) : u \in Trailers /\ frame = RadiotapBytes(radiotap) \o f \o u
  BY CapturesFacts DEF Inv
<1>3. f \in Sent
  BY DEF OnAir
<1>4. PICK d : Carries(d) /\ f = ActionFrame(origin.dst, SenderMac, d)
  BY <1>1, <1>3, SentFacts
<1>5. d \in Seq(Byte) /\ Within(Len(d), 20, 250)
  BY <1>1, <1>4, CarriedFacts
<1>6. Within(Len(d), 0, 250)
  <2> DEFINE x == Len(d)
  <2>1. Within(x, 20, 250)
    BY <1>5
  <2> HIDE DEF x
  <2>2. Within(x, 0, 250)
    BY <2>1
  <2> QED BY <2>2 DEF x
<1>7. origin.dst \in ByteString(6) /\ SenderMac \in ByteString(6)
  BY <1>1, ChosenFacts
<1> DEFINE c == RadiotapBytes(radiotap) \o ActionFrame(origin.dst, SenderMac, d) \o u
<1>8. frame = c
  BY <1>2, <1>4
<1> DEFINE y == Read(c)
           at == HeaderLength(radiotap) + 11
           e == Signal(y)
<1>9. /\ SubSeq(y, at, at + 5) = SenderMac /\ Told(e, radiotap)
      /\ RawPacket(y) = {[at |-> at, data |-> d, rssi |-> e]}
  <2>1. y = Read(RadiotapBytes(radiotap) \o ActionFrame(origin.dst, SenderMac, d) \o u)
    OBVIOUS
  <2> HIDE DEF y
  <2> QED BY <1>1, <1>5, <1>6, <1>7, <2>1, FrameRead
<1> HIDE DEF at, e
<1>10. ASSUME MacIsClear, origin.dst \in {LocalMac, Broadcast} PROVE Passes(c)
  BY <1>1, <1>5, <1>6, <1>7, <1>10, OwnPasses
<1>9a. y = Read(frame)
  BY <1>8
<1> HIDE DEF c, y
<1> DEFINE src == SubSeq(buffer, at, at + 5)
<1>11. CASE Passes(frame)
  <2> DEFINE p == [at |-> at, data |-> d, rssi |-> e]
  <2>1. handed = {p}
    BY <1>9, <1>9a, <1>11 DEF Inv
  <2>2. p.at = at /\ p.data = d /\ p.rssi = e
    OBVIOUS
  <2> HIDE DEF p
  <2>3. delivered = HandedOn(Deserialize(Network, d), src, e)
    BY <2>1, <2>2, ReceivedIs DEF Inv
  <2>4. src = SenderMac \/ reread
    <3>1. reread \/ buffer = Read(frame)
      BY <2>1 DEF Inv
    <3> QED BY <1>9, <1>9a, <3>1
  <2> HIDE DEF src
  <2> QED BY <1>4, <1>9, <1>11, <2>3, <2>4
<1>12. CASE ~Passes(frame)
  <2>1. delivered = {}
    BY <1>12 DEF Inv, Received
  <2> QED BY <1>4, <1>8, <1>9, <1>10, <1>12, <2>1
<1> QED BY <1>11, <1>12

\* A message of this network to the bridge or to all nodes passes the filter, is found
\* behind any header, aligned as drivers do, and before any trailer, and deserializes to
\* what was sent; its signal's strength is found if nothing in the header is padded.
THEOREM FittingIsAccepted ==
  ASSUME MacIsClear
  PROVE  Spec => []FittingAccepted
<1>1. Inv => FittingAccepted
  <2> SUFFICES ASSUME Inv, stage = "done", ~origin.altered, origin.net = Network,
                      origin.dst \in {LocalMac, Broadcast}
               PROVE  \E d \in delivered : Told(d.rssi, radiotap)
    BY DEF FittingAccepted, DriverSignal, Rssi, Told
  <2>1. PICK d, src, e :
          /\ Carries(d) /\ Told(e, radiotap)
          /\ delivered = HandedOn(Deserialize(Network, d), src, e)
    BY Intact
  <2>2. Chosen
    BY DEF Inv
  <2>3. Deserialize(Network, d) = {origin.m}
    BY <2>1, <2>2, CarriedFacts
  <2>4. [m |-> origin.m, src |-> src, rssi |-> e] \in delivered
    BY <2>1, <2>3 DEF HandedOn
  <2> QED BY <2>1, <2>4
<1> QED BY <1>1, InvHolds, PTL

------------------------------------------------------------------------------
(* What is altered on the way.                                             *)

\* Two numbers that differ, but by less than 256, differ in a byte.
LEMMA SameRemainder ==
  ASSUME NEW x \in Int, NEW y \in Int, x - y \in -255..255, (x % 256) = (y % 256)
  PROVE  x = y
<1>1. /\ x = 256 * (x \div 256) + (x % 256) /\ (x \div 256) \in Int
      /\ y = 256 * (y \div 256) + (y % 256) /\ (y \div 256) \in Int
      /\ (x % 256) \in Int
  OBVIOUS
<1> DEFINE i == x \div 256
           j == y \div 256
           r == x % 256
<1>2. x = 256 * i + r /\ y = 256 * j + r /\ i \in Int /\ j \in Int /\ r \in Int
  BY <1>1
<1> HIDE DEF i, j, r
<1>3. i = j
  BY <1>2
<1> QED BY <1>2, <1>3

\* The checksum finds every error in a single byte, itself included.
LEMMA OneByteWrong ==
  ASSUME NEW s \in Seq(Byte), NEW t \in Seq(Byte), Len(s) = Len(t), Len(s) >= 7,
         NEW p \in 1..7, \A i \in 1..Len(s) : i # p => s[i] = t[i], s[p] # t[p],
         s[5] = Checksum(s, s[5])
  PROVE  t[5] # Checksum(t, t[5])
<1>1. p \in 1..Len(s) /\ 5 \in 1..Len(s) /\ p \in 1..Len(t)
  <2> DEFINE l == Len(s)
  <2>1. l \in Nat /\ l >= 7
    BY LenProperties
  <2> HIDE DEF l
  <2>2. p \in 1..l /\ 5 \in 1..l
    BY <2>1
  <2> QED BY <2>2 DEF l
<1>2. s[p] \in Byte /\ t[p] \in Byte /\ s[5] \in Byte /\ t[5] \in Byte
  BY <1>1, ElementOfSeq
<1> DEFINE o == SumOthers(s, p)
<1>3. o \in Nat /\ Sum(s) = (o + s[p]) % 256 /\ Sum(t) = (o + t[p]) % 256
  <2>1. SumOthers(s, p) = SumOthers(t, p)
    BY <1>1, SameOthers
  <2>2. Sum(t) = (SumOthers(t, p) + t[p]) % 256
    BY <1>1, SumSplit
  <2> QED BY <1>1, <2>1, <2>2, SumSplit
<1> HIDE DEF o
<1>4. ASSUME NEW a \in Byte, NEW b \in Byte, NEW n \in Nat, ((n + a) % 256) = ((n + b) % 256)
      PROVE  a = b
  <2>1. n + a \in Int /\ n + b \in Int /\ (n + a) - (n + b) \in -255..255
    BY DEF Byte
  <2>2. n + a = n + b
    BY <1>4, <2>1, SameRemainder
  <2> QED BY <2>2 DEF Byte
<1>5. ASSUME NEW a \in Byte, NEW b \in Byte, NEW c \in Byte, ((a - c) % 256) = ((b - c) % 256)
      PROVE  a = b
  <2>1. a - c \in Int /\ b - c \in Int /\ (a - c) - (b - c) \in -255..255
    BY DEF Byte
  <2>2. a - c = b - c
    BY <1>5, <2>1, SameRemainder
  <2> QED BY <2>2 DEF Byte
<1>6. \A a \in Byte : \A n \in Nat : (((n + a) % 256) - a) % 256 = n % 256
  BY DEF Byte
<1>7. SUFFICES ASSUME t[5] = (Sum(t) - t[5]) % 256 PROVE FALSE
  BY DEF Checksum
<1>8. s[5] = (Sum(s) - s[5]) % 256
  BY DEF Checksum
<1>9. CASE p = 5
  <2>1. s[5] = (((o + s[5]) % 256) - s[5]) % 256 /\ t[5] = (((o + t[5]) % 256) - t[5]) % 256
    BY <1>3, <1>7, <1>8, <1>9
  <2>2. /\ (((o + s[5]) % 256) - s[5]) % 256 = o % 256
        /\ (((o + t[5]) % 256) - t[5]) % 256 = o % 256
    BY <1>2, <1>3, <1>6
  <2> QED BY <1>9, <2>1, <2>2
<1>10. CASE p # 5
  <2>1. s[5] = t[5]
    BY <1>1, <1>10
  <2>2. Sum(s) \in Byte /\ Sum(t) \in Byte
    <3>1. \A x \in Nat : (x % 256) \in Byte
      BY DEF Byte
    <3>3. \A a \in Byte : o + a \in Nat
      BY <1>3 DEF Byte
    <3>2. o + s[p] \in Nat /\ o + t[p] \in Nat
      BY <1>2, <3>3
    <3> QED BY <1>3, <3>1, <3>2
  <2>3. Sum(s) = Sum(t)
    BY <1>2, <1>5, <1>7, <1>8, <2>1, <2>2
  <2> QED BY <1>2, <1>3, <1>4, <2>3
<1> QED BY <1>9, <1>10

\* The decrypted bytes, one by one.
LEMMA PlainFacts ==
  ASSUME NEW net, NEW d \in Seq(Byte), Len(d) >= 20
  PROVE  LET p == Plain(net, d)
         IN /\ p \in Seq(Byte) /\ Len(p) = Len(d) - 13
            /\ \A i \in 1..Len(d) - 13 :
                 p[i] = BitXor(d[13 + i], Block(net.password, SubSeq(d, 5, 12),
                                                (i - 1) \div 64, (i - 1) % 64))
<1> DEFINE l == Len(d)
           nonce == SubSeq(d, 5, 12)
           c == SubSeq(d, 14, l)
           p == Plain(net, d)
<1>1. l \in Nat /\ l >= 20
  BY LenProperties
<1> HIDE DEF l
<1>2. l - 13 \in Nat /\ 13 + (l - 13) = l /\ 13 + 1 = 14 /\ 13 \in Nat /\ l <= l
  BY <1>1
<1>3. c \in Seq(Byte) /\ Len(c) = l - 13 /\ \A i \in 1..l - 13 : c[i] = d[13 + i]
  <2>1. 13 + (l - 13) <= Len(d)
    BY <1>1, <1>2 DEF l
  <2> DEFINE x == SubSeq(d, 13 + 1, 13 + (l - 13))
  <2>2. x \in Seq(Byte) /\ Len(x) = l - 13 /\ \A i \in 1..l - 13 : x[i] = d[13 + i]
    BY <1>2, <2>1, Cut
  <2> QED BY <1>2, <2>2
<1>4. p = Crypt(net.password, nonce, c)
  <2>1. SubSeq(d, HeaderLen + 1, Len(d)) = SubSeq(d, 14, Len(d))
    BY DEF HeaderLen
  <2> QED BY <2>1, Zenon DEF Plain, l
<1> HIDE DEF c, nonce, p
<1>5. p \in Seq(Byte) /\ Len(p) = l - 13
  BY <1>3, <1>4, CryptFacts
<1>6. DOMAIN c = 1..l - 13
  BY <1>3, LenProperties
<1>7. \A i \in 1..l - 13 :
        p[i] = BitXor(c[i], Block(net.password, nonce, (i - 1) \div 64, (i - 1) % 64))
  BY <1>4, <1>6, Zenon DEF Crypt
<1> QED BY <1>3, <1>5, <1>7 DEF p, nonce, l


\* What an alteration can make of the data d: too short for a packet, or of another
\* length and so far the same, or with another byte behind the header.
Distorted(e, d) ==
  /\ e \in Seq(Byte)
  /\ \/ Len(e) < 20
     \/ Len(e) # Len(d) /\ Len(e) >= 20 /\ \A i \in 1..20 : e[i] = d[i]
     \/ Len(e) = Len(d) /\ \E j \in 14..20 : \A i \in 1..Len(d) : i # j => e[i] = d[i]

\* A packet whose header is the same is valid, or not, as that other one.
LEMMA SameHeader ==
  ASSUME NEW net, NEW d \in Seq(Byte), NEW e \in Seq(Byte), Len(d) >= 20, Len(e) >= 20,
         \A i \in 1..13 : e[i] = d[i]
  PROVE  /\ ValidHeader(net, e) = ValidHeader(net, d)
         /\ SubSeq(e, 5, 12) = SubSeq(d, 5, 12)
<1>1. Len(d) \in Nat /\ Len(e) \in Nat
  BY LenProperties
<1>2. /\ 0 + 4 <= Len(d) /\ 0 + 4 <= Len(e) /\ 4 + 8 <= Len(d) /\ 4 + 8 <= Len(e)
      /\ 0 \in Nat /\ 4 \in Nat /\ 8 \in Nat
  <2> DEFINE k == Len(d)
             l == Len(e)
  <2>1. k \in Nat /\ l \in Nat /\ k >= 20 /\ l >= 20
    BY <1>1
  <2> HIDE DEF k, l
  <2>2. 0 + 4 <= k /\ 0 + 4 <= l /\ 4 + 8 <= k /\ 4 + 8 <= l
    BY <2>1
  <2> QED BY <2>2 DEF k, l
<1>3. (\A i \in 1..4 : e[0 + i] = d[0 + i]) /\ (\A i \in 1..8 : e[4 + i] = d[4 + i])
  <2>1. (\A i \in 1..4 : 0 + i \in 1..13) /\ (\A i \in 1..8 : 4 + i \in 1..13)
    OBVIOUS
  <2> QED BY <2>1
<1>4. SubSeq(e, 0 + 1, 0 + 4) = SubSeq(d, 0 + 1, 0 + 4)
  BY <1>2, <1>3, SameCut
<1>5. SubSeq(e, 4 + 1, 4 + 8) = SubSeq(d, 4 + 1, 4 + 8)
  BY <1>2, <1>3, SameCut
<1>6. 0 + 1 = 1 /\ 0 + 4 = 4 /\ 4 + 1 = 5 /\ 4 + 8 = 12
  OBVIOUS
<1>7. SubSeq(e, 1, 4) = SubSeq(d, 1, 4) /\ SubSeq(e, 5, 12) = SubSeq(d, 5, 12)
  BY <1>4, <1>5, <1>6
<1>8. e[13] = d[13]
  OBVIOUS
<1> QED BY <1>7, <1>8, Zenon DEF ValidHeader, HeaderLen

\* The header of what another network sent is not valid here.
LEMMA OthersHeader ==
  ASSUME Chosen, NEW d, Carries(d), DistinctNetworks, origin.net # Network
  PROVE  ~ValidHeader(Network, d)
<1> DEFINE net == origin.net
           m == origin.m
<1>1. PICK nonce \in ByteString(8), reserved \in ByteString(3) : d = Serialize(net, m, nonce, reserved)
  BY DEF Carries
<1>2. net.ssid \in ByteString(4) /\ net.version \in Byte /\ Fits(m) /\ net \in Networks /\ net # Network
  BY ChosenFacts
<1> HIDE DEF net, m
<1>3. SubSeq(d, 1, 4) = net.ssid /\ d[13] = net.version
  BY <1>1, <1>2, SerializeFacts
<1>4. net.ssid # Network.ssid \/ net.version # PROTO_VERSION
  BY <1>2 DEF DistinctNetworks
<1> QED BY <1>3, <1>4, Zenon DEF ValidHeader, HeaderLen

\* No distorted data are taken for another message.
LEMMA DistortedRefused ==
  ASSUME Chosen, NEW d, Carries(d), DistinctNetworks, NEW e, Distorted(e, d)
  PROVE  /\ Deserialize(Network, e) \subseteq {origin.m}
         /\ origin.net # Network => Deserialize(Network, e) = {}
<1>1. /\ d \in Seq(Byte) /\ Within(Len(d), 20, 250) /\ e \in Seq(Byte)
      /\ origin.net = Network => Deserialize(Network, d) = {origin.m}
  BY CarriedFacts DEF Distorted
<1>2. Len(d) \in Nat /\ Len(e) \in Nat /\ Len(d) >= 20
  <2> DEFINE l == Len(d)
  <2>1. Within(l, 20, 250)
    BY <1>1
  <2> HIDE DEF l
  <2>2. l \in Nat /\ l >= 20
    BY <2>1
  <2> QED BY <1>1, <2>2, LenProperties DEF l
<1>3. CASE Len(e) < 20
  <2>1. ~(Len(e) >= 20)
    <3> DEFINE l == Len(e)
    <3>1. l \in Nat /\ l < 20
      BY <1>2, <1>3
    <3> HIDE DEF l
    <3>2. ~(l >= 20)
      BY <3>1
    <3> QED BY <3>2 DEF l
  <2>2. HeaderLen + PayloadLen = 20
    BY DEF HeaderLen, PayloadLen
  <2>3. Deserialize(Network, e) = {}
    BY <2>1, <2>2, Zenon DEF Deserialize
  <2> QED BY <2>3
<1>4. ASSUME Len(e) >= 20, \A i \in 1..13 : e[i] = d[i],
             origin.net = Network => ~ValidPayload(Plain(Network, e)) \/ Plain(Network, e) = Plain(Network, d)
      PROVE  /\ Deserialize(Network, e) \subseteq {origin.m}
             /\ origin.net # Network => Deserialize(Network, e) = {}
  <2>1. ValidHeader(Network, e) = ValidHeader(Network, d)
    BY <1>1, <1>2, <1>4, SameHeader
  <2>2. CASE origin.net # Network
    <3>1. ~ValidHeader(Network, e)
      BY <2>1, <2>2, OthersHeader
    <3>2. Deserialize(Network, e) = {}
      BY <3>1, Zenon DEF Deserialize
    <3> QED BY <3>2
  <2>3. CASE origin.net = Network /\ ~ValidPayload(Plain(Network, e))
    <3>1. Deserialize(Network, e) = {}
      BY <2>3, Zenon DEF Deserialize
    <3> QED BY <2>3, <3>1
  <2>4. CASE origin.net = Network /\ Plain(Network, e) = Plain(Network, d)
    <3>1. HeaderLen + PayloadLen = 20
      BY DEF HeaderLen, PayloadLen
    <3>2. Deserialize(Network, e) = Deserialize(Network, d)
      BY <1>2, <1>4, <2>1, <2>4, <3>1, Zenon DEF Deserialize
    <3> QED BY <1>1, <2>4, <3>2
  <2> QED BY <1>4, <2>2, <2>3, <2>4
<1>5. ASSUME origin.net = Network
      PROVE  ValidPayload(Plain(Network, d))
  BY <1>1, <1>5 DEF Deserialize
<1> DEFINE p == Plain(Network, d)
           q == Plain(Network, e)
           key(i) == Block(Network.password, SubSeq(d, 5, 12), (i - 1) \div 64, (i - 1) % 64)
<1>6. /\ p \in Seq(Byte) /\ Len(p) = Len(d) - 13
      /\ \A i \in 1..Len(d) - 13 : p[i] = BitXor(d[13 + i], key(i))
  BY <1>1, <1>2, PlainFacts
<1>7. ASSUME Len(e) >= 20, \A i \in 1..13 : e[i] = d[i]
      PROVE  /\ q \in Seq(Byte) /\ Len(q) = Len(e) - 13
             /\ \A i \in 1..Len(e) - 13 : q[i] = BitXor(e[13 + i], key(i))
  <2>1. SubSeq(e, 5, 12) = SubSeq(d, 5, 12)
    BY <1>1, <1>2, <1>7, SameHeader
  <2>2. /\ q \in Seq(Byte) /\ Len(q) = Len(e) - 13
        /\ \A i \in 1..Len(e) - 13 :
             q[i] = BitXor(e[13 + i], Block(Network.password, SubSeq(e, 5, 12),
                                            (i - 1) \div 64, (i - 1) % 64))
    BY <1>1, <1>7, PlainFacts
  <2> QED BY <2>1, <2>2
<1> HIDE DEF key
<1>8. CASE Len(e) # Len(d) /\ Len(e) >= 20 /\ \A i \in 1..20 : e[i] = d[i]
  <2>1. \A i \in 1..13 : e[i] = d[i]
    <3>1. \A i \in 1..13 : i \in 1..20
      OBVIOUS
    <3> QED BY <1>8, <3>1
  <2>2. /\ q \in Seq(Byte) /\ Len(q) = Len(e) - 13
        /\ \A i \in 1..Len(e) - 13 : q[i] = BitXor(e[13 + i], key(i))
    BY <1>7, <1>8, <2>1
  <2>3. q[6] = p[6] /\ q[7] = p[7]
    <3> DEFINE k == Len(d)
               l == Len(e)
    <3>3. k \in Nat /\ l \in Nat /\ k >= 20 /\ l >= 20
      BY <1>2, <1>8
    <3> HIDE DEF k, l
    <3>4. 6 \in 1..l - 13 /\ 6 \in 1..k - 13 /\ 7 \in 1..l - 13 /\ 7 \in 1..k - 13
      BY <3>3
    <3>1. 6 \in 1..Len(e) - 13 /\ 6 \in 1..Len(d) - 13 /\ 7 \in 1..Len(e) - 13 /\ 7 \in 1..Len(d) - 13
      BY <3>4 DEF k, l
    <3>2. e[13 + 6] = d[13 + 6] /\ e[13 + 7] = d[13 + 7]
      <4>1. 13 + 6 \in 1..20 /\ 13 + 7 \in 1..20
        OBVIOUS
      <4> QED BY <1>8, <4>1
    <3> QED BY <1>6, <2>2, <3>1, <3>2
  <2>4. Len(p) # Len(q)
    <3>1. \A x, y \in Nat : x # y => x - 13 # y - 13
      OBVIOUS
    <3>2. Len(p) = Len(d) - 13 /\ Len(q) = Len(e) - 13 /\ Len(d) # Len(e)
      BY <1>6, <1>8, <2>2
    <3> HIDE DEF p, q
    <3> QED BY <1>2, <3>1, <3>2
  <2>5. ASSUME origin.net = Network PROVE ~ValidPayload(q)
    <3>1. PayloadLen + p[6] + p[7] = Len(p)
      BY <1>5, <2>5 DEF ValidPayload
    <3> HIDE DEF p, q
    <3>2. PayloadLen + q[6] + q[7] # Len(q)
      BY <2>3, <2>4, <3>1
    <3> QED BY <3>2 DEF ValidPayload
  <2> QED BY <1>4, <1>8, <2>1, <2>5
<1>9. ASSUME Len(e) = Len(d), NEW j \in 14..20, \A i \in 1..Len(d) : i # j => e[i] = d[i]
      PROVE  /\ Deserialize(Network, e) \subseteq {origin.m}
             /\ origin.net # Network => Deserialize(Network, e) = {}
  <2>1. Len(e) >= 20 /\ \A i \in 1..13 : e[i] = d[i]
    <3>1. \A i \in 1..13 : i \in 1..Len(d) /\ i # j
      BY <1>2
    <3> QED BY <1>2, <1>9, <3>1
  <2>2. /\ q \in Seq(Byte) /\ Len(q) = Len(d) - 13
        /\ \A i \in 1..Len(d) - 13 : q[i] = BitXor(e[13 + i], key(i))
    BY <1>7, <1>9, <2>1
  <2>3. \A i \in 1..Len(p) : i # j - 13 => p[i] = q[i]
    <3> SUFFICES ASSUME NEW i \in 1..Len(p), i # j - 13 PROVE p[i] = q[i]
      OBVIOUS
    <3>1. i \in 1..Len(d) - 13 /\ 13 + i \in 1..Len(d) /\ 13 + i # j
      BY <1>2, <1>6
    <3>2. e[13 + i] = d[13 + i]
      BY <1>9, <3>1
    <3> QED BY <1>6, <2>2, <3>1, <3>2
  <2>4. Len(p) = Len(q) /\ Len(p) >= 7 /\ j - 13 \in 1..7 /\ Len(p) \in Nat
    BY <1>2, <1>6, <2>2
  <2>5. ASSUME origin.net = Network PROVE ~ValidPayload(q) \/ q = p
    <3>1. p[5] = Checksum(p, p[5])
      BY <1>5, <2>5 DEF ValidPayload
    <3>2. p \in Seq(Byte) /\ q \in Seq(Byte)
      BY <1>6, <2>2
    <3> HIDE DEF p, q
    <3>3. CASE p[j - 13] # q[j - 13]
      <4> DEFINE k == j - 13
      <4>1. k \in 1..7 /\ p[k] # q[k] /\ \A i \in 1..Len(p) : i # k => p[i] = q[i]
        BY <2>3, <2>4, <3>3
      <4> HIDE DEF k
      <4>2. q[5] # Checksum(q, q[5])
        BY <2>4, <3>1, <3>2, <4>1, OneByteWrong
      <4> QED BY <4>2 DEF ValidPayload
    <3>4. CASE p[j - 13] = q[j - 13]
      <4>1. \A i \in 1..Len(p) : p[i] = q[i]
        BY <2>3, <3>4
      <4>2. p = q
        BY <2>4, <3>2, <4>1, SeqEqual
      <4> QED BY <4>2
    <3> QED BY <3>3, <3>4
  <2> QED BY <1>4, <2>1, <2>5
<1> QED BY <1>3, <1>8, <1>9 DEF Distorted


\* What the adapter reads from a captured frame that was altered.
LEMMA AlteredRead ==
  ASSUME Detectable, NEW r, GoodHeader(r), NEW dst \in ByteString(6), NEW src \in ByteString(6),
         NEW d \in Seq(Byte), Within(Len(d), 20, 250), NEW a \in Alterations,
         NEW u \in Seq(Byte), u \in Trailers,
         NEW c, c = Read(RadiotapBytes(r) \o Altered(ActionFrame(dst, src, d), a) \o u),
         NEW p \in RawPacket(c)
  PROVE  Distorted(p.data, d) /\ (Len(p.data) < 20 \/ SubSeq(c, p.at, p.at + 5) = src)
<1> DEFINE f == ActionFrame(dst, src, d)
           x == Altered(f, a)
           l == Len(d)
           at == a.at
<1>1. Within(l, 20, 250)
  OBVIOUS
<1>2. /\ f \in Seq(Byte) /\ Len(f) = 39 + l /\ f[34] = l + 5
      /\ At(f, 10, src) /\ At(f, 39, d)
  <2>1. Within(Len(d), 0, 250)
    <3> HIDE DEF l
    <3>1. Within(l, 0, 250)
      BY <1>1
    <3> QED BY <3>1 DEF l
  <2> QED BY <2>1, FrameFacts
<1> HIDE DEF f, l
<1>3. Within(Len(f), 59, 289)
  BY <1>1, <1>2
<1>4. /\ x \in Seq(Byte) /\ Len(x) <= 289
      /\ a.byte = -1 => Len(x) = at
      /\ a.byte # -1 => Len(x) = Len(f) /\ \A i \in 1..Len(f) : i # at => x[i] = f[i]
  BY <1>2, <1>3, AlteredFacts
<1>5. Within(at, 1, 59)
  <2>1. a.at \in 1..39 + 13 + 7 /\ a.byte \in Byte \cup {-1}
    BY CaptureAssumption DEF ActionFrameLen, HeaderLen, PayloadLen
  <2>2. \A k \in 1..39 + 13 + 7 : Within(k, 1, 59)
    OBVIOUS
  <2> QED BY <2>1, <2>2
<1> HIDE DEF x
<1> DEFINE z == HeaderLength(r)
           s == Signal(c)
<1>5a. /\ c \in Seq(Byte) /\ z \in Nat
       /\ \E g \in Seq(Byte) :
            /\ At(g, 0, x) /\ Len(g) <= Len(x) + Len(u)
            /\ Behind(c, z, g) /\ RawPacket(c) = Taken(g, z, s)
  <2>1. x \in Seq(Byte) /\ Len(x) <= 289
    BY <1>4
  <2>2. c = Read(RadiotapBytes(r) \o x \o u)
    BY DEF x, f
  <2>3. LET y == Read(RadiotapBytes(r) \o x \o u)
        IN /\ y \in Seq(Byte) /\ z \in Nat
           /\ \E g \in Seq(Byte) :
                /\ At(g, 0, x) /\ Len(g) <= Len(x) + Len(u)
                /\ Behind(y, z, g) /\ RawPacket(y) = Taken(g, z, Signal(y))
    BY <2>1, FrameFound DEF z
  <2> HIDE DEF z
  <2> QED BY <2>2, <2>3, Zenon DEF s
<1> HIDE DEF z, s
<1>6. PICK g \in Seq(Byte) :
        /\ At(g, 0, x) /\ Len(g) <= Len(x) + Len(u)
        /\ Behind(c, z, g) /\ RawPacket(c) = Taken(g, z, s)
  BY <1>5a
<1> DEFINE n == DataLen(g[34])
<1>7. /\ Len(g) >= 39 /\ Len(g) >= 39 + n
      /\ SubSeq(c, p.at, p.at + 5) = SubSeq(g, 11, 16) /\ p.data = SubSeq(g, 39 + 1, 39 + n)
  <2>1. p \in Taken(g, z, s)
    BY <1>6
  <2>2. PICK q \in ActionData(g) : p = [at |-> z + q.at, data |-> q.data, rssi |-> s]
    BY <2>1 DEF Taken
  <2>3. /\ Len(g) >= 39 /\ Len(g) >= 39 + n
        /\ q = [at |-> 11, data |-> SubSeq(g, 39 + 1, 39 + n)]
    BY DEF ActionData, ActionFrameLen
  <2>4. p.at = z + 11 /\ p.data = SubSeq(g, 39 + 1, 39 + n)
    BY <2>2, <2>3
  <2>5. SubSeq(c, z + 11, z + 11 + 5) = SubSeq(g, 11, 16)
    BY <1>5a, <1>6, <2>3, AddressBehind
  <2> HIDE DEF n
  <2> QED BY <2>3, <2>4, <2>5
<1>8. Len(g) \in Nat
  BY <1>6, LenProperties
<1>9. Within(n, 0, 255)
  <2>1. g[34] \in Byte
    <3>1. 34 \in 1..Len(g)
      BY <1>7, <1>8
    <3> QED BY <1>6, <3>1, ElementOfSeq
  <2>2. \A y \in Byte : Within((y - 5) % 256, 0, 255)
    BY DEF Byte
  <2> QED BY <2>1, <2>2 DEF DataLen
<1>10. n = l \/ g[34] # l + 5
  <2>1. CASE g[34] = l + 5
    <3>1. g[34] - 5 = l
      BY <1>1, <2>1
    <3>2. Within(l, 0, 255)
      BY <1>1
    <3>3. (l % 256) = l
      BY <3>2, SmallRemainder
    <3> QED BY <3>1, <3>3, Zenon DEF DataLen
  <2> QED BY <2>1
<1> HIDE DEF n
<1> DEFINE e == SubSeq(g, 39 + 1, 39 + n)
<1>11. e \in Seq(Byte) /\ Len(e) = n /\ \A i \in 1..n : e[i] = g[39 + i]
  <2>1. 39 \in Nat /\ n \in Nat /\ 39 + n <= Len(g)
    BY <1>7, <1>8, <1>9
  <2> QED BY <1>6, <2>1, Cut
<1> HIDE DEF e
<1>12. p.data = e
  BY <1>7 DEF e
<1>13. CASE n < 20
  BY <1>11, <1>12, <1>13 DEF Distorted
<1>14. CASE a.byte = -1
  <2>1. at + Len(u) < 59 /\ Len(u) \in Nat
    <3>1. -1 \notin Byte
      BY DEF Byte
    <3>2. a.byte \notin Byte
      BY <1>14, <3>1
    <3>3. \A v \in Trailers : a.at + Len(v) < 59
      BY <3>2 DEF Detectable
    <3> QED BY <3>3, LenProperties
  <2>2. Len(g) <= at + Len(u)
    BY <1>4, <1>6, <1>14
  <2>3. n < 20
    <3> DEFINE k == Len(g)
               w == Len(u)
    <3>1. k \in Nat /\ w \in Nat /\ k >= 39 + n /\ at + w < 59 /\ k <= at + w
      BY <1>7, <1>8, <2>1, <2>2
    <3> HIDE DEF k, w, at
    <3> QED BY <1>5, <1>9, <3>1
  <2> QED BY <1>13, <2>3
<1>15. CASE a.byte # -1 /\ n >= 20
  <2>1. at \notin 11..16 /\ at \notin 40..52
    BY <1>15 DEF Detectable
  <2>2. 0 + Len(x) <= Len(g) /\ \A i \in 1..Len(x) : g[0 + i] = x[i]
    BY <1>6 DEF At
  <2>3. ASSUME NEW i \in 1..39 + l, i # at PROVE g[i] = f[i]
    <3>1. i \in 1..Len(f) /\ i \in 1..Len(x) /\ 0 + i = i
      BY <1>1, <1>2, <1>4, <1>15
    <3> QED BY <1>4, <1>15, <2>2, <2>3, <3>1
  <2>4. SubSeq(c, p.at, p.at + 5) = src
    <3>1. src \in Seq(Byte) /\ Len(src) = 6
      <4>1. 6 \in Nat
        OBVIOUS
      <4> QED BY <4>1, ByteStrings
    <3>2. \A i \in 1..6 : g[10 + i] = src[i]
      <4> SUFFICES ASSUME NEW i \in 1..6 PROVE g[10 + i] = src[i]
        OBVIOUS
      <4>3. 10 + i \in 11..16
        OBVIOUS
      <4>1. 10 + i \in 1..39 + l /\ 10 + i # at
        <5>1. 10 + i # at
          BY <2>1, <4>3, Zenon
        <5>2. 10 + i \in 1..39 + l
          BY <1>1
        <5> QED BY <5>1, <5>2
      <4>2. f[10 + i] = src[i]
        BY <1>2, <3>1 DEF At
      <4> QED BY <2>3, <4>1, <4>2
    <3>3. At(g, 10, src)
      <4>1. 10 + 6 <= Len(g)
        BY <1>7, <1>8
      <4> QED BY <3>1, <3>2, <4>1 DEF At
    <3>4. SubSeq(g, 10 + 1, 10 + 6) = src
      <4>1. 10 \in Nat
        OBVIOUS
      <4>2. SubSeq(g, 10 + 1, 10 + Len(src)) = src
        BY <1>6, <3>1, <3>3, <4>1, AtCut
      <4> QED BY <3>1, <4>2
    <3>5. SubSeq(g, 11, 16) = src
      BY <3>4
    <3> QED BY <1>7, <3>5, Zenon
  <2>5. ASSUME NEW i \in 1..n, i <= l, 39 + i # at PROVE e[i] = d[i]
    <3>1. 39 + i \in 1..39 + l /\ i \in 1..l
      BY <1>1, <1>9, <2>5
    <3>2. g[39 + i] = f[39 + i]
      BY <2>3, <2>5, <3>1
    <3>3. f[39 + i] = d[i]
      BY <1>2, <3>1 DEF At, l
    <3> QED BY <1>11, <3>2, <3>3
  <2>6. CASE n = l
    <3> DEFINE j == IF at >= 53 THEN at - 39 ELSE 14
    <3>1. j \in 14..20 /\ (at >= 40 => 39 + j = at)
      <4> HIDE DEF at
      <4>1. CASE at >= 53
        BY <1>5, <4>1
      <4>2. CASE ~(at >= 53)
        BY <1>5, <2>1, <4>2
      <4> QED BY <4>1, <4>2
    <3> HIDE DEF j
    <3>2. ASSUME NEW i \in 1..l, i # j PROVE e[i] = d[i]
      <4>1. i \in 1..n /\ i <= l /\ 39 + i # at
        BY <1>1, <1>5, <2>6, <3>1, <3>2
      <4> QED BY <2>5, <4>1
    <3>3. Len(e) = Len(d) /\ \A i \in 1..Len(d) : i # j => e[i] = d[i]
      BY <1>11, <2>6, <3>2 DEF l
    <3> QED BY <1>11, <1>12, <2>4, <3>1, <3>3 DEF Distorted
  <2>7. CASE n # l
    <3>1. at = 34
      <4>1. g[34] # f[34]
        BY <1>2, <1>10, <2>7
      <4>2. 34 \in 1..39 + l
        BY <1>1
      <4> QED BY <2>3, <4>1, <4>2
    <3>2. \A i \in 1..20 : e[i] = d[i]
      <4> SUFFICES ASSUME NEW i \in 1..20 PROVE e[i] = d[i]
        OBVIOUS
      <4>1. i \in 1..n /\ i <= l /\ 39 + i # at
        BY <1>1, <1>9, <1>15, <3>1
      <4> QED BY <2>5, <4>1
    <3>3. Len(e) # Len(d) /\ Len(e) >= 20
      BY <1>11, <1>15, <2>7 DEF l
    <3> QED BY <1>11, <1>12, <2>4, <3>2, <3>3 DEF Distorted
  <2> QED BY <2>6, <2>7
<1> QED BY <1>9, <1>13, <1>14, <1>15

\* Whatever is delivered is what a node of this network sent: the header keeps other
\* networks out, and the lengths and the checksum find every alteration of a byte, and
\* every loss, that the definition of Detectable describes. It has the sender's address
\* if the buffer was not read into before that was taken from it.
THEOREM DeliveredIsIntact ==
  ASSUME DistinctNetworks, Detectable
  PROVE  Spec => []DeliveredIntact
<1>1. Inv => DeliveredIntact
  <2> SUFFICES ASSUME Inv, NEW x \in delivered
               PROVE  origin.net = Network /\ x.m = origin.m /\ (x.src = SenderMac \/ reread)
    BY DEF DeliveredIntact
  <2>1. stage = "done" /\ delivered = Received
    BY DEF Inv
  <2>2. Chosen /\ GoodHeader(radiotap)
    BY <2>1, CapturesFacts DEF Inv
  <2>3. CASE ~origin.altered
    <3>1. PICK d, src, e :
            /\ Carries(d) /\ (src = SenderMac \/ reread)
            /\ delivered = HandedOn(Deserialize(Network, d), src, e)
      BY <2>1, <2>3, Intact
    <3>2. PICK m \in Deserialize(Network, d) : x = [m |-> m, src |-> src, rssi |-> e]
      BY <3>1 DEF HandedOn
    <3>3. origin.net = Network /\ m = origin.m
      BY <2>2, <3>1, <3>2, CarriedFacts
    <3> QED BY <3>1, <3>2, <3>3
  <2>4. CASE origin.altered
    <3>1. PICK y \in OnAir, u \in Seq(Byte) : u \in Trailers /\ frame = RadiotapBytes(radiotap) \o y \o u
      BY <2>1, <2>2, CapturesFacts DEF Inv
    <3>2. PICK f \in Sent, a \in Alterations : y = Altered(f, a)
      BY <2>4, <3>1 DEF OnAir
    <3>3. PICK d : Carries(d) /\ f = ActionFrame(origin.dst, SenderMac, d)
      BY <2>2, <3>2, SentFacts
    <3>4. d \in Seq(Byte) /\ Within(Len(d), 20, 250)
      BY <2>2, <3>3, CarriedFacts
    <3>5. origin.dst \in ByteString(6) /\ SenderMac \in ByteString(6)
      BY <2>2, ChosenFacts
    <3> DEFINE c == Read(frame)
    <3>6. c = Read(RadiotapBytes(radiotap) \o Altered(ActionFrame(origin.dst, SenderMac, d), a) \o u)
      BY <3>1, <3>2, <3>3
    <3>12. PICK p \in handed :
             x \in {[m |-> m, src |-> SubSeq(buffer, p.at, p.at + 5), rssi |-> p.rssi]
                      : m \in Deserialize(Network, p.data)}
      BY <2>1 DEF Received
    <3>7. PICK m \in Deserialize(Network, p.data) :
            x = [m |-> m, src |-> SubSeq(buffer, p.at, p.at + 5), rssi |-> p.rssi]
      BY <3>12
    <3>13. p \in RawPacket(c) /\ (reread \/ buffer = c)
      BY DEF Inv
    <3> HIDE DEF c
    <3>8. Distorted(p.data, d) /\ (Len(p.data) < 20 \/ SubSeq(c, p.at, p.at + 5) = SenderMac)
      BY <2>2, <3>1, <3>4, <3>5, <3>6, <3>13, AlteredRead
    <3>9. /\ Deserialize(Network, p.data) \subseteq {origin.m}
          /\ origin.net # Network => Deserialize(Network, p.data) = {}
      BY <2>2, <3>3, <3>8, DistortedRefused
    <3>10. Len(p.data) >= 20
      <4>1. HeaderLen + PayloadLen = 20
        BY DEF HeaderLen, PayloadLen
      <4> QED BY <3>7, <4>1 DEF Deserialize
    <3>11. SubSeq(c, p.at, p.at + 5) = SenderMac
      <4>1. Len(p.data) \in Nat
        BY <3>8, LenProperties DEF Distorted
      <4> DEFINE n == Len(p.data)
      <4>2. n \in Nat /\ n >= 20 /\ (n < 20 \/ SubSeq(c, p.at, p.at + 5) = SenderMac)
        BY <3>8, <3>10, <4>1
      <4> HIDE DEF n
      <4> QED BY <4>2
    <3>14. x.src = SenderMac \/ reread
      BY <3>7, <3>11, <3>13
    <3> QED BY <3>7, <3>9, <3>14
  <2> QED BY <2>3, <2>4 DEF Chosen
<1> QED BY <1>1, InvHolds, PTL
==============================================================================
