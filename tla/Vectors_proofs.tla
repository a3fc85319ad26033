--------------------------- MODULE Vectors_proofs ---------------------------
(***************************************************************************)
(* What the vector operations return, for vectors of any element type.     *)
(***************************************************************************)
EXTENDS Vectors, SequenceTheorems, WellFoundedInduction, TLAPS

\* A function on 1..n is a sequence of length n.
LEMMA FunctionIsSeq ==
  ASSUME NEW T, NEW n \in Nat, NEW f \in [1 .. n -> T]
  PROVE  f \in Seq(T) /\ Len(f) = n
BY SeqDef

\* RemoveIndex, the erase of a vector, keeps the type and shifts the
\* elements behind the index.
LEMMA RemoveIndexProperties ==
  ASSUME NEW T, NEW s \in Seq(T), NEW n \in Nat \ {0}, n <= Len(s)
  PROVE  /\ RemoveIndex(s, n) \in Seq(T)
         /\ Len(RemoveIndex(s, n)) = Len(s) - 1
         /\ \A k \in 1 .. Len(s) : k < n => RemoveIndex(s, n)[k] = s[k]
         /\ \A k \in 1 .. Len(s) : k > n => RemoveIndex(s, n)[k - 1] = s[k]
<1> DEFINE r == RemoveIndex(s, n)
<1>1. Len(s) - 1 \in Nat
  OBVIOUS
<1>2. \A k \in 1 .. Len(s) - 1 : (IF k < n THEN s[k] ELSE s[k + 1]) \in T
  OBVIOUS
<1>3. r \in [1 .. Len(s) - 1 -> T]
  BY <1>2 DEF RemoveIndex
<1>4. r \in Seq(T) /\ Len(r) = Len(s) - 1
  BY <1>1, <1>3, FunctionIsSeq
<1>5. \A k \in 1 .. Len(s) : k < n => r[k] = s[k]
  BY DEF RemoveIndex
<1>6. \A k \in 1 .. Len(s) : k > n => r[k - 1] = s[k]
  BY DEF RemoveIndex
<1> QED
  BY <1>4, <1>5, <1>6

\* PopBack, the pop_back of a vector, keeps the type.
LEMMA PopBackType ==
  ASSUME NEW T, NEW s \in Seq(T), s # << >>
  PROVE  PopBack(s) \in Seq(T)
BY SubSeqProperties DEF PopBack

\* A set of natural numbers that is not empty has a least element.
LEMMA SmallestElement ==
  ASSUME NEW S \in SUBSET Nat, S # {}
  PROVE  \E k \in S : \A j \in S : k <= j
<1> DEFINE R == OpToRel(<, Nat)
<1>1. IsWellFoundedOn(R, Nat)
  BY NatLessThanWellFounded
<1>2. \A x, y \in Nat : x < y => <<x, y>> \in R
  BY DEF OpToRel
<1> HIDE DEF R
<1>3. PICK k \in S : \A j \in S : ~(<<j, k>> \in R)
  BY <1>1, WFMin
<1>4. ASSUME NEW j \in S PROVE k <= j
  <2>1. ~(j < k)
    BY <1>2, <1>3, Zenon
  <2> QED
    BY <2>1
<1> QED
  BY <1>4

\* FirstIndex, what std::find returns, is the first of the wanted positions,
\* or one past the end when there is none.
LEMMA FirstIndexProperties ==
  ASSUME NEW T, NEW s \in Seq(T), NEW S \in SUBSET DOMAIN s
  PROVE  /\ FirstIndex(s, S) \in 1 .. Len(s) + 1
         /\ FirstIndex(s, S) <= Len(s) => FirstIndex(s, S) \in S
         /\ FirstIndex(s, S) > Len(s) => S = {}
<1>1. CASE S = {}
  BY <1>1 DEF FirstIndex
<1>2. CASE S # {}
  <2>1. S \in SUBSET Nat
    OBVIOUS
  <2>2. \E k \in S : \A j \in S : k <= j
    BY <1>2, <2>1, SmallestElement
  <2>3. FirstIndex(s, S) = CHOOSE k \in S : \A j \in S : k <= j
    BY <1>2 DEF FirstIndex
  <2>4. FirstIndex(s, S) \in S
    BY <2>2, <2>3
  <2> QED
    BY <2>4
<1> QED
  BY <1>1, <1>2
=============================================================================
