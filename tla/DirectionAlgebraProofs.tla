------------------------ MODULE DirectionAlgebraProofs ------------------------
(***************************************************************************)
(* Lemmas on the direction algebra of codegen.py (comm_directions and      *)
(* binary_numbers, lines 504-524, and inverse_direction), shared by the    *)
(* proofs about the pack-info generator and the MPI-datatype-info          *)
(* generator.                                                              *)
(***************************************************************************)
EXTENDS DirectionAlgebra, SequenceTheorems, TLAPS

(* A tuple of n components is a sequence of length n: Len of an offset is  *)
(* the number of spatial dimensions.                                       *)
LEMMA LenOfTuple ==
    ASSUME NEW n \in Nat, NEW S, NEW f \in [1..n -> S]
    PROVE  f \in Seq(S) /\ Len(f) = n
<1>1. f \in Seq(S)
    OBVIOUS
<1>2. DOMAIN f = 1..Len(f) /\ Len(f) \in Nat
    BY <1>1, LenProperties
<1>. QED
    BY <1>1, <1>2

(* Negating an offset keeps its components within the same bound.          *)
LEMMA InverseBounded ==
    ASSUME NEW n \in Nat, NEW M \in Nat, NEW o \in [1..n -> -M..M]
    PROVE  InverseDirection(o) \in [1..n -> -M..M]
BY DEF InverseDirection

(* comm_directions of any offset with components bounded by M >= 1 yields  *)
(* only directions of the same length bounded by M: every component of a  *)
(* yielded direction is -1, 0 or a bit.                                    *)
LEMMA CommDirectionsBounded ==
    ASSUME NEW n \in Nat, NEW M \in Nat \ {0}, NEW o \in [1..n -> -M..M]
    PROVE  CommDirections(o) \subseteq [1..n -> -M..M]
<1>1. Len(o) = n
    BY LenOfTuple
<1>2. ASSUME NEW b \in BinaryNumbers(n)
      PROVE  Adjust(o, b) \in [1..n -> -M..M]
    BY <1>2 DEF Adjust, BinaryNumbers
<1>. QED
    BY <1>1, <1>2 DEF CommDirections

(* For a non-zero offset with components in {-1, 0, 1}, the directions    *)
(* comm_directions yields (lines 504-515, every candidate of              *)
(* binary_numbers adjusted) are exactly the non-zero sub-vectors of the    *)
(* offset: every face, edge and corner direction a diagonal access reaches *)
(* and nothing else (spec.md section 8).                                   *)
THEOREM CommDirectionsClosedForm ==
    ASSUME NEW d \in Nat, NEW o \in [1..d -> {-1, 0, 1}], ~IsZero(o)
    PROVE  CommDirections(o) = SubVectors(o)
<1>1. Len(o) = d
    BY LenOfTuple
<1>2. ASSUME NEW b \in BinaryNumbers(d), ~IsZero(Adjust(o, b))
      PROVE  Adjust(o, b) \in SubVectors(o)
    BY <1>2 DEF Adjust, BinaryNumbers, SubVectors, IsZero
<1>3. ASSUME NEW v \in SubVectors(o)
      PROVE  \E b \in BinaryNumbers(d) : v = Adjust(o, b)
    <2>. DEFINE w == [i \in 1..d |-> IF v[i] = 0 THEN 0 ELSE 1]
    <2>1. w \in BinaryNumbers(d)
        BY DEF BinaryNumbers
    <2>2. v = Adjust(o, w)
        BY DEF SubVectors, Adjust
    <2>. QED
        BY <2>1, <2>2
<1>4. SubVectors(o) \subseteq {c \in {Adjust(o, b) : b \in BinaryNumbers(d)} : ~IsZero(c)}
    BY <1>3 DEF SubVectors
<1>. QED
    BY <1>1, <1>2, <1>4 DEF CommDirections

=============================================================================
