-------------------------- MODULE DirectionAlgebra --------------------------
(***************************************************************************)
(* The direction algebra of the pack-info generator: which neighbour      *)
(* directions must carry a field access with a given offset.              *)
(* Source: src/python/pystencils_walberla/codegen.py, comm_directions and  *)
(* binary_numbers (lines 504-524), and pystencils.stencil.inverse_direction*)
(* as used at lines 222 and 367.                                           *)
(*                                                                         *)
(* A direction or offset is a tuple of integers, one per spatial axis      *)
(* (a function with domain 1..Len).  comm_directions is a generator whose  *)
(* callers only put its results into dictionary keys, so it is modelled    *)
(* as the set of what it yields (it yields some directions several times). *)
(***************************************************************************)
EXTENDS Integers, Sequences

(* The vectors of length d with components in {-1,0,1}: the first         *)
(* neighbourhood, the only offsets the code supports.                      *)
Offsets(d) == [1..d -> {-1, 0, 1}]

ZeroVector(d) == [i \in 1..d |-> 0]

IsZero(v) == \A i \in DOMAIN v : v[i] = 0

(* pystencils.stencil.inverse_direction: negate every component.          *)
InverseDirection(v) == [i \in DOMAIN v |-> -v[i]]

(* binary_numbers(n): every list of n digits 0/1 (lines 518-524).          *)
BinaryNumbers(n) == [1..n -> {0, 1}]

(* Mutant: the override of line 512 dropped, so that a -1 axis keeps the  *)
(* bit's sign.                                                             *)
AdjustNoNegative(direction, bits) ==
    [i \in DOMAIN direction |-> IF direction[i] = 0 THEN 0 ELSE bits[i]]

(* One pass of the inner loop of comm_directions (lines 509-513) over the  *)
(* candidate `bits`: an axis where the direction is 0 is forced to 0, an   *)
(* axis where the direction is -1 and the bit is 1 is forced to -1, every  *)
(* other axis keeps its bit.  Note that a component of magnitude 2 keeps   *)
(* its bit, with either sign.                                              *)
Adjust(direction, bits) ==
    [i \in DOMAIN direction |->
        IF direction[i] = 0 THEN 0
        ELSE IF direction[i] = -1 /\ bits[i] = 1 THEN -1
        ELSE bits[i]]

(* Mutant: no fan-out, a non-zero offset communicated in its own direction *)
(* only.                                                                   *)
CommDirectionsNoFanOut(direction) == {direction}

(* comm_directions(direction) (lines 504-515): the zero vector yields      *)
(* itself; every candidate is adjusted and yielded unless it is zero.      *)
CommDirections(direction) ==
    (IF IsZero(direction) THEN {direction} ELSE {})
    \cup {c \in {Adjust(direction, b) : b \in BinaryNumbers(Len(direction))} :
             ~IsZero(c)}

(* The reference of spec.md section 8: the non-zero vectors obtained from  *)
(* an offset by zeroing any of its non-zero components.                    *)
SubVectors(o) ==
    {v \in [DOMAIN o -> {-1, 0, 1}] :
        /\ ~IsZero(v)
        /\ \A i \in DOMAIN o : v[i] = 0 \/ v[i] = o[i]}

(* Python's ordering of integer tuples (lexicographic; a proper prefix is  *)
(* smaller), used by sorted() on the direction-set keys at line 259.       *)
DirectionLess(a, b) ==
    \/ \E i \in 1..Len(a) :
          /\ i <= Len(b)
          /\ \A j \in 1..(i - 1) : a[j] = b[j]
          /\ a[i] < b[i]
    \/ /\ Len(a) < Len(b)
       /\ \A j \in 1..Len(a) : a[j] = b[j]

=============================================================================
