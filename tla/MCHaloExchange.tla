--------------------------- MODULE MCHaloExchange ---------------------------
(***************************************************************************)
(* Model-checking instance of HaloExchange: a two-dimensional block of    *)
(* 2 x 2 cells and the pack infos of two pull streaming kernels, D2Q9     *)
(* (face and diagonal reads) and D2Q5 (face reads only).                   *)
(***************************************************************************)
EXTENDS HaloExchange, TLC

MCFields == {1, 2}
MCFieldDType == [f \in MCFields |-> "float64"]
MCComps == 0..8

(* D2Q9 velocities in waLBerla order C, N, S, W, E, NW, NE, SW, SE.        *)
Velocity == <<<<0, 0>>, <<0, 1>>, <<0, -1>>, <<-1, 0>>, <<1, 0>>,
              <<-1, 1>>, <<1, 1>>, <<-1, -1>>, <<1, -1>>>>

Acc(f, o, c) == [field |-> f, offset |-> o, index |-> c]

(* The pull stream of Q directions: pdfs_tmp(c) = pdfs at -velocity(c).    *)
PullStream(Q) ==
    [entry |-> "kernel", kind |-> "pull", operator |-> FALSE, target |-> "CPU",
     assignments |-> [a \in 1..Q |->
        [isAssignment |-> TRUE,
         lhs |-> {Acc(2, <<0, 0>>, a - 1)},
         rhs |-> {Acc(1, InverseDirection(Velocity[a]), a - 1)}]],
     packTerms |-> EmptyMap, field |-> 1, subset |-> <<>>]

MCCalls == {PullStream(9), PullStream(5)}

=============================================================================
