-------------------------- MODULE MCMpiDtypeInfo ---------------------------
(***************************************************************************)
(* Model-checking instance of MpiDtypeInfo: two-dimensional kernels over   *)
(* a pdf field (one index dimension of 9 or 5 components), its temporary   *)
(* copy, a second pdf-like field, a scalar field and a tensor field.       *)
(***************************************************************************)
EXTENDS MpiDtypeInfo, TLC

\* 1: pdfs, 2: pdfs_tmp, 3: another vector field, 4: a scalar, 5: a tensor
MCFields == {1, 2, 3, 4, 5}
MCRank == (1 :> 1) @@ (2 :> 1) @@ (3 :> 1) @@ (4 :> 0) @@ (5 :> 2)
MCComps == 0..8

(* D2Q9 velocities in waLBerla order C, N, S, W, E, NW, NE, SW, SE.        *)
Velocity == <<<<0, 0>>, <<0, 1>>, <<0, -1>>, <<-1, 0>>, <<1, 0>>,
              <<-1, 1>>, <<1, 1>>, <<-1, -1>>, <<1, -1>>>>

Acc(f, o, idx) == [field |-> f, offset |-> o, index |-> idx]
Neg(o) == [i \in 1..2 |-> -o[i]]
Asg(l, r) == [isAssignment |-> TRUE, lhs |-> l, rhs |-> r]
Other == [isAssignment |-> FALSE, lhs |-> {}, rhs |-> {}]

(* Pull streaming over the first Q velocities: pdfs_tmp(a) = pdfs(a) read  *)
(* at the cell -c_a, after a node that is not an Assignment.               *)
PullStream(Q, f) ==
    [kind |-> "pull",
     assignments |-> <<Other>> \o [a \in 1..Q |->
         Asg({Acc(2, <<0, 0>>, <<a - 1>>)}, {Acc(f, Neg(Velocity[a]), <<a - 1>>)})]]

(* Push streaming: pdfs_tmp(a) at c_a = pdfs(a) at the centre.             *)
PushStream(Q) ==
    [kind |-> "push",
     assignments |-> [a \in 1..Q |->
         Asg({Acc(2, Velocity[a], <<a - 1>>)}, {Acc(1, <<0, 0>>, <<a - 1>>)})]]

PullOf(accs) == [kind |-> "pull", assignments |-> <<Asg({Acc(2, <<0, 0>>, <<0>>)}, accs)>>]

MCKernels ==
    { PullStream(9, 1), PushStream(5),
      \* neighbours of two fields are read: the assert of line 361
      [kind |-> "pull", assignments |-> PullStream(5, 1).assignments \o
                                        <<Asg({}, {Acc(3, <<1, 0>>, <<0>>)})>>],
      \* only the centre of a scalar: field.index_shape[0] raises (line 391)
      PullOf({Acc(4, <<0, 0>>, <<>>)}),
      \* a neighbour of a scalar: the index assert of line 369
      PullOf({Acc(4, <<1, 0>>, <<>>)}),
      \* a neighbour of a tensor field: the index assert of line 369
      PullOf({Acc(5, <<0, 1>>, <<1, 2>>)}),
      \* a read two cells away: the width assert of line 364
      PullOf({Acc(1, <<2, 0>>, <<1>>), Acc(1, <<1, 1>>, <<6>>)}),
      \* neither pull nor push: the assert of line 345
      [kind |-> "other", assignments |-> <<>>] }
=============================================================================
