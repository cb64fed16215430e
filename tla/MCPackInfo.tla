----------------------------- MODULE MCPackInfo -----------------------------
(***************************************************************************)
(* Model-checking instance of PackInfo in three dimensions: three fields  *)
(* (two of type float64, one float32), three components, offsets up to    *)
(* magnitude 2 so that the unsupported halo width can occur.               *)
(***************************************************************************)
EXTENDS PackInfo, TLC

MCFields == {1, 2, 3}
MCFieldDType == [f \in MCFields |-> IF f = 3 THEN "float32" ELSE "float64"]
MCComps == {0, 1, 2}

Z == <<0, 0, 0>>
Acc(f, o, c) == [field |-> f, offset |-> o, index |-> c]
Node(isA, l, r) == [isAssignment |-> isA, lhs |-> l, rhs |-> r]

KernelCall(kind, op, target, nodes) ==
    [entry |-> "kernel", kind |-> kind, operator |-> op, target |-> target,
     assignments |-> nodes, packTerms |-> EmptyMap, field |-> 1, subset |-> <<>>]
DirectCall(op, terms) ==
    [entry |-> "direct", kind |-> "pull", operator |-> op, target |-> "CPU",
     assignments |-> <<>>, packTerms |-> terms, field |-> 1, subset |-> <<>>]

(* A pull kernel with face, edge and corner neighbour reads, and a node   *)
(* that is not an Assignment (skipped by the code).                        *)
PullKernel ==
    KernelCall("pull", FALSE, "CPU",
      << Node(TRUE, {Acc(2, Z, 0)},
              {Acc(1, Z, 0), Acc(1, <<-1, -1, 0>>, 1), Acc(1, <<1, 0, -1>>, 2),
               Acc(1, <<-1, -1, -1>>, 1), Acc(1, <<0, 0, 1>>, 0), Acc(1, <<1, 1, 1>>, 2)}),
         Node(FALSE, {Acc(2, <<0, 1, 0>>, 0)}, {Acc(1, <<0, 1, 0>>, 0)}) >>)

(* A push kernel with a reduction operator.                                *)
PushKernel ==
    KernelCall("push", TRUE, "CPU",
      << Node(TRUE, {Acc(2, <<1, 1, 0>>, 0), Acc(2, Z, 1), Acc(2, <<0, -1, 1>>, 2)},
              {Acc(1, Z, 0)}) >>)

(* Calls that end in an exception: GPU without CUDA, no neighbour access,  *)
(* mixed data types, an offset of magnitude 2, a direction of magnitude 2. *)
GpuKernel == KernelCall("pull", FALSE, "GPU",
                 << Node(TRUE, {Acc(2, Z, 0)}, {Acc(1, <<1, 0, 0>>, 0)}) >>)
CenterKernel == KernelCall("pull", FALSE, "CPU",
                 << Node(TRUE, {Acc(2, Z, 0)}, {Acc(1, Z, 0), Acc(1, Z, 1)}) >>)
MixedKernel == KernelCall("pull", FALSE, "CPU",
                 << Node(TRUE, {Acc(2, Z, 0)}, {Acc(1, <<1, 0, 0>>, 0), Acc(3, <<0, 1, 0>>, 0)}) >>)
WideKernel == KernelCall("pull", FALSE, "CPU",
                 << Node(TRUE, {Acc(2, Z, 0)}, {Acc(1, <<2, 0, 0>>, 0), Acc(1, <<1, 0, 0>>, 1)}) >>)
DirectWide == DirectCall(FALSE, <<<<2, 0, 0>>>> :> {Acc(1, Z, 0)})
DirectMulti == DirectCall(TRUE, (<<<<1, 0, 0>>, <<1, 1, 0>>>> :> {Acc(1, Z, 0), Acc(1, Z, 1)})
                                @@ (<<<<0, 0, -1>>>> :> {Acc(1, Z, 2)}))

FieldCall(f, subset) ==
    [entry |-> "field", kind |-> "pull", operator |-> FALSE, target |-> "CPU",
     assignments |-> <<>>, packTerms |-> EmptyMap, field |-> f, subset |-> subset]

MCCalls == {FieldCall(2, <<>>), FieldCall(1, <<<<1, 0, 0>>, <<-1, 0, 0>>>>),
            PullKernel, PushKernel, GpuKernel, CenterKernel, MixedKernel,
            WideKernel, DirectWide, DirectMulti}

(* A pull kernel reading neighbours of two fields of the same data type.  *)
MCCallsTwoFields ==
    {KernelCall("pull", FALSE, "CPU",
        << Node(TRUE, {Acc(2, Z, 0)}, {Acc(1, <<1, 0, 0>>, 0), Acc(2, <<0, -1, 0>>, 0)}) >>)}

(* A pull kernel with a read at offset (2, 0, 0).                          *)
MCCallsWide ==
    {KernelCall("pull", FALSE, "CPU",
        << Node(TRUE, {Acc(2, Z, 0)}, {Acc(1, <<2, 0, 0>>, 0), Acc(1, <<-1, 0, 0>>, 1)}) >>)}

=============================================================================
