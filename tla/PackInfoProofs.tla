--------------------------- MODULE PackInfoProofs ---------------------------
(***************************************************************************)
(* Proofs about PackInfo for every value of the constants: lemmas on the *)
(* pack-info directions (the general ones are in DirectionAlgebraProofs), *)
(* and the type correctness of one generate_pack_info_from_kernel or      *)
(* generate_pack_info call.                                                *)
(***************************************************************************)
EXTENDS PackInfo, DirectionAlgebraProofs, FiniteSetTheorems, SequenceTheorems, TLAPS

-----------------------------------------------------------------------------
(* Lemmas on directions.                                                   *)

(* Negating a direction keeps it a direction.                              *)
LEMMA InverseIsDirection ==
    ASSUME NEW o \in Direction
    PROVE  InverseDirection(o) \in Direction
BY MaxOffsetAssumption DEF InverseDirection, Direction

(* Every direction comm_directions yields for a direction is a direction  *)
(* with components in {-1, 0, 1}.                                          *)
LEMMA CommDirectionsType ==
    ASSUME NEW o \in Direction
    PROVE  CommDirections(o) \subseteq Direction
<1>1. Len(o) = Dim
    BY DimAssumption, LenOfTuple DEF Direction
<1>2. ASSUME NEW b \in BinaryNumbers(Dim)
      PROVE  Adjust(o, b) \in Direction
    BY <1>2, MaxOffsetAssumption DEF Adjust, BinaryNumbers, Direction
<1>. QED
    BY <1>1, <1>2 DEF CommDirections

-----------------------------------------------------------------------------
(* Lemmas on the reference pack spec.                                      *)

(* The reference pack spec depends only on the accesses with a non-zero   *)
(* offset.                                                                 *)
LEMMA ReferenceZeroAccess ==
    ASSUME NEW kind, NEW R, NEW fa, IsZero(fa.offset)
    PROVE  ReferencePackSpec(kind, R \cup {fa}) = ReferencePackSpec(kind, R)
<1>1. Contributing(R \cup {fa}) = Contributing(R)
    BY DEF Contributing
<1>. QED
    BY <1>1 DEF ReferencePackSpec

(* Grouping one more access with a non-zero offset into the reference     *)
(* pack spec of R, by adding its packed term under each direction it needs,*)
(* gives the reference pack spec of R with the access.                     *)
LEMMA ReferenceAddAccess ==
    ASSUME NEW kind, NEW R, NEW fa, ~IsZero(fa.offset)
    PROVE  AddTerm(ReferencePackSpec(kind, R), NeededDirections(kind, fa), PackedTerm(kind, fa))
           = ReferencePackSpec(kind, R \cup {fa})
<1>. DEFINE ND(g) == NeededDirections(kind, g)
            C1 == Contributing(R)
            C2 == Contributing(R \cup {fa})
            Ref1 == ReferencePackSpec(kind, R)
            Ref2 == ReferencePackSpec(kind, R \cup {fa})
            New == AddTerm(Ref1, ND(fa), PackedTerm(kind, fa))
<1>1. C2 = C1 \cup {fa}
    BY DEF Contributing
<1>2. DOMAIN Ref1 = {<<d>> : d \in UNION {ND(g) : g \in C1}}
    BY DEF ReferencePackSpec
<1>3. DOMAIN Ref2 = {<<d>> : d \in UNION {ND(g) : g \in C2}}
    BY DEF ReferencePackSpec
<1>4. DOMAIN New = DOMAIN Ref1 \cup {<<d>> : d \in ND(fa)}
    BY DEF AddTerm
<1>5. DOMAIN New = DOMAIN Ref2
    BY <1>1, <1>2, <1>3, <1>4
<1>6. ASSUME NEW k \in DOMAIN Ref2 PROVE New[k] = Ref2[k]
    <2>1. Ref2[k] = {PackedTerm(kind, g) : g \in {h \in C2 : k[1] \in ND(h)}}
        BY <1>6 DEF ReferencePackSpec
    <2>2. New[k] = (IF k \in DOMAIN Ref1 THEN Ref1[k] ELSE {})
                   \cup (IF k[1] \in ND(fa) THEN {PackedTerm(kind, fa)} ELSE {})
        BY <1>4, <1>5, <1>6 DEF AddTerm
    <2>3. CASE k \in DOMAIN Ref1
        <3>1. Ref1[k] = {PackedTerm(kind, g) : g \in {h \in C1 : k[1] \in ND(h)}}
            BY <2>3 DEF ReferencePackSpec
        <3>. QED
            BY <1>1, <2>1, <2>2, <2>3, <3>1
    <2>4. CASE k \notin DOMAIN Ref1
        <3>1. PICK e : k = <<e>>
            BY <1>6, <1>3
        <3>2. \A g \in C1 : e \notin ND(g)
            BY <1>2, <2>4, <3>1
        <3>3. e \in ND(fa)
            BY <1>1, <1>3, <1>6, <3>1, <3>2
        <3>. QED
            BY <1>1, <2>1, <2>2, <2>4, <3>1, <3>2, <3>3
    <2>. QED
        BY <2>3, <2>4
<1>. QED
    BY <1>5, <1>6 DEF AddTerm, ReferencePackSpec

-----------------------------------------------------------------------------
(* Type correctness.                                                       *)

(* The type invariant strengthened by what holds before the loop over the *)
(* direction sets starts: no key is waiting and no kernel is compiled      *)
(* while the pack spec is still being built, and every set of terms is     *)
(* finite (its size is the element count of its kernel).                   *)
TypeInv ==
    /\ TypeOK
    /\ phase = "collect" => keysTodo = {} /\ DOMAIN packK = {}
    /\ \A k \in DOMAIN spec : IsFiniteSet(spec[k])

(* AddTerm on a well-typed pack spec with a term and directions.           *)
LEMMA AddTermType ==
    ASSUME NEW sp, DOMAIN sp \subseteq Key, sp \in [DOMAIN sp -> SUBSET Access],
           \A k \in DOMAIN sp : IsFiniteSet(sp[k]),
           NEW dirs \in SUBSET Direction, NEW t \in Access
    PROVE  LET sp2 == AddTerm(sp, dirs, t)
           IN  /\ DOMAIN sp \subseteq DOMAIN sp2
               /\ DOMAIN sp2 \subseteq Key
               /\ sp2 \in [DOMAIN sp2 -> SUBSET Access]
               /\ \A k \in DOMAIN sp2 : IsFiniteSet(sp2[k])
<1>0. \A d \in dirs : d \in Seq(-MaxOffset..MaxOffset)
    BY DimAssumption, LenOfTuple DEF Direction
<1>1. \A d \in dirs : <<d>> \in Key
    BY <1>0 DEF Key
<1>2. \A k \in DOMAIN sp \cup {<<d>> : d \in dirs} :
          IsFiniteSet((IF k \in DOMAIN sp THEN sp[k] ELSE {})
                      \cup (IF k[1] \in dirs THEN {t} ELSE {}))
    BY FS_EmptySet, FS_Singleton, FS_Union
<1>. QED
    BY <1>1, <1>2 DEF AddTerm

(* The centre access of an access is an access.                            *)
LEMMA CenterType ==
    ASSUME NEW fa \in Access
    PROVE  Center(fa) \in Access
<1>1. ZeroVector(Dim) \in [1..Dim -> -MaxOffset..MaxOffset]
    BY MaxOffsetAssumption DEF ZeroVector
<1>2. Center(fa) = [field |-> fa.field, offset |-> ZeroVector(Dim), index |-> fa.index]
    BY DEF Center, Access
<1>. QED
    BY <1>1, <1>2 DEF Access

(* The default direction subset of generate_pack_info_for_field is a     *)
(* tuple of 27 offsets of the first neighbourhood.                         *)
LEMMA AllDirectionsType == AllDirections3D \in Seq(Seq(-MaxOffset..MaxOffset))
<1>1. ASSUME NEW n \in 1..27
      PROVE  /\ ((n - 1) \div 9) - 1 \in -1..1
             /\ (((n - 1) \div 3) % 3) - 1 \in -1..1
             /\ ((n - 1) % 3) - 1 \in -1..1
    OBVIOUS
<1>2. -1..1 \subseteq -MaxOffset..MaxOffset
    BY MaxOffsetAssumption
<1>3. \A x, y, z \in -MaxOffset..MaxOffset : <<x, y, z>> \in Seq(-MaxOffset..MaxOffset)
    OBVIOUS
<1>4. \A n \in 1..27 : AllDirections3D[n] \in Seq(-MaxOffset..MaxOffset)
    BY <1>1, <1>2, <1>3 DEF AllDirections3D
<1>. QED
    BY <1>4, LenOfTuple DEF AllDirections3D

THEOREM InitTypeInv == Init => TypeInv
BY CallsAssumption DEF Init, TypeInv, TypeOK, EmptyMap, Phases

(* Every step of the call keeps the strengthened type invariant.           *)
THEOREM NextTypeInv == TypeInv /\ [Next]_vars => TypeInv'
<1> SUFFICES ASSUME TypeInv, [Next]_vars PROVE TypeInv'
    OBVIOUS
<1>. USE DEF TypeInv, TypeOK
<1>1. ASSUME CallDirect PROVE TypeInv'
    BY <1>1 DEF CallDirect, IsCall, Phases
<1>8. ASSUME CallForField PROVE TypeInv'
    <2>1. AllDirections3D \in Seq(Seq(-MaxOffset..MaxOffset))
        BY AllDirectionsType
    <2>2. (IF call.subset = <<>> THEN AllDirections3D ELSE call.subset) \in Key
        BY <2>1, CallsAssumption DEF IsCall, Key
    <2>3. ZeroVector(Dim) \in [1..Dim -> -MaxOffset..MaxOffset]
        BY MaxOffsetAssumption DEF ZeroVector
    <2>. DEFINE centre(c) == [field |-> call.field, offset |-> ZeroVector(Dim), index |-> c]
                terms == {centre(c) : c \in Comps}
    <2>4. terms \subseteq Access
        BY <2>3, CallsAssumption DEF IsCall, Access
    <2>5. IsFiniteSet(terms)
        <3>. DEFINE g == [c \in Comps |-> centre(c)]
        <3>1. g \in Surjection(Comps, terms)
            BY DEF Surjection
        <3>. QED
            BY <3>1, FieldsAssumption, FS_Surjection
    <2>. QED
        BY <1>8, <2>2, <2>4, <2>5 DEF CallForField, Phases
<1>2. ASSUME Collect PROVE TypeInv'
    <2>. DEFINE nodes == {call.assignments[i] : i \in 1..Len(call.assignments)}
    <2>1. nodes \subseteq AssignmentNode
        BY ElementOfSeq DEF IsCall
    <2>2. /\ UNION {a.rhs : a \in {n \in nodes : n.isAssignment}} \subseteq Access
          /\ UNION {a.lhs : a \in {n \in nodes : n.isAssignment}} \subseteq Access
        BY <2>1 DEF AssignmentNode
    <2>. QED
        BY <1>2, <2>2 DEF Collect, Phases
<1>3. ASSUME NEW fa \in todo, Group(fa) PROVE TypeInv'
    <2>1. fa \in Access /\ fa.offset \in Direction
        BY DEF Access, Direction
    <2>2. /\ CommDirections(InverseDirection(fa.offset)) \subseteq Direction
          /\ CommDirections(fa.offset) \subseteq Direction
        BY <2>1, InverseIsDirection, CommDirectionsType
    <2>3. Center(fa) \in Access
        BY <2>1, CenterType
    <2>4. CASE spec' = spec
        BY <1>3, <2>4 DEF Group, Phases
    <2>5. CASE spec' = AddTerm(spec, CommDirections(InverseDirection(fa.offset)), Center(fa))
        BY <1>3, <2>2, <2>3, <2>5, AddTermType DEF Group, Phases
    <2>6. CASE spec' = AddTerm(spec, CommDirections(fa.offset), fa)
        BY <1>3, <2>1, <2>2, <2>6, AddTermType DEF Group, Phases
    <2>. QED
        BY <1>3, <2>4, <2>5, <2>6 DEF Group
<1>4. ASSUME GeneratePackInfo PROVE TypeInv'
    BY <1>4 DEF GeneratePackInfo, Phases
<1>5. ASSUME NEW k \in keysTodo, CompileDirectionSet(k) PROVE TypeInv'
    <2>1. k \in DOMAIN spec /\ Cardinality(spec[k]) \in Nat
        BY FS_CardinalityType
    <2>. QED
        BY <1>5, <2>1 DEF CompileDirectionSet, Phases
<1>6. ASSUME Emit PROVE TypeInv'
    BY <1>6 DEF Emit, Access, Phases
<1>7. CASE UNCHANGED vars
    BY <1>7 DEF vars
<1>. QED
    BY <1>1, <1>2, <1>3, <1>4, <1>5, <1>6, <1>7, <1>8 DEF Next

(* generate_pack_info_from_kernel and generate_pack_info keep every piece  *)
(* of their state well typed, whatever the kernel, the flags and the order *)
(* the Python sets are iterated in.                                        *)
THEOREM TypeCorrect == Spec => []TypeOK
<1>1. TypeInv => TypeOK
    BY DEF TypeInv
<1>. QED
    BY <1>1, InitTypeInv, NextTypeInv, PTL DEF Spec

-----------------------------------------------------------------------------
(* The pack spec of generate_pack_info_from_kernel.                        *)

(* What the grouping loop of lines 217-231 maintains: before it starts the *)
(* spec is empty, and from then on it is the reference pack spec of the    *)
(* accesses visited so far.                                                *)
ClosedFormInv ==
    call.entry = "kernel" =>
        /\ phase = "collect" => spec = EmptyMap
        /\ phase \notin {"collect", "error"} =>
              /\ todo \subseteq Visited
              /\ spec = ReferencePackSpec(call.kind, Visited \ todo)
              /\ phase # "group" => todo = {}

(* The reference pack spec of no access is the empty dictionary.           *)
LEMMA ReferenceEmpty == \A kind : ReferencePackSpec(kind, {}) = EmptyMap
BY DEF ReferencePackSpec, Contributing, EmptyMap

(* The inverse of a non-zero offset in the first neighbourhood is one.     *)
LEMMA InverseOfOffset ==
    ASSUME NEW d, NEW o \in [1..d -> {-1, 0, 1}]
    PROVE  /\ InverseDirection(o) \in [1..d -> {-1, 0, 1}]
           /\ ~IsZero(o) => ~IsZero(InverseDirection(o))
<1>1. DOMAIN InverseDirection(o) = 1..d
    BY DEF InverseDirection
<1>2. \A i \in 1..d : InverseDirection(o)[i] = -o[i] /\ -o[i] \in {-1, 0, 1}
    BY DEF InverseDirection
<1>3. InverseDirection(o) \in [1..d -> {-1, 0, 1}]
    BY <1>1, <1>2 DEF InverseDirection
<1>4. ~IsZero(o) => ~IsZero(InverseDirection(o))
    BY <1>1, <1>2 DEF IsZero
<1>. QED
    BY <1>3, <1>4

(* Under the assert of line 219/227, the directions comm_directions yields *)
(* for the access being grouped are the ones it needs.                     *)
LEMMA GroupedDirections ==
    ASSUME TypeOK, NEW fa \in Access, WithinOne(fa.offset), ~IsZero(fa.offset)
    PROVE  /\ call.kind = "pull" =>
                 CommDirections(InverseDirection(fa.offset)) = NeededDirections(call.kind, fa)
           /\ call.kind = "push" => CommDirections(fa.offset) = NeededDirections(call.kind, fa)
<1>1. fa.offset \in [1..Dim -> {-1, 0, 1}]
    BY DEF Access, WithinOne
<1>2. InverseDirection(fa.offset) \in [1..Dim -> {-1, 0, 1}]
      /\ ~IsZero(InverseDirection(fa.offset))
    BY <1>1, InverseOfOffset
<1>. QED
    BY <1>1, <1>2, DimAssumption, CommDirectionsClosedForm DEF NeededDirections

THEOREM InitClosedForm == Init => ClosedFormInv
BY DEF Init, ClosedFormInv

THEOREM NextClosedForm ==
    ASSUME AssertsEnabled
    PROVE  TypeInv /\ ClosedFormInv /\ [Next]_vars => ClosedFormInv'
<1> SUFFICES ASSUME TypeInv, ClosedFormInv, [Next]_vars, call.entry = "kernel"
             PROVE  ClosedFormInv'
    BY DEF ClosedFormInv, Next, vars, CallDirect, CallForField, Collect, Group, GeneratePackInfo,
           CompileDirectionSet, Emit
<1>1. ASSUME CallDirect PROVE ClosedFormInv'
    BY <1>1 DEF CallDirect
<1>8. ASSUME CallForField PROVE ClosedFormInv'
    BY <1>8 DEF CallForField
<1>2. ASSUME Collect PROVE ClosedFormInv'
    BY <1>2, ReferenceEmpty DEF Collect, ClosedFormInv, Visited
<1>3. ASSUME NEW fa \in todo, Group(fa) PROVE ClosedFormInv'
    <2>1. /\ phase = "group" /\ fa \in Visited /\ fa \in Access
          /\ todo \subseteq Visited
          /\ spec = ReferencePackSpec(call.kind, Visited \ todo)
          /\ Visited' = Visited /\ call' = call
          /\ Visited' \ todo' = (Visited \ todo) \cup {fa}
          /\ todo' \subseteq Visited'
        BY <1>3 DEF Group, ClosedFormInv, TypeInv, TypeOK, Visited
    <2>2. CASE phase' = "error"
        BY <2>2 DEF ClosedFormInv
    <2>3. CASE IsZero(fa.offset) /\ spec' = spec /\ phase' = phase
        <3>1. spec' = ReferencePackSpec(call.kind, (Visited \ todo) \cup {fa})
            BY <2>1, <2>3, ReferenceZeroAccess
        <3>. QED
            BY <2>1, <2>3, <3>1 DEF ClosedFormInv
    <2>4. CASE /\ WithinOne(fa.offset) /\ ~IsZero(fa.offset) /\ phase' = phase
               /\ spec' = IF call.kind = "pull"
                          THEN AddTerm(spec, CommDirections(InverseDirection(fa.offset)),
                                       Center(fa))
                          ELSE AddTerm(spec, CommDirections(fa.offset), fa)
        <3>1. spec' = AddTerm(spec, NeededDirections(call.kind, fa), PackedTerm(call.kind, fa))
            <4>1. WithinOne(fa.offset) /\ ~IsZero(fa.offset) /\ TypeOK
                BY <2>4 DEF TypeInv
            <4>2. CASE call.kind = "pull"
                BY <2>1, <2>4, <4>1, <4>2, GroupedDirections DEF PackedTerm
            <4>3. CASE call.kind = "push"
                BY <2>1, <2>4, <4>1, <4>3, GroupedDirections DEF PackedTerm
            <4>. QED
                BY <4>2, <4>3 DEF TypeInv, TypeOK, IsCall
        <3>. QED
            BY <2>1, <2>4, <3>1, ReferenceAddAccess DEF ClosedFormInv
    <2>. QED
        BY <1>3, <2>2, <2>3, <2>4 DEF Group
<1>4. ASSUME GeneratePackInfo PROVE ClosedFormInv'
    BY <1>4 DEF GeneratePackInfo, ClosedFormInv, Visited
<1>5. ASSUME NEW k \in keysTodo, CompileDirectionSet(k) PROVE ClosedFormInv'
    BY <1>5 DEF CompileDirectionSet, ClosedFormInv, Visited
<1>6. ASSUME Emit PROVE ClosedFormInv'
    BY <1>6 DEF Emit, ClosedFormInv, Visited
<1>7. CASE UNCHANGED vars
    BY <1>7 DEF vars, ClosedFormInv, Visited
<1>. QED
    BY <1>1, <1>2, <1>3, <1>4, <1>5, <1>6, <1>7, <1>8 DEF Next

(* With assert statements enabled, once grouping is over the pack spec    *)
(* generate_pack_info_from_kernel built through comm_directions is the     *)
(* reference pack spec of the kernel's reads (pull) or writes (push), for  *)
(* any number of dimensions, any kernel and any set iteration order.       *)
THEOREM PackSpecCorrect ==
    ASSUME AssertsEnabled
    PROVE  Spec => []PackSpecClosedForm
<1>1. TypeInv /\ ClosedFormInv => PackSpecClosedForm
    BY DEF ClosedFormInv, PackSpecClosedForm
<1>. QED
    BY <1>1, InitTypeInv, NextTypeInv, InitClosedForm, NextClosedForm, PTL DEF Spec

=============================================================================
