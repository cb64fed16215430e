------------------------- MODULE MpiDtypeInfoProofs -------------------------
(***************************************************************************)
(* Proofs about MpiDtypeInfo for every value of the constants: the type    *)
(* correctness of one generate_mpidtype_info_from_kernel call (codegen.py *)
(* lines 343-396), with the asserts on that an emitted header is exact     *)
(* (HeaderExact), and with or without them that it is complete             *)
(* (HeaderComplete), whatever order the loop over the accesses takes.     *)
(***************************************************************************)
EXTENDS MpiDtypeInfo, DirectionAlgebraProofs, FiniteSetTheorems, TLAPS

(* The accesses the call groups: the reads for pull, the writes for push.  *)
Accs == IF kernel.kind = "pull" THEN reads ELSE writes

(* CarriedIn for a kernel of the given kind.                              *)
CarriedBy(kind, fa) ==
    SubVectors(IF kind = "pull" THEN InverseDirection(fa.offset) ELSE fa.offset)

(* The direction table the header must hold for a set S of accesses of a  *)
(* kernel of the given kind: a key <<d>> for every direction d some access *)
(* of S is carried in, mapped to the first indices of the accesses of S    *)
(* carried in d.                                                           *)
Ref(kind, S) ==
    [k \in {<<d>> : d \in UNION {CarriedBy(kind, fa) : fa \in S}} |->
        {fa.index[1] : fa \in {x \in S : k[1] \in CarriedBy(kind, x)}}]

(* The type invariant strengthened by the fact that a header is written   *)
(* only at the last step of the call.                                      *)
TInv ==
    /\ MTypeOK
    /\ header # <<>> => phase = "done"

(* The inductive invariant behind HeaderExact (asserts on): after the kind *)
(* assert, the kind is pull or push; once a field is selected, every       *)
(* grouped access is of that field, the loop's remaining accesses are      *)
(* among them and the table is exactly the one of the accesses already     *)
(* visited; the loop has ended when the header is written.                 *)
HInv ==
    /\ TInv
    /\ phase \in {"collect", "select"} => todo = {} /\ spec = EmptySpec
    /\ phase \in {"select", "group", "done"} => kernel.kind \in {"pull", "push"}
    /\ phase \in {"group", "done"} =>
          /\ todo \subseteq Accs
          /\ \A fa \in Accs : fa.field = field
          /\ spec = Ref(kernel.kind, {fa \in Communicated : fa \notin todo})
    /\ phase = "done" => todo = {}

(* The table holds, under every direction an access of S within the first *)
(* neighbourhood is carried in, that access's first index.                 *)
Covered(sp, S) ==
    \A fa \in S : WithinOne(fa.offset) =>
        \A d \in CarriedIn(fa) : <<d>> \in DOMAIN sp /\ fa.index[1] \in sp[<<d>>]

(* The inductive invariant behind HeaderComplete, asserts on or off: once  *)
(* the loop runs, the table covers every communicated access it has        *)
(* visited, and the loop has ended when the header is written.             *)
CInv ==
    /\ TInv
    /\ phase \in {"group", "done"} => Covered(spec, Communicated \ todo)
    /\ phase = "done" => todo = {}

-----------------------------------------------------------------------------
(* Lemmas.                                                                 *)

(* What membership in Access says of an access.                           *)
LEMMA AccessFacts ==
    ASSUME NEW fa \in Access
    PROVE  /\ fa.field \in Fields
           /\ fa.offset \in Direction
           /\ fa.index \in [1..Rank[fa.field] -> Comps]
BY DEF Access

(* The directions an access of the group loop is added under are           *)
(* directions: comm_directions of the offset or of its inverse.            *)
LEMMA GroupDirectionsType ==
    ASSUME NEW fa \in Access, NEW kind
    PROVE  (IF kind = "pull" THEN CommDirections(InverseDirection(fa.offset))
            ELSE CommDirections(fa.offset)) \subseteq Direction
<1>1. fa.offset \in [1..Dim -> -MaxOffset..MaxOffset]
    BY AccessFacts DEF Direction
<1>2. InverseDirection(fa.offset) \in [1..Dim -> -MaxOffset..MaxOffset]
    BY <1>1, InverseBounded, MDimAssumption, MMaxOffsetAssumption
<1>3. CommDirections(fa.offset) \subseteq Direction
    BY <1>1, CommDirectionsBounded, MDimAssumption, MMaxOffsetAssumption DEF Direction
<1>4. CommDirections(InverseDirection(fa.offset)) \subseteq Direction
    BY <1>2, CommDirectionsBounded, MDimAssumption, MMaxOffsetAssumption DEF Direction
<1>. QED
    BY <1>3, <1>4

(* The defaultdict update keeps the table a map from 1-tuples of           *)
(* directions to sets of components.                                       *)
LEMMA AddIndexType ==
    ASSUME NEW sp, DOMAIN sp \subseteq {<<d>> : d \in Direction},
           sp \in [DOMAIN sp -> SUBSET Comps],
           NEW dirs \in SUBSET Direction, NEW c \in Comps
    PROVE  /\ DOMAIN AddIndex(sp, dirs, c) \subseteq {<<d>> : d \in Direction}
           /\ AddIndex(sp, dirs, c) \in [DOMAIN AddIndex(sp, dirs, c) -> SUBSET Comps]
BY DEF AddIndex, DirectionString

(* The accesses the kernel's assignments read and write are accesses.      *)
LEMMA CollectType ==
    ASSUME NEW k \in Kernels
    PROVE  LET asg == {n \in {k.assignments[i] : i \in 1..Len(k.assignments)} : n.isAssignment}
           IN  /\ UNION {a.rhs : a \in asg} \in SUBSET Access
               /\ UNION {a.lhs : a \in asg} \in SUBSET Access
<1>1. k.assignments \in Seq(AssignmentNode)
    BY KernelsAssumption
<1>2. \A i \in 1..Len(k.assignments) : k.assignments[i] \in AssignmentNode
    BY <1>1
<1>. QED
    BY <1>2 DEF AssignmentNode

(* The table of no access is the empty defaultdict.                        *)
LEMMA RefEmpty == \A kind : Ref(kind, {}) = EmptySpec
BY DEF Ref, EmptySpec

(* Visiting one more access a adds a's first index under every direction  *)
(* a is carried in: the defaultdict update of lines 370/382 computes the   *)
(* table of the visited accesses, one access at a time.                    *)
LEMMA RefAdd ==
    ASSUME NEW kind, NEW S, NEW a
    PROVE  Ref(kind, S \cup {a}) = AddIndex(Ref(kind, S), CarriedBy(kind, a), a.index[1])
<1>. DEFINE keys(T) == {<<d>> : d \in UNION {CarriedBy(kind, fa) : fa \in T}}
<1>1. DOMAIN Ref(kind, S \cup {a}) = DOMAIN AddIndex(Ref(kind, S), CarriedBy(kind, a), a.index[1])
    BY DEF Ref, AddIndex, DirectionString
<1>2. ASSUME NEW k \in keys(S \cup {a})
      PROVE  Ref(kind, S \cup {a})[k] = AddIndex(Ref(kind, S), CarriedBy(kind, a), a.index[1])[k]
    BY DEF Ref, AddIndex, DirectionString
<1>. QED
    BY <1>1, <1>2 DEF Ref, AddIndex

(* For an access within the first neighbourhood with a non-zero offset,   *)
(* the directions comm_directions yields in the loop are those the access *)
(* is carried in.                                                          *)
LEMMA GroupDirectionsCarried ==
    ASSUME NEW fa \in Access, WithinOne(fa.offset), ~IsZero(fa.offset)
    PROVE  (IF kernel.kind = "pull" THEN CommDirections(InverseDirection(fa.offset))
            ELSE CommDirections(fa.offset)) = CarriedIn(fa)
<1>1. fa.offset \in [1..Dim -> {-1, 0, 1}]
    BY AccessFacts DEF Direction, WithinOne
<1>2. /\ InverseDirection(fa.offset) \in [1..Dim -> {-1, 0, 1}]
      /\ ~IsZero(InverseDirection(fa.offset))
    <2>0. {-1, 0, 1} = -1..1
        OBVIOUS
    <2>1. InverseDirection(fa.offset) \in [1..Dim -> {-1, 0, 1}]
        BY <1>1, <2>0, MDimAssumption, InverseBounded
    <2>2. PICK i \in 1..Dim : fa.offset[i] # 0
        BY <1>1 DEF IsZero
    <2>3. fa.offset[i] \in {-1, 1}
        BY <1>1, <2>2
    <2>4. InverseDirection(fa.offset)[i] = -fa.offset[i]
        BY <1>1 DEF InverseDirection
    <2>5. InverseDirection(fa.offset)[i] # 0
        BY <2>3, <2>4
    <2>. QED
        BY <2>1, <2>5 DEF IsZero
<1>3. CommDirections(fa.offset) = SubVectors(fa.offset)
    BY <1>1, MDimAssumption, CommDirectionsClosedForm
<1>4. CommDirections(InverseDirection(fa.offset)) = SubVectors(InverseDirection(fa.offset))
    BY <1>2, MDimAssumption, CommDirectionsClosedForm
<1>. QED
    BY <1>3, <1>4 DEF CarriedIn

-----------------------------------------------------------------------------
(* Type correctness.                                                       *)

(* The initial state of a call satisfies the strengthened type invariant. *)
THEOREM MInitTInv == MInit => TInv
BY DEF MInit, TInv, MTypeOK, EmptySpec, NoField

(* Every step of the call preserves it.                                    *)
THEOREM MNextTInv == TInv /\ [MNext]_mvars => TInv'
<1> SUFFICES ASSUME TInv, [MNext]_mvars PROVE TInv'
    OBVIOUS
<1>1. CASE MCollect
    BY <1>1, CollectType DEF MCollect, TInv, MTypeOK
<1>2. CASE SelectField
    <2>1. (IF kernel.kind = "pull" THEN reads ELSE writes) \in SUBSET Access
        BY DEF TInv, MTypeOK
    <2>2. {fa.field : fa \in IF kernel.kind = "pull" THEN reads ELSE writes} \subseteq Fields
        BY <2>1, AccessFacts
    <2>. QED
        BY <1>2, <2>1, <2>2 DEF SelectField, TInv, MTypeOK
<1>3. ASSUME NEW fa \in todo, MGroup(fa)
      PROVE  TInv'
    <2>1. fa \in Access /\ phase = "group" /\ header = <<>>
        BY <1>3 DEF MGroup, TInv, MTypeOK
    <2>2. CASE spec' = spec
        BY <1>3, <2>1, <2>2 DEF MGroup, TInv, MTypeOK
    <2>3. CASE spec' # spec
        <3>1. /\ Rank[fa.field] # 0
              /\ spec' = AddIndex(spec, IF kernel.kind = "pull"
                                        THEN CommDirections(InverseDirection(fa.offset))
                                        ELSE CommDirections(fa.offset), fa.index[1])
              /\ phase' = phase
            BY <1>3, <2>3 DEF MGroup
        <3>2. fa.index[1] \in Comps
            BY <2>1, <3>1, AccessFacts, MFieldsAssumption
        <3>. QED
            BY <1>3, <2>1, <3>1, <3>2, GroupDirectionsType, AddIndexType DEF MGroup, TInv, MTypeOK
    <2>. QED
        BY <2>2, <2>3
<1>4. CASE EmitHeader
    BY <1>4 DEF EmitHeader, TInv, MTypeOK
<1>5. CASE UNCHANGED mvars
    BY <1>5 DEF mvars, TInv, MTypeOK
<1>. QED
    BY <1>1, <1>2, <1>3, <1>4, <1>5 DEF MNext

(* MTypeOK: one call keeps every variable of the type the code gives it,  *)
(* whether or not the asserts are on.                                      *)
THEOREM MpiDtypeTypeCorrect == MSpec => []MTypeOK
<1>1. TInv => MTypeOK
    BY DEF TInv
<1>. QED
    BY MInitTInv, MNextTInv, <1>1, PTL DEF MSpec

-----------------------------------------------------------------------------
(* The emitted header is exact.                                            *)

(* The initial state satisfies the invariant behind HeaderExact.           *)
THEOREM MInitHInv == MInit => HInv
BY MInitTInv DEF MInit, HInv

(* With the asserts on, every step of the call preserves it.               *)
THEOREM MNextHInv == AssertsEnabled /\ HInv /\ [MNext]_mvars => HInv'
<1> SUFFICES ASSUME AssertsEnabled, HInv, [MNext]_mvars PROVE HInv'
    OBVIOUS
<1>0. TInv'
    BY MNextTInv DEF HInv
<1>1. CASE MCollect
    BY <1>0, <1>1 DEF MCollect, HInv
<1>2. CASE SelectField
    <2>1. /\ phase = "select" /\ kernel.kind \in {"pull", "push"}
          /\ todo = {} /\ spec = EmptySpec
          /\ UNCHANGED <<kernel, reads, writes, spec, header>>
        BY <1>2 DEF SelectField, HInv
    <2>2. CASE phase' = "error"
        BY <1>0, <2>2 DEF HInv
    <2>3. CASE phase' # "error"
        <3>. DEFINE fs == {fa.field : fa \in Accs}
        <3>1. /\ field' \in fs /\ Cardinality(fs) = 1
              /\ todo' = Accs /\ phase' = "group"
            BY <1>2, <2>1, <2>3 DEF SelectField, Accs
        <3>2. IsFiniteSet(fs)
            <4>1. Accs \in SUBSET Access
                BY DEF HInv, TInv, MTypeOK, Accs
            <4>2. fs \subseteq Fields
                BY <4>1, AccessFacts
            <4>. QED
                BY <4>2, MFieldsAssumption, FS_Subset
        <3>3. fs = {field'}
            BY <3>1, <3>2, FS_Singleton
        <3>4. Accs' = Accs /\ Communicated' = Communicated
            BY <2>1 DEF Accs, Communicated
        <3>5. \A fa \in Accs' : fa.field = field'
            BY <3>3, <3>4
        <3>6. {fa \in Communicated' : fa \notin todo'} = {}
            BY <3>1, <3>4 DEF Communicated, Accs
        <3>7. spec' = Ref(kernel'.kind, {fa \in Communicated' : fa \notin todo'})
            BY <2>1, <3>6, RefEmpty
        <3>. QED
            BY <1>0, <2>1, <3>1, <3>4, <3>5, <3>7 DEF HInv
    <2>. QED
        BY <2>2, <2>3
<1>3. ASSUME NEW fa \in todo, MGroup(fa)
      PROVE  HInv'
    <2>. DEFINE V == {x \in Communicated : x \notin todo}
    <2>1. /\ phase = "group" /\ kernel.kind \in {"pull", "push"}
          /\ fa \in Accs /\ fa \in Access
          /\ spec = Ref(kernel.kind, V)
          /\ \A x \in Accs : x.field = field
          /\ todo \subseteq Accs
          /\ todo' = todo \ {fa}
          /\ UNCHANGED <<kernel, reads, writes, field, header>>
        BY <1>3 DEF MGroup, HInv, TInv, MTypeOK
    <2>2. Accs' = Accs /\ Communicated' = Communicated
        BY <2>1 DEF Accs, Communicated
    <2>3. CASE phase' = "error"
        BY <1>0, <2>3 DEF HInv
    <2>4. CASE phase' # "error" /\ IsZero(fa.offset)
        <3>1. spec' = spec /\ phase' = phase
            BY <1>3, <2>1, <2>4 DEF MGroup
        <3>2. {x \in Communicated' : x \notin todo'} = V
            BY <2>1, <2>2, <2>4 DEF Communicated, Accs
        <3>3. spec' = Ref(kernel'.kind, {x \in Communicated' : x \notin todo'})
            BY <2>1, <3>1, <3>2
        <3>. QED
            BY <1>0, <2>1, <2>2, <3>1, <3>3 DEF HInv
    <2>5. CASE phase' # "error" /\ ~IsZero(fa.offset)
        <3>1. /\ WithinOne(fa.offset) /\ phase' = phase
              /\ spec' = AddIndex(spec, IF kernel.kind = "pull"
                                        THEN CommDirections(InverseDirection(fa.offset))
                                        ELSE CommDirections(fa.offset), fa.index[1])
            BY <1>3, <2>1, <2>5 DEF MGroup
        <3>2. (IF kernel.kind = "pull" THEN CommDirections(InverseDirection(fa.offset))
               ELSE CommDirections(fa.offset)) = CarriedBy(kernel.kind, fa)
            <4>1. (IF kernel.kind = "pull" THEN CommDirections(InverseDirection(fa.offset))
                   ELSE CommDirections(fa.offset)) = CarriedIn(fa)
                BY <2>1, <2>5, <3>1, GroupDirectionsCarried
            <4>. QED
                BY <4>1 DEF CarriedIn, CarriedBy
        <3>3. spec' = AddIndex(Ref(kernel.kind, V), CarriedBy(kernel.kind, fa), fa.index[1])
            BY <2>1, <3>1, <3>2
        <3>4. {x \in Communicated' : x \notin todo'} = V \cup {fa}
            BY <2>1, <2>2, <2>5 DEF Communicated, Accs
        <3>5. spec' = Ref(kernel'.kind, {x \in Communicated' : x \notin todo'})
            BY <2>1, <3>3, <3>4, RefAdd
        <3>. QED
            BY <1>0, <2>1, <2>2, <3>1, <3>5 DEF HInv
    <2>. QED
        BY <2>3, <2>4, <2>5
<1>4. CASE EmitHeader
    <2>1. /\ UNCHANGED <<kernel, reads, writes, todo, spec, field>>
          /\ phase = "group" /\ todo = {}
          /\ phase' \in {"error", "done"}
        BY <1>4 DEF EmitHeader
    <2>2. Accs' = Accs /\ Communicated' = Communicated
        BY <2>1 DEF Accs, Communicated
    <2>. QED
        BY <1>0, <2>1, <2>2 DEF HInv
<1>5. CASE UNCHANGED mvars
    <2>1. Accs' = Accs /\ Communicated' = Communicated
        BY <1>5 DEF mvars, Accs, Communicated
    <2>. QED
        BY <1>0, <1>5, <2>1 DEF mvars, HInv
<1>. QED
    BY <1>1, <1>2, <1>3, <1>4, <1>5 DEF MNext

(* The invariant gives HeaderExact: a written header is the selected      *)
(* field and the table of all communicated accesses, all of that field.   *)
LEMMA HInvHeaderExact == HInv => HeaderExact
<1> SUFFICES ASSUME HInv, header # <<>> PROVE HeaderExact
    BY DEF HeaderExact
<1>1. /\ phase = "done" /\ header = <<field, spec>> /\ todo = {}
      /\ spec = Ref(kernel.kind, {fa \in Communicated : fa \notin todo})
      /\ \A fa \in Accs : fa.field = field
    BY DEF HInv, TInv, MTypeOK
<1>2. spec = Ref(kernel.kind, Communicated)
    BY <1>1
<1>3. Communicated \subseteq Accs
    BY DEF Communicated, Accs
<1>. QED
    BY <1>1, <1>2, <1>3 DEF HeaderExact, Ref, CarriedIn, CarriedBy

(* HeaderExact: with the asserts on, in every behaviour of one call, a    *)
(* header that is emitted names the one field whose neighbours the kernel *)
(* accesses and lists, under each neighbour direction, exactly the        *)
(* components carried in it, for every dimension, field set, rank and     *)
(* order of the loop of lines 363/376.                                     *)
THEOREM HeaderExactHolds ==
    ASSUME AssertsEnabled
    PROVE  MSpec => []HeaderExact
<1>1. HInv /\ [MNext]_mvars => HInv'
    BY MNextHInv
<1>. QED
    BY MInitHInv, <1>1, HInvHeaderExact, PTL DEF MSpec


-----------------------------------------------------------------------------
(* The emitted header is complete, asserts on or off.                      *)

(* The defaultdict update of lines 370/382 keeps every entry and adds c    *)
(* under every direction of dirs.                                          *)
LEMMA AddIndexGrows ==
    ASSUME NEW sp, NEW dirs, NEW c
    PROVE  /\ \A k \in DOMAIN sp : k \in DOMAIN AddIndex(sp, dirs, c)
                                   /\ sp[k] \subseteq AddIndex(sp, dirs, c)[k]
           /\ \A d \in dirs : /\ <<d>> \in DOMAIN AddIndex(sp, dirs, c)
                              /\ c \in AddIndex(sp, dirs, c)[<<d>>]
BY DEF AddIndex, DirectionString

(* The initial state satisfies the invariant behind HeaderComplete.        *)
THEOREM MInitCInv == MInit => CInv
BY MInitTInv DEF MInit, CInv

(* Every step of the call preserves it, whether or not the asserts are on. *)
THEOREM MNextCInv == CInv /\ [MNext]_mvars => CInv'
<1> SUFFICES ASSUME CInv, [MNext]_mvars PROVE CInv'
    OBVIOUS
<1>0. TInv'
    BY MNextTInv DEF CInv
<1>1. CASE MCollect
    BY <1>0, <1>1 DEF MCollect, CInv
<1>2. CASE SelectField
    <2>1. /\ phase = "select" /\ UNCHANGED <<kernel, reads, writes>>
          /\ phase' \in {"error", "group"}
          /\ phase' = "group" => todo' = Accs
        BY <1>2 DEF SelectField, Accs
    <2>2. Communicated' \ todo' = {} \/ phase' = "error"
        BY <2>1 DEF Communicated, Accs
    <2>. QED
        BY <1>0, <2>1, <2>2 DEF CInv, Covered
<1>3. ASSUME NEW fa \in todo, MGroup(fa)
      PROVE  CInv'
    <2>1. /\ phase = "group" /\ fa \in Access
          /\ Covered(spec, Communicated \ todo)
          /\ todo' = todo \ {fa}
          /\ UNCHANGED <<kernel, reads, writes>>
        BY <1>3 DEF MGroup, CInv, TInv, MTypeOK
    <2>2. Communicated' = Communicated /\ \A x : CarriedIn(x)' = CarriedIn(x)
        BY <2>1 DEF Communicated, CarriedIn
    <2>3. CASE phase' = "error"
        BY <1>0, <2>3 DEF CInv
    <2>4. CASE phase' # "error" /\ IsZero(fa.offset)
        <3>1. spec' = spec /\ phase' = phase
            BY <1>3, <2>4 DEF MGroup
        <3>2. Communicated' \ todo' = Communicated \ todo
            BY <2>1, <2>2, <2>4 DEF Communicated
        <3>. QED
            BY <1>0, <2>1, <2>2, <3>1, <3>2 DEF CInv, Covered
    <2>5. CASE phase' # "error" /\ ~IsZero(fa.offset)
        <3>. DEFINE dirs == IF kernel.kind = "pull"
                            THEN CommDirections(InverseDirection(fa.offset))
                            ELSE CommDirections(fa.offset)
        <3>1. spec' = AddIndex(spec, dirs, fa.index[1]) /\ phase' = phase
            BY <1>3, <2>5 DEF MGroup
        <3>2. WithinOne(fa.offset) => dirs = CarriedIn(fa)
            BY <2>1, <2>5, GroupDirectionsCarried
        <3>3. Communicated' \ todo' \subseteq (Communicated \ todo) \cup {fa}
            BY <2>1, <2>2
        <3>4. Covered(spec', (Communicated \ todo) \cup {fa})
            <4> HIDE DEF dirs
            <4>1. Covered(spec', Communicated \ todo)
                BY <2>1, <3>1, AddIndexGrows DEF Covered
            <4>2. Covered(spec', {fa})
                BY <3>1, <3>2, AddIndexGrows DEF Covered
            <4>. QED
                BY <4>1, <4>2 DEF Covered
        <3>. QED
            BY <1>0, <2>1, <2>2, <3>1, <3>3, <3>4 DEF CInv, Covered
    <2>. QED
        BY <2>3, <2>4, <2>5
<1>4. CASE EmitHeader
    <2>1. /\ UNCHANGED <<kernel, reads, writes, todo, spec>>
          /\ phase = "group" /\ todo = {}
        BY <1>4 DEF EmitHeader
    <2>2. Communicated' = Communicated /\ \A x : CarriedIn(x)' = CarriedIn(x)
        BY <2>1 DEF Communicated, CarriedIn
    <2>. QED
        BY <1>0, <2>1, <2>2 DEF CInv, Covered
<1>5. CASE UNCHANGED mvars
    <2>1. Communicated' = Communicated /\ \A x : CarriedIn(x)' = CarriedIn(x)
        BY <1>5 DEF mvars, Communicated, CarriedIn
    <2>. QED
        BY <1>0, <1>5, <2>1 DEF mvars, CInv, Covered
<1>. QED
    BY <1>1, <1>2, <1>3, <1>4, <1>5 DEF MNext

(* HeaderComplete: in every behaviour of one call, asserts on or off       *)
(* (python -O), a header that is emitted lists, under every direction a   *)
(* first-neighbourhood communicated access of its field is carried in,     *)
(* that access's first index, for every dimension, field set, rank and    *)
(* order of the loop of lines 363/376.                                     *)
THEOREM HeaderCompleteHolds == MSpec => []HeaderComplete
<1>1. CInv => HeaderComplete
    <2> SUFFICES ASSUME CInv, header # <<>> PROVE HeaderComplete
        BY DEF HeaderComplete
    <2>1. phase = "done" /\ header = <<field, spec>> /\ todo = {}
        BY DEF CInv, TInv, MTypeOK
    <2>2. Covered(spec, Communicated)
        BY <2>1 DEF CInv
    <2>. QED
        BY <2>1, <2>2 DEF HeaderComplete, Covered
<1>2. CInv /\ [MNext]_mvars => CInv'
    BY MNextCInv
<1>. QED
    BY MInitCInv, <1>1, <1>2, PTL DEF MSpec

=============================================================================
