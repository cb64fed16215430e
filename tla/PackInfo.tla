------------------------------ MODULE PackInfo ------------------------------
(***************************************************************************)
(* One call of generate_pack_info_from_kernel, which derives the pack     *)
(* spec of a kernel and hands it to generate_pack_info, which compiles a  *)
(* pack and an unpack kernel per direction set and emits the class.       *)
(* Source: src/python/pystencils_walberla/codegen.py lines 187-340.        *)
(*                                                                         *)
(* Every loop of the code over a Python set is a sequence of steps, one   *)
(* per element, taken in any order (set iteration order is arbitrary);    *)
(* the loop over the sorted direction sets takes them in sorted order.    *)
(* An exception ends the call in phase "error".  The external kernel      *)
(* compiler and the template renderer are not modelled: a kernel is the   *)
(* list of assignments handed to create_kernel.                           *)
(***************************************************************************)
EXTENDS DirectionAlgebra, FiniteSets

CONSTANTS
    Dim,            \* number of spatial dimensions (2 or 3)
    Fields,         \* field numbers; a field's name is its number
    FieldDType,     \* the numeric data type of each field
    Comps,          \* component indices of the fields' index dimension
    MaxOffset,      \* largest offset magnitude a kernel may contain
    Calls,          \* the calls considered: kind, operator, target, assignments
    CudaBuilt,      \* generation_context.cuda
    AssertsEnabled  \* FALSE when Python runs with -O (assert statements removed)

ASSUME DimAssumption == Dim \in Nat \ {0}
ASSUME MaxOffsetAssumption == MaxOffset \in Nat \ {0}
ASSUME FlagAssumption == CudaBuilt \in BOOLEAN /\ AssertsEnabled \in BOOLEAN
ASSUME FieldsAssumption == Fields \subseteq Nat \ {0} /\ Comps \subseteq Nat /\ IsFiniteSet(Comps)
ASSUME FieldDTypeAssumption == FieldDType \in [Fields -> STRING]

(* A pystencils Field.Access: field, relative cell offset, component.     *)
Access == [field : Fields, offset : [1..Dim -> -MaxOffset..MaxOffset], index : Comps]

(* A sympy Assignment (isAssignment) or another node of the list that     *)
(* line 212 skips; lhs and rhs are the field accesses each side contains. *)
AssignmentNode == [isAssignment : BOOLEAN, lhs : SUBSET Access, rhs : SUBSET Access]

Direction == [1..Dim -> -MaxOffset..MaxOffset]

(* A direction-set key: a tuple of integer tuples.  generate_pack_info_    *)
(* from_kernel builds the 1-tuples (comm_dir,) of Dim-long directions      *)
(* (lines 224, 231); generate_pack_info_for_field passes 3D directions      *)
(* whatever the field's dimension (line 179); a caller of                  *)
(* generate_pack_info may pass any tuple.                                  *)
Key == Seq(Seq(-MaxOffset..MaxOffset))

(* The arguments of the call.  entry "kernel": generate_pack_info_from_    *)
(* kernel(assignments, kind, operator, target); entry "direct":            *)
(* generate_pack_info(directions_to_pack_terms, operator, target), the     *)
(* caller's dictionary being packTerms; entry "field": generate_pack_info_ *)
(* for_field(field, direction_subset, operator, target), the subset being  *)
(* <<>> for None.  Unused fields are ignored.                              *)
IsCall(c) ==
    /\ c.entry \in {"kernel", "direct", "field"}
    /\ c.kind \in {"pull", "push"}
    /\ c.operator \in BOOLEAN
    /\ c.target \in {"CPU", "GPU"}
    /\ c.assignments \in Seq(AssignmentNode)
    /\ DOMAIN c.packTerms \subseteq Key
    /\ c.packTerms \in [DOMAIN c.packTerms -> SUBSET Access]
    /\ \A k \in DOMAIN c.packTerms : IsFiniteSet(c.packTerms[k])
    /\ c.field \in Fields
    /\ c.subset \in Key

ASSUME CallsAssumption == Calls # {} /\ \A c \in Calls : IsCall(c)

Phases == {"collect", "group", "compile", "done", "error"}

VARIABLES
    call,            \* the arguments of the call
    phase,           \* where the call is
    reads,           \* accesses on right-hand sides (line 214)
    writes,          \* accesses on left-hand sides (line 215)
    todo,            \* accesses the grouping loop has still to visit
    spec,            \* the defaultdict(set) `spec`: key -> set of terms
    keysTodo,        \* direction sets the compile loop has still to visit
    packK,           \* pack kernels: key -> (buffer slot -> term packed)
    unpackK,         \* unpack kernels: key -> (buffer slot -> assignment)
    elementsPerCell, \* key -> number of terms
    allAccesses,     \* all_accesses (line 292)
    fused,           \* the terms of the fused kernel (line 318)
    fieldName,       \* the 'field_name' of the emitted class (line 329)
    files            \* files written by generation_context.write_file

vars == <<call, phase, reads, writes, todo, spec, keysTodo, packK, unpackK,
          elementsPerCell, allAccesses, fused, fieldName, files>>

-----------------------------------------------------------------------------
(* Helpers.                                                                *)

(* An empty dictionary.                                                    *)
EmptyMap == [k \in {} |-> {}]

NoField == 0

WithinOne(v) == \A i \in DOMAIN v : v[i] \in {-1, 0, 1}

(* fa.field.center(..fa.index): the same field and component at offset 0. *)
Center(fa) == [fa EXCEPT !.offset = ZeroVector(Dim)]

(* spec[(comm_dir,)].add(term) for every comm_dir of dirs.                 *)
AddTerm(sp, dirs, term) ==
    LET keys == DOMAIN sp \cup {<<d>> : d \in dirs}
    IN  [k \in keys |-> (IF k \in DOMAIN sp THEN sp[k] ELSE {})
                        \cup (IF k[1] \in dirs THEN {term} ELSE {})]

(* sorted(terms, key=str) at line 258.  str(term) is abstracted by the     *)
(* lexicographic order on (field, component, offset); any total order      *)
(* serves, as pack and unpack use the same sorted list.                    *)
TermKey(t) == <<t.field, t.index>> \o [i \in 1..Dim |-> t.offset[i]]
TermLess(a, b) == DirectionLess(TermKey(a), TermKey(b))

(* enumerate(sorted terms): buffer slot i holds the term with i smaller    *)
(* terms.                                                                  *)
SortedLayout(S) ==
    [i \in 0..(Cardinality(S) - 1) |->
        CHOOSE t \in S : Cardinality({u \in S : TermLess(u, t)}) = i]

(* sorted(items, key=lambda e: e[0]) at line 259: the smallest key first. *)
KeyLess(k1, k2) ==
    \/ \E i \in 1..Len(k1) :
          /\ i <= Len(k2)
          /\ \A j \in 1..(i - 1) : k1[j] = k2[j]
          /\ DirectionLess(k1[i], k2[i])
    \/ /\ Len(k1) < Len(k2)
       /\ \A j \in 1..Len(k1) : k1[j] = k2[j]
IsFirstKey(k, K) == \A k2 \in K \ {k} : KeyLess(k, k2)

AccessedTerms(sp) == UNION {sp[k] : k \in DOMAIN sp}

(* config_from_context (lines 468-473) raises when asked for GPU code and  *)
(* waLBerla is not built with CUDA.                                        *)
ConfigRaises(target) == target = "GPU" /\ ~CudaBuilt

-----------------------------------------------------------------------------
(* Actions.                                                                *)

Init ==
    /\ call \in Calls
    /\ phase = "collect"
    /\ reads = {} /\ writes = {} /\ todo = {}
    /\ spec = EmptyMap /\ keysTodo = {}
    /\ packK = EmptyMap /\ unpackK = EmptyMap /\ elementsPerCell = EmptyMap
    /\ allAccesses = {} /\ fused = {} /\ fieldName = NoField /\ files = {}

(* generate_pack_info called directly: its dictionary argument is the pack *)
(* spec, and there is nothing to group.                                    *)
CallDirect ==
    /\ phase = "collect"
    /\ call.entry = "direct"
    /\ spec' = call.packTerms
    /\ phase' = "group"
    /\ UNCHANGED <<call, reads, writes, todo, keysTodo, packK, unpackK,
                   elementsPerCell, allAccesses, fused, fieldName, files>>

(* The product of three copies of (-1, 0, 1) at line 179: all 27 3D     *)
(* directions, the centre included, in lexicographic order.               *)
AllDirections3D ==
    [n \in 1..27 |-> <<((n - 1) \div 9) - 1, (((n - 1) \div 3) % 3) - 1, ((n - 1) % 3) - 1>>]

(* generate_pack_info_for_field (lines 157-184): one direction set, the    *)
(* subset given or else all 27 directions, packing every component of the  *)
(* field at the centre.                                                    *)
CallForField ==
    LET subset == IF call.subset = <<>> THEN AllDirections3D ELSE call.subset
    IN  /\ phase = "collect"
        /\ call.entry = "field"
        /\ spec' = [k \in {subset} |->
                       {[field |-> call.field, offset |-> ZeroVector(Dim), index |-> c] :
                            c \in Comps}]
        /\ phase' = "group"
        /\ UNCHANGED <<call, reads, writes, todo, keysTodo, packK, unpackK,
                       elementsPerCell, allAccesses, fused, fieldName, files>>

(* Lines 204-216: gather the field accesses of every Assignment node; the *)
(* grouping loop then visits reads (pull) or writes (push).                *)
Collect ==
    LET nodes == {call.assignments[i] : i \in 1..Len(call.assignments)}
        rs == UNION {a.rhs : a \in {n \in nodes : n.isAssignment}}
        ws == UNION {a.lhs : a \in {n \in nodes : n.isAssignment}}
    IN  /\ phase = "collect"
        /\ call.entry = "kernel"
        /\ reads' = rs
        /\ writes' = ws
        /\ todo' = IF call.kind = "pull" THEN rs ELSE ws
        /\ phase' = "group"
        /\ UNCHANGED <<call, spec, keysTodo, packK, unpackK, elementsPerCell,
                       allAccesses, fused, fieldName, files>>

(* One iteration of the loop at lines 218-224 (pull) or 226-231 (push).    *)
(* The assert of line 219/227 raises on an offset wider than one; an      *)
(* all-zero offset is skipped; otherwise the term (the centre access for  *)
(* pull, the access itself for push) is added under every direction that  *)
(* comm_directions yields for the inverse offset (pull) or the offset     *)
(* itself (push).                                                          *)
Group(fa) ==
    /\ phase = "group"
    /\ fa \in todo
    /\ todo' = todo \ {fa}
    /\ \/ /\ AssertsEnabled /\ ~WithinOne(fa.offset)
          /\ phase' = "error"
          /\ UNCHANGED spec
       \/ /\ ~AssertsEnabled \/ WithinOne(fa.offset)
          /\ IsZero(fa.offset)
          /\ UNCHANGED <<phase, spec>>
       \/ /\ ~AssertsEnabled \/ WithinOne(fa.offset)
          /\ ~IsZero(fa.offset)
          /\ spec' = IF call.kind = "pull"
                     THEN AddTerm(spec, CommDirections(InverseDirection(fa.offset)),
                                  Center(fa))
                     ELSE AddTerm(spec, CommDirections(fa.offset), fa)
          /\ UNCHANGED phase
    /\ UNCHANGED <<call, reads, writes, keysTodo, packK, unpackK,
                   elementsPerCell, allAccesses, fused, fieldName, files>>

(* generate_pack_info up to its loop (lines 258-288): config_from_context *)
(* raises for a GPU target without CUDA (lines 471-473); no accessed term *)
(* raises "No fields to pack!"; terms of several data types raise          *)
(* NotImplementedError; otherwise the loop over the direction sets starts. *)
GeneratePackInfo ==
    LET dtypes == {FieldDType[t.field] : t \in AccessedTerms(spec)}
    IN  /\ phase = "group"
        /\ todo = {}
        /\ \/ /\ ConfigRaises(call.target)
              /\ phase' = "error"
              /\ UNCHANGED keysTodo
           \/ /\ ~ConfigRaises(call.target)
              /\ Cardinality(dtypes) # 1
              /\ phase' = "error"
              /\ UNCHANGED keysTodo
           \/ /\ ~ConfigRaises(call.target)
              /\ Cardinality(dtypes) = 1
              /\ phase' = "compile"
              /\ keysTodo' = DOMAIN spec
        /\ UNCHANGED <<call, reads, writes, todo, spec, packK, unpackK,
                       elementsPerCell, allAccesses, fused, fieldName, files>>

(* The pack assignments buffer(i) = term (line 305) and the unpack         *)
(* assignments term = buffer(i), or term = operator(term, buffer(i))       *)
(* (lines 308-311), over the sorted terms.                                 *)
(* Mutant: the unpack kernel walks the sorted terms in reverse order.      *)
UnpackReversed(terms, op) ==
    LET layout == SortedLayout(terms)
    IN  [i \in DOMAIN layout |->
            [target |-> layout[Cardinality(terms) - 1 - i], reduce |-> op]]

PackAssignments(terms) == SortedLayout(terms)
UnpackAssignments(terms, op) ==
    LET layout == SortedLayout(terms)
    IN  [i \in DOMAIN layout |-> [target |-> layout[i], reduce |-> op]]

(* Mutant: the unpack kernel of a direction set left out of unpack_kernels.*)
CompileDirectionSetNoUnpack(k) ==
    /\ phase = "compile"
    /\ k \in keysTodo
    /\ IsFirstKey(k, keysTodo)
    /\ keysTodo' = keysTodo \ {k}
    /\ packK' = [x \in DOMAIN packK \cup {k} |->
                   IF x = k THEN PackAssignments(spec[k]) ELSE packK[x]]
    /\ elementsPerCell' = [x \in DOMAIN elementsPerCell \cup {k} |->
                             IF x = k THEN Cardinality(spec[k])
                             ELSE elementsPerCell[x]]
    /\ allAccesses' = allAccesses \cup spec[k]
    /\ UNCHANGED <<call, reads, writes, todo, spec, fused, fieldName, files,
                   phase, unpackK>>

(* One iteration of the loop at lines 294-317, on the smallest remaining  *)
(* key: a direction wider than one raises NotImplementedError, otherwise   *)
(* the pack and unpack kernels and the element count are recorded.         *)
CompileDirectionSet(k) ==
    /\ phase = "compile"
    /\ k \in keysTodo
    /\ IsFirstKey(k, keysTodo)
    /\ keysTodo' = keysTodo \ {k}
    /\ \/ /\ \E i \in 1..Len(k) : ~WithinOne(k[i])
          /\ phase' = "error"
          /\ UNCHANGED <<packK, unpackK, elementsPerCell, allAccesses>>
       \/ /\ \A i \in 1..Len(k) : WithinOne(k[i])
          /\ packK' = [x \in DOMAIN packK \cup {k} |->
                         IF x = k THEN PackAssignments(spec[k]) ELSE packK[x]]
          /\ unpackK' = [x \in DOMAIN unpackK \cup {k} |->
                           IF x = k THEN UnpackAssignments(spec[k], call.operator)
                           ELSE unpackK[x]]
          /\ elementsPerCell' = [x \in DOMAIN elementsPerCell \cup {k} |->
                                   IF x = k THEN Cardinality(spec[k])
                                   ELSE elementsPerCell[x]]
          /\ allAccesses' = allAccesses \cup spec[k]
          /\ UNCHANGED phase
    /\ UNCHANGED <<call, reads, writes, todo, spec, fused, fieldName, files>>

(* Lines 318-340: the fused kernel over all accesses, field_names.pop()    *)
(* (an arbitrary element of the set of accessed field names), and the two *)
(* files of the class.                                                     *)
Emit ==
    /\ phase = "compile"
    /\ keysTodo = {}
    /\ fused' = allAccesses
    /\ \E f \in {t.field : t \in allAccesses} : fieldName' = f
    /\ files' = {"h", IF call.target = "CPU" THEN "cpp" ELSE "cu"}
    /\ phase' = "done"
    /\ UNCHANGED <<call, reads, writes, todo, spec, keysTodo, packK, unpackK,
                   elementsPerCell, allAccesses>>

Next ==
    \/ CallDirect
    \/ CallForField
    \/ Collect
    \/ \E fa \in todo : Group(fa)
    \/ GeneratePackInfo
    \/ \E k \in keysTodo : CompileDirectionSet(k)
    \/ Emit

Spec == Init /\ [][Next]_vars

-----------------------------------------------------------------------------
(* Properties.                                                             *)

TypeOK ==
    /\ IsCall(call)
    /\ phase \in Phases
    /\ reads \in SUBSET Access /\ writes \in SUBSET Access /\ todo \in SUBSET Access
    /\ DOMAIN spec \subseteq Key /\ spec \in [DOMAIN spec -> SUBSET Access]
    /\ keysTodo \subseteq DOMAIN spec
    /\ DOMAIN packK \subseteq DOMAIN spec
    /\ DOMAIN unpackK = DOMAIN packK
    /\ elementsPerCell \in [DOMAIN packK -> Nat]
    /\ allAccesses \in SUBSET Access /\ fused \in SUBSET Access
    /\ fieldName \in Fields \cup {NoField}
    /\ files \in SUBSET {"h", "cpp", "cu"}

(* The accesses the grouping loop visits: reads for pull, writes for push. *)
Visited == IF call.kind = "pull" THEN reads ELSE writes

(* The pack spec that spec.md section 4.4 (GROUP) asks for, written with   *)
(* the closed form of section 8 instead of comm_directions: an access with *)
(* a non-zero offset o is packed for every non-zero sub-vector of the      *)
(* inverse offset (pull) or of o (push), the centre access for pull.       *)
NeededDirections(kind, fa) ==
    IF kind = "pull" THEN SubVectors(InverseDirection(fa.offset))
    ELSE SubVectors(fa.offset)
PackedTerm(kind, fa) == IF kind = "pull" THEN Center(fa) ELSE fa
Contributing(R) == {fa \in R : ~IsZero(fa.offset)}
ReferencePackSpec(kind, R) ==
    [k \in {<<d>> : d \in UNION {NeededDirections(kind, fa) : fa \in Contributing(R)}} |->
        {PackedTerm(kind, fa) :
            fa \in {g \in Contributing(R) : k[1] \in NeededDirections(kind, g)}}]

(* Once grouping is over, whatever order the Python set `reads` (or        *)
(* `writes`) was iterated in, the pack spec built through comm_directions  *)
(* (codegen.py lines 217-231) is exactly the reference pack spec: every    *)
(* diagonal access fanned out to all its face and edge directions, no zero *)
(* direction, no access packed for a direction that does not need it.     *)
PackSpecClosedForm ==
    /\ call.entry = "kernel"
    /\ phase \in {"compile", "done"}
    => spec = ReferencePackSpec(call.kind, Visited)

(* spec.md 4.4: "exactly one field name may be the subject of a pack-info *)
(* (fatal if zero or multiple distinct field names are discovered)".  The  *)
(* code (line 329) pops an arbitrary name instead.                         *)
SingleFieldEmitted ==
    phase = "done" => Cardinality({t.field : t \in AccessedTerms(spec)}) = 1

(* spec.md 4.4 (COLLECT): an access offset of magnitude above one is       *)
(* fatal ("unsupported halo width"); the code checks it with assert        *)
(* statements (lines 219, 227) only.                                       *)
HaloWidthRejected ==
    phase = "done" => \A fa \in Visited : WithinOne(fa.offset)

=============================================================================
