---------------------------- MODULE MpiDtypeInfo ----------------------------
(***************************************************************************)
(* generate_mpidtype_info_from_kernel (codegen.py lines 343-396): derive,  *)
(* from a kernel's field accesses, which components of the one field whose *)
(* neighbours are accessed must be sent in each communication direction,   *)
(* and emit an MPI-datatype info header for it.  One call is a state       *)
(* machine with one action per step of the code; a loop over a Python set  *)
(* takes its elements in any order; an exception ends the call in phase    *)
(* "error".  AssertsEnabled = FALSE models python -O, which removes the    *)
(* assert statements of lines 345, 361, 364, 369, 373, 377 and 381.        *)
(***************************************************************************)
EXTENDS DirectionAlgebra, FiniteSets

CONSTANTS
    Dim,            \* spatial dimensions of the fields
    Fields,         \* field identities
    Rank,           \* Rank[f]: the number of index dimensions of field f
    Comps,          \* the values an index coordinate takes
    MaxOffset,      \* largest offset magnitude a kernel uses
    Kernels,        \* the calls considered: kind and assignment list
    AssertsEnabled  \* FALSE under python -O

ASSUME MDimAssumption == Dim \in Nat \ {0}
ASSUME MMaxOffsetAssumption == MaxOffset \in Nat \ {0}
ASSUME MFieldsAssumption ==
    /\ IsFiniteSet(Fields)
    /\ Rank \in [Fields -> 0..2]
    /\ Comps \subseteq Nat /\ Comps # {}
    /\ AssertsEnabled \in BOOLEAN

Direction == [1..Dim -> -MaxOffset..MaxOffset]

(* A field access fa: its field, its offsets and its index (a tuple of     *)
(* Rank[fa.field] coordinates).                                            *)
Access == UNION {[field : {f}, offset : Direction, index : [1..Rank[f] -> Comps]] : f \in Fields}

(* A sympy Assignment (isAssignment) or another node, which line 353-354  *)
(* skips; lhs and rhs are the field accesses of each side.                 *)
AssignmentNode == [isAssignment : BOOLEAN, lhs : SUBSET Access, rhs : SUBSET Access]

(* kind is the argument of line 344: 'pull', 'push' or another string.    *)
ASSUME KernelsAssumption ==
    /\ Kernels # {}
    /\ Kernels \subseteq [kind : {"pull", "push", "other"}, assignments : Seq(AssignmentNode)]

WithinOne(o) == \A i \in DOMAIN o : o[i] \in {-1, 0, 1}

(* offset_to_direction_string names a direction of the first             *)
(* neighbourhood injectively ("E", "NW", "TSE", ...); a direction is its   *)
(* own name here.                                                          *)
DirectionString(d) == d

(* Mutant: the key is the direction string itself, not a 1-tuple.        *)
AddIndexUntupled(sp, dirs, c) ==
    [k \in DOMAIN sp \cup dirs |->
        (IF k \in DOMAIN sp THEN sp[k] ELSE {}) \cup (IF k \in dirs THEN {c} ELSE {})]

(* Mutant: the set is replaced instead of added to.                        *)
AddIndexOverwrite(sp, dirs, c) ==
    LET keys == {<<DirectionString(d)>> : d \in dirs}
    IN  [k \in DOMAIN sp \cup keys |-> IF k \in keys THEN {c} ELSE sp[k]]

(* spec[key].add(index): the defaultdict(set) update of lines 370/382.     *)
AddIndex(sp, dirs, c) ==
    LET keys == {<<DirectionString(d)>> : d \in dirs}
    IN  [k \in DOMAIN sp \cup keys |->
            (IF k \in DOMAIN sp THEN sp[k] ELSE {}) \cup (IF k \in keys THEN {c} ELSE {})]

VARIABLES
    kernel,     \* the arguments of the call
    phase,      \* "collect", "select", "group", "done" or "error"
    reads,      \* the set 'reads' (line 346)
    writes,     \* the set 'writes' (line 347)
    todo,       \* accesses the loop of line 363/376 has not yet visited
    spec,       \* the defaultdict 'spec' (line 358)
    field,      \* the field popped at line 362/374 (0 before)
    header      \* the emitted header: <<>> or <<field, spec>>

mvars == <<kernel, phase, reads, writes, todo, spec, field, header>>

NoField == 0
EmptySpec == [k \in {} |-> {}]

MInit ==
    /\ kernel \in Kernels
    /\ phase = "collect"
    /\ reads = {} /\ writes = {} /\ todo = {}
    /\ spec = EmptySpec
    /\ field = NoField
    /\ header = <<>>

(* Lines 345-356: the kind assert, then the reads of every right-hand side *)
(* and the writes of every left-hand side of the Assignment nodes.         *)
MCollect ==
    LET nodes == {kernel.assignments[i] : i \in 1..Len(kernel.assignments)}
        asg == {n \in nodes : n.isAssignment}
    IN  /\ phase = "collect"
        /\ \/ /\ AssertsEnabled /\ kernel.kind \notin {"pull", "push"}
              /\ phase' = "error"
              /\ UNCHANGED <<reads, writes>>
           \/ /\ ~AssertsEnabled \/ kernel.kind \in {"pull", "push"}
              /\ reads' = UNION {a.rhs : a \in asg}
              /\ writes' = UNION {a.lhs : a \in asg}
              /\ phase' = "select"
        /\ UNCHANGED <<kernel, todo, spec, field, header>>

(* Lines 359-362 (pull) and 371-374 (push): the assert that one field is   *)
(* accessed, then set.pop(), which takes an arbitrary element and raises   *)
(* KeyError on an empty set; 'else' raises ValueError (line 384).          *)
SelectField ==
    LET accs == IF kernel.kind = "pull" THEN reads ELSE writes
        fs == {fa.field : fa \in accs}
    IN  /\ phase = "select"
        /\ \/ /\ kernel.kind \notin {"pull", "push"}
              /\ phase' = "error"
              /\ UNCHANGED <<todo, field>>
           \/ /\ kernel.kind \in {"pull", "push"}
              /\ \/ AssertsEnabled /\ Cardinality(fs) # 1
                 \/ fs = {}
              /\ phase' = "error"
              /\ UNCHANGED <<todo, field>>
           \/ /\ kernel.kind \in {"pull", "push"}
              /\ ~AssertsEnabled \/ Cardinality(fs) = 1
              /\ \E f \in fs : field' = f
              /\ todo' = accs
              /\ phase' = "group"
        /\ UNCHANGED <<kernel, reads, writes, spec, header>>

(* One iteration of the loop of lines 363-370 (pull) or 376-382 (push):    *)
(* the width assert; an all-zero offset is skipped; otherwise, for every   *)
(* direction comm_directions yields for the inverse offset (pull) or the   *)
(* offset (push), the assert that the index is one-dimensional, then       *)
(* index[0] is added under that direction.  comm_directions of a non-zero  *)
(* offset is never empty, so the index assert is met on the first          *)
(* iteration; without it, index[0] of an empty index raises IndexError.    *)
MGroup(fa) ==
    LET dirs == IF kernel.kind = "pull" THEN CommDirections(InverseDirection(fa.offset))
                ELSE CommDirections(fa.offset)
    IN  /\ phase = "group"
        /\ fa \in todo
        /\ todo' = todo \ {fa}
        /\ \/ /\ AssertsEnabled /\ ~WithinOne(fa.offset)
              /\ phase' = "error"
              /\ UNCHANGED spec
           \/ /\ ~AssertsEnabled \/ WithinOne(fa.offset)
              /\ IsZero(fa.offset)
              /\ UNCHANGED <<phase, spec>>
           \/ /\ ~AssertsEnabled \/ WithinOne(fa.offset)
              /\ ~IsZero(fa.offset)
              /\ \/ AssertsEnabled /\ Rank[fa.field] # 1
                 \/ Rank[fa.field] = 0
              /\ phase' = "error"
              /\ UNCHANGED spec
           \/ /\ ~AssertsEnabled \/ WithinOne(fa.offset)
              /\ ~IsZero(fa.offset)
              /\ ~AssertsEnabled \/ Rank[fa.field] = 1
              /\ Rank[fa.field] # 0
              /\ spec' = AddIndex(spec, dirs, fa.index[1])
              /\ UNCHANGED phase
        /\ UNCHANGED <<kernel, reads, writes, field, header>>

(* Lines 386-396: the Jinja context reads field.index_shape[0], which      *)
(* raises IndexError for a field without index dimensions; otherwise the   *)
(* header is written.                                                      *)
EmitHeader ==
    /\ phase = "group"
    /\ todo = {}
    /\ \/ /\ Rank[field] = 0
          /\ phase' = "error"
          /\ UNCHANGED header
       \/ /\ Rank[field] # 0
          /\ header' = <<field, spec>>
          /\ phase' = "done"
    /\ UNCHANGED <<kernel, reads, writes, todo, spec, field>>

MNext ==
    \/ MCollect
    \/ SelectField
    \/ \E fa \in todo : MGroup(fa)
    \/ EmitHeader

MSpec == MInit /\ [][MNext]_mvars

-----------------------------------------------------------------------------
(* Properties.                                                             *)

MTypeOK ==
    /\ kernel \in Kernels
    /\ phase \in {"collect", "select", "group", "done", "error"}
    /\ reads \in SUBSET Access /\ writes \in SUBSET Access /\ todo \in SUBSET Access
    /\ DOMAIN spec \subseteq {<<d>> : d \in Direction}
    /\ spec \in [DOMAIN spec -> SUBSET Comps]
    /\ field \in Fields \cup {NoField}
    /\ header = <<>> \/ header = <<field, spec>>

(* The accesses whose halo values the emitted datatypes must carry: the    *)
(* non-centre reads (pull) or writes (push) of the kernel.                 *)
Communicated == {fa \in (IF kernel.kind = "pull" THEN reads ELSE writes) : ~IsZero(fa.offset)}

(* For an access, the neighbour directions whose exchange must carry it:   *)
(* every non-zero sub-vector of the direction the value travels in, the    *)
(* inverse offset for pull and the offset for push.                        *)
CarriedIn(fa) ==
    SubVectors(IF kernel.kind = "pull" THEN InverseDirection(fa.offset) ELSE fa.offset)

(* Whenever a header is emitted (asserts on), it names the one field the   *)
(* kernel's neighbour accesses touch, and its direction table holds, for   *)
(* each neighbour direction, exactly the components of that field whose   *)
(* neighbour values reach the block through that direction: no component  *)
(* is missing (a ghost value left stale) and none is extra, whatever order *)
(* the loop of lines 363/376 visits the accesses in.                       *)
HeaderExact ==
    header # <<>> =>
        /\ \A fa \in Communicated : fa.field = header[1]
        /\ DOMAIN header[2] = {<<d>> : d \in UNION {CarriedIn(fa) : fa \in Communicated}}
        /\ \A k \in DOMAIN header[2] :
              header[2][k] = {fa.index[1] : fa \in {x \in Communicated : k[1] \in CarriedIn(x)}}


(* Even under python -O, when the asserts no longer stop a kernel reading  *)
(* several fields or a tensor field, an emitted header still lists, under  *)
(* every neighbour direction a first-neighbourhood access of the emitted   *)
(* field is carried in, that access's first index: stripping the asserts   *)
(* of lines 361-381 never drops a component the exchange needs.            *)
HeaderComplete ==
    header # <<>> =>
        \A fa \in Communicated :
            fa.field = header[1] /\ WithinOne(fa.offset) =>
                \A d \in CarriedIn(fa) :
                    /\ <<d>> \in DOMAIN header[2]
                    /\ fa.index[1] \in header[2][<<d>>]

=============================================================================
