---------------------------- MODULE BoundaryData ----------------------------
(***************************************************************************)
(* The boundary additional-data handlers of lbmpy_walberla/additional_data_*)
(* handler.py: the dispatch of default_additional_data_handler (lines      *)
(* 13-24), and, for one boundary link (a fluid cell 'it' and a stencil     *)
(* direction pointing into a boundary cell n), what the initialiser code   *)
(* each handler generates does when it runs: the free-slip handler's      *)
(* run-time search for the wall normal and the reference direction (lines  *)
(* 49-104), the UBB handler's velocity copy (lines 134-141) and the        *)
(* outflow handler's selection of directions and extrapolation sources     *)
(* (lines 160-229).  The generated statements are modelled by what they   *)
(* do, one action per statement group, in their order.  Cells are offsets  *)
(* relative to the fluid cell 'it'; the domain flags of its neighbourhood  *)
(* are an input.                                                           *)
(***************************************************************************)
EXTENDS DirectionAlgebra, FiniteSets

CONSTANTS
    Stencils,       \* the lattice stencils: tuples of velocities, C first
    Geometries,     \* Geometries[d]: flag fields [neighbour -> in domain?]
    OutflowNormals, \* the declared normals of outflow boundaries
    AssertsEnabled  \* FALSE under python -O

StencilDim(st) == Len(st[1])

ASSUME BoundaryAssumption ==
    /\ Stencils # {}
    /\ \A st \in Stencils : StencilDim(st) \in {2, 3}
                             /\ \A q \in 1..Len(st) : st[q] \in Offsets(StencilDim(st))
    /\ OutflowNormals \subseteq Offsets(2) \cup Offsets(3)
    /\ \A d \in {2, 3} : Geometries[d] \subseteq {g \in [Offsets(d) -> BOOLEAN] : g[ZeroVector(d)]}
    /\ AssertsEnabled \in BOOLEAN

(* The lattice stencils of lbmpy are symmetric: the mirror image of a     *)
(* velocity across every axis, and its inverse, are velocities of the same *)
(* stencil, so stencil.index of lines 60 and 65 never raises.             *)
ASSUME StencilAssumption ==
    \A st \in Stencils :
        /\ st # <<>>
        /\ st \in Seq(Offsets(StencilDim(st)))
        /\ \A q \in 1..Len(st) :
              /\ \E p \in 1..Len(st) : st[p] = InverseDirection(st[q])
              /\ \A i \in 1..StencilDim(st) :
                    \E p \in 1..Len(st) : st[p] = [st[q] EXCEPT ![i] = -st[q][i]]

(* The boundary kinds default_additional_data_handler tells apart; NoSlip  *)
(* stands for every boundary without additional data, Other for one with   *)
(* additional data and no handler.                                         *)
Kinds == {"NoSlip", "FreeSlip", "UBB", "Outflow", "Other"}

(* stencil.index(v), 1-based.                                              *)
IndexOf(st, v) == CHOOSE q \in 1..Len(st) : st[q] = v

(* MirroredStencilDirections.mirror_stencil(d, axis): d reflected across   *)
(* the plane normal to the axis.                                           *)
Mirror(d, axis) == [d EXCEPT ![axis] = -d[axis]]

(* Mutant: the table built from inverse_direction instead of the mirror.   *)
AxisMirroredNoMirror(st, axis) == [q \in 1..Len(st) |-> IndexOf(st, InverseDirection(st[q]))]

(* x/y/z_axis_mirrored_stencil_dir (lines 58-61): for every stencil index  *)
(* the index of its mirror image across the axis.                          *)
AxisMirrored(st, axis) == [q \in 1..Len(st) |-> IndexOf(st, Mirror(st[q], axis))]

(* The members of the generated boundary element struct of each kind.      *)
Members(kind, d) ==
    CASE kind = "FreeSlip" -> {"wnx", "wny", "ref_dir"} \cup (IF d = 3 THEN {"wnz"} ELSE {})
      [] kind = "UBB"      -> {"vel_0", "vel_1"} \cup (IF d = 3 THEN {"vel_2"} ELSE {})
      [] kind = "Outflow"  -> {"pdf", "pdf_nd"}
      [] OTHER             -> {}

Axis(i) == CASE i = 1 -> "x" [] i = 2 -> "y" [] OTHER -> "z"

(* element.wnx, wny, wnz: the normal's member for axis i.                 *)
WnMember(i) == CASE i = 1 -> "wnx" [] i = 2 -> "wny" [] OTHER -> "wnz"

(* The outgoing pdf of direction q as AccessPdfValues(..., streaming_dir=  *)
(* 'out') locates it for the pull and the push pattern: the cell offset    *)
(* and the pdf index (lbmpy, outside this repository).                     *)
PdfAccess(st, pattern, q) ==
    [offset |-> IF pattern = "pull" THEN ZeroVector(StencilDim(st)) ELSE st[q], index |-> q]

VARIABLES
    kind,       \* the boundary kind
    stencil,    \* the lattice stencil
    dir,        \* the stencil index of the link direction
    domain,     \* flags: neighbour offset -> part of the domain mask
    normal,     \* the outflow normal (Outflow only)
    pattern,    \* the streaming pattern (Outflow only)
    pc,         \* the statement group of the initialiser to run next
    wn,         \* element.wnx, wny(, wnz)
    refDir,     \* the local ref_dir
    elem        \* the element members written: member -> value

bvars == <<kind, stencil, dir, domain, normal, pattern, pc, wn, refDir, elem>>

Dirs(st) == {q \in 1..Len(st) : ~IsZero(st[q])}

BInit ==
    /\ kind \in Kinds
    /\ stencil \in Stencils
    /\ dir \in Dirs(stencil)
    /\ domain \in LET open == {g \in Geometries[StencilDim(stencil)] : ~g[stencil[dir]]}
                  IN  IF kind = "FreeSlip" THEN open ELSE {CHOOSE g \in open : TRUE}
    /\ normal \in IF kind = "Outflow" THEN {m \in OutflowNormals : Len(m) = StencilDim(stencil)} ELSE {<<>>}
    /\ pattern \in IF kind = "Outflow" THEN {"pull", "push"} ELSE {"pull"}
    /\ pc = "dispatch"
    /\ wn = ZeroVector(StencilDim(stencil))
    /\ refDir = IndexOf(stencil, InverseDirection(stencil[dir]))
    /\ elem = [m \in {} |-> 0]

(* default_additional_data_handler (lines 13-24), with the asserts of the  *)
(* handlers' constructors: no data needs no handler; a kind with data but  *)
(* no handler raises ValueError; an outflow normal that is not planar      *)
(* fails the assert of line 160.                                           *)
Dispatch ==
    /\ pc = "dispatch"
    /\ pc' = CASE kind = "NoSlip"  -> "none"
               [] kind = "Other"   -> "error"
               [] kind = "Outflow" /\ AssertsEnabled
                      /\ Cardinality({i \in DOMAIN normal : normal[i] # 0}) # 1 -> "error"
               [] kind = "FreeSlip" -> Axis(1)
               [] OTHER            -> "init"
    /\ UNCHANGED <<kind, stencil, dir, domain, normal, pattern, wn, refDir, elem>>

(* Mutant: the tested cell taken on the far side of n.                     *)
FreeSlipAxisWrongSide(i) ==
    LET inv == InverseDirection(stencil[dir])
        tested == [stencil[dir] EXCEPT ![i] = @ - inv[i]]
    IN  /\ kind = "FreeSlip" /\ pc = Axis(i)
        /\ IF tested \in DOMAIN domain /\ domain[tested]
           THEN wn' = [wn EXCEPT ![i] = inv[i]]
                /\ refDir' = AxisMirrored(stencil, i)[refDir]
           ELSE UNCHANGED <<wn, refDir>>
        /\ pc' = IF i = StencilDim(stencil) THEN "corner" ELSE Axis(i + 1)
        /\ elem' = [m \in DOMAIN elem \cup {WnMember(i)} |->
                       IF m = WnMember(i) THEN wn'[i] ELSE elem[m]]
        /\ UNCHANGED <<kind, stencil, dir, domain, normal, pattern>>

(* The free-slip test of axis i (lines 67-85): element.wn<i> = 0; if the  *)
(* cell n + inv[i] e_i is in the domain, element.wn<i> = inv[i] and ref_dir *)
(* is mirrored across axis i.  2D has no z test (lines 79-101).            *)
FreeSlipAxis(i) ==
    LET inv == InverseDirection(stencil[dir])
        tested == [stencil[dir] EXCEPT ![i] = @ + inv[i]]
    IN  /\ kind = "FreeSlip" /\ pc = Axis(i)
        /\ IF domain[tested]
           THEN wn' = [wn EXCEPT ![i] = inv[i]]
                /\ refDir' = AxisMirrored(stencil, i)[refDir]
           ELSE UNCHANGED <<wn, refDir>>
        /\ pc' = IF i = StencilDim(stencil) THEN "corner" ELSE Axis(i + 1)
        /\ elem' = [m \in DOMAIN elem \cup {WnMember(i)} |->
                       IF m = WnMember(i) THEN wn'[i] ELSE elem[m]]
        /\ UNCHANGED <<kind, stencil, dir, domain, normal, pattern>>

(* The concave-corner fallback (lines 86-101): with no axis neighbour in   *)
(* the domain the normal is inv and ref_dir the link direction; then       *)
(* element.ref_dir = ref_dir (line 102).                                   *)
FreeSlipCorner ==
    LET inv == InverseDirection(stencil[dir])
        wn2 == IF IsZero(wn) THEN inv ELSE wn
        ref2 == IF IsZero(wn) THEN dir ELSE refDir
    IN  /\ kind = "FreeSlip" /\ pc = "corner"
        /\ wn' = wn2
        /\ refDir' = ref2
        /\ elem' = [m \in DOMAIN elem \cup {"ref_dir"} |->
                       IF m = "ref_dir" THEN ref2
                       ELSE wn2[CHOOSE i \in 1..3 : m = WnMember(i)]]
        /\ pc' = "done"
        /\ UNCHANGED <<kind, stencil, dir, domain, normal, pattern>>

(* Mutant: vel_2 copied whatever the dimension.                            *)
UBBInitNoDimCheck ==
    /\ kind = "UBB" /\ pc = "init"
    /\ elem' = [m \in {"vel_0", "vel_1", "vel_2"} |-> 0]
    /\ pc' = "done"
    /\ UNCHANGED <<kind, stencil, dir, domain, normal, pattern, wn, refDir>>

(* The UBB initialiser (lines 134-141): the callback's velocity, copied    *)
(* into vel_0 and vel_1, and vel_2 in 3D.                                  *)
UBBInit ==
    /\ kind = "UBB" /\ pc = "init"
    /\ elem' = [m \in {"vel_0", "vel_1"} \cup (IF StencilDim(stencil) = 3 THEN {"vel_2"} ELSE {}) |-> 0]
    /\ pc' = "done"
    /\ UNCHANGED <<kind, stencil, dir, domain, normal, pattern, wn, refDir>>

(* Mutant: the sign test a == b dropped from stencil_info.                 *)
OutflowLinkNoSign(st, m, q) == \E i \in DOMAIN m : m[i] # 0 /\ st[q][i] # 0

(* stencil_info (lines 193-200): the directions sharing a non-zero         *)
(* component, with its sign, with the normal.                              *)
OutflowLink(st, m, q) == \E i \in DOMAIN m : m[i] # 0 /\ st[q][i] # 0 /\ m[i] = st[q][i]

(* get_init_dict (lines 202-229): for a direction of stencil_info, pdf and *)
(* pdf_nd read the field at it + (the offsets of the outgoing access of    *)
(* the inverse direction) + (direction - normal), with that access's pdf  *)
(* index.  A direction outside stencil_info gets no element.               *)
OutflowInit ==
    LET d == stencil[dir]
        acc == PdfAccess(stencil, pattern, IndexOf(stencil, InverseDirection(d)))
        tangential == [i \in DOMAIN d |-> d[i] - normal[i]]
        src == <<[i \in DOMAIN d |-> acc.offset[i] + tangential[i]], acc.index>>
    IN  /\ kind = "Outflow" /\ pc = "init"
        /\ elem' = IF OutflowLink(stencil, normal, dir) THEN [m \in {"pdf", "pdf_nd"} |-> src]
                   ELSE elem
        /\ pc' = "done"
        /\ UNCHANGED <<kind, stencil, dir, domain, normal, pattern, wn, refDir>>

Dot(u, v) == u[1] * v[1] + u[2] * v[2] + (IF Len(u) = 3 THEN u[3] * v[3] ELSE 0)

BNext ==
    \/ Dispatch
    \/ \E i \in 1..3 : FreeSlipAxis(i)
    \/ FreeSlipCorner
    \/ UBBInit
    \/ OutflowInit

BSpec == BInit /\ [][BNext]_bvars

-----------------------------------------------------------------------------
(* Properties.                                                             *)

BTypeOK ==
    /\ kind \in Kinds
    /\ stencil \in Stencils
    /\ dir \in Dirs(stencil)
    /\ pc \in {"dispatch", "none", "error", "init", "x", "y", "z", "corner", "done"}
    /\ wn \in Offsets(StencilDim(stencil))
    /\ refDir \in 1..Len(stencil)
    /\ DOMAIN elem \subseteq Members(kind, StencilDim(stencil))

(* The wall normal and the reference direction the free-slip initialiser   *)
(* stores agree, whatever the flags around the link: the normal is never   *)
(* zero, points along the inverse link direction on each axis it has, and  *)
(* ref_dir indexes the inverse link direction mirrored across exactly      *)
(* those axes, after the axis tests and the concave-corner fallback of     *)
(* lines 67-102 have all run.                                              *)
RefDirMirrorsNormal ==
    kind = "FreeSlip" /\ pc = "done" =>
        LET inv == InverseDirection(stencil[dir])
        IN  /\ ~IsZero(wn)
            /\ \A i \in DOMAIN wn : wn[i] \in {0, inv[i]}
            /\ stencil[elem["ref_dir"]] = [i \in DOMAIN inv |-> IF wn[i] # 0 THEN -inv[i] ELSE inv[i]]
            /\ \A i \in DOMAIN wn : elem[WnMember(i)] = wn[i]

(* The flags of a flat wall normal to axis a on side s: the cells of the  *)
(* layer at s are outside the domain, all others inside.                  *)
FlatWall(d, a, s) == [c \in Offsets(d) |-> c[a] # s]

(* Next to a flat wall, every link into the wall, axis-parallel or         *)
(* diagonal, gets the wall's unit normal pointing into the fluid: the     *)
(* axis tests of lines 69-85 look at the right cells.                      *)
FlatWallNormal ==
    kind = "FreeSlip" /\ pc = "done" =>
        \A a \in DOMAIN wn, s \in {-1, 1} :
            domain = FlatWall(Len(wn), a, s) => wn = [i \in DOMAIN wn |-> IF i = a THEN -s ELSE 0]

(* For a planar outflow normal, the links given pdf and pdf_nd initialisers *)
(* are exactly those leaving the domain through the outflow face, and each *)
(* reads both from the same cell, one cell at most away from the fluid     *)
(* cell and never beyond its layer towards the boundary: the tangential    *)
(* correction of line 209 re-targets the extrapolation to the interior.   *)
OutflowSourcesInterior ==
    kind = "Outflow" /\ pc = "done" =>
        /\ ("pdf" \in DOMAIN elem) = (Dot(stencil[dir], normal) > 0)
        /\ "pdf" \in DOMAIN elem =>
              /\ elem["pdf"] = elem["pdf_nd"]
              /\ elem["pdf"][1] \in Offsets(Len(normal))
              /\ Dot(elem["pdf"][1], normal) <= 0

=============================================================================
