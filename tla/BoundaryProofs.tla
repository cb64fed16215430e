--------------------------- MODULE BoundaryProofs ---------------------------
(***************************************************************************)
(* Proofs about BoundaryData for every symmetric stencil, flag field and   *)
(* outflow normal: the type correctness of the generated initialisers, the *)
(* agreement of the free-slip wall normal with its reference direction    *)
(* (additional_data_handler.py lines 49-104), the flat-wall normal, and   *)
(* the outflow extrapolation sources (lines 160-229).                      *)
(***************************************************************************)
EXTENDS BoundaryData, DirectionAlgebraProofs, FiniteSetTheorems, TLAPS

Dim == StencilDim(stencil)

(* The inverse link direction inv_offset of line 54.                      *)
LinkInv == InverseDirection(stencil[dir])

(* The cell the axis-i test of lines 69-85 looks at, relative to it:      *)
(* n + inv[i] e_i.                                                         *)
Tested(i) == [stencil[dir] EXCEPT ![i] = @ + LinkInv[i]]

(* The axis index of a free-slip program counter.                          *)
AxisOf(p) == CASE p = "x" -> 1 [] p = "y" -> 2 [] OTHER -> 3

(* How many axis tests have run.                                           *)
Visited == IF pc \in {"x", "y", "z"} THEN AxisOf(pc) - 1 ELSE Dim

(* The normal the axis tests give: inv[i] on each axis whose tested cell   *)
(* is in the domain.                                                       *)
TestedNormal == [i \in 1..Dim |-> IF domain[Tested(i)] THEN LinkInv[i] ELSE 0]

(* The direction ref_dir must index for a normal w: the inverse link      *)
(* direction mirrored across the axes of w.                                *)
MirroredInv(w) == [i \in 1..Dim |-> IF w[i] # 0 THEN -LinkInv[i] ELSE LinkInv[i]]

NoElem == [m \in {} |-> 0]

(* The extrapolation source of get_init_dict (lines 202-229).              *)
OutflowSrc ==
    LET d == stencil[dir]
        acc == PdfAccess(stencil, pattern, IndexOf(stencil, InverseDirection(d)))
        tangential == [i \in DOMAIN d |-> d[i] - normal[i]]
    IN  <<[i \in DOMAIN d |-> acc.offset[i] + tangential[i]], acc.index>>

(* What the free-slip initialiser has computed after each statement group: *)
(* the normal is exactly the one of the tests run so far (or the corner    *)
(* fallback at the end), ref_dir indexes inv mirrored across the normal's *)
(* axes, and the members written hold the normal and ref_dir.             *)
FreeSlipInv ==
    kind = "FreeSlip" =>
        /\ domain \in Geometries[Dim] /\ ~domain[stencil[dir]]
        /\ pc \in {"dispatch", "x", "y", "z", "corner", "done"}
        /\ pc \in {"x", "y", "z"} => AxisOf(pc) <= Dim
        /\ stencil[refDir] = MirroredInv(wn)
        /\ pc \in {"x", "y", "z", "corner"} =>
              /\ wn = [i \in 1..Dim |-> IF i <= Visited THEN TestedNormal[i] ELSE 0]
              /\ DOMAIN elem = {WnMember(i) : i \in 1..Visited}
              /\ \A i \in 1..Visited : elem[WnMember(i)] = wn[i]
        /\ pc = "done" =>
              /\ wn = IF IsZero(TestedNormal) THEN LinkInv ELSE TestedNormal
              /\ DOMAIN elem = {WnMember(i) : i \in 1..Dim} \cup {"ref_dir"}
              /\ \A i \in 1..Dim : elem[WnMember(i)] = wn[i]
              /\ elem["ref_dir"] = refDir

(* What the outflow initialiser has computed: with the asserts on, a      *)
(* handler exists only for a planar normal, and the elements written are   *)
(* the pdf and pdf_nd sources of a link of stencil_info.                  *)
OutflowInv ==
    kind = "Outflow" =>
        /\ normal \in Offsets(Dim)
        /\ pc \in {"dispatch", "error", "init", "done"}
        /\ AssertsEnabled /\ pc \in {"init", "done"} =>
              Cardinality({i \in DOMAIN normal : normal[i] # 0}) = 1
        /\ pc = "init" => elem = NoElem
        /\ pc = "done" =>
              elem = IF OutflowLink(stencil, normal, dir)
                     THEN [m \in {"pdf", "pdf_nd"} |-> OutflowSrc] ELSE NoElem

(* The inductive invariant: the type, a fresh state before dispatch, and  *)
(* the two handlers' invariants.                                           *)
BInv ==
    /\ BTypeOK
    /\ pc = "dispatch" =>
          /\ wn = ZeroVector(Dim) /\ elem = NoElem
          /\ stencil[refDir] = LinkInv
    /\ pc = "init" => elem = NoElem /\ kind \in {"UBB", "Outflow"}
    /\ FreeSlipInv
    /\ OutflowInv

-----------------------------------------------------------------------------
(* Lemmas on stencils and member names.                                    *)

(* A stencil is a non-empty sequence of velocities of its dimension, 2 or 3.*)
LEMMA StencilFacts ==
    ASSUME NEW st \in Stencils
    PROVE  /\ StencilDim(st) \in {2, 3}
           /\ st \in Seq(Offsets(StencilDim(st)))
           /\ Len(st) \in Nat \ {0}
           /\ \A q \in 1..Len(st) : st[q] \in Offsets(StencilDim(st))
<1>1. StencilDim(st) \in {2, 3} /\ st \in Seq(Offsets(StencilDim(st)))
    BY BoundaryAssumption, StencilAssumption
<1>2. st # <<>>
    BY StencilAssumption
<1>3. Len(st) \in Nat \ {0}
    BY <1>1, <1>2, EmptySeq, LenProperties
<1>. QED
    BY <1>1, <1>3

(* stencil.index of the inverse of a velocity (line 65) finds it.          *)
LEMMA IndexOfInverse ==
    ASSUME NEW st \in Stencils, NEW q \in 1..Len(st)
    PROVE  /\ IndexOf(st, InverseDirection(st[q])) \in 1..Len(st)
           /\ st[IndexOf(st, InverseDirection(st[q]))] = InverseDirection(st[q])
<1>1. \E p \in 1..Len(st) : st[p] = InverseDirection(st[q])
    BY StencilAssumption
<1>. QED
    BY <1>1 DEF IndexOf

(* The mirror table of line 60 maps an index to the index of its mirror   *)
(* image.                                                                  *)
LEMMA AxisMirroredFacts ==
    ASSUME NEW st \in Stencils, NEW q \in 1..Len(st), NEW i \in 1..StencilDim(st)
    PROVE  /\ AxisMirrored(st, i)[q] \in 1..Len(st)
           /\ st[AxisMirrored(st, i)[q]] = Mirror(st[q], i)
<1>1. \A ii \in 1..StencilDim(st) :
          \E p \in 1..Len(st) : st[p] = [st[q] EXCEPT ![ii] = -st[q][ii]]
    BY StencilAssumption
<1>2. \E p \in 1..Len(st) : st[p] = Mirror(st[q], i)
    BY <1>1 DEF Mirror
<1>. QED
    BY <1>2 DEF AxisMirrored, IndexOf

(* The member names of the normal are distinct, and none is ref_dir.       *)
LEMMA WnMemberFacts ==
    /\ \A i, j \in 1..3 : WnMember(i) = WnMember(j) => i = j
    /\ \A i \in 1..3 : WnMember(i) # "ref_dir"
    /\ \A j \in 1..3 : (CHOOSE i \in 1..3 : WnMember(j) = WnMember(i)) = j
<1>1. \A i, j \in 1..3 : WnMember(i) = WnMember(j) => i = j
    BY DEF WnMember
<1>. QED
    BY <1>1 DEF WnMember

(* Inverting an offset of the first neighbourhood keeps it there.          *)
LEMMA InverseOffset ==
    ASSUME NEW n \in Nat, NEW o \in Offsets(n)
    PROVE  /\ InverseDirection(o) \in Offsets(n)
           /\ \A i \in 1..n : InverseDirection(o)[i] = -o[i]
BY DEF InverseDirection, Offsets

(* The link direction and its inverse in a well-typed state.               *)
LEMMA LinkFacts ==
    ASSUME stencil \in Stencils, dir \in Dirs(stencil)
    PROVE  /\ Dim \in {2, 3}
           /\ dir \in 1..Len(stencil)
           /\ stencil[dir] \in Offsets(Dim)
           /\ ~IsZero(stencil[dir])
           /\ LinkInv \in Offsets(Dim)
           /\ \A i \in 1..Dim : LinkInv[i] = -stencil[dir][i]
           /\ ~IsZero(LinkInv)
           /\ MirroredInv(ZeroVector(Dim)) = LinkInv
<1>1. /\ Dim \in {2, 3} /\ dir \in 1..Len(stencil)
      /\ stencil[dir] \in Offsets(Dim) /\ ~IsZero(stencil[dir])
    BY StencilFacts DEF Dirs, Dim
<1>2. LinkInv \in Offsets(Dim) /\ \A i \in 1..Dim : LinkInv[i] = -stencil[dir][i]
    BY <1>1, InverseOffset DEF LinkInv
<1>3. ~IsZero(LinkInv)
    BY <1>1, <1>2 DEF IsZero, Offsets
<1>4. MirroredInv(ZeroVector(Dim)) = LinkInv
    BY <1>2 DEF MirroredInv, ZeroVector, Offsets
<1>. QED
    BY <1>1, <1>2, <1>3, <1>4

(* A declared outflow normal of the stencil's dimension is an offset of   *)
(* that dimension.                                                         *)
LEMMA NormalOffset ==
    ASSUME NEW m \in OutflowNormals, NEW d \in {2, 3}, Len(m) = d
    PROVE  m \in Offsets(d)
<1>1. m \in Offsets(2) \cup Offsets(3)
    BY BoundaryAssumption
<1>2. m \in Offsets(2) => Len(m) = 2
    BY LenOfTuple DEF Offsets
<1>3. m \in Offsets(3) => Len(m) = 3
    BY LenOfTuple DEF Offsets
<1>. QED
    BY <1>1, <1>2, <1>3

-----------------------------------------------------------------------------
(* The inductive invariant.                                                *)

(* The initial state of an initialiser satisfies BInv.                     *)
THEOREM BInitInv == BInit => BInv
<1> SUFFICES ASSUME BInit PROVE BInv
    OBVIOUS
<1>1. /\ stencil \in Stencils /\ dir \in Dirs(stencil) /\ kind \in Kinds
      /\ pc = "dispatch" /\ wn = ZeroVector(Dim) /\ elem = NoElem
      /\ refDir = IndexOf(stencil, LinkInv)
    BY DEF BInit, Dim, NoElem, LinkInv
<1>2. refDir \in 1..Len(stencil) /\ stencil[refDir] = LinkInv
    BY <1>1, LinkFacts, IndexOfInverse DEF LinkInv
<1>3. wn \in Offsets(Dim)
    BY <1>1 DEF ZeroVector, Offsets
<1>4. kind = "FreeSlip" => domain \in Geometries[Dim] /\ ~domain[stencil[dir]]
    BY DEF BInit, Dim
<1>5. kind = "Outflow" => normal \in Offsets(Dim)
    <2>1. kind = "Outflow" => normal \in {m \in OutflowNormals : Len(m) = Dim}
        BY DEF BInit, Dim
    <2>. QED
        BY <2>1, <1>1, LinkFacts, NormalOffset
<1>6. BTypeOK
    BY <1>1, <1>2, <1>3 DEF BTypeOK, NoElem, Dim
<1>7. FreeSlipInv
    BY <1>1, <1>2, <1>4, LinkFacts DEF FreeSlipInv
<1>8. OutflowInv
    BY <1>1, <1>5 DEF OutflowInv
<1>. QED
    BY <1>1, <1>2, <1>6, <1>7, <1>8 DEF BInv

(* Every step leaves the inputs of the link alone, and with them the link  *)
(* direction, the tested cells and the outflow source.                    *)
LEMMA InputsUnchanged ==
    ASSUME [BNext]_bvars
    PROVE  /\ UNCHANGED <<kind, stencil, dir, domain, normal, pattern>>
           /\ Dim' = Dim /\ LinkInv' = LinkInv
           /\ TestedNormal' = TestedNormal
           /\ OutflowSrc' = OutflowSrc
           /\ \A w : MirroredInv(w)' = MirroredInv(w)
<1>1. UNCHANGED <<kind, stencil, dir, domain, normal, pattern>>
    BY DEF BNext, bvars, Dispatch, FreeSlipAxis, FreeSlipCorner, UBBInit, OutflowInit
<1>. QED
    BY <1>1 DEF Dim, LinkInv, TestedNormal, Tested, OutflowSrc, MirroredInv

(* The dispatch of default_additional_data_handler keeps BInv.             *)
LEMMA DispatchInv ==
    ASSUME BInv, Dispatch
    PROVE  BInv'
<1>1. /\ pc = "dispatch" /\ UNCHANGED <<kind, stencil, dir, domain, normal, pattern, wn, refDir, elem>>
      /\ wn = ZeroVector(Dim) /\ elem = NoElem /\ stencil[refDir] = LinkInv
    BY DEF Dispatch, BInv
<1>2. /\ Dim' = Dim /\ LinkInv' = LinkInv /\ TestedNormal' = TestedNormal
      /\ \A w : MirroredInv(w)' = MirroredInv(w)
    BY <1>1 DEF Dim, LinkInv, TestedNormal, Tested, MirroredInv
<1>3. BTypeOK /\ kind \in Kinds
    BY DEF BInv, BTypeOK
<1>4. pc' \in {"none", "error", "init", "x"}
    BY <1>1, <1>3 DEF Dispatch, Kinds, Axis
<1>5. BTypeOK'
    BY <1>1, <1>3, <1>4 DEF BTypeOK
<1>6. pc' = "init" => kind \in {"UBB", "Outflow"}
    BY <1>1, <1>3 DEF Dispatch, Kinds, Axis
<1>7. FreeSlipInv'
    <2>1. CASE kind = "FreeSlip"
        <3>1. pc' = "x"
            BY <1>1, <2>1 DEF Dispatch, Axis
        <3>2. wn = [i \in 1..Dim |-> IF i <= 0 THEN TestedNormal[i] ELSE 0]
            BY <1>1 DEF ZeroVector
        <3>3. stencil[refDir] = MirroredInv(wn)
            BY <1>1, <1>3, LinkFacts DEF BTypeOK
        <3>4. domain \in Geometries[Dim] /\ ~domain[stencil[dir]]
            BY <2>1 DEF BInv, FreeSlipInv
        <3>5. Dim \in {2, 3}
            BY <1>3, LinkFacts DEF BTypeOK
        <3>. QED
            BY <1>1, <1>2, <2>1, <3>1, <3>2, <3>3, <3>4, <3>5
               DEF FreeSlipInv, AxisOf, Visited, NoElem
    <2>2. CASE kind # "FreeSlip"
        BY <1>1, <2>2 DEF FreeSlipInv
    <2>. QED
        BY <2>1, <2>2
<1>8. OutflowInv'
    <2>1. CASE kind = "Outflow"
        <3>1. pc' \in {"error", "init"}
              /\ (AssertsEnabled /\ pc' = "init" => Cardinality({i \in DOMAIN normal : normal[i] # 0}) = 1)
            BY <1>1, <2>1 DEF Dispatch
        <3>. QED
            BY <1>1, <1>2, <2>1, <3>1 DEF BInv, OutflowInv
    <2>2. CASE kind # "Outflow"
        BY <1>1, <2>2 DEF OutflowInv
    <2>. QED
        BY <2>1, <2>2
<1>. QED
    BY <1>1, <1>4, <1>5, <1>6, <1>7, <1>8 DEF BInv

(* Mirroring ref_dir across an axis the normal has not yet got, while the  *)
(* normal gets inv on that axis, keeps ref_dir = MirroredInv(normal).      *)
LEMMA MirrorStep ==
    ASSUME stencil \in Stencils, dir \in Dirs(stencil),
           NEW w \in [1..Dim -> Int], NEW i \in 1..Dim, w[i] = 0
    PROVE  Mirror(MirroredInv(w), i) = MirroredInv([w EXCEPT ![i] = LinkInv[i]])
<1>. DEFINE w2 == [w EXCEPT ![i] = LinkInv[i]]
           F == [j \in 1..Dim |-> IF j = i \/ w[j] # 0 THEN -LinkInv[j] ELSE LinkInv[j]]
<1>1. LinkInv \in Offsets(Dim)
    BY LinkFacts
<1>2. Mirror(MirroredInv(w), i) = F
    BY DEF Mirror, MirroredInv
<1>3. LinkInv[i] \in {-1, 0, 1}
    BY <1>1 DEF Offsets
<1>4. MirroredInv(w2) = F
    BY <1>3 DEF MirroredInv
<1>. QED
    BY <1>2, <1>4

(* One axis test of the free-slip initialiser keeps BInv.                  *)
LEMMA FreeSlipAxisInv ==
    ASSUME BInv, NEW i \in 1..3, FreeSlipAxis(i)
    PROVE  BInv'
<1>1. /\ kind = "FreeSlip" /\ pc = Axis(i)
      /\ UNCHANGED <<kind, stencil, dir, domain, normal, pattern>>
    BY DEF FreeSlipAxis
<1>2. /\ Dim' = Dim /\ LinkInv' = LinkInv /\ TestedNormal' = TestedNormal
      /\ \A w : MirroredInv(w)' = MirroredInv(w)
    BY <1>1 DEF Dim, LinkInv, TestedNormal, Tested, MirroredInv
<1>3. /\ stencil \in Stencils /\ dir \in Dirs(stencil)
      /\ refDir \in 1..Len(stencil) /\ wn \in Offsets(Dim)
      /\ DOMAIN elem \subseteq Members(kind, Dim)
    BY DEF BInv, BTypeOK, Dim
<1>4. /\ pc \in {"x", "y", "z"} /\ AxisOf(pc) = i /\ i <= Dim /\ Visited = i - 1
      /\ Dim \in {2, 3}
    BY <1>1, <1>3, LinkFacts DEF BInv, FreeSlipInv, Axis, AxisOf, Visited
<1>5. /\ domain \in Geometries[Dim] /\ ~domain[stencil[dir]]
      /\ stencil[refDir] = MirroredInv(wn)
      /\ wn = [j \in 1..Dim |-> IF j <= i - 1 THEN TestedNormal[j] ELSE 0]
      /\ DOMAIN elem = {WnMember(j) : j \in 1..i - 1}
      /\ \A j \in 1..i - 1 : elem[WnMember(j)] = wn[j]
    BY <1>1, <1>4 DEF BInv, FreeSlipInv
<1>6. pc' = IF i = Dim THEN "corner" ELSE Axis(i + 1)
    BY DEF FreeSlipAxis, Dim
<1>7. /\ pc' \in {"x", "y", "z", "corner"}
      /\ pc' \in {"x", "y", "z"} => AxisOf(pc') = i + 1 /\ AxisOf(pc') <= Dim
      /\ Visited' = i
    BY <1>2, <1>4, <1>6 DEF Axis, AxisOf, Visited
<1>. DEFINE tested == [stencil[dir] EXCEPT ![i] = @ + LinkInv[i]]
<1>8. LinkInv \in Offsets(Dim)
    BY <1>3, LinkFacts
<1>9. /\ wn' = [j \in 1..Dim |-> IF j <= i THEN TestedNormal[j] ELSE 0]
      /\ refDir' \in 1..Len(stencil)
      /\ stencil[refDir'] = MirroredInv(wn')
    <2>1. CASE domain[tested]
        <3>1. wn' = [wn EXCEPT ![i] = LinkInv[i]] /\ refDir' = AxisMirrored(stencil, i)[refDir]
            BY <2>1 DEF FreeSlipAxis, LinkInv
        <3>2. TestedNormal[i] = LinkInv[i]
            BY <1>4, <2>1 DEF TestedNormal, Tested
        <3>3. wn' = [j \in 1..Dim |-> IF j <= i THEN TestedNormal[j] ELSE 0]
            BY <1>4, <1>5, <3>1, <3>2
        <3>4. refDir' \in 1..Len(stencil) /\ stencil[refDir'] = Mirror(stencil[refDir], i)
            BY <1>3, <1>4, <3>1, AxisMirroredFacts DEF Dim
        <3>5. wn \in [1..Dim -> Int] /\ wn[i] = 0
            BY <1>3, <1>4, <1>5 DEF Offsets
        <3>6. Mirror(MirroredInv(wn), i) = MirroredInv([wn EXCEPT ![i] = LinkInv[i]])
            <4>1. i \in 1..Dim
                BY <1>4
            <4>. QED
                BY <1>3, <3>5, <4>1, MirrorStep
        <3>7. stencil[refDir'] = MirroredInv(wn')
            BY <1>5, <3>1, <3>4, <3>6
        <3>. QED
            BY <3>3, <3>4, <3>7
    <2>2. CASE ~domain[tested]
        <3>1. wn' = wn /\ refDir' = refDir
            BY <2>2 DEF FreeSlipAxis, LinkInv
        <3>2. TestedNormal[i] = 0
            BY <1>4, <2>2 DEF TestedNormal, Tested
        <3>. QED
            BY <1>3, <1>4, <1>5, <3>1, <3>2
    <2>. QED
        BY <2>1, <2>2
<1>10. wn' \in Offsets(Dim)
    BY <1>8, <1>9 DEF TestedNormal, Offsets
<1>11. /\ DOMAIN elem' = {WnMember(j) : j \in 1..i}
       /\ \A j \in 1..i : elem'[WnMember(j)] = wn'[j]
    <2>1. elem' = [m \in DOMAIN elem \cup {WnMember(i)} |->
                      IF m = WnMember(i) THEN wn'[i] ELSE elem[m]]
        BY DEF FreeSlipAxis
    <2>2. \A j \in 1..i - 1 : wn'[j] = wn[j]
        BY <1>4, <1>5, <1>9
    <2>. QED
        BY <1>4, <1>5, <2>1, <2>2, WnMemberFacts
<1>12. DOMAIN elem' \subseteq Members(kind, Dim)
    BY <1>1, <1>4, <1>11 DEF Members, WnMember
<1>13. BTypeOK'
    BY <1>1, <1>2, <1>3, <1>7, <1>9, <1>10, <1>12 DEF BTypeOK, Dim, Kinds
<1>14. FreeSlipInv'
    BY <1>1, <1>2, <1>5, <1>7, <1>9, <1>11 DEF FreeSlipInv
<1>. QED
    BY <1>1, <1>7, <1>13, <1>14 DEF BInv, OutflowInv

(* The concave-corner fallback and the store of ref_dir keep BInv.         *)
LEMMA FreeSlipCornerInv ==
    ASSUME BInv, FreeSlipCorner
    PROVE  BInv'
<1>1. /\ kind = "FreeSlip" /\ pc = "corner" /\ pc' = "done"
      /\ UNCHANGED <<kind, stencil, dir, domain, normal, pattern>>
    BY DEF FreeSlipCorner
<1>2. /\ Dim' = Dim /\ LinkInv' = LinkInv /\ TestedNormal' = TestedNormal
      /\ \A w : MirroredInv(w)' = MirroredInv(w)
    BY <1>1 DEF Dim, LinkInv, TestedNormal, Tested, MirroredInv
<1>3. /\ stencil \in Stencils /\ dir \in Dirs(stencil) /\ kind \in Kinds
      /\ refDir \in 1..Len(stencil)
    BY DEF BInv, BTypeOK
<1>4. /\ Dim \in {2, 3} /\ dir \in 1..Len(stencil)
      /\ stencil[dir] \in Offsets(Dim) /\ LinkInv \in Offsets(Dim)
      /\ \A i \in 1..Dim : LinkInv[i] = -stencil[dir][i]
      /\ ~IsZero(LinkInv)
    BY <1>3, LinkFacts
<1>5. /\ domain \in Geometries[Dim] /\ ~domain[stencil[dir]]
      /\ stencil[refDir] = MirroredInv(wn)
      /\ wn = TestedNormal
      /\ DOMAIN elem = {WnMember(j) : j \in 1..Dim}
    <2>1. Visited = Dim
        BY <1>1 DEF Visited
    <2>2. wn = [j \in 1..Dim |-> IF j <= Dim THEN TestedNormal[j] ELSE 0]
        BY <1>1, <2>1 DEF BInv, FreeSlipInv
    <2>3. wn = TestedNormal
        BY <2>2 DEF TestedNormal
    <2>. QED
        BY <1>1, <2>1, <2>3 DEF BInv, FreeSlipInv
<1>6. /\ wn' = IF IsZero(TestedNormal) THEN LinkInv ELSE TestedNormal
      /\ refDir' \in 1..Len(stencil)
      /\ stencil[refDir'] = MirroredInv(wn')
    <2>1. CASE IsZero(wn)
        <3>1. wn' = LinkInv /\ refDir' = dir
            BY <2>1 DEF FreeSlipCorner, LinkInv
        <3>2. stencil[dir] = MirroredInv(LinkInv)
            BY <1>4 DEF MirroredInv, Offsets
        <3>. QED
            BY <1>4, <1>5, <2>1, <3>1, <3>2
    <2>2. CASE ~IsZero(wn)
        <3>1. wn' = wn /\ refDir' = refDir
            BY <2>2 DEF FreeSlipCorner
        <3>. QED
            BY <1>3, <1>5, <2>2, <3>1
    <2>. QED
        BY <2>1, <2>2
<1>7. wn' \in Offsets(Dim)
    BY <1>4, <1>6 DEF TestedNormal, Offsets
<1>8. /\ DOMAIN elem' = {WnMember(j) : j \in 1..Dim} \cup {"ref_dir"}
      /\ \A j \in 1..Dim : elem'[WnMember(j)] = wn'[j]
      /\ elem'["ref_dir"] = refDir'
    <2>1. elem' = [m \in DOMAIN elem \cup {"ref_dir"} |->
                      IF m = "ref_dir" THEN refDir'
                      ELSE wn'[CHOOSE i \in 1..3 : m = WnMember(i)]]
        BY DEF FreeSlipCorner, LinkInv
    <2>. QED
        BY <1>4, <1>5, <2>1, WnMemberFacts
<1>9. DOMAIN elem' \subseteq Members(kind, Dim)
    BY <1>1, <1>4, <1>8 DEF Members, WnMember
<1>10. BTypeOK'
    BY <1>1, <1>2, <1>3, <1>6, <1>7, <1>9 DEF BTypeOK, Dim
<1>11. FreeSlipInv'
    BY <1>1, <1>2, <1>5, <1>6, <1>8 DEF FreeSlipInv
<1>. QED
    BY <1>1, <1>10, <1>11 DEF BInv, OutflowInv

(* The UBB initialiser keeps BInv.                                         *)
LEMMA UBBInitInv ==
    ASSUME BInv, UBBInit
    PROVE  BInv'
<1>1. /\ kind = "UBB" /\ pc = "init" /\ pc' = "done"
      /\ UNCHANGED <<kind, stencil, dir, domain, normal, pattern, wn, refDir>>
    BY DEF UBBInit
<1>2. DOMAIN elem' \subseteq Members(kind, StencilDim(stencil))
    BY <1>1 DEF UBBInit, Members
<1>. QED
    BY <1>1, <1>2 DEF BInv, BTypeOK, FreeSlipInv, OutflowInv

(* The outflow initialiser keeps BInv.                                     *)
LEMMA OutflowInitInv ==
    ASSUME BInv, OutflowInit
    PROVE  BInv'
<1>1. /\ kind = "Outflow" /\ pc = "init" /\ pc' = "done"
      /\ UNCHANGED <<kind, stencil, dir, domain, normal, pattern, wn, refDir>>
    BY DEF OutflowInit
<1>2. /\ Dim' = Dim /\ OutflowSrc' = OutflowSrc
    BY <1>1 DEF Dim, OutflowSrc
<1>3. elem = NoElem
    BY <1>1 DEF BInv
<1>4. elem' = IF OutflowLink(stencil, normal, dir)
              THEN [m \in {"pdf", "pdf_nd"} |-> OutflowSrc] ELSE NoElem
    BY <1>3 DEF OutflowInit, OutflowSrc
<1>5. DOMAIN elem' \subseteq Members(kind, StencilDim(stencil))
    BY <1>1, <1>4 DEF Members, NoElem
<1>6. OutflowInv'
    <2>1. normal \in Offsets(Dim)
          /\ (AssertsEnabled => Cardinality({i \in DOMAIN normal : normal[i] # 0}) = 1)
        BY <1>1 DEF BInv, OutflowInv
    <2>. QED
        BY <1>1, <1>2, <1>4, <2>1 DEF OutflowInv
<1>. QED
    BY <1>1, <1>5, <1>6 DEF BInv, BTypeOK, FreeSlipInv

(* Every step of an initialiser keeps BInv.                                *)
THEOREM BNextInv == BInv /\ [BNext]_bvars => BInv'
<1> SUFFICES ASSUME BInv, [BNext]_bvars PROVE BInv'
    OBVIOUS
<1>1. CASE Dispatch
    BY <1>1, DispatchInv
<1>2. CASE \E i \in 1..3 : FreeSlipAxis(i)
    BY <1>2, FreeSlipAxisInv
<1>3. CASE FreeSlipCorner
    BY <1>3, FreeSlipCornerInv
<1>4. CASE UBBInit
    BY <1>4, UBBInitInv
<1>5. CASE OutflowInit
    BY <1>5, OutflowInitInv
<1>6. CASE UNCHANGED bvars
    <2>1. /\ Dim' = Dim /\ LinkInv' = LinkInv /\ TestedNormal' = TestedNormal
          /\ OutflowSrc' = OutflowSrc /\ \A w : MirroredInv(w)' = MirroredInv(w)
        BY <1>6 DEF bvars, Dim, LinkInv, TestedNormal, Tested, MirroredInv, OutflowSrc
    <2>. QED
        BY <1>6, <2>1 DEF bvars, BInv, BTypeOK, FreeSlipInv, OutflowInv, Visited, AxisOf
<1>. QED
    BY <1>1, <1>2, <1>3, <1>4, <1>5, <1>6 DEF BNext

-----------------------------------------------------------------------------
(* The properties the boundary_data run checks, from BInv.                 *)

(* BInv implies RefDirMirrorsNormal.                                       *)
LEMMA RefDirFromInv ==
    ASSUME BInv
    PROVE  RefDirMirrorsNormal
<1> SUFFICES ASSUME kind = "FreeSlip", pc = "done" PROVE RefDirMirrorsNormal
    BY DEF RefDirMirrorsNormal
<1>1. /\ Dim \in {2, 3} /\ stencil[dir] \in Offsets(Dim)
      /\ LinkInv \in Offsets(Dim) /\ ~IsZero(LinkInv)
    BY LinkFacts DEF BInv, BTypeOK
<1>2. /\ wn = IF IsZero(TestedNormal) THEN LinkInv ELSE TestedNormal
      /\ stencil[refDir] = MirroredInv(wn)
      /\ \A i \in 1..Dim : elem[WnMember(i)] = wn[i]
      /\ elem["ref_dir"] = refDir
    BY DEF BInv, FreeSlipInv
<1>3. wn \in Offsets(Dim)
    BY DEF BInv, BTypeOK, Dim
<1>4. DOMAIN wn = 1..Dim /\ DOMAIN LinkInv = 1..Dim
    BY <1>1, <1>3 DEF Offsets
<1>5. ~IsZero(wn)
    <2>1. CASE IsZero(TestedNormal)
        BY <1>1, <1>2, <2>1
    <2>2. CASE ~IsZero(TestedNormal)
        BY <1>2, <2>2
    <2>. QED
        BY <2>1, <2>2
<1>6. \A i \in DOMAIN wn : wn[i] \in {0, LinkInv[i]}
    BY <1>2, <1>4 DEF TestedNormal
<1>7. stencil[elem["ref_dir"]] =
          [i \in DOMAIN LinkInv |-> IF wn[i] # 0 THEN -LinkInv[i] ELSE LinkInv[i]]
    BY <1>2, <1>4 DEF MirroredInv
<1>. QED
    BY <1>2, <1>4, <1>5, <1>6, <1>7 DEF RefDirMirrorsNormal, LinkInv

(* The type is an invariant of every initialiser: the members it writes    *)
(* are members of the element struct of its kind and dimension.            *)
THEOREM BoundaryTypeCorrect == BSpec => []BTypeOK
<1>1. BInv => BTypeOK
    BY DEF BInv
<1>. QED
    BY BInitInv, BNextInv, <1>1, PTL DEF BSpec

(* Whatever the flags around a free-slip link, the initialiser of lines    *)
(* 49-104 stores a non-zero wall normal along the inverse link direction  *)
(* and a ref_dir indexing that direction mirrored across the normal's     *)
(* axes, for every symmetric stencil.                                      *)
THEOREM RefDirMirrorsNormalHolds == BSpec => []RefDirMirrorsNormal
BY BInitInv, BNextInv, RefDirFromInv, PTL DEF BSpec

(* The cell tested for axis i is a neighbour of the fluid cell whose i-th  *)
(* component is 0, and otherwise that of the link direction.                *)
LEMMA TestedFacts ==
    ASSUME stencil \in Stencils, dir \in Dirs(stencil), NEW i \in 1..Dim
    PROVE  /\ Tested(i) \in Offsets(Dim)
           /\ Tested(i)[i] = 0
           /\ \A j \in 1..Dim \ {i} : Tested(i)[j] = stencil[dir][j]
<1>1. /\ stencil[dir] \in Offsets(Dim)
      /\ \A j \in 1..Dim : LinkInv[j] = -stencil[dir][j]
    BY LinkFacts
<1>2. DOMAIN stencil[dir] = 1..Dim /\ i \in DOMAIN stencil[dir]
    BY <1>1 DEF Offsets
<1>3. DOMAIN Tested(i) = 1..Dim
    BY <1>2 DEF Tested
<1>4. Tested(i)[i] = 0
    <2>1. stencil[dir][i] \in {-1, 0, 1} /\ LinkInv[i] = -stencil[dir][i]
        BY <1>1 DEF Offsets
    <2>2. Tested(i)[i] = stencil[dir][i] + LinkInv[i]
        BY <1>2 DEF Tested
    <2>. QED
        BY <2>1, <2>2
<1>5. \A j \in 1..Dim \ {i} : Tested(i)[j] = stencil[dir][j]
    BY <1>2 DEF Tested
<1>6. \A j \in 1..Dim : Tested(i)[j] \in {-1, 0, 1}
    BY <1>1, <1>4, <1>5 DEF Offsets
<1>7. Tested(i) \in Offsets(Dim)
    BY <1>3, <1>6, Zenon DEF Offsets, Tested
<1>. QED
    BY <1>4, <1>5, <1>7

(* BInv implies FlatWallNormal.                                            *)
LEMMA FlatWallFromInv ==
    ASSUME BInv
    PROVE  FlatWallNormal
<1> SUFFICES ASSUME kind = "FreeSlip", pc = "done",
                    NEW a \in DOMAIN wn, NEW s \in {-1, 1},
                    domain = FlatWall(Len(wn), a, s)
             PROVE  wn = [i \in DOMAIN wn |-> IF i = a THEN -s ELSE 0]
    BY DEF FlatWallNormal
<1>1. /\ stencil \in Stencils /\ dir \in Dirs(stencil)
      /\ wn \in Offsets(Dim)
    BY DEF BInv, BTypeOK, Dim
<1>2. /\ Dim \in {2, 3} /\ stencil[dir] \in Offsets(Dim)
      /\ \A j \in 1..Dim : LinkInv[j] = -stencil[dir][j]
    BY <1>1, LinkFacts
<1>3. DOMAIN wn = 1..Dim /\ Len(wn) = Dim
    BY <1>1, <1>2, LenOfTuple DEF Offsets
<1>4. /\ ~domain[stencil[dir]]
      /\ wn = IF IsZero(TestedNormal) THEN LinkInv ELSE TestedNormal
    BY DEF BInv, FreeSlipInv
<1>5. domain = [c \in Offsets(Dim) |-> c[a] # s]
    BY <1>3 DEF FlatWall
<1>6. stencil[dir][a] = s
    BY <1>2, <1>4, <1>5
<1>7. \A i \in 1..Dim : TestedNormal[i] = IF i = a THEN -s ELSE 0
    <2> SUFFICES ASSUME NEW i \in 1..Dim
                 PROVE  TestedNormal[i] = IF i = a THEN -s ELSE 0
        OBVIOUS
    <2>1. /\ Tested(i) \in Offsets(Dim) /\ Tested(i)[i] = 0
          /\ \A j \in 1..Dim \ {i} : Tested(i)[j] = stencil[dir][j]
        BY <1>1, TestedFacts
    <2>2. CASE i = a
        <3>1. Tested(i)[a] # s
            BY <2>1, <2>2
        <3>2. domain[Tested(i)] = (Tested(i)[a] # s)
            BY <1>5, <2>1
        <3>3. domain[Tested(i)]
            BY <3>1, <3>2
        <3>. QED
            BY <1>2, <1>6, <2>2, <3>3 DEF TestedNormal
    <2>3. CASE i # a
        <3>1. ~domain[Tested(i)]
            BY <1>3, <1>5, <1>6, <2>1, <2>3
        <3>. QED
            BY <2>3, <3>1 DEF TestedNormal
    <2>. QED
        BY <2>2, <2>3
<1>8. ~IsZero(TestedNormal)
    BY <1>3, <1>7 DEF IsZero, TestedNormal
<1>. QED
    BY <1>3, <1>4, <1>7, <1>8 DEF TestedNormal

(* Next to a flat wall on either side of any axis, the free-slip           *)
(* initialiser stores the wall's unit normal pointing into the fluid, for  *)
(* axis-parallel and diagonal links alike (lines 69-85).                   *)
THEOREM FlatWallNormalHolds == BSpec => []FlatWallNormal
BY BInitInv, BNextInv, FlatWallFromInv, PTL DEF BSpec

(* The dot product with a vector that has a single non-zero axis a.       *)
LEMMA DotAxis ==
    ASSUME NEW n \in {2, 3}, NEW u \in [1..n -> Int], NEW m \in [1..n -> Int],
           NEW a \in 1..n, \A i \in 1..n : i # a => m[i] = 0, Len(u) = n
    PROVE  Dot(u, m) = u[a] * m[a]
<1>1. CASE n = 2
    <2>1. CASE a = 1
        BY <1>1, <2>1 DEF Dot
    <2>2. CASE a = 2
        BY <1>1, <2>2 DEF Dot
    <2>. QED
        BY <1>1, <2>1, <2>2
<1>2. CASE n = 3
    <2>1. CASE a = 1
        BY <1>2, <2>1 DEF Dot
    <2>2. CASE a = 2
        BY <1>2, <2>2 DEF Dot
    <2>3. CASE a = 3
        BY <1>2, <2>3 DEF Dot
    <2>. QED
        BY <1>2, <2>1, <2>2, <2>3
<1>. QED
    BY <1>1, <1>2

(* With the asserts on, BInv implies OutflowSourcesInterior.                *)
LEMMA OutflowFromInv ==
    ASSUME AssertsEnabled, BInv
    PROVE  OutflowSourcesInterior
<1> SUFFICES ASSUME kind = "Outflow", pc = "done" PROVE OutflowSourcesInterior
    BY DEF OutflowSourcesInterior
<1> DEFINE d == stencil[dir]
           src == OutflowSrc[1]
<1>1. /\ stencil \in Stencils /\ dir \in Dirs(stencil)
      /\ Dim \in {2, 3} /\ dir \in 1..Len(stencil) /\ d \in Offsets(Dim)
    BY LinkFacts DEF BInv, BTypeOK
<1>2. /\ normal \in Offsets(Dim)
      /\ Cardinality({i \in DOMAIN normal : normal[i] # 0}) = 1
      /\ elem = IF OutflowLink(stencil, normal, dir)
                THEN [m \in {"pdf", "pdf_nd"} |-> OutflowSrc] ELSE NoElem
    BY DEF BInv, OutflowInv
<1>3. Len(normal) = Dim /\ DOMAIN normal = 1..Dim
    BY <1>1, <1>2, LenOfTuple DEF Offsets
<1>4. PICK a \in 1..Dim : /\ normal[a] # 0
                          /\ \A i \in 1..Dim : i # a => normal[i] = 0
    <2> DEFINE NZ == {i \in DOMAIN normal : normal[i] # 0}
    <2>1. IsFiniteSet(NZ)
        <3>1. IsFiniteSet(1..Dim)
            BY <1>1, FS_Interval
        <3>2. NZ \subseteq 1..Dim
            BY <1>3
        <3>. QED
            BY <3>1, <3>2, FS_Subset
    <2>2. \E x : NZ = {x}
        BY <1>2, <2>1, FS_Singleton
    <2>3. PICK x : NZ = {x}
        BY <2>2
    <2> HIDE DEF d, src
    <2>4. x \in 1..Dim /\ normal[x] # 0
        BY <1>3, <2>3
    <2>5. \A i \in 1..Dim : i # x => normal[i] = 0
        BY <1>3, <2>3
    <2>. QED
        BY <2>4, <2>5
<1>5. OutflowLink(stencil, normal, dir) <=> d[a] = normal[a]
    BY <1>1, <1>3, <1>4 DEF OutflowLink
<1>6. Dot(d, normal) = d[a] * normal[a]
    <2>1. Len(d) = Dim
        BY <1>1, LenOfTuple DEF Offsets
    <2>2. d \in [1..Dim -> Int] /\ normal \in [1..Dim -> Int]
        BY <1>1, <1>2 DEF Offsets
    <2>. QED
        BY <1>1, <1>4, <2>1, <2>2, DotAxis
<1>7. (Dot(d, normal) > 0) <=> d[a] = normal[a]
    BY <1>1, <1>2, <1>4, <1>6 DEF Offsets
<1>8. ("pdf" \in DOMAIN elem) = (Dot(d, normal) > 0)
    BY <1>2, <1>5, <1>7 DEF NoElem
<1>9. ASSUME d[a] = normal[a]
      PROVE  /\ src \in Offsets(Dim)
             /\ Dot(src, normal) <= 0
    <2> DEFINE q == IndexOf(stencil, InverseDirection(d))
    <2>1. stencil[q] = InverseDirection(d) /\ DOMAIN d = 1..Dim
        BY <1>1, IndexOfInverse DEF Offsets
    <2>2. \A i \in 1..Dim : src[i] = IF pattern = "pull" THEN d[i] - normal[i] ELSE -normal[i]
        <3>1. src = [i \in DOMAIN d |-> PdfAccess(stencil, pattern, q).offset[i] + (d[i] - normal[i])]
            BY DEF OutflowSrc
        <3>2. CASE pattern = "pull"
            <4>1. PdfAccess(stencil, pattern, q).offset = ZeroVector(Dim)
                BY <3>2 DEF PdfAccess, Dim
            <4>. QED
                BY <1>1, <1>2, <2>1, <3>1, <3>2, <4>1 DEF ZeroVector, Offsets
        <3>3. CASE pattern # "pull"
            <4>1. PdfAccess(stencil, pattern, q).offset = InverseDirection(d)
                BY <2>1, <3>3 DEF PdfAccess
            <4>. QED
                BY <1>1, <1>2, <2>1, <3>1, <3>3, <4>1 DEF InverseDirection, Offsets
        <3>. QED
            BY <3>2, <3>3
    <2>3. src = [i \in 1..Dim |-> src[i]]
        BY <2>1 DEF OutflowSrc
    <2> HIDE DEF src, q
    <2>4. \A i \in 1..Dim : src[i] \in {-1, 0, 1} /\ src[i] * normal[i] <= 0
        <3> SUFFICES ASSUME NEW i \in 1..Dim
                     PROVE  src[i] \in {-1, 0, 1} /\ src[i] * normal[i] <= 0
            OBVIOUS
        <3>1. d[i] \in {-1, 0, 1} /\ normal[i] \in {-1, 0, 1}
            BY <1>1, <1>2 DEF Offsets
        <3>2. src[i] = IF pattern = "pull" THEN d[i] - normal[i] ELSE -normal[i]
            BY <2>2
        <3>3. CASE i = a
            <4>1. normal[i] \in {-1, 1} /\ d[i] = normal[i]
                BY <1>4, <1>9, <3>1, <3>3
            <4>2. src[i] \in {0, -normal[i]}
                BY <3>2, <4>1
            <4>3. CASE normal[i] = 1
                BY <4>2, <4>3
            <4>4. CASE normal[i] = -1
                BY <4>2, <4>4
            <4>. QED
                BY <4>1, <4>3, <4>4
        <3>4. CASE i # a
            <4>1. normal[i] = 0
                BY <1>4, <3>4
            <4>2. src[i] \in {-1, 0, 1}
                <5>1. CASE pattern = "pull"
                    <6>1. src[i] = d[i]
                        BY <3>1, <3>2, <4>1, <5>1
                    <6>. QED
                        BY <3>1, <6>1
                <5>2. CASE pattern # "pull"
                    <6>1. src[i] = -normal[i]
                        BY <3>2, <5>2
                    <6>2. -normal[i] = -0
                        BY <4>1, Zenon
                    <6>. QED
                        BY <6>1, <6>2
                <5>. QED
                    BY <5>1, <5>2
            <4>. QED
                BY <4>1, <4>2
        <3>. QED
            BY <3>3, <3>4
    <2>5. src \in Offsets(Dim)
        BY <2>3, <2>4, Zenon DEF Offsets
    <2>6. Len(src) = Dim
        BY <1>1, <2>5, LenOfTuple DEF Offsets
    <2>7. Dot(src, normal) = src[a] * normal[a]
        <3>1. /\ normal \in [1..Dim -> Int]
              /\ \A i \in 1..Dim : i # a => normal[i] = 0
            BY <1>2, <1>4 DEF Offsets
        <3>2. src \in [1..Dim -> Int]
            BY <2>5 DEF Offsets
        <3>. QED
            BY <1>1, <2>6, <3>1, <3>2, DotAxis
    <2>. QED
        BY <1>4, <2>4, <2>5, <2>7
<1>10. ASSUME "pdf" \in DOMAIN elem
       PROVE  /\ elem["pdf"] = elem["pdf_nd"]
              /\ elem["pdf"][1] = src
              /\ d[a] = normal[a]
    <2>1. OutflowLink(stencil, normal, dir)
        BY <1>2, <1>10 DEF NoElem
    <2>. QED
        BY <1>2, <1>5, <2>1
<1>. QED
    BY <1>3, <1>8, <1>9, <1>10 DEF OutflowSourcesInterior

(* With Python's asserts on, the outflow initialiser of lines 160-229      *)
(* gives pdf and pdf_nd initialisers exactly to the links leaving through  *)
(* the outflow face, and both read one cell of the first neighbourhood     *)
(* that lies no further towards the boundary than the fluid cell: for      *)
(* every symmetric stencil, both streaming patterns and every planar       *)
(* normal.                                                                 *)
THEOREM OutflowSourcesInteriorHolds ==
    ASSUME AssertsEnabled
    PROVE  BSpec => []OutflowSourcesInterior
<1>1. BInv => OutflowSourcesInterior
    BY OutflowFromInv
<1>. QED
    BY BInitInv, BNextInv, <1>1, PTL DEF BSpec

=============================================================================
