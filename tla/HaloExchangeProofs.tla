------------------------- MODULE HaloExchangeProofs -------------------------
(***************************************************************************)
(* Proofs about HaloExchange for every block size, dimension, field set   *)
(* and set of kernels: the ghost-layer exchange through a generated pack  *)
(* info never writes a wrong value into a cell, in whatever order the     *)
(* buffers arrive, provided the pack info is generated without a           *)
(* reduction operator (codegen.py lines 237-317).                          *)
(***************************************************************************)
EXTENDS HaloExchange, PackInfoProofs, TLAPS

(* The calls generate pack infos that overwrite ghost cells: unpack        *)
(* assigns buffer(i) instead of operator(term, buffer(i)) (line 245).      *)
NoOperator == \A c \in Calls : c.operator = FALSE

(* What the compile loop of lines 294-317 builds: for every direction set, *)
(* the unpack kernel has a slot for each slot of the pack kernel, and it   *)
(* writes back exactly the term the pack kernel read into that slot.       *)
KernelsMatch ==
    \A k \in DOMAIN packK :
        /\ DOMAIN unpackK[k] = DOMAIN packK[k]
        /\ \A i \in DOMAIN packK[k] :
              unpackK[k][i] = [target |-> packK[k][i], reduce |-> call.operator]

(* The value Unpack(k, S, b, fv) gives cell p, component fc.                *)
UnpackBody(k, S, b, fv, p, fc) ==
    LET us == unpackK[k]
        W == {w \in S \X DOMAIN us :
                 /\ Shift(w[1], us[w[2]].target.offset) = p
                 /\ <<us[w[2]].target.field, us[w[2]].target.index>> = fc}
    IN  IF W = {} THEN fv[p][fc]
        ELSE LET w == CHOOSE x \in W : TRUE
             IN  IF us[w[2]].reduce THEN <<"op", fv[p][fc], b[w[1]][w[2]]>>
                 ELSE b[w[1]][w[2]]

(* The inductive invariant: the generator's type invariant, the kernels    *)
(* match, the exchange starts only once generation is over and a buffer   *)
(* in flight is the one its neighbour packed, and no ghost is wrong.       *)
HInv ==
    /\ TypeInv
    /\ call.operator = FALSE
    /\ KernelsMatch
    /\ field \in [Cell -> [FieldComp -> {Stale} \cup {Truth(q, fc) : q \in Cell, fc \in FieldComp}]]
    /\ net \in [NeighborDirs -> {"idle", "sent", "delivered"}]
    /\ DOMAIN buf = NeighborDirs
    /\ \A s \in NeighborDirs : net[s] # "idle" => phase = "done" /\ buf[s] = Packed(s)
    /\ GhostNeverWrong

-----------------------------------------------------------------------------
(* The generation steps.                                                   *)

(* No step of the generator is enabled once it is done, and every step     *)
(* keeps the call's arguments.                                             *)
LEMMA NextFacts ==
    ASSUME Next
    PROVE  phase # "done" /\ call' = call
BY DEF Next, CallDirect, CallForField, Collect, Group, GeneratePackInfo,
       CompileDirectionSet, Emit

(* Every step of the generator keeps the pack and unpack kernels matched. *)
LEMMA NextKernelsMatch ==
    ASSUME TypeInv, KernelsMatch, Next
    PROVE  KernelsMatch'
<1>1. call' = call
    BY NextFacts
<1>2. DOMAIN unpackK = DOMAIN packK
    BY DEF TypeInv, TypeOK
<1>3. CASE \E k \in keysTodo : CompileDirectionSet(k)
    <2>1. PICK k \in keysTodo : CompileDirectionSet(k)
        BY <1>3
    <2>2. CASE \E i \in 1..Len(k) : ~WithinOne(k[i])
        <3>1. ~(\A i \in 1..Len(k) : WithinOne(k[i]))
            BY <2>2
        <3>. QED
            BY <1>1, <2>1, <3>1 DEF CompileDirectionSet, KernelsMatch
    <2>3. CASE \A i \in 1..Len(k) : WithinOne(k[i])
        <3>1. /\ packK' = [x \in DOMAIN packK \cup {k} |->
                             IF x = k THEN PackAssignments(spec[k]) ELSE packK[x]]
              /\ unpackK' = [x \in DOMAIN packK \cup {k} |->
                               IF x = k THEN UnpackAssignments(spec[k], call.operator)
                               ELSE unpackK[x]]
            BY <1>2, <2>1, <2>3 DEF CompileDirectionSet
        <3>2. /\ DOMAIN UnpackAssignments(spec[k], call.operator) = DOMAIN PackAssignments(spec[k])
              /\ \A i \in DOMAIN PackAssignments(spec[k]) :
                    UnpackAssignments(spec[k], call.operator)[i]
                        = [target |-> PackAssignments(spec[k])[i], reduce |-> call.operator]
            BY DEF UnpackAssignments, PackAssignments
        <3>. QED
            BY <1>1, <3>1, <3>2 DEF KernelsMatch
    <2>. QED
        BY <2>2, <2>3
<1>4. CASE ~\E k \in keysTodo : CompileDirectionSet(k)
    <2>1. packK' = packK /\ unpackK' = unpackK
        BY <1>4 DEF Next, CallDirect, CallForField, Collect, Group, GeneratePackInfo, Emit
    <2>. QED
        BY <1>1, <2>1 DEF KernelsMatch
<1>. QED
    BY <1>3, <1>4

(* The initial state satisfies HInv.                                       *)
THEOREM HInitInv == NoOperator /\ HInit => HInv
<1> SUFFICES ASSUME NoOperator, HInit PROVE HInv
    OBVIOUS
<1>1. TypeInv
    BY InitTypeInv DEF HInit
<1>2. call.operator = FALSE /\ packK = EmptyMap
    BY DEF HInit, Init, NoOperator
<1>3. KernelsMatch
    BY <1>2 DEF KernelsMatch, EmptyMap
<1>4. \A q \in Cell, fc \in FieldComp : field[q][fc] \in {Stale, Truth(q, fc)}
    BY DEF HInit
<1>. QED
    BY <1>1, <1>2, <1>3, <1>4 DEF HInv, HInit, GhostNeverWrong

-----------------------------------------------------------------------------
(* The exchange steps.                                                     *)

(* Unpacking the buffer a neighbour packed with the kernel of the same     *)
(* direction set leaves each value of each cell as it was or writes its    *)
(* own current value: the unpack slot that targets a term at a cell reads  *)
(* the buffer slot the pack kernel filled with that very term (lines       *)
(* 305-311).                                                               *)
LEMMA UnpackRefreshes ==
    ASSUME NEW k \in DOMAIN packK, NEW S, NEW fv,
           call.operator = FALSE, KernelsMatch
    PROVE  \A p \in Cell, fc \in FieldComp :
              Unpack(k, S, [q \in S |-> PackCell(k, q)], fv)[p][fc] \in {fv[p][fc], Truth(p, fc)}
<1> SUFFICES ASSUME NEW p \in Cell, NEW fc \in FieldComp
             PROVE  Unpack(k, S, [q \in S |-> PackCell(k, q)], fv)[p][fc] \in {fv[p][fc], Truth(p, fc)}
    OBVIOUS
<1> DEFINE us == unpackK[k]
           b == [q \in S |-> PackCell(k, q)]
           W == {w \in S \X DOMAIN us :
                    /\ Shift(w[1], us[w[2]].target.offset) = p
                    /\ <<us[w[2]].target.field, us[w[2]].target.index>> = fc}
<1>1. Unpack(k, S, b, fv)[p][fc] =
          IF W = {} THEN fv[p][fc]
          ELSE LET w == CHOOSE x \in W : TRUE
               IN  IF us[w[2]].reduce THEN <<"op", fv[p][fc], b[w[1]][w[2]]>>
                   ELSE b[w[1]][w[2]]
    BY DEF Unpack
<1>2. CASE W = {}
    BY <1>1, <1>2
<1>3. CASE W # {}
    <2> DEFINE w == CHOOSE x \in W : TRUE
    <2>1. w \in W
        BY <1>3
    <2> HIDE DEF w
    <2>2. w[1] \in S /\ w[2] \in DOMAIN us
        BY <2>1
    <2>3. DOMAIN us = DOMAIN packK[k]
        BY DEF KernelsMatch
    <2>4. us[w[2]] = [target |-> packK[k][w[2]], reduce |-> FALSE]
        BY <2>2, <2>3 DEF KernelsMatch
    <2>5. b[w[1]][w[2]] =
            Truth(Shift(w[1], packK[k][w[2]].offset),
                  <<packK[k][w[2]].field, packK[k][w[2]].index>>)
        BY <2>2, <2>3 DEF PackCell
    <2>6. Unpack(k, S, b, fv)[p][fc] = b[w[1]][w[2]]
        <3>1. ~us[w[2]].reduce
            BY <2>4
        <3>2. Unpack(k, S, b, fv)[p][fc] =
                IF us[w[2]].reduce THEN <<"op", fv[p][fc], b[w[1]][w[2]]>> ELSE b[w[1]][w[2]]
            BY <1>1, <1>3, Zenon DEF w
        <3>. QED
            BY <3>1, <3>2
    <2>7. /\ Shift(w[1], packK[k][w[2]].offset) = p
          /\ <<packK[k][w[2]].field, packK[k][w[2]].index>> = fc
        BY <2>1, <2>4
    <2>. QED
        BY <2>5, <2>6, <2>7
<1>. QED
    BY <1>2, <1>3

(* Hence unpacking such a buffer into a field holding no wrong value      *)
(* leaves it holding no wrong value.                                       *)
LEMMA UnpackKeepsGhosts ==
    ASSUME NEW k \in DOMAIN packK, NEW S, NEW fv,
           call.operator = FALSE, KernelsMatch,
           \A q \in Cell, fc \in FieldComp : fv[q][fc] \in {Stale, Truth(q, fc)}
    PROVE  \A p \in Cell, fc \in FieldComp :
              Unpack(k, S, [q \in S |-> PackCell(k, q)], fv)[p][fc] \in {Stale, Truth(p, fc)}
<1> SUFFICES ASSUME NEW p \in Cell, NEW fc \in FieldComp
             PROVE  Unpack(k, S, [q \in S |-> PackCell(k, q)], fv)[p][fc] \in {Stale, Truth(p, fc)}
    OBVIOUS
<1> DEFINE u == Unpack(k, S, [q \in S |-> PackCell(k, q)], fv)[p][fc]
<1>1. u \in {fv[p][fc], Truth(p, fc)}
    BY UnpackRefreshes
<1>2. fv[p][fc] \in {Stale, Truth(p, fc)}
    OBVIOUS
<1>. QED
    BY <1>1, <1>2, Zenon

(* Unpack assigns every component of every cell of the receiver.          *)
LEMMA UnpackShape ==
    ASSUME NEW k, NEW S, NEW b, NEW fv
    PROVE  Unpack(k, S, b, fv) = [p \in Cell |-> [fc \in FieldComp |-> UnpackBody(k, S, b, fv, p, fc)]]
BY DEF Unpack, UnpackBody

(* The ghost-value set field ranges over.                                  *)
GhostValues == {Stale} \cup {Truth(q, fc) : q \in Cell, fc \in FieldComp}

(* The receiver unpacking the buffer from direction s keeps HInv.         *)
LEMMA DeliverInv ==
    ASSUME HInv, NEW s \in NeighborDirs, Deliver(s)
    PROVE  HInv'
<1>1. /\ UNCHANGED <<vars, buf>> /\ net[s] = "sent"
      /\ net' = [net EXCEPT ![s] = "delivered"]
    BY DEF Deliver
<1>2. /\ TypeInv' /\ (call.operator = FALSE)' /\ KernelsMatch'
      /\ \A x \in NeighborDirs : Packed(x)' = Packed(x)
    BY <1>1 DEF HInv, vars, TypeInv, TypeOK, KernelsMatch, Packed, KeysFor, PackCell, EmptyBuffer
<1>3. /\ net' \in [NeighborDirs -> {"idle", "sent", "delivered"}]
      /\ DOMAIN buf' = NeighborDirs
      /\ \A x \in NeighborDirs : net'[x] # "idle" => phase' = "done" /\ buf'[x] = Packed(x)'
    BY <1>1, <1>2 DEF HInv, vars
<1>4. /\ field' \in [Cell -> [FieldComp -> GhostValues]]
      /\ \A q \in Cell, fc \in FieldComp : field'[q][fc] \in {Stale, Truth(q, fc)}
    <2>1. CASE KeysFor(InverseDirection(s)) = {}
        BY <1>1, <2>1 DEF Deliver, HInv, GhostNeverWrong, GhostValues
    <2>2. CASE KeysFor(InverseDirection(s)) # {}
        <3> DEFINE k == CHOOSE x \in KeysFor(InverseDirection(s)) : TRUE
        <3>1. k \in DOMAIN packK
            BY <2>2 DEF KeysFor
        <3>2. buf[s] = [q \in GhostSlice(s) |-> PackCell(k, q)]
            BY <1>1, <2>2 DEF HInv, Packed
        <3>3. field' = Unpack(k, GhostSlice(s), buf[s], field)
            BY <2>2 DEF Deliver
        <3> HIDE DEF k
        <3>4. \A p \in Cell, fc \in FieldComp :
                  Unpack(k, GhostSlice(s), [q \in GhostSlice(s) |-> PackCell(k, q)], field)[p][fc]
                      \in {Stale, Truth(p, fc)}
            <4>1. /\ call.operator = FALSE /\ KernelsMatch
                  /\ \A q \in Cell, fc \in FieldComp : field[q][fc] \in {Stale, Truth(q, fc)}
                BY DEF HInv, GhostNeverWrong
            <4>. QED
                BY <3>1, <4>1, UnpackKeepsGhosts
        <3>5. \A p \in Cell, fc \in FieldComp : field'[p][fc] \in {Stale, Truth(p, fc)}
            BY <3>2, <3>3, <3>4
        <3>6. field' = [p \in Cell |-> [fc \in FieldComp |-> UnpackBody(k, GhostSlice(s), buf[s], field, p, fc)]]
            BY <3>3, UnpackShape
        <3> HIDE DEF UnpackBody
        <3>7. \A p \in Cell, fc \in FieldComp :
                  UnpackBody(k, GhostSlice(s), buf[s], field, p, fc) \in {Stale, Truth(p, fc)}
            BY <3>5, <3>6
        <3>8. field' \in [Cell -> [FieldComp -> GhostValues]]
            BY <3>6, <3>7 DEF GhostValues
        <3>. QED
            BY <3>5, <3>8
    <2>. QED
        BY <2>1, <2>2
<1>. QED
    BY <1>2, <1>3, <1>4 DEF HInv, GhostNeverWrong, GhostValues

(* Every step of the generator or of the exchange keeps HInv.             *)
THEOREM HNextInv == HInv /\ [HNext]_allVars => HInv'
<1> SUFFICES ASSUME HInv, [HNext]_allVars PROVE HInv'
    OBVIOUS
<1>1. CASE Generate
    <2>1. /\ Next /\ UNCHANGED hvars
          /\ phase # "done" /\ call' = call
        BY <1>1, NextFacts DEF Generate
    <2>2. TypeInv' /\ KernelsMatch'
        BY <2>1, NextTypeInv, NextKernelsMatch DEF HInv
    <2>3. \A x \in NeighborDirs : net[x] = "idle"
        BY <2>1 DEF HInv
    <2>. QED
        BY <2>1, <2>2, <2>3 DEF HInv, hvars, GhostNeverWrong
<1>2. CASE SendAll
    <2>1. /\ phase = "done" /\ UNCHANGED <<vars, field>>
          /\ net' = [x \in NeighborDirs |-> "sent"]
          /\ buf' = [x \in NeighborDirs |-> Packed(x)]
        BY <1>2 DEF SendAll
    <2>2. /\ TypeInv' /\ (call.operator = FALSE)' /\ KernelsMatch'
          /\ \A x \in NeighborDirs : Packed(x)' = Packed(x)
        BY <2>1 DEF HInv, vars, TypeInv, TypeOK, KernelsMatch, Packed, KeysFor, PackCell, EmptyBuffer
    <2>. QED
        BY <2>1, <2>2 DEF HInv, vars, GhostNeverWrong
<1>3. CASE \E s \in NeighborDirs : Deliver(s)
    BY <1>3, DeliverInv
<1>4. CASE UNCHANGED allVars
    <2>1. \A x \in NeighborDirs : Packed(x)' = Packed(x)
        BY <1>4 DEF allVars, vars, Packed, KeysFor, PackCell, EmptyBuffer
    <2>. QED
        BY <1>4, <2>1 DEF allVars, vars, HInv, TypeInv, TypeOK, KernelsMatch, GhostNeverWrong
<1>. QED
    BY <1>1, <1>2, <1>3, <1>4 DEF HNext

(* Whatever order the neighbours' buffers are received and unpacked in,    *)
(* no cell of the receiver ever holds a value other than Stale or its own *)
(* current one, for every block size and set of kernels, provided the      *)
(* pack infos are generated without a reduction operator (codegen.py       *)
(* lines 245 and 305-311).                                                 *)
THEOREM GhostNeverWrongHolds ==
    ASSUME NoOperator
    PROVE  HSpec => []GhostNeverWrong
<1>1. HInv => GhostNeverWrong
    BY DEF HInv
<1>. QED
    BY HInitInv, HNextInv, <1>1, PTL DEF HSpec

(* Without a reduction operator, the generator's state, the receiver's     *)
(* field and the exchange's bookkeeping stay well typed.                   *)
THEOREM HaloTypeCorrect ==
    ASSUME NoOperator
    PROVE  HSpec => []HTypeOK
<1>1. HInv => HTypeOK
    BY DEF HInv, HTypeOK, TypeInv
<1>. QED
    BY HInitInv, HNextInv, <1>1, PTL DEF HSpec

=============================================================================
