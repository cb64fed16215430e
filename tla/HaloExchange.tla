---------------------------- MODULE HaloExchange ----------------------------
(***************************************************************************)
(* A generated pull pack info in use: one ghost-layer exchange of a block *)
(* with its neighbours, followed by the pull kernel that the pack info was *)
(* generated from.  The generation is PackInfo; the exchange, which the    *)
(* generated C++ class and waLBerla's communication scheme perform, is    *)
(* modelled from spec.md (sections 1, 4.4 and the glossary): the block in *)
(* direction s of the receiver packs, for direction -s, the cells of its   *)
(* interior next to the receiver with the pack kernel of the direction set *)
(* containing -s, and the receiver unpacks the buffer into its ghost slice *)
(* on side s with the matching unpack kernel.  All neighbours pack, then   *)
(* the buffers are received and unpacked one by one in any order.          *)
(*                                                                         *)
(* Cells are numbered in the receiver's frame: 0..N-1 on every axis is the *)
(* interior, -1 and N the ghost layer.  The value of component c of field  *)
(* f at cell q, wherever it is owned, is the symbolic value Truth(q, f, c) *)
(* (cells of neighbours hold their current values); a ghost cell not yet   *)
(* written holds Stale.                                                    *)
(***************************************************************************)
EXTENDS PackInfo

CONSTANTS
    N,      \* interior cells of a block per axis
    Stale   \* the content of a ghost cell before the exchange

ASSUME NAssumption == N \in Nat \ {0, 1}

VARIABLES
    field,  \* the receiver's field: cell -> (field, component) -> value
    net,    \* per neighbour direction s: "idle", "sent" or "delivered"
    buf     \* per neighbour direction s: the buffer the neighbour sent

hvars == <<field, net, buf>>
allVars == <<vars, field, net, buf>>

NeighborDirs == {d \in Offsets(Dim) : ~IsZero(d)}
Cell == [1..Dim -> -1..N]
InteriorCells == [1..Dim -> 0..(N - 1)]
FieldComp == Fields \X Comps

Shift(q, o) == [i \in 1..Dim |-> q[i] + o[i]]

Truth(q, fc) == <<q, fc>>

(* The ghost slice of the receiver on side s, which is also the interior   *)
(* slice the neighbour in direction s packs for direction -s.              *)
GhostSlice(s) ==
    {q \in Cell : \A i \in 1..Dim :
        \/ s[i] = 1 /\ q[i] = N
        \/ s[i] = -1 /\ q[i] = -1
        \/ s[i] = 0 /\ q[i] \in 0..(N - 1)}

(* The generated class dispatches a direction to the pack and unpack       *)
(* kernels of the direction set that names it (the 'pack_kernels' and     *)
(* 'unpack_kernels' dictionaries keyed by direction strings, line 315-316).*)
KeysFor(dir) == {k \in DOMAIN packK : \E i \in 1..Len(k) : k[i] = dir}

EmptyBuffer == [q \in {} |-> <<>>]

(* The pack kernel of key k run on cell q: buffer slot i gets term i,      *)
(* read at q shifted by the term's offset.                                 *)
PackCell(k, q) ==
    [i \in DOMAIN packK[k] |->
        Truth(Shift(q, packK[k][i].offset), <<packK[k][i].field, packK[k][i].index>>)]

(* Mutant: the slot index dropped when reading the buffer (the whole row   *)
(* of a cell is written into every term).                                  *)
UnpackWholeRow(k, S, b, fv) ==
    LET us == unpackK[k]
        Writers(p, fc) ==
            {w \in S \X DOMAIN us :
                /\ Shift(w[1], us[w[2]].target.offset) = p
                /\ <<us[w[2]].target.field, us[w[2]].target.index>> = fc}
    IN  [p \in Cell |-> [fc \in FieldComp |->
            IF Writers(p, fc) = {} THEN fv[p][fc]
            ELSE b[(CHOOSE x \in Writers(p, fc) : TRUE)[1]]]]

(* The unpack kernel of key k run on every cell of slice S with the       *)
(* buffer b: term = buffer(i), or term = operator(term, buffer(i)), the    *)
(* term being the cell shifted by the term's offset.  Slots writing the    *)
(* same (cell, field, component) cannot occur in a pull pack info; one of  *)
(* them is taken.                                                          *)
Unpack(k, S, b, fv) ==
    LET us == unpackK[k]
        Writers(p, fc) ==
            {w \in S \X DOMAIN us :
                /\ Shift(w[1], us[w[2]].target.offset) = p
                /\ <<us[w[2]].target.field, us[w[2]].target.index>> = fc}
    IN  [p \in Cell |-> [fc \in FieldComp |->
            IF Writers(p, fc) = {} THEN fv[p][fc]
            ELSE LET w == CHOOSE x \in Writers(p, fc) : TRUE
                 IN  IF us[w[2]].reduce THEN <<"op", fv[p][fc], b[w[1]][w[2]]>>
                     ELSE b[w[1]][w[2]]]]

-----------------------------------------------------------------------------

HInit ==
    /\ Init
    /\ field = [q \in Cell |-> [fc \in FieldComp |->
                   IF q \in InteriorCells THEN Truth(q, fc) ELSE Stale]]
    /\ net = [s \in NeighborDirs |-> "idle"]
    /\ buf = [s \in NeighborDirs |-> EmptyBuffer]

(* A generation step (PackInfo).                                           *)
Generate == Next /\ UNCHANGED hvars

(* The buffer the neighbour in direction s packs from its slice facing the *)
(* receiver, with the pack kernel of a direction set naming -s (empty when *)
(* no set names it: nothing is sent for that direction).                   *)
Packed(s) ==
    IF KeysFor(InverseDirection(s)) = {} THEN EmptyBuffer
    ELSE LET k == CHOOSE x \in KeysFor(InverseDirection(s)) : TRUE
         IN  [q \in GhostSlice(s) |-> PackCell(k, q)]

(* startCommunication: every neighbour packs its buffer before anything is *)
(* received; packing reads only the neighbours' own interiors, so the      *)
(* order of the packs among themselves is not observable.                  *)
SendAll ==
    /\ phase = "done"
    /\ \A s \in NeighborDirs : net[s] = "idle"
    /\ net' = [s \in NeighborDirs |-> "sent"]
    /\ buf' = [s \in NeighborDirs |-> Packed(s)]
    /\ UNCHANGED <<vars, field>>

(* The receiver unpacks the buffer from direction s, cell by cell.         *)
Deliver(s) ==
    /\ net[s] = "sent"
    /\ net' = [net EXCEPT ![s] = "delivered"]
    /\ field' = IF KeysFor(InverseDirection(s)) = {} THEN field
                ELSE Unpack(CHOOSE x \in KeysFor(InverseDirection(s)) : TRUE,
                            GhostSlice(s), buf[s], field)
    /\ UNCHANGED <<vars, buf>>

HNext ==
    \/ Generate
    \/ SendAll
    \/ \E s \in NeighborDirs : Deliver(s)

(* The generator runs to completion (a single-threaded call) and the       *)
(* exchange completes (every buffer sent is received).                     *)
HSpec == HInit /\ [][HNext]_allVars /\ WF_allVars(HNext)

-----------------------------------------------------------------------------
(* Properties.                                                             *)

HTypeOK ==
    /\ TypeOK
    /\ field \in [Cell -> [FieldComp -> {Stale} \cup {Truth(q, fc) : q \in Cell, fc \in FieldComp}]]
    /\ net \in [NeighborDirs -> {"idle", "sent", "delivered"}]
    /\ DOMAIN buf = NeighborDirs

(* Whatever order the neighbours' buffers arrive in, no cell of the        *)
(* receiver ever holds a value other than its own current one: every       *)
(* buffer slot the pack kernel of a direction set fills is unpacked by the *)
(* unpack kernel of the same set into the same term (codegen.py lines      *)
(* 305-311), and a pull pack info packs centre terms only (line 224).      *)
GhostNeverWrong ==
    \A q \in Cell, fc \in FieldComp : field[q][fc] \in {Stale, Truth(q, fc)}

(* Every value the pull kernel reads, at every interior cell, including   *)
(* cells at edges and corners of the block, is current.                    *)
ReadsCurrent ==
    \A x \in InteriorCells, fa \in reads :
        field[Shift(x, fa.offset)][<<fa.field, fa.index>>] = Truth(Shift(x, fa.offset), <<fa.field, fa.index>>)

(* Eventually the generation fails, or the exchange has brought every     *)
(* ghost value the pull kernel reads up to date: the direction sets        *)
(* derived by comm_directions (codegen.py lines 222-224, 504-515) cover    *)
(* every neighbour a read at an edge or a corner of the block reaches.    *)
HaloEventuallyCurrent ==
    <>(phase = "error" \/ (phase = "done" /\ ReadsCurrent))

=============================================================================
