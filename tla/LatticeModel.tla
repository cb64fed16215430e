---------------------------- MODULE LatticeModel ----------------------------
(***************************************************************************)
(* Lattice-model generation (walberla_lbm_generation.py): a                *)
(* RefinementScaling object filled by add_scaling calls (lines 180-223),   *)
(* then generate_lattice_model (lines 134-177) and __lattice_model (lines  *)
(* 27-131), which lowers the method's equations and the scaling rules to   *)
(* C++ and writes the class.  lbmpy (the method's equations, the scaling   *)
(* rule relaxation_rate_scaling), the kernel compiler and the templates    *)
(* are external: the equations are inputs, a scaling rule is the           *)
(* expression it builds, and the written class is the record 'out' of the  *)
(* lowered pieces the templates receive.  One generation is a state        *)
(* machine; an exception ends it in phase "error".                         *)
(***************************************************************************)
EXTENDS Lowering

CONSTANTS
    Params,           \* the parameters handed to the add_*scaling methods
    Calls,            \* the generate_lattice_model calls considered
    MaxScalingCalls   \* bound on the add_*scaling calls before generating

(* A parameter of add_scaling: kind "field" (a Field with idims index     *)
(* dimensions), "access" (a Field.Access with index), "symbol", "list"    *)
(* (a list or tuple of parameters, items) or "other" (anything else).    *)
Param(k, n, d, i, items) == [kind |-> k, name |-> n, idims |-> d, index |-> i, items |-> items]

RECURSIVE SubParams(_)
SubParams(p) == {p} \cup UNION {SubParams(p.items[i]) : i \in 1..Len(p.items)}
AllParams == UNION {SubParams(p) : p \in Params}

ASSUME LatticeAssumption ==
    /\ MaxScalingCalls \in Nat
    /\ \A p \in AllParams : p.kind \in {"field", "access", "symbol", "list", "other"}
    /\ Calls # {}

(* The scaling rules: relaxation_rate_scaling of lbmpy,                   *)
(* omega / (omega/2 + level_scale_factor * (1 - omega/2)) (line 187), and *)
(* param * (1 / factor) (line 190), which sympy writes param / factor.    *)
Rules == {"rate", "force"}
LevelScaleFactor ==
    Sym(<<"l", "e", "v", "e", "l", "_", "s", "c", "a", "l", "e", "_", "f", "a", "c", "t", "o", "r">>)
Half == <<"0", ".", "5">>
RuleExpr(r, leaf) ==
    IF r = "force" THEN <<leaf, Op(<<"/">>), LevelScaleFactor>>
    ELSE <<leaf, Op(<<"/", "(">>), leaf, Op(<<"*">>), RatLit(Half), Op(<<"+">>), LevelScaleFactor,
           Op(<<"*", "(">>), IntLit(<<"1">>), Op(<<"-">>), leaf, Op(<<"*">>), RatLit(Half), Op(<<")", ")">>)>>

(* The entry add_scaling appends for a field, field access or symbol      *)
(* (lines 200-218): the scaling type, the name and the scaled expression; *)
(* a field with index dimensions is scaled at its access field(f).        *)
ScalingEntry(r, p) ==
    CASE p.kind = "field" /\ p.idims > 0 ->
            [type |-> "field_with_f", name |-> p.name, expr |-> RuleExpr(r, Fa(p.name, p.idims, <<<<"f">>>>))]
      [] p.kind = "field" ->
            [type |-> "field_xyz", name |-> p.name, expr |-> RuleExpr(r, Fa(p.name, 0, <<>>))]
      [] p.kind = "access" ->
            [type |-> "field_xyz", name |-> p.name, expr |-> RuleExpr(r, Fa(p.name, p.idims, p.index))]
      [] OTHER ->
            [type |-> "normal", name |-> p.name, expr |-> RuleExpr(r, Sym(p.name))]

VARIABLES
    phase,        \* "scaling", "lattice", "done" or "error"
    rule,         \* the scaling rule of the add_scaling call in progress
    pending,      \* the parameters that call has still to visit, in order
    scalingInfo,  \* RefinementScaling.scaling_info
    added,        \* history: the add_*scaling calls made, rule and parameter
    call,         \* the generate_lattice_model call
    dataType,     \* config.data_type, the type of the pdf fields and kernels
    stride,       \* config.cpu_vectorize_info['assume_inner_stride_one']
    out           \* what the templates receive (lines 89-122)

lvars == <<phase, rule, pending, scalingInfo, added, call, dataType, stride, out>>

NoOut == [dtype |-> "none"]

LInit ==
    /\ phase = "scaling"
    /\ rule = "none" /\ pending = <<>> /\ scalingInfo = <<>> /\ added = <<>>
    /\ call \in Calls
    /\ dataType = "none" /\ stride = FALSE
    /\ out = NoOut

(* add_standard_relaxation_rate_scaling and add_force_scaling (lines      *)
(* 186-190) call add_scaling with their rule; the call visits its         *)
(* parameter and, recursively, the items of a list.                        *)
AddScalingCall(r, p) ==
    /\ phase = "scaling" /\ pending = <<>>
    /\ call.useScaling
    /\ Len(added) < MaxScalingCalls
    /\ rule' = r /\ pending' = <<p>>
    /\ added' = Append(added, [rule |-> r, param |-> p])
    /\ UNCHANGED <<phase, scalingInfo, call, dataType, stride, out>>

(* Mutant: the items of a list are visited after its siblings.             *)
ScalingStepQueue ==
    LET p == Head(pending) IN
    /\ phase = "scaling" /\ pending # <<>>
    /\ \/ /\ p.kind \in {"field", "access", "symbol"}
          /\ scalingInfo' = Append(scalingInfo, ScalingEntry(rule, p))
          /\ pending' = Tail(pending)
          /\ UNCHANGED phase
       \/ /\ p.kind = "list"
          /\ pending' = Tail(pending) \o p.items
          /\ UNCHANGED <<phase, scalingInfo>>
       \/ /\ p.kind = "other"
          /\ phase' = "error"
          /\ UNCHANGED <<pending, scalingInfo>>
    /\ UNCHANGED <<rule, added, call, dataType, stride, out>>

(* One visit of add_scaling (lines 200-223): a field, access or symbol     *)
(* appends its entry; a list visits its items first, in order, each with  *)
(* the same rule (line 220-221); anything else raises ValueError, leaving *)
(* the entries of the earlier items of the call in scaling_info.          *)
ScalingStep ==
    LET p == Head(pending) IN
    /\ phase = "scaling" /\ pending # <<>>
    /\ \/ /\ p.kind \in {"field", "access", "symbol"}
          /\ scalingInfo' = Append(scalingInfo, ScalingEntry(rule, p))
          /\ pending' = Tail(pending)
          /\ UNCHANGED phase
       \/ /\ p.kind = "list"
          /\ pending' = p.items \o Tail(pending)
          /\ UNCHANGED <<phase, scalingInfo>>
       \/ /\ p.kind = "other"
          /\ phase' = "error"
          /\ UNCHANGED <<pending, scalingInfo>>
    /\ UNCHANGED <<rule, added, call, dataType, stride, out>>

(* Mutant: the default of config_from_context (codegen.py line 475) is   *)
(* dropped, so that an unset data type reaches the kernels.                *)
GenerateNoDefault ==
    /\ phase = "scaling" /\ pending = <<>>
    /\ \/ /\ call.target = "GPU"
          /\ phase' = "error"
          /\ UNCHANGED <<dataType, stride>>
       \/ /\ call.target = "CPU"
          /\ dataType' = call.dataType
          /\ stride' = CASE call.layout = "fzyx" -> TRUE
                         [] call.layout = "zyxf" -> FALSE
                         [] OTHER -> call.strideArg # "false"
          /\ phase' = "lattice"
    /\ UNCHANGED <<rule, pending, scalingInfo, added, call, out>>

(* generate_lattice_model, lines 134-175: config_from_context raises for a *)
(* GPU target without CUDA (codegen.py line 471) and line 150 raises for   *)
(* any GPU target; the data type defaults to the context's precision; the *)
(* layouts fzyx and zyxf set the stride flag, any other keeps the one of   *)
(* cpu_vectorize_info (True unless the caller set it).                     *)
Generate ==
    /\ phase = "scaling" /\ pending = <<>>
    /\ \/ /\ call.target = "GPU"
          /\ phase' = "error"
          /\ UNCHANGED <<dataType, stride>>
       \/ /\ call.target = "CPU"
          /\ dataType' = IF call.dataType = "None"
                         THEN IF call.double THEN "float64" ELSE "float32"
                         ELSE call.dataType
          /\ stride' = CASE call.layout = "fzyx" -> TRUE
                         [] call.layout = "zyxf" -> FALSE
                         [] OTHER -> call.strideArg # "false"
          /\ phase' = "lattice"
    /\ UNCHANGED <<rule, pending, scalingInfo, added, call, out>>

(* Python's str.replace(old, new): every non-overlapping occurrence of    *)
(* old, from left to right, replaced by new (old is never empty here).     *)
RECURSIVE PyReplace(_, _, _)
PyReplace(s, old, new) ==
    IF Len(s) < Len(old) THEN s
    ELSE IF SubSeq(s, 1, Len(old)) = old
         THEN new \o PyReplace(SubSeq(s, Len(old) + 1, Len(s)), old, new)
         ELSE <<Head(s)>> \o PyReplace(Tail(s), old, new)

(* line 58: the shift's 1/2 is replaced by a literal cast to dtype.        *)
CastHalf(e, dtype) ==
    [i \in 1..Len(e) |->
        IF e[i].kind = "rational" /\ e[i].name = Half THEN [e[i] EXCEPT !.type = dtype] ELSE e[i]]

(* Lines 74-87: each scaling entry lowered with an empty prefix, then its  *)
(* name, in the name and in the code, replaced by name + '_' with          *)
(* str.replace, which replaces every occurrence of the name's text.       *)
RefinementScalingInfo(info, dtype) ==
    [i \in 1..Len(info) |->
        [type |-> info[i].type, name |-> info[i].name \o <<"_">>,
         code |-> PyReplace(CodeText(ExpressionToCode(info[i].expr, <<>>, {}, dtype)),
                            info[i].name, info[i].name \o <<"_">>)]]

Member == <<"l", "m", ".">>
RhoName == <<"r", "h", "o">>

(* __lattice_model, lines 27-131: a stencil without a name raises; D3Q15   *)
(* communicates with D3Q27; the lowering type follows the context's        *)
(* precision (lines 34-35); the velocity shift (if the force model has    *)
(* one), the setter, the density and the momentum getters and the scaling *)
(* info are lowered; an AssertionError of the lowering (line 266) ends   *)
(* the call; otherwise the header and the source are written.            *)
LatticeModelGen ==
    LET m == call.method
        dtype == IF call.double THEN "float64" ELSE "float32"
        info == IF call.useScaling THEN scalingInfo ELSE <<>>
    IN
    /\ phase = "lattice"
    /\ \/ /\ m.stencil = ""
          /\ phase' = "error"
          /\ UNCHANGED out
       \/ /\ m.stencil # ""
          /\ \E i \in 1..Len(info) : SubstituteFails(info[i].expr)
          /\ phase' = "error"
          /\ UNCHANGED out
       \/ /\ m.stencil # ""
          /\ \A i \in 1..Len(info) : ~SubstituteFails(info[i].expr)
          /\ out' = [commStencil |-> IF m.stencil = "D3Q15" THEN "D3Q27" ELSE m.stencil,
                     dtype |-> dtype,
                     shift |-> [i \in 1..Len(m.shift) |->
                                  CodeText(ExpressionToCode(CastHalf(m.shift[i], dtype), Member, {RhoName}, dtype))],
                     setter |-> EquationsToCode(m.setter, Member, m.setterBare, dtype),
                     density |-> EquationsToCode(m.density, Member, m.pdfs, dtype),
                     momentum |-> EquationsToCode(m.momentum, Member, m.pdfs, dtype),
                     scaling |-> RefinementScalingInfo(info, dtype),
                     fieldType |-> dataType,
                     strideOne |-> stride]
          /\ phase' = "done"
    /\ UNCHANGED <<rule, pending, scalingInfo, added, call, dataType, stride>>

LNext ==
    \/ \E r \in Rules, p \in Params : AddScalingCall(r, p)
    \/ ScalingStep
    \/ Generate
    \/ LatticeModelGen

LSpec == LInit /\ [][LNext]_lvars

-----------------------------------------------------------------------------
(* Properties.                                                             *)

Text == Seq(STRING)
Items == [kind : {"sym", "fa", "rational", "integer", "op", "tsym"}, name : Text,
          idims : 0..2, index : Seq(Text), type : DTypes \cup {"none"}]
Entries == [type : {"field_with_f", "field_xyz", "normal"}, name : Text, expr : Seq(Items)]

LTypeOK ==
    /\ phase \in {"scaling", "lattice", "done", "error"}
    /\ rule \in Rules \cup {"none"}
    /\ pending \in Seq(AllParams)
    /\ scalingInfo \in Seq(Entries)
    /\ added \in Seq([rule : Rules, param : Params]) /\ Len(added) <= MaxScalingCalls
    /\ call \in Calls
    /\ dataType \in DTypes \cup {"none"}
    /\ phase \in {"lattice", "done"} => dataType \in DTypes
    /\ stride \in BOOLEAN
    /\ phase = "done" <=> out # NoOut

(* The entries a call of add_scaling with rule r appends for parameter p  *)
(* when it does not raise: one per field, access or symbol, the items of  *)
(* a list in order.                                                        *)
RECURSIVE CallEntries(_, _)
CallEntries(r, p) ==
    CASE p.kind = "list" -> FlattenSeq([i \in 1..Len(p.items) |-> CallEntries(r, p.items[i])])
      [] p.kind = "other" -> <<>>
      [] OTHER -> <<ScalingEntry(r, p)>>

(* Across any sequence of add_standard_relaxation_rate_scaling and         *)
(* add_force_scaling calls on nested lists, scaling_info and what the     *)
(* call in progress has still to visit add up to the entries of every     *)
(* call, in call order and in the order of each list, each with the rule  *)
(* of its own call: the recursion of lines 219-221 neither loses, repeats *)
(* nor reorders a parameter, so the generated class scales exactly the    *)
(* parameters it was given.                                                *)
ScalingInfoOrder ==
    phase # "error" =>
        scalingInfo \o FlattenSeq([i \in 1..Len(pending) |-> CallEntries(rule, pending[i])])
            = FlattenSeq([i \in 1..Len(added) |-> CallEntries(added[i].rule, added[i].param)])

(* The setter, density getter and momentum getter code of a written class *)
(* reads every local it assigned earlier as that local, every excluded    *)
(* name bare and every other symbol as a member lm.<name>_: the exclusion *)
(* of all left-hand-side names at line 312 never makes a symbol read      *)
(* before its assignment refer to a local, nor a local a member.          *)
ReadsLocals ==
    phase = "done" =>
        /\ LocalsBare(call.method.setter, out.setter, call.method.setterBare)
        /\ LocalsBare(call.method.density, out.density, call.method.pdfs)
        /\ LocalsBare(call.method.momentum, out.momentum, call.method.pdfs)

(* The scaling expression with the parameter's own leaf renamed to the    *)
(* member name + '_'.                                                       *)
RenameLeaf(e, n) ==
    [i \in 1..Len(e) |->
        IF e[i].kind \in {"sym", "fa"} /\ e[i].name = n THEN [e[i] EXCEPT !.name = n \o <<"_">>] ELSE e[i]]

(* Comment of line 77: the entries are renamed with '_' because they are  *)
(* used as members.  So the code of each scaling entry of a written class *)
(* is its expression with the parameter, and nothing else, read as the    *)
(* member name + '_'.                                                       *)
ScalingMembers ==
    phase = "done" =>
        \A i \in 1..Len(out.scaling) :
            out.scaling[i].code
                = CodeText(ExpressionToCode(RenameLeaf(scalingInfo[i].expr, scalingInfo[i].name), <<>>, {}, out.dtype))

(* Every occurrence of the text v in text is preceded by the cast to t.    *)
AllCast(text, v, t) ==
    LET cast == <<"(">> \o TypeText(t) \o <<")">>
    IN  \A i \in 1..(Len(text) - Len(v) + 1) :
            SubSeq(text, i, i + Len(v) - 1) = v =>
                i > Len(cast) /\ SubSeq(text, i - Len(cast), i - 1) = cast

(* Spec 4.2, step 1: lowering coerces every rational or floating literal  *)
(* to a literal of the target type.  So in the velocity shift and the      *)
(* scaling code of a written class every rational literal is printed with *)
(* the cast to the class's type.                                           *)
LiteralsTyped ==
    phase = "done" =>
        /\ \A i \in 1..Len(out.scaling) : \A k \in 1..Len(scalingInfo[i].expr) :
              scalingInfo[i].expr[k].kind = "rational" =>
                  AllCast(out.scaling[i].code, scalingInfo[i].expr[k].name, out.dtype)
        /\ \A i \in 1..Len(out.shift) : \A k \in 1..Len(call.method.shift[i]) :
              call.method.shift[i][k].kind = "rational" =>
                  AllCast(out.shift[i], call.method.shift[i][k].name, out.dtype)

=============================================================================
