------------------------------ MODULE Lowering ------------------------------
(***************************************************************************)
(* The expression lowering of walberla_lbm_generation.py (lines 245-320):  *)
(* field_and_symbol_substitute, expression_to_code, type_expr and          *)
(* equations_to_code, which turn a sympy expression into C++ text with     *)
(* member-qualified names.                                                 *)
(*                                                                         *)
(* An expression is the sequence of items its printed form is made of:    *)
(* leaves (symbols and field accesses), numeric literals and the operator *)
(* characters between them; sympy's subs acts leaf by leaf and the printer *)
(* concatenates the printed items, so both are modelled by what they do on *)
(* that sequence.  Names and printed text are sequences of one-character   *)
(* strings, because the code builds names by concatenation and, at line   *)
(* 82, edits printed text with str.replace.                                *)
(***************************************************************************)
EXTENDS Naturals, Sequences, SequencesExt

CONSTANT AssertsEnabled  \* FALSE under python -O

ASSUME LoweringAssumption == AssertsEnabled \in BOOLEAN

DTypes == {"float32", "float64"}

(* An item: kind "sym" (a sympy Symbol named name), "fa" (a Field.Access   *)
(* of field name with idims index dimensions and index coordinates index), *)
(* "rational" or "integer" (a literal printed as name, of C type 'type'    *)
(* once typed, "none" before), "op" (operator text name), and "tsym", a    *)
(* TypedSymbol of type 'type' made by type_expr.                           *)
Item(k, n, d, i, t) == [kind |-> k, name |-> n, idims |-> d, index |-> i, type |-> t]
Sym(n) == Item("sym", n, 0, <<>>, "none")
Fa(n, d, i) == Item("fa", n, d, i, "none")
RatLit(v) == Item("rational", v, 0, <<>>, "none")
IntLit(v) == Item("integer", v, 0, <<>>, "none")
Op(c) == Item("op", c, 0, <<>>, "none")

EndsWithDot(s) == s # <<>> /\ s[Len(s)] = "."

(* "->get(x,y,z" of the accessor call of lines 264 and 267.                *)
GetCall == <<"-", ">", "g", "e", "t", "(", "x", ",", "y", ",", "z">>

(* The text of a lowered field access: prefix, field name, the member     *)
(* separator when the prefix is a member access, and the accessor call,   *)
(* with the first index for a field with index dimensions.                 *)
FieldAccessText(pre, fa) ==
    pre \o fa.name \o (IF EndsWithDot(pre) THEN <<"_">> ELSE <<>>) \o GetCall
        \o (IF fa.idims = 0 THEN <<>> ELSE <<",">> \o fa.index[1]) \o <<")">>

(* The assert of line 266: a field access with more than one index        *)
(* dimension stops the lowering.                                           *)
SubstituteFails(e) ==
    AssertsEnabled /\ \E i \in 1..Len(e) : e[i].kind = "fa" /\ e[i].idims > 1

(* field_and_symbol_substitute, lines 245-271: every symbol not excluded   *)
(* becomes prefix + name (+ '_' for a member prefix); a field access       *)
(* becomes an accessor call, prefixed unless its field is excluded.        *)
FieldAndSymbolSubstitute(e, prefix, without) ==
    [i \in 1..Len(e) |->
        CASE e[i].kind = "fa" ->
                Sym(FieldAccessText(IF e[i].name \in without THEN <<>> ELSE prefix, e[i]))
          [] e[i].kind = "sym" /\ e[i].name \notin without ->
                Sym(prefix \o e[i].name \o (IF EndsWithDot(prefix) THEN <<"_">> ELSE <<>>))
          [] OTHER -> e[i]]

(* type_expr, lines 291-300.  The recursion of lines 292-297 compares each *)
(* argument with the classes sp.Rational and sp.Float, which no argument   *)
(* equals, so it changes nothing; line 300 retypes every symbol.           *)
TypeExpr(e, dtype) ==
    [i \in 1..Len(e) |->
        IF e[i].kind = "sym" THEN Item("tsym", e[i].name, 0, <<>>, dtype) ELSE e[i]]

(* expression_to_code, lines 274-288, before printing.                     *)
ExpressionToCode(e, prefix, without, dtype) ==
    TypeExpr(FieldAndSymbolSubstitute(e, prefix, without), dtype)

(* The printer: the concatenation of the items' texts; a typed literal is *)
(* printed with a cast to its type.                                        *)
TypeText(t) == IF t = "float32" THEN <<"f">> ELSE <<"d">>
ItemText(it) ==
    IF it.kind \in {"rational", "integer"} /\ it.type # "none"
    THEN <<"(">> \o TypeText(it.type) \o <<")">> \o it.name
    ELSE it.name
CodeText(e) == FlattenSeq([i \in 1..Len(e) |-> ItemText(e[i])])

(* Mutant: the names of the left-hand sides are not excluded.              *)
EquationsToCodeNoLocals(eqs, prefix, without, dtype) ==
    [i \in 1..Len(eqs) |->
        [lhs |-> eqs[i].lhs, type |-> dtype,
         rhs |-> ExpressionToCode(eqs[i].rhs, prefix, without, dtype)]]

(* equations_to_code, lines 303-320: one typed assignment per equation,    *)
(* whose right-hand side is lowered with the names of ALL left-hand sides  *)
(* of the list excluded from the prefix (line 312), wherever they stand.   *)
EquationsToCode(eqs, prefix, without, dtype) ==
    LET lhsNames == {eqs[j].lhs : j \in 1..Len(eqs)}
    IN  [i \in 1..Len(eqs) |->
            [lhs |-> eqs[i].lhs, type |-> dtype,
             rhs |-> ExpressionToCode(eqs[i].rhs, prefix, without \cup lhsNames, dtype)]]

(* In the code of an equation list, a right-hand-side symbol is read bare *)
(* exactly when it is excluded by the caller or is the left-hand side of  *)
(* an earlier equation (a local already assigned), and as a member        *)
(* otherwise.                                                              *)
LocalsBare(eqs, code, bare) ==
    \A i \in 1..Len(eqs) : \A k \in 1..Len(eqs[i].rhs) :
        eqs[i].rhs[k].kind = "sym" =>
            ((code[i].rhs[k].name = eqs[i].rhs[k].name)
                <=> (eqs[i].rhs[k].name \in bare \cup {eqs[j].lhs : j \in 1..i - 1}))

=============================================================================
