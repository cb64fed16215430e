--------------------------- MODULE LoweringProofs ---------------------------
(***************************************************************************)
(* Proofs about the expression lowering, for every equation list, prefix   *)
(* and type: equations_to_code (walberla_lbm_generation.py lines 303-320) *)
(* reads every right-hand-side symbol right (LocalsBare) exactly when no   *)
(* equation reads a left-hand side of the list before it is assigned.      *)
(***************************************************************************)
EXTENDS Lowering, TLAPS

(* The items and equations the lowering is given: a name is a sequence of *)
(* characters of the alphabet C.                                           *)
ItemRec(C) == [kind : STRING, name : Seq(C), idims : Nat,
               index : Seq(Seq(C)), type : STRING]
Equation(C) == [lhs : Seq(C), rhs : Seq(ItemRec(C))]

(* No right-hand side reads a name some equation of the list assigns      *)
(* before an earlier equation has assigned it, unless the caller passes   *)
(* that name bare: the order lbmpy gives its equation lists.               *)
AssignedBeforeRead(eqs, bare) ==
    \A i \in 1..Len(eqs) : \A k \in 1..Len(eqs[i].rhs) :
        /\ eqs[i].rhs[k].kind = "sym"
        /\ eqs[i].rhs[k].name \in {eqs[j].lhs : j \in 1..Len(eqs)}
        => eqs[i].rhs[k].name \in bare \cup {eqs[j].lhs : j \in 1..i - 1}

(* The separator field_and_symbol_substitute appends to a prefixed name: *)
(* '_' after a member prefix (lines 250-254).                              *)
MemberSuffix(prefix) == IF EndsWithDot(prefix) THEN <<"_">> ELSE <<>>

(* The separator's one character, named so that the alphabet's assumption *)
(* can mention it without its literal.                                     *)
Underscore == "_"

-----------------------------------------------------------------------------

(* The separator is a name over any alphabet containing '_'.            *)
LEMMA MemberSuffixType ==
    ASSUME NEW C, Underscore \in C
    PROVE  \A p : MemberSuffix(p) \in Seq(C)
<1>1. \A c \in C : <<c>> \in Seq(C)
    OBVIOUS
<1>2. <<>> \in Seq(C)
    OBVIOUS
<1>3. \A p : MemberSuffix(p) \in {<<Underscore>>, <<>>}
    BY Zenon DEF MemberSuffix, Underscore
<1>. QED
    BY <1>1, <1>2, <1>3, Zenon

(* A symbol made by the lowering is a symbol of the given name.          *)
LEMMA SymFacts ==
    /\ \A x : Sym(x).kind = "sym" /\ Sym(x).name = x
    /\ \A a, b, c, d, t : Item(a, b, c, d, t).name = b
BY DEF Sym, Item

(* The lowering of one item: a symbol keeps its name when it is excluded  *)
(* and gets prefix + name (+ '_') otherwise, in both cases retyped as a    *)
(* TypedSymbol (lines 258-262, 300).                                       *)
LEMMA SymbolLowering ==
    ASSUME NEW C, NEW e \in Seq(ItemRec(C)), NEW prefix, NEW without, NEW dtype,
           NEW k \in 1..Len(e), e[k].kind = "sym"
    PROVE  ExpressionToCode(e, prefix, without, dtype)[k].name =
               IF e[k].name \in without THEN e[k].name
               ELSE prefix \o e[k].name \o MemberSuffix(prefix)
<1> DEFINE f == FieldAndSymbolSubstitute(e, prefix, without)
           suf == MemberSuffix(prefix)
<1>1. Len(f) = Len(e) /\ DOMAIN f = 1..Len(e)
    BY DEF FieldAndSymbolSubstitute
<1>2. ExpressionToCode(e, prefix, without, dtype)[k] =
          IF f[k].kind = "sym" THEN Item("tsym", f[k].name, 0, <<>>, dtype) ELSE f[k]
    BY <1>1 DEF ExpressionToCode, TypeExpr
<1>3. CASE e[k].name \in without
    <2>1. f[k] = e[k]
        BY <1>3 DEF FieldAndSymbolSubstitute
    <2>2. ExpressionToCode(e, prefix, without, dtype)[k].name = f[k].name
        BY <1>2, <2>1, SymFacts
    <2>. QED
        BY <1>3, <2>1, <2>2
<1>4. CASE e[k].name \notin without
    <2>1. f[k] = Sym(prefix \o e[k].name \o suf)
        BY <1>4 DEF FieldAndSymbolSubstitute, MemberSuffix
    <2>2. f[k].kind = "sym" /\ f[k].name = prefix \o e[k].name \o suf
        BY <2>1, SymFacts
    <2>3. ExpressionToCode(e, prefix, without, dtype)[k].name = f[k].name
        <3>1. f[k].kind = "sym"
            BY <2>2
        <3>2. ExpressionToCode(e, prefix, without, dtype)[k] = Item("tsym", f[k].name, 0, <<>>, dtype)
            BY <1>2, <3>1
        <3>. QED
            BY <3>2, SymFacts
    <2>. QED
        BY <1>4, <2>2, <2>3
<1>. QED
    BY <1>3, <1>4

(* A non-empty prefix changes a name: the prefixed name is longer.        *)
LEMMA PrefixChangesName ==
    ASSUME NEW C, NEW prefix \in Seq(C), prefix # <<>>,
           NEW n \in Seq(C), NEW suf \in Seq(C)
    PROVE  prefix \o n \o suf # n
<1>1. Len(prefix) > 0
    OBVIOUS
<1>2. Len(prefix \o n \o suf) = Len(prefix) + Len(n) + Len(suf)
    OBVIOUS
<1>. QED
    BY <1>1, <1>2


(* In the code of an equation list, a right-hand-side symbol keeps its    *)
(* name exactly when the caller excludes it or some equation of the list, *)
(* earlier or later, assigns it (line 312).                                *)
LEMMA ReadBare ==
    ASSUME NEW C, Underscore \in C, NEW eqs \in Seq(Equation(C)), NEW prefix \in Seq(C), prefix # <<>>,
           NEW bare, NEW dtype,
           NEW i \in 1..Len(eqs), NEW k \in 1..Len(eqs[i].rhs), eqs[i].rhs[k].kind = "sym"
    PROVE  (EquationsToCode(eqs, prefix, bare, dtype)[i].rhs[k].name = eqs[i].rhs[k].name)
               <=> eqs[i].rhs[k].name \in bare \cup {eqs[j].lhs : j \in 1..Len(eqs)}
<1> DEFINE W == bare \cup {eqs[j].lhs : j \in 1..Len(eqs)}
           e == eqs[i].rhs
           n == e[k].name
           suf == MemberSuffix(prefix)
<1>1. EquationsToCode(eqs, prefix, bare, dtype)[i].rhs = ExpressionToCode(e, prefix, W, dtype)
    BY DEF EquationsToCode
<1>2. e \in Seq(ItemRec(C)) /\ n \in Seq(C)
    <2>1. eqs[i] \in Equation(C)
        OBVIOUS
    <2>2. e \in Seq(ItemRec(C))
        BY <2>1 DEF Equation
    <2>3. e[k] \in ItemRec(C)
        BY <2>2
    <2>. QED
        BY <2>2, <2>3 DEF ItemRec
<1>3. ExpressionToCode(e, prefix, W, dtype)[k].name = IF n \in W THEN n ELSE prefix \o n \o suf
    <2>1. k \in 1..Len(e) /\ e[k].kind = "sym"
        OBVIOUS
    <2> HIDE DEF W, e
    <2>. QED
        BY <1>2, <2>1, SymbolLowering
<1>4. prefix \o n \o suf # n
    <2>1. suf \in Seq(C)
        BY MemberSuffixType
    <2>. QED
        BY <1>2, <2>1, PrefixChangesName
<1>. QED
    BY <1>1, <1>3, <1>4

(* equations_to_code reads every right-hand-side symbol of an equation    *)
(* list right (a local assigned earlier and a name the caller excludes    *)
(* bare, anything else as a member prefix + name + '_') if and only if no *)
(* equation reads a name the list assigns before it is assigned: the      *)
(* exclusion of ALL left-hand-side names at line 312 is correct for the   *)
(* lists lbmpy orders this way, and for no other list.                    *)
THEOREM EquationsToCodeReadsLocals ==
    ASSUME NEW C, Underscore \in C, NEW eqs \in Seq(Equation(C)), NEW prefix \in Seq(C), prefix # <<>>,
           NEW bare, NEW dtype
    PROVE  LocalsBare(eqs, EquationsToCode(eqs, prefix, bare, dtype), bare)
               <=> AssignedBeforeRead(eqs, bare)
<1> DEFINE code == EquationsToCode(eqs, prefix, bare, dtype)
           Earlier(i) == {eqs[j].lhs : j \in 1..i - 1}
           All == {eqs[j].lhs : j \in 1..Len(eqs)}
<1>1. \A i \in 1..Len(eqs) : Earlier(i) \subseteq All
    OBVIOUS
<1>2. ASSUME NEW i \in 1..Len(eqs), NEW k \in 1..Len(eqs[i].rhs), eqs[i].rhs[k].kind = "sym"
      PROVE  (code[i].rhs[k].name = eqs[i].rhs[k].name) <=> eqs[i].rhs[k].name \in bare \cup All
    BY <1>2, ReadBare
<1>3. LocalsBare(eqs, code, bare) => AssignedBeforeRead(eqs, bare)
    BY <1>2 DEF LocalsBare, AssignedBeforeRead
<1>4. AssignedBeforeRead(eqs, bare) => LocalsBare(eqs, code, bare)
    BY <1>1, <1>2 DEF LocalsBare, AssignedBeforeRead
<1>. QED
    BY <1>3, <1>4

=============================================================================
