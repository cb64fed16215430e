---------------------------- MODULE MCLatticeModel ----------------------------
(***************************************************************************)
(* Model-checking instance of LatticeModel: a D2Q9 method whose lbmpy      *)
(* equations (compressible, with a Guo-style velocity shift) are written   *)
(* out below, the same method without a stencil name, and up to two        *)
(* add_*scaling calls on symbols, fields, a tensor access, a nested list   *)
(* and an invalid parameter.                                               *)
(***************************************************************************)
EXTENDS LatticeModel, TLC

Pdf(d) == <<"f", d>>
Pdfs == {Pdf(d) : d \in {"0", "1", "2", "3", "4", "5", "6", "7", "8"}}
V0 == <<"v", "0">>
V1 == <<"v", "1">>
RhoIn == <<"r", "h", "o", "_", "i", "n">>
U == <<"u">>

(* a + b + ... as items *)
SumOf(names) ==
    [i \in 1..(2 * Len(names) - 1) |->
        IF i % 2 = 1 THEN Sym(names[(i + 1) \div 2]) ELSE Op(<<"+">>)]
Minus(n) == <<Op(<<"-">>), Sym(n)>>
Eq(l, r) == [lhs |-> l, rhs |-> r]

(* output_equations_from_pdfs of a compressible D2Q9 method (C N S W E NW *)
(* NE SW SE): the velocity terms, then the density and momentum.          *)
VelTerms ==
    <<Eq(V0, SumOf(<<Pdf("4"), Pdf("6"), Pdf("8")>>)),
      Eq(V1, SumOf(<<Pdf("1"), Pdf("5")>>))>>
DensityEqs ==
    VelTerms \o <<Eq(RhoName, SumOf(<<V0, V1, Pdf("0"), Pdf("2"), Pdf("3"), Pdf("7")>>))>>
MomentumEqs ==
    DensityEqs \o
    <<Eq(<<"m", "d", "_", "0">>, Minus(Pdf("3")) \o Minus(Pdf("5")) \o Minus(Pdf("7")) \o <<Op(<<"+">>), Sym(V0)>>),
      Eq(<<"m", "d", "_", "1">>, Minus(Pdf("2")) \o Minus(Pdf("7")) \o Minus(Pdf("8"))
                                  \o <<Op(<<"+">>), Sym(Pdf("6")), Op(<<"+">>), Sym(V1)>>)>>
(* equilibrium_input_equations_from_init_values(rho_in, u) *)
SetterEqs ==
    <<Eq(RhoName, <<Sym(RhoIn)>>),
      Eq(<<"u", "_", "0">>, <<Sym(U), Op(<<"[", "0", "]">>)>>),
      Eq(<<"u", "_", "1">>, <<Sym(U), Op(<<"[", "1", "]">>)>>)>>
(* macroscopic_velocity_shift: F_i / (2 rho) *)
Shift ==
    [i \in 1..2 |-> <<RatLit(Half), Op(<<"*">>), Sym(<<"F", "_", IF i = 1 THEN "0" ELSE "1">>),
                      Op(<<"/">>), Sym(RhoName)>>]

D2Q9 == [stencil |-> "D2Q9", shift |-> Shift, setter |-> SetterEqs, setterBare |-> {RhoIn, U},
         density |-> DensityEqs, momentum |-> MomentumEqs, pdfs |-> Pdfs]
Unnamed == [D2Q9 EXCEPT !.stencil = "", !.shift = <<>>]

NoItems == [i \in {} |-> Param("other", <<>>, 0, <<>>, <<>>)]
Omega == Param("symbol", <<"o", "m", "e", "g", "a">>, 0, <<>>, NoItems)
S == Param("symbol", <<"s">>, 0, <<>>, NoItems)
Force == Param("field", <<"F">>, 1, <<>>, NoItems)
Nu == Param("field", <<"n", "u">>, 0, <<>>, NoItems)
Tensor == Param("access", <<"T">>, 2, <<<<"0">>, <<"1">>>>, NoItems)
Nested == Param("list", <<>>, 0, <<>>, <<Param("list", <<>>, 0, <<>>, <<Omega, Force>>), Nu>>)
Invalid == Param("other", <<>>, 0, <<>>, NoItems)

MCParams == {Omega, S, Force, Tensor, Nested, Invalid}

MCCalls ==
    {[target |-> t, double |-> d, dataType |-> dt, layout |-> la[1], strideArg |-> la[2],
      useScaling |-> us, method |-> m] :
        t \in {"CPU", "GPU"}, d \in BOOLEAN, dt \in {"None", "float64"},
        la \in {<<"fzyx", "unset">>, <<"zyxf", "unset">>, <<"c", "unset">>, <<"c", "false">>},
        us \in BOOLEAN, m \in {D2Q9, Unnamed}}
=============================================================================
