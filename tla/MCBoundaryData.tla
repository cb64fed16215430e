--------------------------- MODULE MCBoundaryData ---------------------------
(***************************************************************************)
(* Model-checking instance of BoundaryData: the D2Q9 and D3Q27 stencils in *)
(* waLBerla order; in 2D every flag field of the eight neighbours, in 3D   *)
(* the flat walls, the concave edges and corners (unions of walls) and the *)
(* convex edges and corners (intersections of walls); planar outflow       *)
(* normals and one diagonal normal that the assert of line 160 rejects.    *)
(***************************************************************************)
EXTENDS BoundaryData, TLC

D2Q9 == <<<<0, 0>>, <<0, 1>>, <<0, -1>>, <<-1, 0>>, <<1, 0>>,
          <<-1, 1>>, <<1, 1>>, <<-1, -1>>, <<1, -1>>>>

\* C N S W E T B NE NW SE SW TN TS TW TE BN BS BW BE TNE TNW TSE TSW BNE BNW BSE BSW
D3Q27 == <<<<0, 0, 0>>, <<0, 1, 0>>, <<0, -1, 0>>, <<-1, 0, 0>>, <<1, 0, 0>>,
           <<0, 0, 1>>, <<0, 0, -1>>, <<1, 1, 0>>, <<-1, 1, 0>>, <<1, -1, 0>>,
           <<-1, -1, 0>>, <<0, 1, 1>>, <<0, -1, 1>>, <<-1, 0, 1>>, <<1, 0, 1>>,
           <<0, 1, -1>>, <<0, -1, -1>>, <<-1, 0, -1>>, <<1, 0, -1>>,
           <<1, 1, 1>>, <<-1, 1, 1>>, <<1, -1, 1>>, <<-1, -1, 1>>,
           <<1, 1, -1>>, <<-1, 1, -1>>, <<1, -1, -1>>, <<-1, -1, -1>>>>

MCStencils == {D2Q9, D3Q27}

\* a set of walls: (axis, side) pairs on distinct axes
WallSets(d) == {W \in SUBSET ((1..d) \X {-1, 1}) :
                   W # {} /\ \A w1, w2 \in W : w1[1] = w2[1] => w1 = w2}
Blocked(W, mode, c) ==
    IF mode = "union" THEN \E w \in W : c[w[1]] = w[2] ELSE \A w \in W : c[w[1]] = w[2]

MCGeometries ==
    [d \in {2, 3} |->
        IF d = 2 THEN {g \in [Offsets(2) -> BOOLEAN] : g[<<0, 0>>]}
        ELSE {[c \in Offsets(3) |-> ~Blocked(W, mode, c)] :
                 W \in WallSets(3), mode \in {"union", "intersection"}}]

MCOutflowNormals == {<<1, 0>>, <<0, -1>>, <<1, 1>>, <<1, 0, 0>>, <<0, 0, -1>>}
=============================================================================
