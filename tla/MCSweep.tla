------------------------------- MODULE MCSweep -------------------------------
(***************************************************************************)
(* Model-checking instance of Sweep: every combination of entry point,     *)
(* CUDA flag, AST kind and target, target argument, staggered flag and     *)
(* omp_single_loop parameter, for a kernel family with two field           *)
(* parameters or none.                                                     *)
(***************************************************************************)
EXTENDS Sweep, TLC

MCCalls ==
    {c \in [entry : {"sweep", "selective"}, cuda : BOOLEAN, isAst : BOOLEAN,
            astTarget : Targets, targetArg : Targets \cup {"None"},
            staggered : BOOLEAN, ompGiven : BOOLEAN, fieldParams : {{}, {2, 1}}] :
        IsSweepCall(c)}
=============================================================================
