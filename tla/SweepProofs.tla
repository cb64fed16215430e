---------------------------- MODULE SweepProofs -----------------------------
(***************************************************************************)
(* Proofs about Sweep for every set of calls: the type invariant and the  *)
(* agreement of the written sweep class with the target of its kernels.    *)
(***************************************************************************)
EXTENDS Sweep, TLAPS

(* What the call carries from one step to the next: before the target is  *)
(* resolved, target and AST target are the argument and the ASTs' target  *)
(* (generate_selective_sweep called directly) or both the AST's target     *)
(* (handed on by generate_sweep); once resolved, the target is the ASTs'   *)
(* one and passed the CUDA test; files are written only at the end and     *)
(* with the extension of that target.                                      *)
SInv ==
    /\ STypeOK
    /\ phase = "sweep" => call.entry = "sweep"
    /\ phase = "select" /\ call.entry = "selective" =>
          target = call.targetArg /\ astTarget = call.astTarget
    /\ phase = "select" /\ call.entry = "sweep" => target = astTarget /\ target \in Targets
    /\ phase \in {"render", "done"} =>
          /\ target = astTarget
          /\ target = "GPU" => call.cuda
          /\ call.entry = "selective" /\ call.targetArg # "None" => call.targetArg = astTarget
    /\ files # {} => phase = "done" /\ files = {"h", IF target = "CPU" THEN "cpp" ELSE "cu"}

THEOREM SInitInv == SInit => SInv
BY SweepCallsAssumption DEF SInit, SInv, STypeOK, IsSweepCall, Targets, NoName

THEOREM SNextInv == SInv /\ [SNext]_svars => SInv'
<1> SUFFICES ASSUME SInv, [SNext]_svars PROVE SInv'
    OBVIOUS
<1>. USE SweepCallsAssumption DEF SInv, STypeOK, Targets
<1>1. ASSUME GenerateSweep PROVE SInv'
    BY <1>1 DEF GenerateSweep, IsSweepCall
<1>2. ASSUME ResolveTarget PROVE SInv'
    <2>1. /\ call.targetArg \in Targets \cup {"None"} /\ call.astTarget \in Targets
          /\ call.entry \in {"sweep", "selective"}
          /\ phase = "select" /\ files = {}
          /\ astTarget \in Targets
        BY <1>2 DEF IsSweepCall, ResolveTarget
    <2>2. CASE target = "None"
        <3>1. target' = astTarget /\ UNCHANGED <<call, astTarget, field, files>>
              /\ phase' = IF ~call.cuda /\ astTarget = "GPU" THEN "returned" ELSE "render"
            BY <1>2, <2>2 DEF ResolveTarget
        <3>2. call.entry = "selective" /\ call.targetArg = "None"
            BY <2>1, <2>2
        <3>. QED
            BY <2>1, <3>1, <3>2
    <2>3. CASE target \notin {"None", astTarget}
        <3>1. phase' = "error" /\ UNCHANGED <<call, target, astTarget, field, files>>
            BY <1>2, <2>3 DEF ResolveTarget
        <3>. QED
            BY <2>1, <3>1
    <2>4. CASE target = astTarget
        <3>1. UNCHANGED <<call, target, astTarget, field, files>>
              /\ phase' = IF ~call.cuda /\ target = "GPU" THEN "returned" ELSE "render"
            BY <1>2, <2>4 DEF ResolveTarget
        <3>. QED
            BY <2>1, <2>4, <3>1
    <2>. QED
        BY <2>2, <2>3, <2>4
<1>3. ASSUME RenderSweep PROVE SInv'
    BY <1>3 DEF RenderSweep
<1>4. CASE UNCHANGED svars
    BY <1>4 DEF svars
<1>. QED
    BY <1>1, <1>2, <1>3, <1>4 DEF SNext

(* Every state of generate_sweep and generate_selective_sweep is well     *)
(* typed, whatever the call.                                               *)
THEOREM SweepTypeCorrect == SSpec => []STypeOK
<1>1. SInv => STypeOK
    BY DEF SInv
<1>. QED
    BY <1>1, SInitInv, SNextInv, PTL DEF SSpec

(* For every call of generate_sweep or generate_selective_sweep, a sweep   *)
(* class that is written has the source file (.cpp or .cu, line 152) of    *)
(* the target its kernels were compiled for, is a GPU one only in a CUDA   *)
(* build, and agrees with an explicit target argument (line 123).          *)
THEOREM SweepMatchesKernelsHolds == SSpec => []SweepMatchesKernels
<1>1. SInv => SweepMatchesKernels
    BY DEF SInv, STypeOK, Targets, SweepMatchesKernels
<1>. QED
    BY <1>1, SInitInv, SNextInv, PTL DEF SSpec

=============================================================================
