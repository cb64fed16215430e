-------------------------------- MODULE Sweep --------------------------------
(***************************************************************************)
(* generate_sweep and generate_selective_sweep (codegen.py lines 29-154),  *)
(* with the target check of config_from_context (lines 468-473): the       *)
(* control flow that decides, from the target argument, the build context  *)
(* and the kernel AST, whether a sweep class is emitted, for which target, *)
(* or whether the call fails.  The kernel compiler, the kernel family and  *)
(* the templates are external: an AST is its execution target, a kernel   *)
(* family the set of its field parameters, the output the set of files.   *)
(* One call is a state machine with one action per step of the code; an   *)
(* exception ends it in phase "error"; AssertsEnabled = FALSE models       *)
(* python -O.                                                              *)
(***************************************************************************)
EXTENDS Naturals, FiniteSets

CONSTANTS
    Calls,          \* the calls considered, see IsSweepCall
    AssertsEnabled  \* FALSE under python -O

Targets == {"CPU", "GPU"}

(* entry "sweep": generate_sweep(ctx, name, assignments, staggered=...,    *)
(* target=targetArg, **params), where 'assignments' is an AST of target    *)
(* astTarget when isAst, and otherwise is compiled by create_kernel;        *)
(* ompGiven: 'omp_single_loop' is among the keyword parameters.  entry     *)
(* "selective": generate_selective_sweep(ctx, name, tree, target=          *)
(* targetArg) on a tree whose ASTs have target astTarget.  cuda is the     *)
(* build context's CUDA flag; fieldParams the names (ordered numbers) of   *)
(* the kernel family's field parameters.                                   *)
IsSweepCall(c) ==
    /\ c.entry \in {"sweep", "selective"}
    /\ c.cuda \in BOOLEAN
    /\ c.isAst \in BOOLEAN
    /\ c.astTarget \in Targets
    /\ c.targetArg \in Targets \cup {"None"}
    /\ c.entry = "sweep" => c.targetArg \in Targets
    /\ c.staggered \in BOOLEAN
    /\ c.ompGiven \in BOOLEAN
    /\ c.fieldParams \in SUBSET Nat /\ IsFiniteSet(c.fieldParams)

ASSUME SweepCallsAssumption ==
    Calls # {} /\ (\A c \in Calls : IsSweepCall(c)) /\ AssertsEnabled \in BOOLEAN

VARIABLES
    call,       \* the arguments of the call
    phase,      \* "sweep", "select", "render", "returned", "done" or "error"
    target,     \* the target generate_selective_sweep works with
    astTarget,  \* the target of the AST(s) of the kernel family
    field,      \* representative_field (0 before it is chosen)
    files       \* the files written: {} or {"h", "cpp"} or {"h", "cu"}

svars == <<call, phase, target, astTarget, field, files>>

NoName == 0

SInit ==
    /\ call \in Calls
    /\ phase = IF call.entry = "sweep" THEN "sweep" ELSE "select"
    /\ target = IF call.entry = "sweep" THEN "None" ELSE call.targetArg
    /\ astTarget = IF call.entry = "sweep" THEN "None" ELSE call.astTarget
    /\ field = NoName
    /\ files = {}

(* generate_sweep, lines 64-86: the staggered assert, config_from_context  *)
(* (which raises for a GPU target without CUDA, line 471), then the AST:   *)
(* a KernelFunction is taken as it is and its own target replaces the     *)
(* argument (line 72); otherwise create_kernel or create_staggered_kernel  *)
(* compiles for the configured target.  The AST is handed on to            *)
(* generate_selective_sweep with that target.                              *)
GenerateSweep ==
    /\ phase = "sweep"
    /\ \/ /\ call.staggered /\ call.ompGiven /\ AssertsEnabled
          /\ phase' = "error"
          /\ UNCHANGED <<target, astTarget>>
       \/ /\ ~(call.staggered /\ call.ompGiven /\ AssertsEnabled)
          /\ call.targetArg = "GPU" /\ ~call.cuda
          /\ phase' = "error"
          /\ UNCHANGED <<target, astTarget>>
       \/ /\ ~(call.staggered /\ call.ompGiven /\ AssertsEnabled)
          /\ call.targetArg = "CPU" \/ call.cuda
          /\ astTarget' = IF call.isAst THEN call.astTarget ELSE call.targetArg
          /\ target' = astTarget'
          /\ phase' = "select"
    /\ UNCHANGED <<call, field, files>>

(* Mutant: the mismatch check of line 123 dropped.                        *)
ResolveTargetNoMismatch ==
    /\ phase = "select"
    /\ \/ /\ target = "None"
          /\ target' = astTarget
       \/ /\ target # "None"
          /\ UNCHANGED target
    /\ phase' = IF ~call.cuda /\ target' = "GPU" THEN "returned" ELSE "render"
    /\ UNCHANGED <<call, astTarget, field, files>>

(* Mutant: a target of None is not inferred from the ASTs.               *)
ResolveTargetNoInference ==
    /\ phase = "select"
    /\ \/ /\ target \notin {"None", astTarget}
          /\ phase' = "error"
          /\ UNCHANGED target
       \/ /\ target \in {"None", astTarget}
          /\ UNCHANGED target
          /\ phase' = IF ~call.cuda /\ target = "GPU" THEN "returned" ELSE "render"
    /\ UNCHANGED <<call, astTarget, field, files>>

(* generate_selective_sweep, lines 121-126: a target of None is taken from *)
(* the ASTs, a different one raises ValueError; then, without CUDA, a GPU  *)
(* target makes the call return without writing anything.                 *)
ResolveTarget ==
    /\ phase = "select"
    /\ \/ /\ target = "None"
          /\ target' = astTarget
          /\ phase' = IF ~call.cuda /\ target' = "GPU" THEN "returned" ELSE "render"
       \/ /\ target \notin {"None", astTarget}
          /\ phase' = "error"
          /\ UNCHANGED target
       \/ /\ target = astTarget
          /\ UNCHANGED target
          /\ phase' = IF ~call.cuda /\ target = "GPU" THEN "returned" ELSE "render"
    /\ UNCHANGED <<call, astTarget, field, files>>

(* Lines 128-154: the alphabetically first field parameter is the          *)
(* representative field (sorted(...)[0] raises IndexError when there is   *)
(* none); the header and the source, .cpp for CPU and .cu for GPU, are     *)
(* written.                                                                *)
RenderSweep ==
    /\ phase = "render"
    /\ \/ /\ call.fieldParams = {}
          /\ phase' = "error"
          /\ UNCHANGED <<field, files>>
       \/ /\ call.fieldParams # {}
          /\ \E f \in call.fieldParams : (\A g \in call.fieldParams : f <= g) /\ field' = f
          /\ files' = {"h", IF target = "CPU" THEN "cpp" ELSE "cu"}
          /\ phase' = "done"
    /\ UNCHANGED <<call, target, astTarget>>

SNext ==
    \/ GenerateSweep
    \/ ResolveTarget
    \/ RenderSweep

SSpec == SInit /\ [][SNext]_svars

-----------------------------------------------------------------------------
(* Properties.                                                             *)

STypeOK ==
    /\ call \in Calls
    /\ phase \in {"sweep", "select", "render", "returned", "done", "error"}
    /\ target \in Targets \cup {"None"}
    /\ phase \in {"render", "done"} => target \in Targets
    /\ astTarget \in Targets \cup {"None"}
    /\ field \in call.fieldParams \cup {NoName}
    /\ files \in {{}, {"h", "cpp"}, {"h", "cu"}}

(* Whenever a sweep is written, its source file is the one of the target   *)
(* the kernels were really compiled for (.cu exactly for GPU ASTs), a GPU  *)
(* sweep is written only for a CUDA build, and an explicit target argument *)
(* of generate_selective_sweep agrees with the ASTs: the argument, the     *)
(* AST passed to generate_sweep and the inferred target never combine     *)
(* into a sweep class for the wrong backend.                               *)
SweepMatchesKernels ==
    files # {} =>
        /\ ("cu" \in files) = (astTarget = "GPU")
        /\ "cu" \in files => call.cuda
        /\ call.entry = "selective" /\ call.targetArg # "None" => call.targetArg = astTarget

(* Spec section 7: requesting GPU generation without GPU build support is  *)
(* a configuration error, fatal and surfaced immediately.  So a call that  *)
(* ends without writing a GPU sweep in a build without CUDA must end in    *)
(* an error, never return quietly as lines 125-126 do.                     *)
GpuWithoutCudaFatal ==
    phase \in {"returned", "done"} /\ target = "GPU" => call.cuda

=============================================================================
