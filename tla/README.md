# TLA+ models of the waLBerla code generators

This directory holds TLA+ models of the Python code generators under
`src/python`:

- `pystencils_walberla/codegen.py` generates sweeps, pack infos and MPI datatype infos.
- `lbmpy_walberla/additional_data_handler.py` generates the initialisers of boundary data.
- `lbmpy_walberla/walberla_lbm_generation.py` generates the lattice model and does the expression lowering.

The directory also holds the TLC configurations that check the models, and
TLAPS proofs about them.

## 1. The system (inventory)

| Part | Source | State | Operations |
|---|---|---|---|
| Direction algebra | codegen.py 504-524 | none (pure) | `comm_directions`, `binary_numbers`, `inverse_direction` |
| Pack-info synthesizer | codegen.py 187-340 | `reads`, `writes`, `spec`, `pack_kernels`, `unpack_kernels`, `elements_per_cell`, `all_accesses`, `field_names` | collect, group (pull/push), dtype check, compile loop per direction set, fused kernel, emit |
| config_from_context | codegen.py 468-501 | the caller's `cpu_vectorize_info` dict (mutated) | GPU check, defaults |
| pack info for a field | codegen.py 157-184 | none | one direction set (default: all 27 directions) with every component |
| MPI datatype info | codegen.py 343-396 | `spec` of direction strings to component indices | same grouping as pack info, single-field assert |
| Sweeps | codegen.py 29-154 | none | target inference and mismatch, silent return for GPU without CUDA, representative field |
| Boundary data handlers | additional_data_handler.py | mirror tables (free slip) | default dispatch, free-slip initialiser, UBB initialiser, outflow initialiser |
| Expression lowering | walberla_lbm_generation.py 245-320 | none (pure, text) | substitution, typing, `expression_to_code`, `equations_to_code` |
| RefinementScaling | walberla_lbm_generation.py 180-223 | `scaling_info` | `add_standard_relaxation_rate_scaling`, `add_force_scaling`, `add_scaling` (recursive over lists) |
| Lattice model | walberla_lbm_generation.py 27-177, 229-242 | none | GPU checks, layout flag, lowering of getters, setter, velocity shift and scaling info, member rename, stencil switch |

How the parts interact:

- `generate_pack_info_from_kernel` derives a pack spec through the direction algebra. It hands the spec to `generate_pack_info`.
- `generate_pack_info` calls `config_from_context` and the external kernel compiler once per direction set.
- The generated C++ class is used by waLBerla's ghost-layer exchange. Every neighbour packs the slice it shares with the receiver. The receiver unpacks each buffer into its ghost layer, in arrival order.
- The pull kernel the pack info was derived from then reads its neighbour values from the ghost layer.

What is hard here:

- The grouping loops iterate Python sets, whose order is arbitrary.
- The diagonal fan-out of `comm_directions` has sign rules.
- Pack and unpack must agree on the buffer layout.
- Buffers arrive in any order.
- The checks are `assert` statements, which `python -O` removes.
- Some fatal configuration errors are silent in the code.
- The lowering builds C++ names by string concatenation and edits printed code with `str.replace`.

The lattice model generator uses a `RefinementScaling` object that the caller fills by several method calls before generation. It also uses `config_from_context` and the expression lowering.

## 2. Modules

- **DirectionAlgebra**: the direction functions, as sets and operators.
- **PackInfo**: one call of `generate_pack_info_from_kernel`, or a direct call of `generate_pack_info`, as a state machine.
  - The phases are collect, group, compile, done and error.
  - There is one action per loop iteration of the code (`Collect`, `Group(fa)`, `GeneratePackInfo`, `CompileDirectionSet(k)`, `Emit`, `CallDirect`).
  - A loop over a Python set takes its elements in any order.
  - The loop over the sorted direction sets takes the smallest key first.
  - An exception ends the call in phase "error".
  - `AssertsEnabled = FALSE` models `python -O`.
- **HaloExchange** extends PackInfo. It composes the generated pack info with one exchange round of a block with its neighbours, modelled from spec.md, because the C++ side is not in `src/`.
  - A cell value is symbolic, `Truth(cell, (field, component))`, or `Stale`.
  - `SendAll` is `startCommunication`: every neighbour packs.
  - `Deliver(s)` unpacks the buffer from side `s` into the ghost slice, in any order.
  - `CallForField` is `generate_pack_info_for_field`: one direction set (the subset given, or all 27 3D directions `AllDirections3D`), packing every component of the field at the centre.
- **MpiDtypeInfo**: one call of `generate_mpidtype_info_from_kernel` (lines 343-396).
  - The phases are collect, select, group, done and error, with one action per step (`MCollect`, `SelectField`, `MGroup(fa)`, `EmitHeader`).
  - `SelectField` is the single-field assert followed by `set.pop()`, which picks any element, and raises KeyError on an empty set.
  - `MGroup` has the width assert, the centre skip, and the index assert inside the `comm_directions` loop.
  - `EmitHeader` reads `index_shape[0]`, which fails for a scalar field.
  - An access carries its index tuple, so that scalar and tensor fields can be told apart.
- **Sweep**: `generate_sweep` and `generate_selective_sweep` (lines 29-154), with the GPU check of `config_from_context`.
  - `GenerateSweep` covers the staggered assert, the configuration check of the target *argument*, and an AST passed directly replacing that argument (line 72).
  - `ResolveTarget` covers target inference, the mismatch error and the silent return for GPU without CUDA (lines 120-126).
  - `RenderSweep` covers the representative field and the `.cpp`/`.cu` files.
  - The AST is reduced to its target, and the kernel family to its field parameters.
- **BoundaryData**: `additional_data_handler.py`.
  - `Dispatch` is `default_additional_data_handler` together with the outflow planarity assert.
  - The generated free-slip initialiser is modelled by what it does at run time. `FreeSlipAxis(i)` is the test of the axis-i neighbour of the boundary cell and the mirroring of `ref_dir`. `FreeSlipCorner` is the concave-corner fallback and the store of `ref_dir`.
  - `UBBInit` is the velocity copy.
  - `OutflowLink` is `stencil_info`, and `OutflowInit` is `get_init_dict`.
  - Cells are offsets from the fluid cell, and the domain flags of its neighbourhood are an input.
  - The outgoing pdf accessor of lbmpy (`PdfAccess`, pull and push patterns) is outside the repository and is modelled from the spec.
  - The member names `element.wnx/wny/wnz` are `WnMember(i)`, a table rather than a string concatenation, so that the provers can compare them.
  - `StencilAssumption` states what lines 60 and 65 rely on when they call `stencil.index`: a stencil is non-empty, and it holds the inverse and every axis mirror of each of its velocities. The lbmpy stencils (D2Q9, D3Q19, D3Q27 and others) are symmetric in this way.
- **Lowering**: the expression lowering (lines 245-320) as operators. An expression is the sequence of items it prints as. The items are symbols, field accesses, literals and operator text. Names and text are sequences of one-character strings, because the code concatenates names and edits printed text with `str.replace`. Lowering declares no recursion, so that LoweringProofs can use it; `LocalsBare`, the condition ReadsLocals checks on each equation list, is defined here.
  - `FieldAndSymbolSubstitute` is `field_and_symbol_substitute`, and `SubstituteFails` is its assert.
  - `TypeExpr` is `type_expr`. Its literal branch never matches, so it only retypes symbols.
  - `EquationsToCode` is `equations_to_code`, with all left-hand-side names excluded from the prefix.
- **LatticeModel** extends Lowering. It is a state machine for a `RefinementScaling` object followed by one `generate_lattice_model` call. `PyReplace`, Python's `str.replace` (line 82), is defined here as a RECURSIVE operator.
  - `AddScalingCall(r, p)` is a call of `add_standard_relaxation_rate_scaling` or `add_force_scaling`.
  - `ScalingStep` is one visit of the recursion of `add_scaling`. Its worklist `pending` keeps Python's visiting order.
  - `Generate` is lines 134-175, with the defaults of `config_from_context`.
  - `LatticeModelGen` is `__lattice_model`. `out` holds what the templates receive.
  - `added` is a history variable of the calls made.
  - lbmpy's equations are inputs, written out in `MCLatticeModel` for a compressible D2Q9 method.
- **DirectionAlgebraProofs**, **PackInfoProofs**, **MpiDtypeInfoProofs**, **SweepProofs**, **BoundaryProofs**, **HaloExchangeProofs**, **LoweringProofs**: the TLAPS proofs. DirectionAlgebraProofs holds the lemmas on `comm_directions` that the other two direction proofs share.

## 3. Runs

| Run | Expect | What it shows |
|---|---|---|
| pack_info | pass | See below. |
| pack_info_two_fields | violation | Two fields of one dtype: the code emits a pack info with an arbitrary `field_name` (line 329). Spec 4.4 says this is fatal. |
| pack_info_wide_offset | violation | With `AssertsEnabled = FALSE`, a read at (2,0,0) is packed for direction (1,0,0) and generation succeeds. Spec 4.4 says this is fatal. |
| halo_exchange | pass | See below. |
| mpidtype_info | pass | With asserts on, an emitted MPI datatype header names the one field, and lists exactly the components each neighbour direction needs (`HeaderExact`), in any set order. |
| mpidtype_info_optimized | pass | Under `python -O`, no header misses a needed component of its own field (`HeaderComplete`). `HeaderExact` does fail there, because a second field's components are mixed in. |
| sweep | pass | A sweep is written only with the source file of the target its kernels were compiled for, only for CUDA builds when GPU, and only when an explicit target agrees with the ASTs (`SweepMatchesKernels`). |
| sweep_gpu_without_cuda | violation | `GpuWithoutCudaFatal`: a GPU sweep in a build without CUDA returns silently (line 125). This happens when a GPU AST is passed to `generate_sweep` (the check at line 471 sees the CPU argument), or when `generate_selective_sweep` is called directly. Spec section 7 says this is fatal. |
| boundary_data | pass | See below. |
| lattice_model | pass | See below. |
| lattice_model_scaling_members | violation | `ScalingMembers`: the rename of line 82 uses `str.replace` on the whole printed code. A scaling parameter named `s` turns `level_scale_factor` into `level_s_cale_factor`. The comment of line 77 says only the entries are renamed to members. |
| lattice_model_literal_types | violation | `LiteralsTyped`: `type_expr` (line 294) compares each argument with the classes `sp.Rational` and `sp.Float`, so no literal is ever typed. The 1/2 of the relaxation-rate scaling is printed without a cast. Spec 4.2 step 1 says every rational or floating literal is coerced to the target type. |

The pack_info run covers eight calls:
- a 3D pull kernel with face, edge and corner reads and a non-Assignment node;
- a push kernel with an operator;
- a GPU call without CUDA;
- a kernel reading only the centre;
- a kernel with mixed dtypes;
- a kernel with a read of width 2;
- two direct calls, one with a wide key and one with a multi-direction key.

It checks `TypeOK` and `PackSpecClosedForm`: after grouping, the spec equals the reference of spec section 8, in every iteration order.

The halo_exchange run uses D2Q9 and D2Q5 pull streams on a 2x2 block. It checks `GhostNeverWrong`: no cell ever holds a value other than its own, in any delivery order. It also checks `HaloEventuallyCurrent`: once the exchange is over, every value the kernel reads is current.

The boundary_data run covers D2Q9 links next to every flag pattern of the eight neighbours, and D3Q27 links next to every flat wall, concave edge and corner (unions of walls) and convex edge and corner (intersections). It checks:
- `RefDirMirrorsNormal`: the free-slip normal is non-zero, follows the inverse link direction, and `ref_dir` indexes that direction mirrored across exactly the normal's axes;
- `FlatWallNormal`: at a flat wall the normal is the wall's unit normal;
- `OutflowSourcesInterior`: the outflow initialisers cover exactly the outgoing links, and read pdf and pdf_nd from one cell that is not beyond the fluid layer, for the pull and the push pattern.

The lattice_model run makes up to two scaling calls with either rule. Their parameters are a symbol, a vector field, a tensor access (which fails the assert), a list nested two deep and an invalid parameter. Then `generate_lattice_model` is called for every target, precision, data type, layout and stride argument, with a named and an unnamed stencil. It checks:
- `ScalingInfoOrder`: `scaling_info`, followed by what the current call has still to visit, equals the entries of all calls in call order and list order. So the recursion over lists loses, repeats and reorders nothing.
- `ReadsLocals`: in the setter, density and momentum getter code, a symbol is read bare exactly when the caller excluded it or an earlier equation assigned it; it is read as a member otherwise.

Bounds:
- LatticeModel: two scaling calls reach a nested list after another call, which is where call order and list order interleave. The velocity terms of D2Q9 are locals read by later equations.
- MpiDtypeInfo: five fields cover a vector field, its copy, a second vector field, a scalar and a tensor. The kernels cover each assert and error path.
- Sweep: every combination of the call's flags (320 initial states).
- Three dimensions are enough for corner directions. Offsets reach magnitude 2, so the width check happens.
- The block is 2 cells per axis. That is the smallest size where edge cells and corner cells differ from the interior.
- D2Q9 has diagonal reads, which need the fan-out. D2Q5 does not.

Fairness: `HSpec` assumes weak fairness of the whole next-state relation. Generation is a single-threaded call that runs to completion, and every buffer that is sent is received, so the exchange completes.

## 4. Proofs (DirectionAlgebraProofs, PackInfoProofs, MpiDtypeInfoProofs, SweepProofs, BoundaryProofs, HaloExchangeProofs, LoweringProofs)

- `CommDirectionsClosedForm` (DirectionAlgebraProofs): for every `d` and every non-zero `o` in `[1..d -> {-1,0,1}]`, `CommDirections(o) = SubVectors(o)`.
  - In one direction, each adjusted candidate is 0 or `o[i]` on every axis.
  - In the other, the sub-vector `v` is produced by the bits `IF v[i] = 0 THEN 0 ELSE 1`.
- `TypeCorrect`: `Spec => []TypeOK`. It is proved through `TypeInv`, which adds two facts to TypeOK:
  - in phase collect, no key waits and no kernel exists, because `CallDirect` replaces the spec wholesale;
  - every term set is finite, because its size is the element count.
- `PackSpecCorrect`: `AssertsEnabled => (Spec => []PackSpecClosedForm)`. Its inductive invariant `ClosedFormInv` says that during grouping the spec is `ReferencePackSpec(Visited \ todo)`. Two lemmas carry the induction step:
  - `ReferenceAddAccess`: AddTerm of one access with its needed directions extends the reference by that access;
  - `GroupedDirections`: under the assert, comm_directions gives the needed directions.

SweepProofs proves `SweepTypeCorrect` (`SSpec => []STypeOK`) and `SweepMatchesKernelsHolds` (`SSpec => []SweepMatchesKernels`) for every set of calls. Neither property is inductive alone: a written file says nothing about why its target is right. The invariant `SInv` records what each phase carries:
  - before the target is resolved, a direct `generate_selective_sweep` call still holds its argument and the ASTs' target, and a call handed on by `generate_sweep` holds the AST's target twice;
  - from render on, the target is the ASTs' target, GPU only with CUDA, and equal to an explicit argument;
  - files exist only in phase done and carry the target's extension.
The ResolveTarget step splits on the three branches of lines 121-126.

MpiDtypeInfoProofs proves three theorems for every dimension, finite field set, rank map, offset bound and set of kernels. It adds one assumption to the module: `Fields` is finite, since a kernel accesses finitely many fields.
- `MpiDtypeTypeCorrect` (`MSpec => []MTypeOK`) holds with or without asserts. It goes through `TInv`, which adds that a header exists only in phase done. Without that fact, a later step could change `field` or `spec` under a written header. Off-grid offsets reach `comm_directions` once the asserts are stripped. Lemma `CommDirectionsBounded` shows that its results still lie within the offset bound.
- `HeaderExactHolds` (`AssertsEnabled => (MSpec => []HeaderExact)`) goes through `HInv`, which says:
  - once past the kind assert, the kind is pull or push;
  - once a field is selected, every grouped access is of that field. The proof uses `FS_Singleton` on the assert `len(fields) == 1`, which is why `Fields` must be finite;
  - the loop's remaining accesses are among the grouped ones;
  - the table equals `Ref(kind, V)`, the reference table of the visited communicated accesses `V`.

  The loop step rests on two lemmas:
  - `RefAdd`: the defaultdict update adds one access to the reference;
  - `GroupDirectionsCarried`: for a first-neighbour non-zero offset, `comm_directions` of the offset, or of its inverse, gives exactly the directions the access is carried in.

  `HInv` was checked with TLC on the `mpidtype_info` instance before it was proved.
- `HeaderCompleteHolds` (`MSpec => []HeaderComplete`) holds with or without asserts, so also under python -O. Its inductive invariant `CInv` adds one fact to `TInv`: from the loop on, the table covers every communicated access already visited (`Covered`), and the loop is over once the header is written. Nothing is said about the other fields, the tensor accesses or the wide offsets that the stripped asserts let in: each can only add entries. The step rests on `AddIndexGrows` (the defaultdict update keeps every entry and adds the index under each direction) and on `GroupDirectionsCarried`. `CInv` was checked with TLC on both MpiDtypeInfo instances before it was proved.

BoundaryProofs proves four theorems. They hold for every stencil allowed by `StencilAssumption`, every flag field with the fluid cell in the domain, every outflow normal and both streaming patterns:
- `BoundaryTypeCorrect` (`BSpec => []BTypeOK`);
- `RefDirMirrorsNormalHolds` (`BSpec => []RefDirMirrorsNormal`);
- `FlatWallNormalHolds` (`BSpec => []FlatWallNormal`);
- `OutflowSourcesInteriorHolds`: `AssertsEnabled => (BSpec => []OutflowSourcesInterior)`. The assert is needed: with `AssertsEnabled = FALSE`, TLC finds the property violated on the `boundary_data` instance through the diagonal normal `<<1, 1>>`.

None of these properties is inductive alone. Each statement group of the free-slip initialiser writes a partial normal, and the properties speak only of the final one. The inductive invariant `BInv` therefore records what each group has computed:
- after the axis-i tests, `wn` is `TestedNormal`, the normal of all axis tests, cut to the axes visited so far. `TestedNormal` has `inv[i]` where the cell `n + inv[i] e_i` is in the domain, and 0 elsewhere;
- at every point, `stencil[refDir]` is the inverse link direction mirrored across the non-zero axes of `wn` (`MirroredInv`);
- the members written so far are exactly `wnx..` of the visited axes, and `ref_dir` at the end;
- for the outflow handler, a handler exists only for a planar normal under the assert, and the elements are the pdf/pdf_nd sources of a `stencil_info` link.

The axis step rests on `MirrorStep`: mirroring across axis i, which `wn` has not set yet, adds i to the mirrored axes. It also rests on `AxisMirroredFacts`, which says the mirror table indexes the mirror image. `FlatWallNormal` then follows from `TestedFacts`: the cell tested for axis i differs from the link direction only in component i, which becomes 0. The outflow property picks the single non-zero axis `a` of the normal, where `Dot` is one product. The source is then `d - m` (pull) or `-m` (push). `BInv` was checked with TLC on the `boundary_data` instance, with asserts on and off, before it was proved.

HaloExchangeProofs proves `GhostNeverWrongHolds` (`HSpec => []GhostNeverWrong`) and `HaloTypeCorrect` (`HSpec => []HTypeOK`). Both hold for every dimension, block size, field set and set of kernels, under `NoOperator`: no call passes a reduction operator. With an operator, unpack stores `operator(term, buffer(i))` by design (line 245), which is neither Stale nor the cell's own value. The inductive invariant `HInv` says:
- `KernelsMatch`: for every direction set, unpack slot i targets the very term that pack slot i reads, without reduction. This holds because both kernels enumerate the same sorted term list (lines 305-311);
- a buffer in flight is the one its neighbour packed, and sending starts only in phase done, when no generator step is enabled, so the kernels can no longer change;
- every cell holds Stale or its own value.

`UnpackRefreshes` carries the delivery step. A cell that unpack writes gets the buffer slot of a term that the pack kernel read at that very cell and component. The proof needs no geometry of ghost slices, which is why it holds for every block size and every order of arrival. `HInv` was checked with TLC on the `halo_exchange` instance before it was proved.

LoweringProofs proves `EquationsToCodeReadsLocals` about the operator `EquationsToCode`, for every equation list, non-empty prefix, excluded-name set and type, and for names over any alphabet that contains '_'. It states that `LocalsBare` holds for the code if and only if `AssignedBeforeRead` holds: no equation reads a name that the list assigns, unless that name was assigned earlier or the caller excludes it. This is the whole content of the line-312 hazard. Excluding all left-hand-side names is right for lists in lbmpy's order, and for no other list. `ReadsLocals` on the `lattice_model` run is this fact for the D2Q9 lists. The proof rests on `SymbolLowering`: a symbol keeps its name if it is excluded, and otherwise becomes prefix + name + `MemberSuffix(prefix)`, which `PrefixChangesName` shows is a different name. The '_' character is named `Underscore` in the statements because tlapm's SMT encoding rejects that string literal.

Some results stay with TLC alone:
- liveness (`HaloEventuallyCurrent`): tlapm does not reason about ENABLED or fairness.;
- the LatticeModel properties: LatticeModel declares the RECURSIVE operators `SubParams`, `CallEntries` and `PyReplace`, and tlapm loses its SMT backend in any module that reaches them. `ScalingInfoOrder` is also an induction over nested lists, which the provers cannot do. What `ReadsLocals` rests on is proved about the operator instead (LoweringProofs, above).

## 5. Not modelled yet

Several components are listed as not_modelled in `PROJECT.json`, with the reason for each. Not modelled in `walberla_lbm_generation.py`:
- the equilibrium and its symmetric split (lines 43-50) and the weights: sympy algebra done by lbmpy;
- `stencil_switch_statement`: it prints one case per pair of a zip, and lbmpy always gives one value per direction;
- the kernels and the Jinja rendering.

Hazards without a property:
- the lowering type follows the context's precision (line 34), while the kernels follow `config.data_type`;
- layouts other than fzyx and zyxf keep the default stride flag;
- `add_scaling` raising after appending part of a list.

The plan for the next sittings:
- a property of the exchange that keeps the directions: each delivery refreshes only its own ghost slice. This needs a PackInfo invariant that a pull pack info packs centre terms only.
