# catboost_rs in TLA+

catboost_rs is a Rust implementation of CatBoost: gradient boosting on CPU and
GPU, meant to give the same trees as upstream CatBoost to 1e-5. Much of it is
floating-point arithmetic in straight lines. What a model checker can add is
about the control around that arithmetic: what survives a kill and a resume,
which state an iteration reads, who draws from the one random stream and when,
which of several growers builds a tree and by which books, which row's class
reaches which value, what a file, an explanation or an estimator says of the
model that was trained. This directory models those parts, from the code of
`crates/`.

Contents: [inventory](#inventory) · [modules](#modules) · [runs](#runs) ·
[snapshots](#training-snapshots) · [evaluation](#evaluation-loop) ·
[device](#device-training-and-the-learn-rng) · [tree growth](#tree-growth) ·
[folds and CTRs](#folds-and-ctrs) · [ranking](#ranking) · [kernels](#kernels) ·
[model files and explanations](#model-files-and-explanations) ·
[library calls](#library-calls) · [proofs](#proofs) ·
[divergences](#divergences) · [not modelled](#what-is-not-modelled) ·
[plan](#plan)

To check a run: `tlc -config EvalLoop.cfg MCEvalLoop`; to check proofs:
`tlapm SnapshotTrainingProofs.tla`.

## Inventory

| component | state it keeps | operations | what it talks to | what is hard |
|---|---|---|---|---|
| `cb-train/boosting.rs`, `train_inner_impl` | ensemble, running approximants (learn, eval, per fold, per segment), learn RNG, iteration | validate, set up, one tree per iteration, finish | every other part; a `Runtime` by trait | 3600 lines of one loop whose branches must agree on what they consume and update |
| snapshots (`train_with_snapshot`, `cb-train/snapshot.rs`) | a file and its `.tmp` | peek, guard, resume, capture, atomic write | reads and replaces the loop's state | kills anywhere, two reads of one file, changed configurations |
| evaluation (`cb-train/overfit.rs`, `metrics.rs`, loop tail) | eval approximants, curves, detector, tracker | advance, log, detect, truncate | fed by every grown tree | three ensembles, ties, NaN, off-by-ones between index and count |
| device training (`device_draw_replay.rs`, `cb-backend/gpu_backend.rs`, `gpu_runtime/session.rs`) | `Mutex<Option<GpuTrainSession>>`, resident buffers | two offers, commit, grow one tree, end | loop calls backend through `Runtime` | the same decision taken in three places; errors on any path; the RNG must stay in the CPU's phase |
| options (`boosting.rs`, `builder.rs`, `cb-compute/runtime.rs`) | none | validate, resolve, offer, map, read | every grower | an option accepted in one place and read by nobody in another |
| warm-up (`gpu_runtime/warmup.rs`, `mod.rs`) | process-wide flags, set of warmed keys, latched probes | spawn, yield, probe | a thread next to the first fit | races, flags never reset |
| tree growers (`cb-train/tree.rs`, `gpu_runtime/mod.rs`) | partition of objects, histograms, leaf queue | level search, leaf-wise split, region path, ordered and CTR search, the device's passes | scores, RNG | several books of one partition; derived histograms; best-first order |
| folds (`fold.rs`, `permutation.rs`) | permutations, body/tail bounds | create, shuffle | ordered boosting, CTR | boundaries, progress of the growing prefix |
| CTR (`ctr/*`, `projection.rs`, `candidates.rs`; `cb-model/ctr_data.rs`) | per-bucket counts, baked tables | online prefix, final table, apply | growers, model | target leakage, agreement of three code paths |
| ranking (`query_info.rs`, `yetirank.rs`, `ranking_der.rs`, `pairwise_scoring.rs`, `ranking_metrics.rs`) | groups, pairs, systems | permute, sample pairs, move systems, order documents | loop | pairs sampled three times a tree; a system moved, never rebuilt; ties |
| leaf values (`cb-compute/leaf.rs`, `langevin.rs`, `pairwise_leaves.rs`) | none | sums and solves | loop | floating-point |
| data (`cb-data`) | borders, quantized columns, pools | ingest, find borders, quantize, hash | everything downstream | seven border searches; missing values; three index spaces of columns |
| model (`cb-model`) | ensemble | read, write, apply, stage, explain, sum | facade | lists by kind against an order of levels; numbering in files; unwinding |
| selection and search (`feature_selection.rs`, `catboost-rs/cv.rs`, `grid_search.rs`) | eliminated features, fold results | repeated fits, in parallel | loop | rounding of a schedule, renumbering, order of finish |
| kernels (`cb-backend/kernels.rs`, `launch_geometry.rs`) | shared memory | scan, reduce, fill, argmin | sessions | planes, barriers, cubes in sequence on the CPU runtime |
| Python (`catboost-rs-py`) | parameters, model, columns, class names | set, fit, predict, score, search | facade | a failed fit after a good one; spellings; label decoding |
| facade, oracle, benches, vendored `catboost-master` | – | plumbing, tests, reference | – | – |

What makes each correct, in a sentence:

* snapshots — kills, retries and resumes cannot be seen in the model returned;
  no file is torn, rewound or refused to its owner;
* evaluation — the eval approximant is the model's prediction, the best
  iteration is the first minimum, a stop is neither early nor late, the model
  returned is the one measured best;
* device — one grower per ensemble, one sampling per tree, one owner per
  session, and the stream where a CPU fit has it;
* options — what is accepted is read, by whichever side grows;
* growers — each split is what a fresh scan would choose, and the leaf an object
  trained in is the leaf it is scored in;
* folds and CTRs — no CTR reads its own row's target or a later one's; online,
  baked and applied values agree;
* ranking — search, derivatives and leaves of a tree rest on the same pairs;
* kernels — no racy access; a launch returns what its serial loop does;
* model — every walk, file and conversion predicts as trained; explanations add
  up to what they explain;
* data — borders are sound and the trees see the caller's data;
* search, selection — a serial reading's choice, whatever finishes first;
* estimators — after any calls, the object is that of one successful fit.

## Modules

| module | models | uses |
|---|---|---|
| `SnapshotTraining` | a trainer and its checkpoint file, killed and restarted | – |
| `ResumableFit` | what a caller of `train_with_snapshot` is promised | – |
| `EvalLoop` | `overfit.rs` (detectors, Wilcoxon test, tracker) as operators, and the evaluation side of the loop | – |
| `LearnDraws` | how many draws each CPU grower takes, and where | – |
| `LearnStream` | what every grower owes the stream (abstract) | `LearnDraws` |
| `DeviceTraining` | gate, offers, session, per-tree branches | `LearnDraws`, `LearnStream` by refinement |
| `FeatureMatrix` | columns, candidates, split tests, scores, histograms by definition | `TreeApply` |
| `ObliviousGrowth` | the level search, its incremental partition and histograms; the searches over CTR columns and over body/tail segments | `FeatureMatrix` |
| `LeafWiseGrowth` | Depthwise, Lossguide, Region, on the CPU and on the device | `FeatureMatrix` |
| `DeviceGrowth` | the device's oblivious and ordered searches | `ObliviousGrowth` |
| `TreeApply` | the leaf a finished tree finds for an object | – |
| `TreeGrowth` | all growers, composed | `DeviceGrowth`, `LeafWiseGrowth` |
| `CtrTables` | folds, permutations, CTR statistics: online, baked, applied | – |
| `FoldTraining` | the approximants one fit advances side by side | `CtrTables` |
| `QueryGroups` | groups, pairs, their weights; the metrics of one query and of a pool | – |
| `RankingDers` | derivatives of the losses over queries, YetiRank's sampling | `QueryGroups` |
| `PairwiseSplits` | the pairwise split search, on CPU and device; pairwise leaf systems | `QueryGroups` |
| `RankingTraining` | a fit with a loss over queries | `RankingDers`, `PairwiseSplits` |
| `CubeKernels` | the shared-memory kernels, unit by unit | – |
| `ModelApply` | the host's walks, the device kernel's, stages, virtual ensembles | `TreeApply` |
| `ModelFormats` | `.cbm` and JSON: numbering, offsets, what is kept | `ModelApply` |
| `ModelExplanation` | SHAP, interactions, importances, partial dependence, sums | `ModelApply` |
| `ModelFile` | a model through saves, crashes, loads and questions | `ModelFormats`, `ModelExplanation` |
| `FitPreparation` | seven border searches, NaN modes, quantization; from a caller's columns to the matrix trees grow on | – |
| `FitOptions` | from a caller's options to what a tree was made of | – |
| `ModelSearch` | folds, cross-validation, grid search | – |
| `FeatureSelection` | recursive elimination | – |
| `Estimator` | a Python estimator object | – |
| `LibraryCalls` | a caller who asks for one of the last five | `FitPreparation`, `FitOptions`, `ModelSearch`, `FeatureSelection`, `Estimator` |
| `MC…` | constants for TLC | the module of that name |
| `SnapshotTrainingProofs`, `EvalLoopProofs`, `DeviceTrainingProofs`, `TreeGrowthProofs`, `FoldTrainingProofs`, `CubeKernelsProofs`, `LibraryCallsProofs` | theorems | the module of that name, `Induction` |
| `Induction` | lemmas on recursive definitions that several proofs need | – |

A definition marked *Mutant* in its comment is the code with a plausible bug in
it; each property has one that breaks it.

## Runs

| run | module | what it shows |
|---|---|---|
| `snapshot` | `MCSnapshotTraining` | any calls, killed and retried: the file is whole, a prefix, only advances |
| `snapshot_sound` | `MCSnapshotTraining` | where the fingerprint tells inputs apart: resumes are invisible, the module implements `ResumableFit`, and a caller that retries gets its model |
| `eval` | `MCEvalLoop` | the model measured best is returned; detector and tracker agree; stops on time |
| `device` | `MCDeviceTraining` | two fits on one backend: one grower, one sample, the stream, the session released |
| `tree_growth` | `MCTreeGrowth` | every grower finds the tree a rescan finds and keeps its books |
| `device_lost_fit` | `MCTreeGrowth` | (violated) a fit the device has taken is not lost there |
| `fold_training` | `MCFoldTraining` | no row reads a later class, nor a CTR of its own; each buffer is its own fit |
| `ranking` | `MCRankingTraining` | a tree's systems, derivatives and leaves rest on the same pairs |
| `kernels` | `MCCubeKernels` | no racy access; launches are serial |
| `model_file` | `MCModelFile` | whatever was trained or read, every walk predicts as trained and explanations add up |
| `eval_contribution` | `MCModelFile` | (violated) what training adds to an eval set is what the model predicts |
| `library` | `MCLibraryCalls` | borders, prepared data, options, folds, search, elimination, estimators |

The runs of snapshots, tree growth, ranking, kernels and library calls check
deadlock: there, a state with nothing to do would be a bug. A call, fit or
launch that has ended stutters by an action of its own, so that one that stops
anywhere else is a deadlock. The other models stop when a fit, a
backend or a file's life ends.

## Training snapshots

`SnapshotTraining` is one call of `train_with_snapshot` after another on one
path. `snap` and `tmp` are the files and outlive a kill; `pc`, `cfg`, `iter`,
`mem` are the call and do not. `mem` is what the loop carries from one
iteration to the next: trees, running approximant, bias, RNG, and `carry` for
everything no snapshot holds.

| code | action |
|---|---|
| peek of `train_with_snapshot`, over the caller's weights | `PeekNoFile`, `PeekMatch`, `PeekRefuse` |
| `snapshot_scope_ok` | `OutOfScope` |
| resume block of `train_inner_impl`, over the effective weights | `StartFresh`, `Resume`, `ResumeRefuse` |
| an iteration, and the interval test at its end | `Iterate` |
| `capture`, `check_finite`, `write_atomic` (create, fill, rename) | `EncodeFail`, `OpenTmp`, `FillTmp`, `RenameTmp`, `WriteFail` |
| the end of the loop | `Finish` |
| the process is killed; the user removes the file | `Kill`, `RemoveSnapshot` |

What an iteration computes is a constant (`Grow`, `Advance`, …): the properties
ask which state it is computed *from*. `Straight` is the run without kill or
snapshot, defined by an assumption.

The run `snapshot` takes all calls: other data, weights spelled or empty,
shrinkage, divergence, out of scope, either interval. `snapshot_sound` leaves
out the calls of the divergences below, for which the promises of
`ResumableFit` do not hold. Both have three iterations: enough to resume from a
resumed checkpoint (1, 2, 3) and for shrinkage (which skips iteration 0) to
happen both before and after a resume. In the MC module numbers are taken
modulo 11 with operators injective in each argument, so that any difference of
state shows in the trees; `Inf` absorbs, for the divergence check.

Fairness (`SpecLive`, for `EventuallyTrained`): strong for each step of a call
that gets further or refuses, weak for beginning a call with each
configuration. A kill at every visit of the same step would be an adversary no
restart survives; the assumption is that each step, enabled again and again, is
at some time taken, and that the caller calls again. With a zero interval each
completed iteration is on disk, so the argument is the code's: a call starts
where the last file stopped.

## Evaluation loop

`EvalLoop` is the loop of `train_inner_impl` seen from its eval sets. `Grow`
shrinks (when `model_shrink_rate` asks) and pushes a tree to the ensemble of the
grow policy; `Evaluate` advances each set by `last_tree_eval_contribution`, logs
its metric, feeds the primary one to tracker and detector and may stop;
`EvaluateFails` is a metric's error through `?`; `Finish` truncates under
`use_best_model`. `Start` and `Reject` are the checks before the loop.

An approximant is a number modulo 5, where addition and shrinkage distribute as
on reals, and a metric is a constant function of it. The detectors compare a
p-value with a threshold; the model keeps that comparison and not the p-value. `exp(-0.5 / r) < t` is `r < LimNum/LimDen`; the two-sided normal
test is a comparison of squares with `ZNum/ZDen`, so the rank statistic stays in
the integers. The forgetting factor 0.99 is 1/2 and the window of 2000 errors
3; neither value enters the closed form otherwise than as that parameter.

The run `eval` takes every policy × shrinkage × use_best_model × 0–2 sets at
three iterations, IncToDec and Iter × threshold × wait 0–2 at five, Wilcoxon ×
wait 0–3 at six, and all sequences of steps. Its properties:
`MeasuredModelIsReturned` (the incremental approximant is the model's
prediction, and truncation returns the model that was measured best),
`BestIsFirstMinimum`, `DetectorFollowsBest` (two independent records of the
best iteration agree, under opposite signs), `StopRespectsWait`,
`IncToDecKeepsItsBooks` (Iter stops on time; the incremental maximum is the
largest forgotten rise between two errors, including those the window has
dropped). Five or six values make a window of three slide twice, and allow a
best iteration first, in the middle and last with any wait up to 3.

Wilcoxon fits use finite metrics. The code sorts with a comparison that calls
NaN equal to everything, whose outcome the library does not define.

## Device training and the learn RNG

A fit with any kind of sampling reads every per-tree sample from one RNG. If a
grower takes one draw too many, every later sample differs from the CPU
trainer's, and nothing fails. `LearnDraws` says how many draws each CPU grower
takes: two before the tree, the bootstrap's, per level one for every listed
feature, one seed and one score instance for each selected feature (a normal
takes a number of draws that depends on the stream), then two after the tree or
the Langevin noise's. Only the `perturbed` grower is handed the stream. The
position of the stream is the number of draws taken; `NormalCost` and `Passes`
stand for what the draws at a position happen to be.

`LearnStream` is the abstract obligation: every tree reads its sample where the
CPU trainer does and leaves the stream where it does. `DeviceTraining` is the
code, where the choices are made in different places:

| code | action |
|---|---|
| `device_host_eligible` and `raw_device_channel` | `Begin` |
| `begin_device_training_raw`, `begin_device_training` | `OfferRaw`, `OfferHost`, `OfferFails` |
| refusal of an uncommitted Poisson fit | `Commit` |
| head of the loop | `NextTree` |
| device branch: sample, `grow_tree_on_device` with `grow_one`'s check, `replay_grow_draws` | `SampleForDevice`, `GrowOnDevice`, `Replay` |
| CPU branch: sample and noise, search by level, leaves, post-tree draws | `CpuSample`, `SearchLevel`, `SearchEnds`, `EstimateLeaves`, `PostTree` |
| `?` anywhere; `DeviceSessionGuard::drop` | `Fail`, `Drop` |

`Covered` is the part of the session's own gate that the configuration decides;
an offer may decline anything else it admits. What the gate and the session do
with each option is the subject of `FitOptions` (see [library
calls](#library-calls)).

The run `device` takes every accepted configuration of policy, ordered, CTR,
bootstrap, rsm, random_strength, score type, Langevin and leaf steps, declined
or failing anywhere, two fits in a row; 2 objects, 2 features of which 1 has
borders, depth 2, 2 trees. Two fits suffice because only `session` outlives a
call: a second fit sees what a first can leave, and a third sees no more. Two
trees suffice for a draw too many in the first to show in the second. The
stream rejects a normal's pair at every fifth position and a feature at every
third, so levels differ in length and some stop early. A sampled fit with Gumbel
scores that the gate admits is left out (`Replayable`): it is a divergence.

Fairness (for `DeviceReleased`): weak, of the steps of a running fit. A fit is
one call of `train_inner`, and every step of it is sequential code that does
not wait; that the *next* fit begins is not assumed.

## Tree growth

`TreeGrowth` grows one tree by any of the searches. The oblivious search of
`tree.rs` keeps a partition as a leaf index per object that gains a bit a level
(`advance_partition`), and for each level derives the histograms from the
parents': the smaller child is counted and the other subtracted. Depthwise and
Lossguide keep an owner per object, documents per node, and a queue; Region
follows one path. The CTR search starts each level from the splits chosen so
far, with the projections a tree already uses and a weight for new ones; the
ordered search scores over body/tail segments. The device has bins only: a
packed matrix of columns in lines of one common width, an accumulation of the
newest leaves, a subtraction, candidates swept in passes of the cells that fit
the local memory, and three copies of its own of what has been used. Its
leaf-wise and region searches (`kernels/nonsym_grow.rs`, `region_device.rs`)
keep the books of their CPU twins and differ in the search of one leaf: every
bin of the widest column, in every column, one-hot ones taken for thresholds. A
number of bins without a kernel is refused at the first histogram. The trainer
then looks the splits up among its borders and walks the tree over raw values.

| code | action |
|---|---|
| a level of `greedy_tensor_search_oblivious_*` | `GrowOblivious` |
| one leaf taken up by `leaf_wise_grower`, `region_grower`, `grow_nonsym_tree` or `grow_region_tree`; the trainer's fold of the tree | `GrowLeafWise` |
| a level of `grow_oblivious_tree_resident` and `…_ordered_resident`, and the trainer's reading of the tree | `GrowOnDevice` |

`GrowersKeepTheirBooks`: the bits are the splits', owners and documents agree,
no leaf-wise leaf is empty, histograms carried over or subtracted equal a
count, and in a finished tree the leaf each grower recorded for an object is
the one its value was estimated from and the one that walking the tree finds.
The bits are excepted for a device tree with a split past the last border of its
column (the padded bins of a line let the search choose one), which the trainer
refuses when it looks the split up. `SplitsAreReferences`: every split is the
one a fresh scan of all rows chooses, ties and passes included, and the device
chooses as the CPU, in trees of every shape. `LeafWiseGrowsToItsEnd`: a leaf-wise tree ends only at its
limits or when nothing gains, and Lossguide never passes a larger gain over.
Columns of three borders give the device's leaf-wise fits four bins, for which
there is a kernel (`KernelWidths` stands for 2, 16, 32 … 256); those of two have
none. With `MaxDiff` 4 one late split is out of an offset's reach.

Bounds: 4 objects, depth 3, up to two float columns of at most three borders and
a categorical of three values, two CTR borders, three CTR columns over two
categoricals, two segments, model_size_reg 2, line widths 2, 4 and 8 with eight
cells a pass. Scores are whole sixtieths, so equal scores are equal. Every
order of a first column, every sign of derivative, sampled-out objects, NaN
below or above, `min_data_in_leaf` 1 and 3, `max_leaves` 3 and unlimited. With
four objects depth 3 has empty and single-object leaves, a parent carried over
two levels, subtraction on either side, and more candidates than one pass
holds.

Which of two kernels fills a histogram, and what the warm-up's probes have
latched, is left open at every level: the properties hold for every choice.

The configurations of `FoldsRawMissing` (device fits, of a symmetric tree only
the weighted ones without a CTR split, with NaN above the borders) are excluded from one clause, as
a divergence. A leaf-wise device fit with one-hot columns is compared with no
CPU fit, for the CPU does not search them.

## Folds and CTRs

`FoldTraining` is the boosting loop seen from its approximants: `approx` of the
averaging fold, `avgExp` in the exponential domain, one `foldApprox` per
learning fold of a CTR fit, one `segApprox` per segment of ordered boosting.
`CtrTables` has the folds (`fold.rs`), Fisher–Yates (`permutation.rs`), the four
statistics as they are accumulated along an order (`ctr/online.rs`), baked
(`bake.rs`) and applied (`ctr_data.rs`). The structure search is any choice of
candidates: that it is the right one is `TreeGrowth`'s subject.

`NoRowLearnsFromItsFuture` compares two runs: flipping the class of one object
changes no CTR value of it or of a row before it in that fold's order, and (a
history variable, `segTwin`, advances the segments on flipped data) no segment
approximant of a row before it except through a body they share.
`BuffersAreTheirFits`: shuffles and segments visit every object once, each
buffer is the approximant its own sequence of structures gives, whichever fold
each tree was searched on, and the taken fold's leaves are found again by
identity of columns, not by position. `AppliedCtrContinuesTraining`: a baked
table decides a split as training would for the row after the last, known
value or not.

Bounds: 4 objects, two binary categoricals with a third value in an eval row,
projections {1} and {1,2}, up to two priors, two shuffles' draws, three
learning folds, two trees of depth one, leaf values in quarters. Two values
and four objects already give a bucket with an own class, an earlier and a
later one.

## Ranking

`RankingTraining` is a fit with one of ten losses over queries. YetiRank
samples pairs three times a tree into one list, from two approximants; the
pairwise search never builds a split's system but moves it one bucket at a
time from statistics filed by which end of the pair is in the smaller bucket,
on CPU and device each in its own way.

`TreesFitTheirPairs`: at every candidate the moved system, and the device's, is
the one counted from the pairs in force; derivatives belong to those pairs;
leaf values are centred and say nothing of empty leaves. `MetricsReadOneOrder`:
ten metrics read one order, the worse of two tied documents first, and those
that count places without sorting count that order's; a pool's value lies
among its queries'.

Bounds: pools of 4 or 5 objects in one to three queries (without ids, with
repeated pairs, a pair of an object with itself, zero weights, refused
groups), 2 trees of depth 2, one YetiRank permutation, derivatives in
sixtieths. Exponentials, logarithms and the solver are given functions small
enough to keep order; the solver of the instance uses the diagonal only, which
is no restriction for properties about the system that is handed to it.

## Kernels

`CubeKernels` executes the kernels of `kernels.rs` that share memory in a cube,
one segment between two `sync_cube` at a time per unit, in any order of units.
On a GPU each cube has its slice; on the CPU runtime each unit is a thread that
walks the cubes in turn over one buffer, which is why a unit may already be in
the next cube. `NoRacyAccess`: between barriers no unit touches a slot another
one writes, in its cube or the next. It is what makes a segment per step a
sound grain. `LaunchesAreSerial`: at every launch's end the output is what a
loop over the elements gives.

Bounds: cubes of at most four units; GPU planes of two lanes and of eight
(wider than the cube), CPU runtimes of two, three and eight cores, so cube
widths two, two and four; up to four cubes, two on a GPU; distinct powers of
three as elements, so that a sum names its parts. Kernels that add floats
atomically are not run on the CPU runtime: a capability gate refuses them.

## Model files and explanations

`ModelFile` takes a model as a grower leaves it (lists by kind of split and the
order of the levels), assembles it, and saves and loads it in any chain of
`.cbm` and JSON, with a crash in a save leaving a torn file; at any time it may
be asked for anything. Trees of all three kinds, of one or two outputs, and
files written by upstream CatBoost, whose nodes may end the walk on one side.

`EveryWalkPredictsAsTrained`: the host's apply equals the leaf the trainer
recorded, and the device kernel, staged prediction, virtual ensembles, and the
evaluation contribution (over float levels) equal the host's. `FilesKeepTheModel`:
a save refuses, for known reasons only, or leaves a readable file; leaves keep
their weights. Files are written in place, so what a crash leaves is a torn file
that every load refuses: the model saved there before is lost. `ExplanationsAddUp`:
the recursion over the paths gives the Shapley values of the definition over
subsets, of one feature and of two; they sum to the prediction; the oblivious and
the leaf-wise recursion agree on a tree that can be written both ways;
importances are shares of a whole, and a leaf-wise tree's are the variance of its
leaves; a prediction difference is the best move of one feature; partial
dependence at a value's bin is the mean prediction at that value; sums of models
predict sums.

Bounds: three float features (the second with the sentinel of nan_mode=Max),
three categorical columns two of which are one-hot, three CTR identities over
two tables, trees of at most three levels, up to seven trees for stages and
ensembles, six explained objects, all in exact fractions. A feature repeated
on a path, an empty leaf and a table shared by two identities all occur.
## Library calls

`LibraryCalls` has a caller who asks for one of five things; their state is
separate in the code too, and one run serves all.

**Preparing a fit** (`FitPreparation`). `from_arrow`, `into_pool` and
the owned columns make a pool; `fit_inner` masks ignored features, chooses
borders column by column in a parallel pass (`PrepareColumn`, in any order),
encodes categorical columns one-hot or by CTR, and computes effective weights.
`BordersAreSound`: borders ascend within their budget, bins hold objects, a
missing value has a bin of its own, greedy and exact searches tell all values
apart where they may, and an exact search is beaten by no other choice of as
many borders. `TrainerSeesTheData`: rows, labels, weights and each categorical
column in exactly one encoding, whatever the three index spaces of columns do.
A value is an integer, a point of one binade of f32 (8..20 in the instance), so
that rounding a midpoint to f32 is rounding to an integer, ties to even; columns
of up to twelve values, budgets 0 to 4, all seven types and NaN modes, the
limits of u8 and u16 bins at 4 and 6, subsampling above 11. `HaveRoom` is the
condition that two neighbouring f32 values have a third between them: without
it the searches that do not guard the rounding may leave a bin empty. f64
numbers are quarters of that step, labels halves.

**Options of a fit** (`FitOptions`). From the facade's resolution of defaults,
through the entry point and every `validate_*` of the trainer, to the offer, the
session's coverage maps and the growers of either side. What an option is worth
is left out: a tree is described by what its sample was drawn from, what its
structure and leaves were computed from, and which rate and derivative it took.
`AcceptedIsHeard`: each option that is given and accepted is read by every tree,
and a tree of the device reads what the host's would. `Known`, `Unread` and, on
the device, `model_size_reg` are the exceptions; each is a divergence below. Wishes: every policy × boosting ×
sampler × kind of columns × about sixteen losses with leaf methods, one changed
option at a time for three losses, loss parameters in halves on both sides of
every bound, Langevin and posterior sampling, all entry points; depth 2, three
CTR borders, one-hot lines of four bins. On a build without a device backend
every fit takes `StayOnHost`.

**Searching** (`ModelSearch`). Folds of rows or whole groups, plain and inverted,
and the fits of all candidates on a pool of threads, which finish in any order,
fail, and cut their siblings short. `FoldsPartitionThePool`,
`SearchFindsTheFirstBest`. Pools of 1 to 6 rows, 2 to 4 folds, up to four
candidates; a fit's curve is given.

**Selecting features** (`FeatureSelection`). The schedule is geometric with
carried rounding; as exact integers, a power of a fraction is compared by
cross-multiplication. Any training may fail, which ends the selection with that
error. `EliminationMeetsTheBudget` (of a legal request whose trainings succeed),
`WeakestGoFirst`. Up to six features and four steps, requests with duplicates,
unknown features and borders of another number of columns.

**A Python estimator** (`Estimator`). Sessions of three calls (construct,
set_params, fit, predict, score, load, sum) over four settings of parameters,
about a hundred fits of numpy, pandas, Arrow or Pool data, and one fit with each
name in and out of range. A fit is one step: it holds the object's mutable
borrow. `EstimatorKeepsItsWord`: whatever failed, the object is that of one
successful fit with the caller's last words, names give back that fit's labels,
and a prediction reads each column as the fit did. Error classes are abstracted.

## Proofs

Every theorem holds for arbitrary constants, as far as the named assumptions of
its module allow: any number of iterations, objects, features, cores, any learn
set, any configuration. The assumptions are types and shapes (a positive number
of objects, parallel columns, classes 0 and 1, a detector's parameters positive)
that TLC evaluates on the instance; a theorem that needs more says so in its own
`ASSUME`. In every module the argument is an inductive invariant, a lemma for
each step that can disturb a part of it, and a last step in temporal logic.

### `SnapshotTrainingProofs`

* `TypeCorrect` by `Typed`, which adds to the types that nothing is held outside
  the loop and that what is about to be renamed is the loop's own checkpoint.
* `NoTornSnapshot`, `ResumePointIsTrue`, `ZeroIntervalLosesNothing`,
  `SnapshotsAdvance`, `OutOfScopeLeavesFiles` by `FileInv`: the loop holds a file
  with its own fingerprint no further than itself, or none. Needed because peek
  and resume read the file separately: that they read the same file follows
  from who may write it.
* `CheckpointsArePrefixes` by `PrefixInv`: memory and file of one lineage are
  points of the straight run. `carry` is what makes the scope guard necessary
  to the proof: it is not in the file, and only out-of-scope fits change it.
* `ResumesAreInvisible` by `RunInv`, assuming `FingerprintCovers`, which is what
  the fingerprint's documentation says of it and what the code does not quite
  do.
* `OwnSnapshotsAreAccepted` by `AcceptInv`, assuming `Sound`: calls with
  spelled-out weights, whose shrinkage keeps the bias, and whose fingerprint
  covers the inputs. What `Sound` leaves out are divergences below.
* `TrainerKeepsItsPromise`, under `Sound`: the trainer implements `ResumableFit`.
  Each step is a step of that specification or leaves its state alone; what a
  caller may be given and what a file may gain come from `RunInv` and
  `AcceptInv`.

### `EvalLoopProofs`

* `TypeCorrect`, `TrackerKeepsFirstMinimum`, `DetectorCountsFromBest`,
  `NoEarlyStop` by `IInv`: `Types`, `Best` (the tracker's error is the first
  minimum of what was logged) and `Watching` (the detector's maximum is that
  error negated, and it counts from the same iteration). Neither of the last two
  is a consequence of the other: they hold together because every value that is
  fed is fed to both, and `Less` reverses under `Negated`, NaN included. The
  last two theorems need nothing of the p-value, so they hold of all three
  detectors.
* `MeasuredAndReturned` by three further parts. `Measuring`: each eval
  approximant is the remainder of what the trees so far add up to — the sum that
  `Applied` folds over the ensemble, which one more tree extends and which
  shrinkage scales term by term. `CurveIsModels`: the value logged at iteration
  k was measured on the first k trees, which stay a prefix of the model.
  `Returning`: the model that `use_best_model` cuts at the best iteration is the
  one the curve was lowest for. The theorem needs `IInv` for the last of these:
  the cut is right because the tracker's index is the first minimum.
* `ExpectedIncIsKept`, `IncToDecStopsOnEvidence` by `Booking`: the window holds
  the last `ITERATION_FORGET` errors of the curve, and `expected_inc` is the
  greatest of 0 and the forgotten rises of all errors so far. It is inductive
  because the rises a new error adds are exactly those from the errors still in
  the window (`NewRises`), and the greatest of the old greatest and the new
  rises is the greatest of all (`GreatestGrows`). From it, that Iter stops on
  time: on a plateau its p-value is below 1 only while `expected_inc` is below
  `Saturation` times the power of `Forget` reached, which no rise attains when
  `LossesAreBounded` — the hypothesis of that theorem, true of the run
  (`MCEvalLoop` assumes it) and not of every metric (see Divergences).

### `DeviceTrainingProofs`

* `SessionOwned`, `GrowersNeverMix`, `DeviceSamplesOnce`, `NoPoissonOnCpu` by
  `IInv`: `Shape` (types), `SessionIsTheFits`, `Branches` (which side a step
  belongs to, and that a committed fit passed the gate) and `OneGrower`. The
  last two are not inductive without `Branches`: at `grow` the sample agrees
  with the session because both were decided from a configuration the gate had
  passed, several steps earlier.
* `DeviceFollowsTheStream`: the device trainer implements `LearnStream`. `Counts`
  relates the record of samples to the trees, `Positions` says where the stream
  stands at each step of a tree in terms of where the tree began; the CPU
  search is followed level by level to the end that `LearnStream` computes at
  once, and the replay is shown to take the same walk. Hypotheses: `Costs` (a
  normal takes a whole number of draws) and `AllReplayable` (fits the device
  samples for draw their score noise as normals), which is what the replay
  takes; without it the statement is false, and the case is a divergence below.

### `TreeGrowthProofs`

* `GrowersKeepBooks`, for `GrowersKeepTheirBooks`. The property looks at what is
  readable of a tree that grows and walks the tree that is grown; what a step
  preserves is `GrowthBook`, one book per grower.
  - `Book` is the oblivious one: the chosen splits are candidates, the leaf of
    an object is `AssignLeaves` of the first k of them for the width 2^k held,
    and each histogram counts the leaves of some such prefix. A level advances
    the partition by one bit (`OneSplitMore`), and its histograms are right
    whichever half is counted, because the cells of a parent are the sum of those
    of its children (`SubtractedHistograms`) and the two ranges of leaves are laid
    side by side (`AddedHistograms`); a histogram is determined by its cells
    (`SameCells`). The device needs more, `Resident`: what it carries between two
    levels are the histograms of the leaves one split back, and both of its
    kernels fill the same cells, of the newest leaves only (`EitherArmFills`).
    That CTR penalties leave a choice among the candidates at all rests on
    scores being numbers (`WeightsAreWhole`, `OrderedScoreIsInt`).
  - `LeafWise` is that of Depthwise and Lossguide: an object's owner is an
    unsplit node, a leaf's documents are those it owns and there are some, the
    children of a node come after it and part its documents. What the queues
    hold has to be in it: a queued leaf is not yet split, is queued once, and
    its recorded split still gains over the documents it has (`HeapBook`), as
    splitting one leaf touches no other (`ForkedNodes`, `ForkedLevel`).
  - `RegionKept` is that of Region: the documents at the end of the path are
    those that follow all of it, and those of a terminal list left at its level.
  - `GrownIsFiled` is the finished tree: the offsets of a node lead to its
    children, so a walk with as much fuel as nodes ends in the node that owns
    the object (`NonsymDescends`, `LeafWiseWalks`), whose number is the leaf's; an
    oblivious walk reads its lists per kind in level order, which `LevelKind` and
    `OfKind` rebuild (`SymmetricWalks`); a path's walk leaves at the level of the
    terminal list (`RegionWalks`).

* `SplitsStayReferences`, for `SplitsAreReferences`. The reference,
  `FirstBest` over the CPU's candidates, is a definition over all rows; what the
  growers choose is read off histograms. `ReadsLevel` is what relates the two, that
  a histogram has a cell for the leaves of the chosen splits and that a
  candidate's bins tell its two sides; from it a side's sum is that of the rows
  on it (`SidesOfBins`) and a scan is the rescan of one split more
  (`ScanIsRescan`). What is left is an order of choice (`BeforeOrders`):
  - the candidates of a plain search, and those of one column, have one positive
    weight, so that weighing does not change which is best (`EquallyWeighed`); the
    perturbed search, and the device over CTR columns, take the best of each
    column's best, which is the best of all (`StagedIsBest`);
  - the device sweeps thresholds, CTR columns and equalities in passes. Its phantom
    thresholds are not candidates where the columns are equally wide
    (`EquallyWideColumns`); the equalities of a pass are the values of a column,
    because a perfect hash gives out bins without a gap (`DenseBins`); a pass
    wins over an earlier one only if it is better (`PassWins`, `ChallengeWins`).
    Its own copies of the used CTR groups, projections and the float partition give
    the weights the CPU would (`ResidentWeightIsCpu`), which `Tracks` keeps from
    level to level (`TracksOn`);
  - a device's leaf-wise split is the CPU's best for the node it is made at
    (`KeptSplitsAreCpu`), one clause of `GrowthBook`.

  As the property, it is about fits without noise, column sampling or segments.

Both assume `FitsAssumption` (shapes of a matrix; the bins of a categorical
  column are dense, as `boosting.rs:4357` says of `PerfectHash`),
  `CtrAssumption` (a CTR column keeps a part of its score that is positive and at
  most the whole, as `tree.rs:2907` computes it), `DeviceAssumption` (a line is as
  wide as the columns in it), `ScoreAssumption` and `OrderedScoreAssumption` (a
  score is a whole number of some unit; an empty leaf's is 0) and
  `LeafWiseAssumption` (a mark for *no split* is not a split). The first proof asked
  for two corrections of the property: a device tree with a CTR split is routed
  over the columns of the CPU, and is not among those that fold raw missing
  values; and a split past the last border, which a device search may choose,
  parts the objects by bins as no split test does, until the trainer refuses it.

### `FoldTrainingProofs`

`FitInvariant` is `Kept` (columns of a fold are those of its order, levels name
offered columns by identity, the values of a tree are whole multiples of what the
halvings so far leave of a unit), `BuffersTyped`, `SegmentsKept`, `ApproxKept`
and `FoldFitsKept`.

* `FoldsKeepTheirBuffers`. A Fisher–Yates pass makes a permutation of whatever it
  draws, and a permutation read through another is one (`ShuffleIsOrder`,
  `CarriedIsOrder`); boundaries rise strictly to the number of objects, so the
  recursion that makes them ends and the segments abut (`BoundariesRise`, where
  `FoldLenMultiplier` above one is what makes a tail grow). The averaging
  approximant stays the model's sum because every update adds to both and
  shrinkage halves both; that halving is exact needs the grain in `Kept`: a fit
  of n trees halves its first values at most n times, and `Unit` is 2^n. A
  learning fold's approximant stays the recursion over its own columns: for the
  taken fold, whose leaves are reused from the search, because the search's
  column (by index) and the assignment's (by identity) have the same bins, which
  holds because a candidate determines its column.
* `FutureIsUnread`. The online statistic at a position reads the classes at
  earlier positions only (`PairReadsEarlier`), so two class vectors that differ
  in one object give equal bins up to and including it. For the segments the
  invariant carries the run and its twin: a row before the flipped object, or
  under a body that does not hold it, reads rows on which they agree.
* `TablesContinueTraining`, from `TablesKept`: the lookup finds the level's own
  table, the table holds the pair that counting the whole learn set gives, and
  the persisted border is on the same side as the bin. The last step needs
  `FineBorders`: (rows + 1) × normalizer at most 2^20. The border lies 2^-20
  below the next bin, so a statistic of a larger denominator can fall between:
  this is the hazard `tree.rs:3443` among those without a property, and the
  hypothesis is where it shows. At priors between 0 and 1 it holds of every learn
  set of fewer than 2^19 rows; beyond, many rows of one value are needed for it
  to matter.

### `CubeKernelsProofs`

* `UnitsMoveTogether` by `Lockstep`: all units over one slice are in the same
  segment of the same cube. On the CPU runtime, where a unit goes on to the next
  cube by itself, because a unit leaves a segment only when all have arrived.
* `SharedMemoryIsFreeOfRaces`: with `Lockstep`, two units' accesses belong to one
  segment, and in each kind of segment the slots one writes are its own: a load
  fills one slot per plane or per unit, a fold writes below the stride and reads
  another's slot only from the stride on, an add writes what was read in the
  segment before it, a scatter is atomic.
* `KernelsAreSerial`, for `LaunchesAreSerial`, by `KernelBook`, five invariants that
  need each other. `Lockstep` says where the units are. `Placed` says that a unit
  of a slice stands in one of its cubes, and that the buffers keep their shape.
  `SharedRight` is the heart: it gives every slot and register, by the unit and
  the segment it has done last, the *set of units* it stands for, and says that it
  holds the fold of what those units load. After a fold of stride s slot u stands
  for the units equal to u modulo s (`Class`); in a scan slot p stands for the
  planes from p back to 2s-1 before it (`Behind`), between an add's two barriers
  the register for what the add will write; a segmented scan stops at the last head
  (`SinceHead`). So a step needs one fact of sets each: two classes modulo s join to
  one modulo s/2 (`ClassesJoin`), two windows to one of twice the length
  (`WindowsJoin`), and no unit is in both, without which an item would be counted
  twice. It also says which slots *have* been rewritten in this segment and which
  still hold the previous one's (`Written`), as units are at different places
  between two barriers. `OutputsRight` and `AccumulatorsRight` carry what is stored
  to the end of the launch: an output is serial as soon as its unit has stored,
  while an accumulator that all cubes add to is the sum over the cubes stored so
  far. The width a fold halves must be a power of two on every device
  (`GridIsSound`, `WidthsArePowers`), else its odd slot would be lost.

  Sums are the community modules' fold over a set, in whatever order it chooses:
  `SumLaws`, `SumOfUnion` and `SumOfImage` show that the order does not matter
  (`SumsTakeAnyElement`). For the searches the fold is the running best with ties to
  the lower index, and `BestsJoin` that the best of two parts is that of the whole.

  Assumes `RunsAssumption`: a launch has the shape its wrapper checks for (`Shaped`);
  `CubeDimAssumption`: CUBE_DIM is a power of two, as the build asserts
  (`gpu_runtime/mod.rs`); `RangeAssumption`, for the partition update only: the
  RANGE precondition of its documentation (`kernels.rs:4320`), that the partial sum
  of a cube fits the signed half of the fixed-point word. The instance satisfies
  all three. Sums are of integers; a float's rounding by order is not modelled.

### `LibraryCallsProofs`

The caller of `LibraryCalls` waits for one answer at a time, so each invariant
is kept by the steps of its own request and left alone by all others.

* `SelectionMeetsItsBudget`, for `EliminationMeetsTheBudget` and
  `WeakestGoFirst`. The invariant `Eliminating` says that what was eliminated are
  distinct selectable features, that what is retained are all others, and that
  the steps so far have taken exactly `GoneBy` of that step. `GoneBy` is the number
  the geometric schedule is to have dropped after s steps, rounding carried:
  the largest k with (2n - 2k + 1)^S >= 2^S n^(S-s) m^s. That it starts at 0,
  never falls, and is exactly n - m after the last step (`GoneByRises`) rests on
  powers being monotone and multiplicative (`PowersRise`, `PowersMultiply`), and
  is where an unlucky rounding would have left a feature too many. Of the
  features of one step, `WeakestAre` shows that the least `count` ranks are
  those the sort puts first, each once. Assumes `SelectionsAssumption`:
  importances are comparable numbers; which ones, and how they change with the
  retained columns, is arbitrary.
* `SearchKeepsItsPromises`, for `FoldsPartitionThePool` and
  `SearchFindsTheFirstBest`. The folds of any pool, plain or grouped, shuffled by
  any order: consecutive spans of a list of distinct items part it
  (`CutsPartition`, and `BlocksCut` that the boundaries of `split` are such cuts),
  a row is in the one block of its group (`PartsKeepGroups`), and orienting a part
  for training loses no row (`OrientHolds`). The search: the winner of
  `FirstBestGoesOn`'s running comparison is the first of the best scores
  (`SelectedIsFirstBest`), and the curves it is taken over are those the
  candidates' fits give whatever order they finished in (`TrueCurvesAre`):
  `SearchInv` says of every fit and candidate that it is open or has what a
  serial reading of the request gives it, also where a failed fold cut its
  siblings short. Assumes
  `RequestsAssumption`: shapes of a request, and that a fit returns a curve of
  numbers or fails. Among the shapes is that the facade's own orders are
  permutations; a caller's explicit folds are any lists of rows.
* `EveryOptionIsHeard`, for `AcceptedIsHeard`. The invariant `OptionsInv` says of
  each stage of a fit what the gates behind it have left: after `Admit` the
  options are an entry point's own reading of the wish, made admissible
  (`AdmittedIsSane`: sampled columns only under symmetric trees, Langevin noise
  only under plain boosting, more than one leaf iteration only for losses that
  have them), and a session is open only for options that are offered. From
  that, `HostReadsAll` finds each option off its default in something the host
  reads, and `DeviceAgrees` compares part by part the sample, structure and leaves
  of the device with the host's: what would differ is not offered
  (`EligibleIsOffered`), and scores are computed from the same channels on both
  (`ChannelsAgree`).
  Assumes `WishesAssumption`: the types of a wish's fields, and that an entry
  point is given no more of the data than its signature takes. The proof found
  an exception the run had missed: a fit whose matrix has just the bins of the
  CTR columns is taken by the device, whose search has its own `model_size_reg`;
  the property names it and the run has such wishes.
* `EstimatorsKeepTheirWord`, for `EstimatorKeepsItsWord`. `EstimatorInv` relates
  the parameters to all that was ever said (`Speaks`: each spelling has the last
  word given to it, which `SaidOver` carries over one more dictionary), and what
  is held to the last fit that succeeded (`FitKept`). That a name is trained as
  it was last given (`TrainedIsSaid`) rests on a name's only spelling
  being found among its aliases (`OneSpellingIsFound`); that labels come back on encoding being
  undone by decoding for distinct class names (`LabelsDecode`); that a prediction
  reads the columns as the fit did on the remembered categorical columns
  splitting every table of the model's width alike (`OneShapeOneSplit`). Assumes
  `SessionsAssumption`: a Python list is a list, and labels that are not given
  are none.

* `TreesGrowOnTheData`, for `TrainerSeesTheData`. `PreparationInv` says what
  each stage of a fit has made of the stage before: the pool is the source row by
  row, whatever its form (`SourceIsPooled`); a prepared column is the pool's,
  narrowed, and its borders those it calls for alone, so that the order of the
  parallel pass leaves no trace; the rest is prepared once, after all columns. That
  each varying column has one encoding rests on the two routes listing disjoint
  sets once each (`RoutesAreListed`, `PlacesOfListed`) and on an ignored column
  being masked to a single value, whatever its flat place (`MaskedColumns`); that bins
  tell hashes apart on the row that first brings a hash having a rank of its own
  among those that do (`BinsTellApart`, `HashesAreCounted`). Balanced classes
  weigh the same because both sides are the greatest class's weight times two
  class sums (`AutoBalances`); a class of no weight is left at one, and the
  property is about those that weigh something. Assumes `FitsAssumption`: columns
  are lists, labels and weights numbers, ignored features are numbers from 0, and
  an f32 copy that comes with the data is its narrowing, which
  `with_float_f32_cache` asks of its callers.

### How recursion over data is treated

The library's induction theorems take an operator, which the provers cannot
instantiate; the ones here take a *set*. `Induction` proves, from the
well-foundedness of <, that a set with 0 that is closed under successor holds all
numbers (`SetInduction`, `BoundedInduction`), that recursive equations have
solutions (`RecursionExists`, `WalkExists`, `StepsExist`), and how two of them
compare or extend (`StepsAgree`, `StepsExtend`). A model's sum, a running
position, a boundary list and a fold's fit are then each shown to be the end of
such a recursion. Only function recursion can be treated so.

### Only model-checked

* Liveness: `EventuallyTrained`, `DeviceReleased` (the proof system has no rule
  for fairness here).
* `EveryWalkPredictsAsTrained`, `FilesKeepTheModel`, `ExplanationsAddUp`: the
  walks and the path recursions are `RECURSIVE` operators, which the provers do
  not see through.
* `LeafWiseGrowsToItsEnd`, `TreesFitTheirPairs`, `MetricsReadOneOrder`: their
  definitions are folds and selections over sequences of queued leaves, documents
  and pairs.
* `BordersAreSound`: border searches are compared with all choices of as many
  borders; the run enumerates the cases.

## Divergences

Where the code does other than a document, a comment or its own other side
says. File names without a path are under `cb-train/src`. The models follow the
code; where a property would fail for it, the condition that leaves the case out
is named in the property's comment.

Shown by a run's counterexample:

* `eval_contribution` — what the loop adds to an eval set for a new tree folds
  the float splits alone, by raw `value > border` (`boosting.rs:3772`): one-hot
  and CTR levels get no bit, and a NaN under nan_mode=Max goes the other way. The
  eval metric, the best iteration and early stopping are then of another model
  than the one returned. The comment at 8986 says "this tree's leaf contribution".
* `device_lost_fit` — a Depthwise, Lossguide or Region session is begun with any
  number of bins, unpadded (`gpu_runtime/session.rs:1699`), and its first
  histogram is an error unless the number is 2, 16, 32, 64, 128 or 256
  (`gpu_runtime/mod.rs:1373`): the fit, which the CPU would train, is lost. The
  default border count gives 255. The comment at `session.rs:1713` says the
  channel "supports them all".

Seen while modelling:

*Snapshots and evaluation*
* With an empty weight slice a second call is refused its own file: the peek
  hashes the slice as passed, the file has the effective column's hash
  (`boosting.rs:4213`, `snapshot.rs:452`). The facade never passes one.
* With `model_shrink_rate` and a non-zero starting bias a run cannot resume: the
  file has the shrunk bias, the resume block compares it with the starting one
  (`boosting.rs:6486`).
* The fingerprint has the borders but not the feature values or `params.extra`
  (`snapshot.rs:466`, doc at 430), so another matrix with the same borders resumes.
* Wilcoxon's ties are documented over absolute values and compared with signs
  (`overfit.rs:374`, doc at 364). A metric's `is_max_optimal` is documented to
  drive the best model (`custom.rs:112`) and is not read.
* On an exact plateau with an `expected_inc` above about 9e5 the p-value rounds
  to 1 and Iter never stops (`overfit.rs:264`; the doc at 45 says it does).
  `Saturation` is that bound.
* `use_best_model` truncates after shrinkage has rescaled the kept trees: the
  result is the best model scaled.

*The learn RNG and sampling*
* The device replay draws normals whatever the score type
  (`device_draw_replay.rs:125`, `boosting.rs:7292`); a Gumbel search takes one
  uniform instead, so the second tree of a sampled device fit is out of phase.
* The replay takes `depth` levels where a CPU search without candidates stops:
  they differ on a pool without borders (`DrawsAssumption`).
* `rsm < 1` is refused by policy "rather than silently ignored" (`boosting.rs:2321`)
  and ignored by the ordered and CTR searches of SymmetricTree.
* `random_score_type` is documented inert without `random_strength`
  (`boosting.rs:528`) and is not when a bootstrap is on.
* Device MVS samples on unweighted derivatives (`boosting.rs:6625`), the CPU on
  weighted ones (7604). The Poisson refusal's text lists conditions the gate no
  longer has (6324).

*Tree growth*
* The ordered device search scores plain prefixes with one derivative
  (`kernels.rs:5212`) where `tree.rs:2422` keeps body and tail apart.
* On the device a threshold is eligible up to the bin count of the *widest* column
  (`gpu_runtime/mod.rs:3676`, `boosting.rs:4269`). In a symmetric tree a column
  with fewer borders so has candidates without a border; where no real split
  gains one can win, and the fit ends in OutOfRange where the CPU trains. The
  comment at `mod.rs:3471` says phantom borders are excluded. (`EquallyWide`
  leaves these fits out; the search of a leaf takes no split that gains nothing.)
* Weighted and non-symmetric device fits fold their trees over a host walk by raw `v > border`, and
  the device apply kernel does likewise (`kernels.rs:828`): NaN under
  nan_mode=Max goes left.
* The device branch stores a one-hot split's *absolute* column
  (`boosting.rs:6890`) where `from_trained` expects its position.
* Device gains are rounded to f32 between passes. "Each shape is probed exactly
  once per process" (`mod.rs:2933`) does not hold of concurrent fits. Comments at
  `boosting.rs:5770` and 6960 list exclusions that are now admitted.
* Leaf-wise, region, ordered and pairwise searches ignore categorical columns; a
  device leaf-wise, region or ordered session is handed one-hot columns all the
  same (`session.rs:2769`), and a chosen one ends the fit in an error
  (`boosting.rs:7189`).
* A device CTR fit takes the default `model_size_reg` (`boosting.rs:3705`) where
  the CPU reads the caller's (7937; doc 538).
* Ordered boosting with CTR columns is grown by the plain CTR search. Ordered and
  pairwise searches ignore the bootstrap and random strength.
* Comments say Region is rejected (`builder.rs:243`, `boosting.rs:7833`); it trains.

*Folds, CTRs, leaves*
* Shrinkage leaves `avg_exp_approx`, `fold_approxes`, `ordered_seg_approx` and
  `learn_approx` unscaled (`boosting.rs:6548`); derivatives are read from them.
* A tail row of an ordered segment adds its derivative to its leaf and then reads
  it (`boosting.rs:1404`); the comment at 8582 says a row never contributes to the
  value that scores it, the doc at 1180 that it never depends on itself.
* `structure_fold_cycle` takes fold 0 for every configuration but four
  permutations with seed 0. Baking scales by the numerator of the prior where
  the online side divides.
* Ordered segments and Langevin noise use `params.learning_rate`
  (`boosting.rs:8614`, 8388), not the resolved rate. Several leaf solves take no
  Langevin noise though `validate_langevin` accepts them; the comment at 8726
  says such a CTR fit cannot occur.
* With a grouped loss and no group ids `leaf_estimation_iterations > 1` is
  accepted (`boosting.rs:4761`) and its later steps use pointwise gradients.

*Ranking*
* YetiRank under Gradient: the averaging fold divides by pair weights
  (`boosting.rs:8352`), the learning fold by ones (8861).
* LambdaMart with MRR, ERR or MAP is accepted and has zero derivatives; the docs
  of `ranking_der.rs` say every arm is not yet wired, and all are.
* `map_at_group` with top 0 and a relevant document is 0/0 (`ranking_metrics.rs:355`).
* The device's pairwise candidate comparison is a tolerance band, which is not
  transitive (`pairwise.rs:1873`); its pair histogram is computed and unused.
* `boosting.rs` calls the pairwise buffer weighted; for grouped losses it is not
  (7481).

*Kernels*
* On a runtime that reports one core, `barrier_cube_dim` is 1
  (`launch_geometry.rs:324`), and `full_scan_into` recurses on as many totals as
  it had elements, for ever (`kernels.rs:2183`). The instances have two cores or more.
* `exact_quantile.rs` documents a fixed-point total that is a float sum.

*Model files and explanations*
* A leaf-wise model read from JSON cannot be saved as `.cbm`; region models saved
  as `.cbm` lose their trees; multi-output leaf-wise JSON keeps one value a leaf;
  `predict_raw_multi_cat` has no region arm.
* `apply_virtual_ensembles` says it needs 2V + 1 trees and accepts 2V.
* SHAP's "local accuracy by construction" (`shap.rs:548`) fails for a document in
  a leaf without training weight, and for NaN under nan_mode=Max. Region trees
  are left out of SHAP and importances. The oblivious and the leaf-wise
  interaction differ for a feature tested twice on a path.
* The last partial-dependence grid point of a nan_mode=Max feature is
  `f32::MAX + 1.0`, which is `f32::MAX` and not in the last bin.

*Data and options*
* `Pool::quantize` reserves no border for the Max sentinel (`quantize.rs:84`; doc
  46); the trainer's own path does. An infinity on the sentinel's side shares the
  missing value's bin.
* `UniformAndQuantiles` can put a border below the minimum; exact and greedy
  searches do not guard a midpoint that rounds to the wrong side (`HaveRoom`).
* `nan_mode = Forbidden` refuses NaN in an ignored column too.
* `into_pool` refuses an all-categorical frame without label, though
  `feature_shape` reports its row count.
* The facade's fit reads neither groups, pairs, subgroups nor baseline
  (`builder.rs`, `fit_inner`): `CatBoostRanker.fit` requires `group_id` and drops it.
* Monotone constraints with MultiClass or pairwise losses, feature penalties with
  any search but the plain one, Langevin with pairwise losses: accepted, not read.
  `Loss::validate` checks no Focal parameter. `score_function` does not reach the
  ordered search. `posterior_sampling` overwrites an explicit shrink rate.

*Search and Python*
* `cv.rs:71` documents an arbitrary `best_index` when all candidates fail; a typed
  error is returned. Which fold's error is reported depends on the threads.
* One of two spellings of a parameter is silently dropped (`params.rs:844`), so
  `set_params(max_depth=…)` after `depth=…` is ignored. `loss_function=None` on a
  classifier trains RMSE. `cat_features=None` and `simple_ctr=None` are errors.
* Eval labels are not encoded by `class_names`; with `class_names`, `score`
  compares indices with raw labels (`classifier.rs:468`).
* `fit(Pool, y)` ignores y; `Pool(numpy, cat_features=…)` drops the columns; a fit
  from a Pool remembers no categorical columns, so predicting on raw data is a
  width error.

## What is not modelled

* Floating-point results: pointwise losses, leaf solves, metrics, calcers of text
  and embeddings. Where a property needs them they are constant operators, or
  exact integers and fractions.
* The bytes of the codecs (a file is whole or torn; the flatbuffer layout is
  generated code), ONNX, CoreML and source exports, fingerprint and category hash
  collisions, power losses (nothing is synced), two processes on one snapshot
  path (the documentation gives a path to one run).
* The device's resident copies of the approximants, two threads on one backend (every caller in the repository builds
  a backend per fit or fits in sequence), the resident MVS sampler (no
  configuration the facade builds reaches it), `gpu_runtime/ranking.rs` (called
  from tests only).
* The warm-up thread and the probes: their verdict only chooses which of two
  kernels fills a histogram, a choice `TreeGrowth` leaves open.
* Kernels of independent elements, and those under `kernels/` that repeat a
  modelled pattern; float atomics.
* `autolr`, `calc_metrics`, `fast_approx`, estimated features; the accessors of
  the facade's model; conversions of buffers and error texts in the bindings.
* Test harness, benches, generated and vendored code.

Hazards left without a property, besides those: a Wilcoxon fit whose metric
becomes NaN (the sort's outcome is not defined); a CTR statistic closer below the
next bin than the 2^-20 by which a persisted border lies under it, which takes
half a million rows of one value; body and tail on the device, which is a
divergence.

## Plan

What a proof would add most: `FitPreparation`, that chosen borders ascend within
their budget, for any column. What is left to model: estimated features on `CtrTables`' prefixes, two fits on one backend.
