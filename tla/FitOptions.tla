----------------------------- MODULE FitOptions -----------------------------
(***************************************************************************)
(* What becomes of the options of a fit.  The builder resolves those that  *)
(* default to one another, an entry point passes the data its signature    *)
(* takes, the trainer refuses what it does not implement, and offers the   *)
(* rest to the device, whose session may decline; whoever grows the trees  *)
(* then reads some options and some of the data, each in its place.        *)
(*                                                                         *)
(* What an option is worth is left out, and so is the arithmetic: a tree   *)
(* is described by what its sample was drawn from, what its structure and  *)
(* its leaves were computed from, and which rate and derivative it took.   *)
(***************************************************************************)
EXTENDS Integers, Sequences, FiniteSets

CONSTANTS Wishes,      \* what callers ask a fit for
          MaxDepth, CtrBorders, LineLimit

ASSUME OptionsAssumption == MaxDepth \in Nat /\ CtrBorders \in Nat /\ LineLimit \in Nat

(* A wish names everything that is read of it, and gives an entry point no *)
(* more of the data than its signature takes.                              *)
ASSUME WishesAssumption ==
  \A w \in Wishes :
    /\ {"entry", "loss", "leaf_method", "grow_policy", "boosting_type", "bootstrap_type", "columns",
        "evals", "groups", "weights", "rsm", "random_strength", "penalties", "monotone_constraints",
        "langevin", "posterior_sampling", "diffusion_temperature", "model_shrink_rate",
        "leaf_estimation_iterations", "model_size_reg", "auto_learning_rate"} \subseteq DOMAIN w
    /\ w.rsm \in Int /\ w.leaf_estimation_iterations \in Int
    /\ w.evals \in BOOLEAN /\ w.groups \in BOOLEAN /\ w.penalties \in BOOLEAN
    /\ w.columns \in {"floats", "one_hot", "ctr", "both"}
    /\ w.entry \in {"train", "train_with_eval", "train_with_eval_sets", "train_ranking",
                    "train_cat", "train_cat_with_eval_sets", "fit"}
    /\ w.entry \in {"train", "train_with_eval", "train_with_eval_sets", "train_ranking"} =>
          w.columns = "floats"
    /\ w.groups => w.entry \in {"train_ranking", "fit"}
    /\ w.evals => w.entry \notin {"train", "train_ranking", "train_cat"}

VARIABLES wish, options, stage, session, grown

ovars == <<wish, options, stage, session, grown>>

-----------------------------------------------------------------------------
(* The options away from their neutral value. *)

(* ExtraBoostParams::default and the defaults of BoostParams.  rsm is in   *)
(* tenths, a penalty or a regularizer only has a value of its own or not.  *)
Neutral ==
  [rsm |-> 10, langevin |-> FALSE, monotone_constraints |-> {}, penalties |-> FALSE,
   random_strength |-> 0, model_shrink_rate |-> 0, leaf_estimation_iterations |-> 1,
   model_size_reg |-> "default", auto_learning_rate |-> FALSE, weights |-> "unit",
   groups |-> FALSE]

(* Read by every fit, whatever they are. *)
Always ==
  {"l2_leaf_reg", "depth", "min_data_in_leaf", "max_leaves", "score_function", "subsample",
   "bagging_temperature", "permutation", "fold_len_multiplier", "learning_rate", "sample",
   "derivatives", "average", "newton", "exact"}

Noisy(o) == o.langevin /\ o.diffusion_temperature # 0
OffDefault(o) ==
  {n \in DOMAIN Neutral : IF n = "langevin" THEN Noisy(o) ELSE o[n] # Neutral[n]}
    \union {o.columns}
Heard(read, o) == read \intersect (Always \union OffDefault(o))

-----------------------------------------------------------------------------
(* Losses. *)

GroupedLosses ==
  {"QueryRMSE", "QuerySoftMax", "PairLogit", "PairLogitPairwise", "LambdaMart", "YetiRank",
   "YetiRankPairwise", "StochasticRank"}
uses_pairwise_weights(o) ==
  o.loss \in {"PairLogit", "PairLogitPairwise", "YetiRank", "YetiRankPairwise"}
PairwiseScoring(o) == o.loss \in {"PairLogitPairwise", "YetiRankPairwise"}
MultiClassLosses == {"MultiClass", "MultiClassOneVsAll"}
MultiLabelLosses == {"MultiLogloss", "MultiCrossEntropy"}

(* More than one output; a multilabel target has as many as its columns.   *)
loss_approx_dimension(o) ==
  IF o.loss \in MultiClassLosses \union {"MultiQuantile", "RMSEWithUncertainty"} THEN 2 ELSE 1
approx_dimension(o) ==
  IF o.loss \in MultiLabelLosses THEN o.labels ELSE loss_approx_dimension(o)

autolr_target_type(loss) ==
  CASE loss = "RMSE" -> "RMSE"
    [] loss \in {"Logloss", "CrossEntropy"} -> "Logloss"
    [] OTHER -> "Unknown"

-----------------------------------------------------------------------------
(* The builder. *)

Default == -1
Or(value, otherwise) == IF value = Default THEN otherwise ELSE value

(* On by name, with posterior sampling, or, left open, by a temperature.   *)
langevin_on(w) ==
  CASE w.langevin = "on" -> TRUE
    [] w.langevin = "off" -> w.posterior_sampling
    [] OTHER -> w.posterior_sampling \/ w.diffusion_temperature # Default

resolve_langevin(w) ==
  [on |-> langevin_on(w),
   temperature |-> IF langevin_on(w) THEN Or(w.diffusion_temperature, 1) ELSE 0,
   shrink |-> Or(w.model_shrink_rate, IF langevin_on(w) THEN 1 ELSE 0)]

validate_langevin_surface(w) ==
  w.posterior_sampling => w.langevin # "off" /\ w.diffusion_temperature = Default

boost_params(w) ==
  [w EXCEPT !.langevin = resolve_langevin(w).on,
            !.diffusion_temperature = resolve_langevin(w).temperature,
            !.model_shrink_rate = resolve_langevin(w).shrink]

-----------------------------------------------------------------------------
(* The entry points: what of the data each of them passes on. *)

train_with_eval_sets(w) == [w EXCEPT !.columns = "floats", !.groups = FALSE]
train(w) == train_with_eval_sets([w EXCEPT !.evals = FALSE])
train_with_eval(w) == train_with_eval_sets(w)
train_ranking(w) == [w EXCEPT !.columns = "floats", !.evals = FALSE]
train_cat(w) == [w EXCEPT !.groups = FALSE, !.evals = FALSE]
train_cat_with_eval_sets(w) == [w EXCEPT !.groups = FALSE]
builder_fit(w) ==
  IF w.columns = "floats" THEN train_with_eval_sets(w) ELSE train_cat_with_eval_sets(w)

EntryAccepts(w) ==
  /\ w.entry = "fit" => validate_langevin_surface(w)
  /\ w.entry = "train_cat_with_eval_sets" => w.evalColumnsFit
Entered(w) ==
  CASE w.entry = "fit" -> builder_fit(boost_params(w))
    [] w.entry = "train" -> train(boost_params(w))
    [] w.entry = "train_with_eval" -> train_with_eval(boost_params(w))
    [] w.entry = "train_with_eval_sets" -> train_with_eval_sets(boost_params(w))
    [] w.entry = "train_ranking" -> train_ranking(boost_params(w))
    [] w.entry = "train_cat" -> train_cat(boost_params(w))
    [] w.entry = "train_cat_with_eval_sets" -> train_cat_with_eval_sets(boost_params(w))

-----------------------------------------------------------------------------
(* What the trainer refuses. *)

validate_ctr_types(o) == o.ctr_type \in {"Borders", "Buckets", "BTMV", "Counter"}
validate_score_function(o) == o.score_function # "Newton"

(* Loss::validate, of the parameters a loss has, in halves.                *)
validate(o) ==
  \A p \in DOMAIN o.parameters :
    LET v == o.parameters[p]
    IN  CASE p \in {"alpha", "decay"} -> 0 <= v /\ v <= 2
          [] p \in {"q", "top", "permutations", "num_estimations"} -> v >= 2
          [] p = "variance_power" -> 2 < v /\ v < 4
          [] p \in {"lambda", "mu"} \/ (p = "delta" /\ o.loss # "Huber") -> v >= 0
          [] OTHER -> v > 0

NewtonOnly == MultiClassLosses \union MultiLabelLosses \union {"RMSEWithUncertainty"}
validate_leaf_method(o) ==
  /\ o.leaf_method = "Exact" => o.loss \in {"LogCosh", "MAE", "Quantile", "MultiQuantile"}
  /\ o.loss = "MultiQuantile" => o.leaf_method = "Exact"
  /\ o.loss \in NewtonOnly => o.leaf_method = "Newton"
  /\ o.leaf_method = "Newton" /\ o.loss = "Lq" => o.parameters.q >= 4

validate_leaf_estimation_iterations(o) ==
  /\ o.leaf_estimation_iterations >= 1
  /\ o.leaf_estimation_iterations > 1 =>
       /\ ~o.groups /\ o.loss \notin NewtonOnly \union {"MultiQuantile"}
       /\ o.leaf_method # "Exact" /\ o.grow_policy = "SymmetricTree"
       /\ o.monotone_constraints = {} /\ o.backtracking = "No"

validate_label(o) == o.constant_label => o.allow_const_label

validate_sampling(o) ==
  /\ o.ctr_history_unit = "Sample" /\ o.sampling_unit = "Object"
  /\ o.sampling_frequency = "PerTreeLevel" => o.bootstrap_type = "No"

validate_monotone_constraints(o) == o.monotone_constraints \subseteq {-1, 0, 1}
validate_grow_policy(o) == o.grow_policy # "SymmetricTree" => o.monotone_constraints = {}

validate_rsm(o) == o.rsm \in 1 .. 10 /\ (o.rsm < 10 => o.grow_policy = "SymmetricTree")

(* Posterior sampling derives what the caller may have given. *)
PosteriorAccepts(o) == o.posterior_sampling => o.model_shrink_mode = "Constant"
posterior(o) ==
  IF ~o.posterior_sampling THEN o
  ELSE [o EXCEPT !.langevin = TRUE, !.diffusion_temperature = 1, !.model_shrink_rate = 1]

validate_langevin(o) ==
  o.langevin => /\ o.diffusion_temperature >= 0
                /\ o.boosting_type # "Ordered" /\ o.grow_policy = "SymmetricTree"

prologue(o) ==
  /\ o.depth <= MaxDepth /\ validate(o)
  /\ validate_ctr_types(o) /\ validate_score_function(o) /\ validate_leaf_method(o)
  /\ validate_leaf_estimation_iterations(o) /\ validate_label(o) /\ validate_sampling(o)
  /\ validate_monotone_constraints(o) /\ validate_grow_policy(o) /\ validate_rsm(o)
  /\ PosteriorAccepts(o) /\ validate_langevin(posterior(o))

draws_active(o) ==
  o.bootstrap_type # "No" \/ o.random_strength # 0 \/ o.rsm < 10 \/ Noisy(o)

(* What the prologue cannot know: how columns are routed, and dimensions.  *)
OneEncoding(o) == o.columns # "both"
EvalsAreScalar(o) == o.evals => approx_dimension(o) = 1
OneHotUndrawn(o) == o.columns = "one_hot" => ~draws_active(o)

Admissible(o) ==
  /\ prologue(o)
  /\ LET p == posterior(o) IN OneEncoding(p) /\ EvalsAreScalar(p) /\ OneHotUndrawn(p)

(* The learning rate is guessed for the losses the guess knows. *)
rate(o) ==
  IF o.auto_learning_rate /\ autolr_target_type(o.loss) # "Unknown" THEN "guessed" ELSE "given"

-----------------------------------------------------------------------------
(* What the trainer offers to the device. *)

learning_fold_count(o) ==
  IF o.columns = "ctr" /\ o.permutation_count > 1 THEN o.permutation_count - 1 ELSE 1

device_exact_leaf_config(o) == o.leaf_method = "Exact" /\ o.loss \in {"MAE", "Quantile"}
ctr_types_are_device_covered(o) == validate_ctr_types(o)
one_hot_cardinalities_fit_the_device(o) == o.columns = "one_hot" => o.bins <= LineLimit

(* Mutant: the device is offered a fit whose columns are resampled.        *)
OfferedDespiteRsm(o) ==
  /\ o.loss \notin GroupedLosses \union MultiClassLosses \union MultiLabelLosses
  /\ approx_dimension(o) = 1
  /\ o.model_shrink_rate = 0 /\ o.leaf_estimation_iterations = 1 /\ ~o.langevin
  /\ o.columns = "ctr" => learning_fold_count(o) = 1 /\ ctr_types_are_device_covered(o)
  /\ ~o.penalties /\ o.monotone_constraints = {}
  /\ o.bootstrap_type = "Poisson" => o.grow_policy = "SymmetricTree"
  /\ o.random_strength = 0 /\ ~o.evals
  /\ one_hot_cardinalities_fit_the_device(o)
  /\ o.leaf_method \in {"Gradient", "Simple"} \/ device_exact_leaf_config(o)

device_host_eligible(o) ==
  /\ o.loss \notin GroupedLosses \union MultiClassLosses \union MultiLabelLosses
  /\ approx_dimension(o) = 1
  /\ o.model_shrink_rate = 0 /\ o.leaf_estimation_iterations = 1
  /\ o.rsm >= 10 /\ ~o.langevin
  /\ o.columns = "ctr" => learning_fold_count(o) = 1 /\ ctr_types_are_device_covered(o)
  /\ ~o.penalties /\ o.monotone_constraints = {}
  /\ o.bootstrap_type = "Poisson" => o.grow_policy = "SymmetricTree"
  /\ o.random_strength = 0 /\ ~o.evals
  /\ one_hot_cardinalities_fit_the_device(o)
  /\ o.leaf_method \in {"Gradient", "Simple"} \/ device_exact_leaf_config(o)

raw_device_channel(o) ==
  device_host_eligible(o) /\ o.columns = "floats" /\ o.grow_policy = "SymmetricTree"

(* DeviceTrainConfig.  The session hears nothing else of the options but   *)
(* the arguments of begin.                                                 *)
device_config(o) ==
  [grow_policy |-> o.grow_policy, max_leaves |-> o.grow_policy = "Lossguide",
   bootstrap_type |-> o.bootstrap_type,
   sample_from_host |-> o.bootstrap_type \notin {"No", "Poisson"},
   exact_leaf |-> device_exact_leaf_config(o),
   ctr |-> o.columns = "ctr", one_hot |-> o.columns = "one_hot",
   ordered |-> o.boosting_type = "Ordered"]

-----------------------------------------------------------------------------
(* What the session covers. *)

map_der_kernel(loss) ==
  CASE loss = "RMSE" -> "residual"
    [] loss \in {"Logloss", "CrossEntropy"} -> "sigmoid"
    [] OTHER -> "none"

(* map_leaf_method: exact leaves bring the derivative of a quantile.       *)
map_leaf_method(o, c) ==
  IF ~c.exact_leaf THEN "average" ELSE IF o.loss \in {"MAE", "Quantile"} THEN "exact" ELSE "none"
resident_der1(o, c) == IF c.exact_leaf THEN "quantile" ELSE map_der_kernel(o.loss)

(* Losses that have a kernel and no grower yet.                            *)
map_ranking_coverage(o) ==
  o.loss \in {"QueryRMSE", "QuerySoftMax", "YetiRank", "YetiRankPairwise"}
map_multiclass_coverage(o) == o.loss \in NewtonOnly
Ungrown(o) == PairwiseScoring(o) \/ map_ranking_coverage(o) \/ map_multiclass_coverage(o)

map_bootstrap_kernel(c) ==
  IF c.sample_from_host THEN "host" ELSE IF c.bootstrap_type = "No" THEN "none" ELSE "device"

FamilyDefault(c) == ~c.exact_leaf /\ ~c.ctr /\ ~c.max_leaves
map_ordered_coverage(o, c) ==
  /\ map_der_kernel(o.loss) # "none"
  /\ c.grow_policy = "SymmetricTree" /\ c.bootstrap_type = "No" /\ FamilyDefault(c)

(* Every binarized CTR column has to fill the line of the floats.          *)
ctr_covered(o, c) == c.ctr /\ o.bins = CtrBorders + 1

is_covered_regime(c) ==
  c.grow_policy = "SymmetricTree" /\ map_bootstrap_kernel(c) = "none" /\ FamilyDefault(c)

ObliviousCovered(o, c) ==
  \/ is_covered_regime(c)
  \/ c.exact_leaf /\ map_bootstrap_kernel(c) = "none" /\ ~c.ctr
  \/ ~c.exact_leaf /\ map_bootstrap_kernel(c) # "none" /\ ~c.ctr
  \/ ctr_covered(o, c) /\ map_bootstrap_kernel(c) = "none" /\ ~c.exact_leaf

FamilyCovered(o, c) ==
  CASE c.grow_policy = "SymmetricTree" -> ObliviousCovered(o, c)
    [] c.grow_policy = "Region" -> map_bootstrap_kernel(c) # "device" /\ FamilyDefault(c)
    [] OTHER -> map_bootstrap_kernel(c) # "device" /\ ~c.exact_leaf /\ ~c.ctr

(* Raw columns are cut on the device by borders narrowed to 32 bits.       *)
RawCovered(o, c) ==
  c.grow_policy = "SymmetricTree" /\ ~c.ctr /\ ~c.one_hot /\ o.narrow_borders

begin(o, c, raw) ==
  /\ o.boosting_type = "Ordered" => c.ordered /\ map_ordered_coverage(o, c)
  /\ o.depth > 0 /\ learning_fold_count(o) = 1
  /\ ~Ungrown(o)
  /\ map_leaf_method(o, c) # "none" /\ FamilyCovered(o, c)
  /\ resident_der1(o, c) # "none" /\ o.score_function # "Newton"
  /\ c.grow_policy = "SymmetricTree" => o.bins <= LineLimit
  /\ raw => RawCovered(o, c)

NoSession == [grower |-> "none"]
GpuTrainSession(o, c) ==
  [grower |-> IF c.grow_policy = "Region" THEN "region"
              ELSE IF c.grow_policy # "SymmetricTree" THEN "nonsym"
              ELSE IF c.ordered THEN "ordered" ELSE "oblivious",
   max_leaves |-> c.max_leaves, sampler |-> map_bootstrap_kernel(c),
   leaf_method |-> map_leaf_method(o, c), ctr_search |-> c.ctr, one_hot |-> c.one_hot,
   der |-> resident_der1(o, c), rate |-> rate(o)]

-----------------------------------------------------------------------------
(* What a tree grown by the session is computed from. *)

If(condition, read) == IF condition THEN read ELSE {}

(* host_weighted_der1, host_sampled_channels and fold_weights_resident.    *)
DeviceChannels(s) == {"derivatives", "weights"} \union If(s.sampler # "none", {"sample"})

(* A column of categories is a feature like any other to these two.        *)
grow_nonsym_tree(s) ==
  DeviceChannels(s) \union If(s.one_hot, {"one_hot"}) \union If(s.max_leaves, {"max_leaves"})
    \union {"l2_leaf_reg", "depth", "min_data_in_leaf", "score_function"}
grow_region_tree(s) ==
  DeviceChannels(s) \union If(s.one_hot, {"one_hot"})
    \union {"l2_leaf_reg", "depth", "min_data_in_leaf", "score_function"}

(* Segments have a regularizer of their own, and scores no function.       *)
grow_oblivious_tree_ordered_resident(s) ==
  {"derivatives", "weights", "permutation", "fold_len_multiplier", "l2_leaf_reg", "depth"}
    \union If(s.one_hot, {"one_hot"})

grow_oblivious_tree_resident(s) ==
  DeviceChannels(s) \union {"l2_leaf_reg", "depth", "score_function"}
    \union If(s.one_hot, {"one_hot"}) \union If(s.ctr_search, {"ctr", "permutation"})

DeviceStructure(s) ==
  CASE s.grower = "nonsym" -> grow_nonsym_tree(s)
    [] s.grower = "region" -> grow_region_tree(s)
    [] s.grower = "ordered" -> grow_oblivious_tree_ordered_resident(s)
    [] OTHER -> grow_oblivious_tree_resident(s)

(* Exact leaves from the residuals; averages, of the averaging CTR columns *)
(* where there are any; a sample in neither.                               *)
compute_exact_leaf_values == {"exact", "weights"}
gathered_leaf_values == {"average", "weights", "l2_leaf_reg", "permutation"}
DeviceLeaves(s) ==
  IF s.leaf_method = "exact" THEN compute_exact_leaf_values
  ELSE IF s.ctr_search THEN gathered_leaf_values
  ELSE {"average", "weights", "l2_leaf_reg"}

(* The sample the trainer draws for the session, from unweighted           *)
(* derivatives, or the session's own.                                      *)
bootstrap(o) ==
  CASE o.bootstrap_type = "No" -> {}
    [] o.bootstrap_type = "Bayesian" -> {"bagging_temperature"}
    [] o.bootstrap_type = "Mvs" -> {"subsample", "derivatives"}
    [] OTHER -> {"subsample"}

(* Nothing the trainer does to its approximants reaches those on the       *)
(* device, so that a model shrunk between trees would not reach it.        *)
grow_one(o, s) ==
  [by |-> "device", sample |-> bootstrap(o), structure |-> DeviceStructure(s),
   leaves |-> DeviceLeaves(s), der |-> s.der, rate |-> s.rate, after |-> {}]

-----------------------------------------------------------------------------
(* What a tree grown by the host is computed from. *)

(* Pairs have weights of their own, and derivatives those of the objects   *)
(* in their groups.                                                        *)
Weighted(o) ==
  IF uses_pairwise_weights(o) THEN {"groups"}
  ELSE {"weights"} \union If(o.loss \in GroupedLosses, {"groups"})

HostSample(o) == bootstrap(o) \union If(o.bootstrap_type = "Mvs", Weighted(o))

score_channels(o) ==
  {"derivatives"} \union Weighted(o) \union If(Noisy(o), {"langevin"})
    \union If(o.bootstrap_type # "No", {"sample"})

region_grower(o) ==
  score_channels(o) \union {"l2_leaf_reg", "depth", "min_data_in_leaf", "score_function"}
leaf_wise_grower(o) ==
  score_channels(o) \union {"l2_leaf_reg", "depth", "min_data_in_leaf", "score_function"}
    \union If(o.grow_policy = "Lossguide", {"max_leaves"})
search_pairwise(o) == {"derivatives", "groups", "l2_leaf_reg", "depth"}
search_with_ctr(o) ==
  score_channels(o)
    \union {"l2_leaf_reg", "depth", "score_function", "ctr", "permutation", "model_size_reg"}
search_ordered(o) ==
  {"derivatives", "weights", "permutation", "fold_len_multiplier", "l2_leaf_reg", "depth"}

(* Perturbation: the only search that draws in its levels. *)
search_perturbed(o) ==
  score_channels(o) \union {"l2_leaf_reg", "depth", "score_function", "one_hot", "penalties"}
    \union If(draws_active(o), {"random_strength", "rsm"})

HostStructure(o) ==
  IF o.grow_policy = "Region" THEN region_grower(o)
  ELSE IF o.grow_policy # "SymmetricTree" THEN leaf_wise_grower(o)
  ELSE IF PairwiseScoring(o) THEN search_pairwise(o)
  ELSE IF o.columns = "ctr" THEN search_with_ctr(o)
  ELSE IF o.boosting_type = "Ordered" THEN search_ordered(o)
  ELSE search_perturbed(o)

compute_pairwise_leaf_deltas == {"groups", "l2_leaf_reg"}
compute_softmax_leaf_deltas == {"newton", "weights", "l2_leaf_reg"}
compute_leaf_deltas(o) ==
  CASE o.leaf_method = "Exact" -> Weighted(o) \union {"exact"}
    [] o.leaf_method = "Newton" ->
         Weighted(o) \union {"newton", "l2_leaf_reg"} \union If(Noisy(o), {"langevin"})
    [] o.leaf_method = "Gradient" ->
         Weighted(o) \union {"average", "l2_leaf_reg"} \union If(Noisy(o), {"langevin"})
    [] OTHER -> Weighted(o) \union {"average", "l2_leaf_reg"}

(* Steps and constraints belong to the last branch. *)
HostLeaves(o) ==
  If(o.columns = "ctr", {"permutation"}) \union
  CASE PairwiseScoring(o) -> compute_pairwise_leaf_deltas
    [] o.loss = "MultiClass" -> compute_softmax_leaf_deltas
    [] OTHER -> compute_leaf_deltas(o)
                  \union {"leaf_estimation_iterations", "monotone_constraints"}

compute_gradients(o) ==
  IF o.loss \in {"MAE", "Quantile"} THEN "quantile"
  ELSE IF map_der_kernel(o.loss) # "none" THEN map_der_kernel(o.loss) ELSE o.loss

HostTree(o) ==
  [by |-> "host", sample |-> HostSample(o), structure |-> HostStructure(o),
   leaves |-> HostLeaves(o), der |-> compute_gradients(o), rate |-> rate(o),
   after |-> {"model_shrink_rate"}]

-----------------------------------------------------------------------------
(* A fit, from what its caller asks to the first tree. *)

Unwished == [entry |-> "none"]
OptionsInit ==
  wish = Unwished /\ options = Unwished /\ stage = "idle" /\ session = NoSession /\ grown = Unwished

Ask ==
  /\ stage = "idle" /\ stage' = "asked"
  /\ wish' \in Wishes
  /\ UNCHANGED <<options, session, grown>>

Enter ==
  /\ stage = "asked" /\ EntryAccepts(wish)
  /\ stage' = "entered" /\ options' = Entered(wish)
  /\ UNCHANGED <<wish, session, grown>>

Admit ==
  /\ stage = "entered" /\ Admissible(options)
  /\ stage' = "admitted" /\ options' = posterior(options)
  /\ UNCHANGED <<wish, session, grown>>

(* A sampler the host does not have, and a sample the session's integers   *)
(* would overflow on, are noticed last.                                    *)
Refuse ==
  /\ \/ stage = "asked" /\ ~EntryAccepts(wish)
     \/ stage = "entered" /\ ~Admissible(options)
     \/ stage = "host" /\ options.bootstrap_type = "Poisson"
     \/ stage = "open" /\ session.sampler = "host" /\ session.grower = "oblivious"
  /\ stage' = "refused"
  /\ UNCHANGED <<wish, options, session, grown>>

(* Raw columns first, where they can be, then quantized ones.              *)
Offer(raw, declined) ==
  LET config == device_config(options)
  IN  /\ IF begin(options, config, raw)
         THEN stage' = "open" /\ session' = GpuTrainSession(options, config)
         ELSE stage' = declined /\ UNCHANGED session
      /\ UNCHANGED <<wish, options, grown>>
OfferRaw == stage = "admitted" /\ raw_device_channel(options) /\ Offer(TRUE, "declined")
OfferBins ==
  /\ \/ stage = "declined"
     \/ stage = "admitted" /\ device_host_eligible(options) /\ ~raw_device_channel(options)
  /\ Offer(FALSE, "host")

(* The host's own runtime declines every offer. *)
StayOnHost ==
  /\ stage = "admitted" /\ stage' = "host"
  /\ UNCHANGED <<wish, options, session, grown>>

GrowOnDevice ==
  /\ stage = "open" /\ stage' = "grown"
  /\ grown' = grow_one(options, session)
  /\ UNCHANGED <<wish, options, session>>
GrowOnHost ==
  /\ stage = "host" /\ options.bootstrap_type # "Poisson"
  /\ stage' = "grown" /\ grown' = HostTree(options)
  /\ UNCHANGED <<wish, options, session>>

OptionsNext ==
  Ask \/ Enter \/ Admit \/ Refuse \/ OfferRaw \/ OfferBins \/ StayOnHost
    \/ GrowOnDevice \/ GrowOnHost
OptionsDone == stage \in {"refused", "grown"}

-----------------------------------------------------------------------------
(* What a fit makes of its options, and of its data. *)

(* Where the two sides differ: the device's size penalty of CTR columns is *)
(* the default one, its other growers take categories for numbers, and its *)
(* samples are drawn from unweighted derivatives.                          *)
Known(part, o) ==
  CASE part = "structure" ->
         {"model_size_reg"}
           \union If(o.grow_policy # "SymmetricTree" \/ o.boosting_type = "Ordered", {"one_hot"})
    [] part = "sample" -> If(o.bootstrap_type = "Mvs", {"weights"})
    [] OTHER -> {}
OnDeviceAsOnHost ==
  \A part \in {"sample", "structure", "leaves", "after"} :
    Heard(grown[part], options) \ Known(part, options)
      = Heard(HostTree(options)[part], options) \ Known(part, options)

(* Accepted options that nothing reads: those of a level's candidates, in  *)
(* a search that has none, and those of a leaf, where it solves a system.  *)
Unread(o) ==
  If(o.grow_policy # "SymmetricTree",
     {"one_hot", "ctr", "model_size_reg", "penalties", "random_strength"})
    \union If(o.boosting_type = "Ordered", {"one_hot", "rsm", "penalties", "random_strength"})
    \union If(o.columns = "ctr", {"rsm", "penalties", "random_strength"})
    \union If(o.columns # "ctr", {"model_size_reg"})
    \union If(PairwiseScoring(o),
               {"one_hot", "ctr", "rsm", "penalties", "random_strength", "monotone_constraints",
                "leaf_estimation_iterations", "langevin", "model_size_reg"})
    \union If(o.loss = "MultiClass", {"monotone_constraints"})
    \union If(uses_pairwise_weights(o), {"weights"})
    \union If(o.loss \notin GroupedLosses, {"groups"})

(* Every option that is given and accepted is read by every tree, and a    *)
(* tree of the device reads what one of the host would, from the same      *)
(* derivatives and at the same rate; what remains are the options above,   *)
(* and the size penalty of CTR columns where the device has its own.       *)
(* Leaves never average a sample, and the data reaches the trees as its    *)
(* caller passed it, but for the groups the builder does not pass on.      *)
AcceptedIsHeard ==
  stage = "grown" =>
    /\ grown.by = "device" => OnDeviceAsOnHost
    /\ grown.der = HostTree(options).der /\ grown.rate = HostTree(options).rate
    /\ OffDefault(options) \ (Unread(options) \union {"floats", "auto_learning_rate"}
                                \union If(grown.by = "device", {"model_size_reg"}))
         \subseteq grown.structure \union grown.leaves \union grown.after
    /\ "sample" \notin grown.leaves
    /\ options.columns = wish.columns /\ options.evals = wish.evals
    /\ options.groups = (wish.groups /\ wish.entry # "fit")
=============================================================================
