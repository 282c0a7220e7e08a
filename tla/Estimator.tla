----------------------------- MODULE Estimator -----------------------------
(***************************************************************************)
(* The Python estimators.  A CatBoostClassifier, CatBoostRegressor or      *)
(* CatBoostRanker keeps the parameters its caller has given under any      *)
(* spelling, and, from the last fit that succeeded, the model, the         *)
(* categorical columns and the class names.  Parameters are only looked at *)
(* by fit: it checks their names, reads the labels and the columns, checks *)
(* their values and trains; predict, score and classes_ use what fit left. *)
(*                                                                         *)
(* A Python value is a record of its type and content; a number is given   *)
(* in tenths.  Error classes and messages are left out.                    *)
(***************************************************************************)
EXTENDS Integers, Sequences, FiniteSets, SequencesExt

CONSTANTS Sessions,     \* what a caller may construct and then ask
          DeviceBuild   \* the wheel was built with a device backend

(* A list as Python gives it, and the columns a caller brings.             *)
Itemized(s) == Len(s) \in Nat /\ s = [i \in 1 .. Len(s) |-> s[i]]
Columned(x) == IF x.form = "pool" THEN Len(x.data.columns) \in Nat ELSE Len(x.columns) \in Nat

ASSUME SessionsAssumption ==
  \A s \in Sessions :
    /\ \A p \in {s.kwargs} \union s.settings :
         \A name \in {"class_names", "cat_features"} \intersect DOMAIN p :
           p[name].type = "list" => Itemized(p[name].items)
    /\ \A x \in s.inputs : Columned(x)
    /\ \A f \in s.fits :
         /\ Columned(f.x) /\ (f.cats.given => Itemized(f.cats.items))
         /\ Itemized(f.y.items) /\ (~f.y.given => f.y.items = <<>>)

VARIABLES menu, held, said, lastFit, reply, left

evars == <<menu, held, said, lastFit, reply, left>>

-----------------------------------------------------------------------------
(* The names. *)

IMPLEMENTED ==
  {"task_type", "iterations", "learning_rate", "depth", "l2_leaf_reg", "loss_function",
   "border_count", "random_seed", "random_strength", "bagging_temperature", "bootstrap_type",
   "subsample", "score_function", "boost_from_average", "leaf_estimation_method",
   "cat_features", "one_hot_max_size", "max_ctr_complexity", "simple_ctr", "combinations_ctr",
   "counter_calc_method", "od_type", "od_pval", "od_wait", "early_stopping_rounds",
   "use_best_model", "eval_metric", "boosting_type", "has_time", "fold_len_multiplier",
   "permutation_count", "monotone_constraints", "feature_weights", "penalties_coefficient",
   "first_feature_use_penalties", "per_object_feature_penalties", "grow_policy", "max_leaves",
   "min_data_in_leaf", "class_weights", "auto_class_weights", "scale_pos_weight",
   "ignored_features", "feature_border_type", "nan_mode", "leaf_estimation_backtracking",
   "leaf_estimation_iterations", "model_shrink_rate", "model_shrink_mode",
   "random_score_type", "final_ctr_computation_mode", "ctr_history_unit", "sampling_unit",
   "sampling_frequency", "class_names", "allow_const_label", "model_size_reg",
   "save_snapshot", "snapshot_file", "snapshot_interval", "logging_level", "verbose",
   "silent", "metric_period", "rsm", "thread_count"}

KNOWN_NOT_YET ==
  {"per_float_feature_quantization", "input_borders", "output_borders",
   "fold_permutation_block", "best_model_min_trees", "ctr_leaf_count_limit",
   "store_all_simple_ctr", "target_border", "classes_count", "name", "train_dir",
   "custom_loss", "custom_metric", "used_ram_limit", "gpu_ram_part", "pinned_memory_size",
   "allow_writing_files", "approx_on_full_history", "per_feature_ctr", "ctr_description",
   "ctr_target_border_count", "device_config", "devices", "mvs_reg",
   "dev_score_calc_obj_block_size", "dev_efb_max_buckets",
   "sparse_features_conflict_fraction", "gpu_cat_features_storage", "data_partition",
   "metadata", "langevin", "diffusion_temperature", "posterior_sampling", "text_features",
   "tokenizers", "dictionaries", "feature_calcers", "text_processing",
   "embedding_features", "callback", "eval_fraction", "fixed_binary_splits"}

(* The other spellings of a name, in the order in which they are tried.    *)
ALIASES ==
  [depth |-> <<"max_depth">>,
   iterations |-> <<"n_estimators", "num_trees", "num_boost_round">>,
   random_seed |-> <<"random_state">>, l2_leaf_reg |-> <<"reg_lambda">>,
   loss_function |-> <<"objective">>, learning_rate |-> <<"eta">>,
   border_count |-> <<"max_bin">>, rsm |-> <<"colsample_bylevel">>,
   max_leaves |-> <<"num_leaves">>, min_data_in_leaf |-> <<"min_child_samples">>]

Spellings(canonical) ==
  <<canonical>> \o (IF canonical \in DOMAIN ALIASES THEN ALIASES[canonical] ELSE <<>>)
resolve_alias(name) ==
  LET named == {c \in DOMAIN ALIASES : name \in Range(ALIASES[c])}
  IN  IF named = {} THEN name ELSE CHOOSE c \in named : TRUE

status_of(canonical) ==
  CASE canonical \in IMPLEMENTED -> "IMPLEMENTED"
    [] canonical \in KNOWN_NOT_YET -> "KNOWN_NOT_YET"
    [] OTHER -> "unknown"

-----------------------------------------------------------------------------
(* The values. *)

One == 10
Endless == 1000000
Nil == [type |-> "none"]

Whole(low, high) ==
  [reads |-> {"int"}, low |-> low * One, high |-> high * One, above |-> FALSE]
Ranged(low, high) ==
  [reads |-> {"int", "float"}, low |-> low * One, high |-> high * One, above |-> FALSE]
Above(range) == [range EXCEPT !.above = TRUE]

Numbers ==
  [iterations |-> Whole(1, Endless), depth |-> Whole(1, 16), border_count |-> Whole(1, 65535),
   random_seed |-> Whole(0, Endless), thread_count |-> Whole(-1, Endless),
   leaf_estimation_iterations |-> Whole(1, Endless),
   early_stopping_rounds |-> Whole(1, Endless), od_wait |-> Whole(0, Endless),
   permutation_count |-> Whole(1, Endless), max_leaves |-> Whole(2, 65536),
   min_data_in_leaf |-> Whole(0, Endless), one_hot_max_size |-> Whole(0, 65535),
   max_ctr_complexity |-> Whole(0, 15),
   learning_rate |-> Above(Ranged(0, 1)), l2_leaf_reg |-> Ranged(0, Endless),
   random_strength |-> Ranged(0, Endless), subsample |-> Above(Ranged(0, 1)),
   rsm |-> Above(Ranged(0, 1)), model_shrink_rate |-> Ranged(0, 1),
   model_size_reg |-> Ranged(0, Endless), snapshot_interval |-> Ranged(0, Endless),
   od_pval |-> Ranged(0, 1), fold_len_multiplier |-> Above(Ranged(1, Endless)),
   penalties_coefficient |-> Ranged(0, Endless), scale_pos_weight |-> Above(Ranged(0, Endless))]

check_range(range, v) ==
  /\ v.type \in range.reads
  /\ IF range.above THEN v.n > range.low ELSE v.n >= range.low
  /\ v.n <= range.high

Words ==
  [loss_function |-> {"RMSE", "Logloss", "CrossEntropy", "MAE", "LogCosh"},
   score_function |-> {"Cosine", "L2", "SolarL2", "NewtonL2", "NewtonCosine", "LOOL2", "SatL2"},
   feature_border_type |-> {"Median", "GreedyLogSum", "UniformAndQuantiles", "MinEntropy",
                            "MaxLogSum", "Uniform", "GreedyMinEntropy"},
   nan_mode |-> {"Min", "Max", "Forbidden"},
   sampling_unit |-> {"Object", "Group"}, sampling_frequency |-> {"PerTree", "PerTreeLevel"},
   leaf_estimation_backtracking |-> {"No", "AnyImprovement", "Armijo"},
   model_shrink_mode |-> {"Constant", "Decreasing"},
   random_score_type |-> {"NormalWithModelSizeDecrease", "Gumbel"},
   final_ctr_computation_mode |-> {"Default", "Skip"},
   ctr_history_unit |-> {"Sample", "Group"},
   bootstrap_type |-> {"No", "Bayesian", "Bernoulli", "MVS", "Poisson"},
   leaf_estimation_method |-> {"Gradient", "Newton", "Simple", "Exact"},
   od_type |-> {"IncToDec", "Iter", "Wilcoxon", "None"},
   eval_metric |-> {"RMSE", "Logloss", "MAE", "MSLE", "MAPE", "NDCG", "MRR"},
   boosting_type |-> {"Plain", "Ordered"},
   grow_policy |-> {"SymmetricTree", "Lossguide", "Depthwise"},
   auto_class_weights |-> {"None", "Balanced", "SqrtBalanced"},
   counter_calc_method |-> {"SkipTest", "Full"}]

Flags == {"boost_from_average", "allow_const_label", "save_snapshot", "use_best_model", "has_time"}
Lists == {"feature_weights", "first_feature_use_penalties", "per_object_feature_penalties",
          "ignored_features"}

(* A Prior is the only key of a CTR description, and has denominator 1.    *)
CpuCtrTypes == {"Borders", "Buckets", "BinarizedTargetMeanValue", "Counter"}
parse_ctr_description(d) ==
  d.ctr_type \in CpuCtrTypes /\ d.keys \subseteq {"Prior"} /\ d.denominators \subseteq {1}

(* One entry for each float column, by place, or by number.                *)
Constraints(v) ==
  CASE v.type \in {"list", "text"} -> v.items
    [] v.type = "dict" ->
         LET width == 1 + CHOOSE m \in DOMAIN v.entries : \A k \in DOMAIN v.entries : k <= m
         IN  [k \in 1 .. width |-> IF k - 1 \in DOMAIN v.entries THEN v.entries[k - 1] ELSE 0]

(* What is read of the value given for a name.                             *)
Legal(name, v) ==
  CASE name \in DOMAIN Numbers -> check_range(Numbers[name], v)
    [] name = "bagging_temperature" -> v.type \in {"int", "float", "infinite"}
    [] name \in DOMAIN Words -> v.type = "word" /\ v.s \in Words[name]
    [] name = "snapshot_file" -> v.type = "word"
    [] name \in Flags -> v.type = "flag"
    [] name \in Lists -> v.type = "list"
    [] name = "class_weights" -> v.type = "list" /\ \A w \in Range(v.items) : w >= 0
    [] name = "monotone_constraints" ->
         v.type \in {"list", "text", "dict"} /\ Range(Constraints(v)) \subseteq {-1, 0, 1}
    [] name = "simple_ctr" ->
         v.type = "descriptions" /\ Len(v.items) = 1 /\ parse_ctr_description(v.items[1])
    [] name = "combinations_ctr" ->
         v.type = "descriptions" /\ Len(v.items) <= 1 /\ \A d \in Range(v.items) : parse_ctr_description(d)

(* Every name make_builder asks for.                                       *)
Read ==
  DOMAIN Numbers \union DOMAIN Words \union Flags \union Lists
    \union {"bagging_temperature", "snapshot_file", "class_weights", "monotone_constraints",
            "simple_ctr", "combinations_ctr"}

-----------------------------------------------------------------------------
(* What fit makes of the parameters. *)

(* The value of a name: the canonical spelling that is not None, else the  *)
(* first such alias.                                                       *)
get_with_aliases(params, name) ==
  LET given == {k \in DOMAIN Spellings(name) :
                  Spellings(name)[k] \in DOMAIN params /\ params[Spellings(name)[k]] # Nil}
  IN  IF given = {} THEN Nil
      ELSE params[Spellings(name)[CHOOSE k \in given : \A j \in given : k <= j]]

(* Parameters, the ones given last over the others.                        *)
Over(last, params) ==
  [s \in DOMAIN last \union DOMAIN params |-> IF s \in DOMAIN last THEN last[s] ELSE params[s]]

is_set(params, name) == name \in DOMAIN params /\ params[name] # Nil

LoggingSpellings == {"verbose", "logging_level", "verbose_eval", "silent"}
validate_logging_params(params) ==
  /\ Cardinality(LoggingSpellings \intersect DOMAIN params) <= 1
  /\ LET level == get_with_aliases(params, "logging_level")
     IN  level # Nil => level.type = "word" /\ level.s \in {"Silent", "Verbose", "Info", "Debug"}

validate_task_type(v) == v = Nil \/ (v.type = "word" /\ (v.s = "CPU" \/ (v.s = "GPU" /\ DeviceBuild)))

validate_params(params) ==
  /\ \A name \in DOMAIN params :
       /\ status_of(resolve_alias(name)) = "IMPLEMENTED"
       /\ name = "task_type" => validate_task_type(params[name])
  /\ validate_logging_params(params)

validate_no_classifier_only_params(params) == "class_names" \notin DOMAIN params

(* Options that act on the validation metric need an eval set.             *)
EVAL_SET_ONLY == {"od_type", "od_pval", "od_wait", "early_stopping_rounds", "use_best_model"}
Inactive(name, v) ==
  \/ v = Nil
  \/ name = "od_type" /\ v = [type |-> "word", s |-> "None"]
  \/ name = "od_pval" /\ v.type \in {"int", "float"} /\ v.n = 0
  \/ name = "use_best_model" /\ v = [type |-> "flag", b |-> FALSE]
validate_eval_set_only_params(params) ==
  \A name \in EVAL_SET_ONLY \intersect DOMAIN params : Inactive(name, params[name])

(* The builder refuses a value, or two ways to say when to stop.           *)
BuilderAccepts(params) ==
  /\ \A name \in Read \ {"simple_ctr", "combinations_ctr", "monotone_constraints"} :
       LET v == get_with_aliases(params, name) IN v = Nil \/ Legal(name, v)
  /\ is_set(params, "monotone_constraints") =>
       Legal("monotone_constraints", params.monotone_constraints)
  /\ \A name \in {"simple_ctr", "combinations_ctr"} \intersect DOMAIN params :
       Legal(name, params[name])
  /\ is_set(params, "early_stopping_rounds") =>
       ~is_set(params, "od_type") /\ ~is_set(params, "od_wait")

(* What the builder is told for a value. *)
Told(name, v) ==
  CASE name = "thread_count" /\ v.n < 0 -> [v EXCEPT !.n = 0]
    [] name = "monotone_constraints" -> Constraints(v)
    [] OTHER -> v

Shorthand(params) ==
  LET rounds == get_with_aliases(params, "early_stopping_rounds")
  IN  IF rounds = Nil THEN [x \in {} |-> Nil]
      ELSE [od_type |-> [type |-> "word", s |-> "Iter"], od_wait |-> rounds]
NoCombinations(params) ==
  IF is_set(params, "combinations_ctr") /\ params.combinations_ctr.items = <<>>
  THEN [max_ctr_complexity |-> [type |-> "int", n |-> One]] ELSE [x \in {} |-> Nil]

make_builder(params) ==
  LET heard == {name \in Read : get_with_aliases(params, name) # Nil}
  IN  Over(NoCombinations(params),
           Over(Shorthand(params), [name \in heard |-> Told(name, get_with_aliases(params, name))]))

(* A classifier trains Logloss unless a loss is named.                     *)
Logloss == [type |-> "word", s |-> "Logloss"]
ClassifierLoss(kind, params) ==
  IF kind = "classifier" /\ {"loss_function", "objective"} \intersect DOMAIN params = {}
  THEN [loss_function |-> Logloss] ELSE [x \in {} |-> Nil]
Builder(kind, params) == Over(ClassifierLoss(kind, params), make_builder(params))

-----------------------------------------------------------------------------
(* Data: numpy, pandas or arrow columns, or a Pool made of them. *)

NoLabel == [given |-> FALSE, f32 |-> TRUE, items |-> <<>>]
LabelFits(y, rows) == y.given => (y.f32 /\ Len(y.items) = rows)

PandasRoute(x, cats) == x.form = "pandas" /\ (cats # {} \/ ~x.capsule)
Numeric == {"f32", "f64", "int"}
Places(x) == 1 .. Len(x.columns)
(* Pandas columns keep their places only when the categorical ones are     *)
(* last; arrow and numpy carry no categorical columns.                     *)
Ingests(x, y, cats) ==
  IF PandasRoute(x, cats)
  THEN /\ \A i \in Places(x) : i \notin cats => (x.columns[i] \in Numeric /\ \A j \in cats : j > i)
       /\ LabelFits(y, x.rows)
  ELSE /\ \A i \in Places(x) : x.columns[i] = "f32"
       /\ x.form # "numpy" => cats = {}
       /\ LabelFits(y, IF Places(x) = {} THEN 0 ELSE x.rows)
ingest_to_owned(x, y, cats) ==
  LET kept == IF PandasRoute(x, cats) THEN cats \intersect Places(x) ELSE {}
  IN  [floats |-> Places(x) \ kept, cats |-> kept, label |-> y.items, grouped |-> FALSE]

(* A Pool declares its own columns and carries its own label.              *)
Pooled(x, y, cats) ==
  IF x.form = "pool"
  THEN cats = <<>> /\ Ingests(x.data, x.label, x.declared)
  ELSE /\ IsInjective(cats)
       /\ Ingests(x, y, Range(cats))
       /\ Cardinality(ingest_to_owned(x, y, Range(cats)).cats) = Len(cats)
data_to_pool(x, y, cats) ==
  IF x.form = "pool"
  THEN [ingest_to_owned(x.data, x.label, x.declared) EXCEPT !.grouped = x.grouped]
  ELSE ingest_to_owned(x, y, Range(cats))

(* One eval set is a Pool or a pair; each takes the fit's columns.         *)
EvalPooled(item, cats) ==
  CASE Len(item) = 1 -> item[1].form = "pool" /\ Pooled(item[1], NoLabel, <<>>)
    [] Len(item) = 2 -> Pooled(item[1], item[2], cats)
    [] OTHER -> FALSE
one_eval_pool(item, cats) ==
  IF Len(item) = 1 THEN data_to_pool(item[1], NoLabel, <<>>) ELSE data_to_pool(item[1], item[2], cats)

CatsGiven(params, f) == f.cats.given \/ "cat_features" \notin DOMAIN params \/ params.cat_features.type = "list"
resolve_cat_features(params, f) ==
  IF f.cats.given THEN f.cats.items
  ELSE IF "cat_features" \in DOMAIN params THEN params.cat_features.items ELSE <<>>

-----------------------------------------------------------------------------
(* Class names. *)

NamesRead(params) ==
  is_set(params, "class_names") =>
    /\ params.class_names.type = "list"
    /\ Len(params.class_names.items) = 2
    /\ IsInjective(params.class_names.items)
read_class_names(kind, params) ==
  IF kind = "classifier" /\ is_set(params, "class_names") THEN params.class_names.items ELSE <<>>

encode_labels(y, names) ==
  IF names = <<>> \/ ~y.given THEN y
  ELSE [given |-> TRUE, f32 |-> TRUE,
        items |-> [r \in DOMAIN y.items |-> -1 + CHOOSE i \in DOMAIN names : names[i] = y.items[r]]]
decode_labels(classes, names) ==
  IF names = <<>> THEN classes ELSE [r \in DOMAIN classes |-> names[classes[r] + 1]]

-----------------------------------------------------------------------------
(* fit. *)

NoModel == [kind |-> "none"]
EstimatorBase(kind, params, model) ==
  [kind |-> kind, params |-> params, model |-> model, cat_features |-> <<>>, class_names |-> <<>>]
is_fitted(object) == object.model.kind # "none"

(* Everything fit checks before it trains.                                 *)
FitAccepted(object, f) ==
  /\ validate_params(object.params)
  /\ object.kind # "classifier" => validate_no_classifier_only_params(object.params)
  /\ CatsGiven(object.params, f)
  /\ object.kind = "classifier" => NamesRead(object.params)
  /\ \E cats \in {resolve_cat_features(object.params, f)},
        names \in {read_class_names(object.kind, object.params)} :
       /\ names # <<>> /\ f.y.given => Range(f.y.items) \subseteq Range(names)
       /\ Pooled(f.x, encode_labels(f.y, names), cats)
       /\ object.kind = "ranker" => f.x.form = "pool" /\ f.x.grouped
       /\ \A i \in DOMAIN f.evals : EvalPooled(f.evals[i], cats)
  /\ f.evals = <<>> => validate_eval_set_only_params(object.params)
  /\ BuilderAccepts(object.params)

FitPool(object, f) ==
  data_to_pool(f.x, encode_labels(f.y, read_class_names(object.kind, object.params)),
               resolve_cat_features(object.params, f))

(* Training wants a label and eval sets of its own shape, and may fail.    *)
Trains(object, f) ==
  /\ ~f.fails
  /\ \E pool \in {FitPool(object, f)} :
       /\ pool.label # <<>>
       /\ \A i \in DOMAIN f.evals :
            \E other \in {one_eval_pool(f.evals[i], resolve_cat_features(object.params, f))} :
              /\ Cardinality(other.floats) = Cardinality(pool.floats)
              /\ Cardinality(other.cats) = Cardinality(pool.cats)

Trained(object, f) ==
  LET pool == FitPool(object, f)
  IN  [kind |-> "trained", options |-> Builder(object.kind, object.params),
       floats |-> pool.floats, cats |-> pool.cats, label |-> pool.label, values |-> f.values]

(* Mutant: the columns and the names are remembered before training.       *)
RemembersTooSoon(object, f) ==
  IF FitAccepted(object, f)
  THEN [object EXCEPT !.model = IF Trains(object, f) THEN Trained(object, f) ELSE @,
                      !.cat_features = resolve_cat_features(object.params, f),
                      !.class_names = read_class_names(object.kind, object.params)]
  ELSE object

(* A fit that fails leaves the model it had, with its columns and names.   *)
AfterFit(object, f) ==
  IF FitAccepted(object, f) /\ Trains(object, f)
  THEN [object EXCEPT !.model = Trained(object, f),
                      !.cat_features = resolve_cat_features(object.params, f),
                      !.class_names = read_class_names(object.kind, object.params)]
  ELSE object

-----------------------------------------------------------------------------
(* Calls on the object. *)

Nobody == [kind |-> "nobody"]
Silence == [kind |-> "silence"]
Refused == [kind |-> "raised"]
NoFit == [kind |-> "none"]

New ==
  /\ held = Nobody
  /\ \E s \in Sessions :
       /\ menu' = s
       /\ held' = EstimatorBase(s.kind, s.kwargs, NoModel)
       /\ said' = <<s.kwargs>>
       /\ left' = s.calls
  /\ UNCHANGED <<lastFit, reply>>

Called ==
  /\ held # Nobody
  /\ left > 0
  /\ left' = left - 1
  /\ UNCHANGED menu

set_params ==
  /\ Called
  /\ \E given \in menu.settings :
       /\ held' = [held EXCEPT !.params = Over(given, @)]
       /\ said' = Append(said, given)
  /\ reply' = Silence
  /\ UNCHANGED lastFit

fit_called ==
  /\ Called
  /\ \E f \in menu.fits :
       /\ held' = AfterFit(held, f)
       /\ IF FitAccepted(held, f) /\ Trains(held, f)
          THEN lastFit' = [kind |-> "fit", said |-> said, call |-> f] /\ reply' = Silence
          ELSE UNCHANGED lastFit /\ reply' = Refused
  /\ UNCHANGED said

(* The model refuses a pool of another shape.                              *)
Scored(x) ==
  /\ is_fitted(held)
  /\ Pooled(x, NoLabel, IF x.form = "pool" THEN <<>> ELSE held.cat_features)
  /\ \E pool \in {data_to_pool(x, NoLabel, held.cat_features)} :
       /\ Cardinality(pool.floats) = Cardinality(held.model.floats)
       /\ Cardinality(pool.cats) = Cardinality(held.model.cats)
Classes(values) == [r \in DOMAIN values |-> IF values[r] > 0 THEN 1 ELSE 0]
Predicted ==
  IF held.kind = "classifier"
  THEN decode_labels(Classes(held.model.values), held.class_names) ELSE held.model.values

predict ==
  /\ Called
  /\ \E x \in menu.inputs :
       reply' = IF ~Scored(x) THEN Refused
                ELSE LET pool == data_to_pool(x, NoLabel, held.cat_features)
                     IN  [kind |-> "predicted", input |-> x, floats |-> pool.floats,
                          cats |-> pool.cats, values |-> Predicted]
  /\ UNCHANGED <<held, said, lastFit>>

accuracy_score(y, classes) ==
  <<Cardinality({r \in DOMAIN y : y[r] = classes[r]}), Len(y)>>
Total(numbers) == FoldLeft(LAMBDA a, v : a + v, 0, numbers)
(* The sums of squares are taken about the mean, here times Len(y) twice.  *)
r2_score(y, pred) ==
  LET n == Len(y)
      spread == Total([r \in 1 .. n |-> (n * y[r] - Total(y)) * (n * y[r] - Total(y))])
      missed == n * n * Total([r \in 1 .. n |-> (y[r] - pred[r]) * (y[r] - pred[r])])
  IN  CASE n = 0 -> <<0, 1>>
        [] spread # 0 -> <<spread - missed, spread>>
        [] OTHER -> <<IF missed = 0 THEN 1 ELSE 0, 1>>

(* The classifier compares the indices it predicts, not their names.       *)
score ==
  /\ Called
  /\ held.kind # "ranker"
  /\ \E x \in menu.inputs, y \in menu.labels :
       reply' = IF ~Scored(x) \/ ~y.f32 \/ Len(y.items) # Len(held.model.values) THEN Refused
                ELSE [kind |-> "scored", of |-> IF held.kind = "classifier"
                        THEN accuracy_score(y.items, Classes(held.model.values))
                        ELSE r2_score(y.items, held.model.values)]
  /\ UNCHANGED <<held, said, lastFit>>

classes_ ==
  /\ Called
  /\ held.kind = "classifier"
  /\ reply' = IF ~is_fitted(held) \/ held.class_names = <<>> THEN Refused
              ELSE [kind |-> "classes", names |-> held.class_names]
  /\ UNCHANGED <<held, said, lastFit>>

(* A loaded model, and a sum of models, come without parameters, columns   *)
(* and names.                                                              *)
Replaced(model) ==
  /\ held' = EstimatorBase(held.kind, [x \in {} |-> Nil], model)
  /\ said' = <<>>
  /\ lastFit' = NoFit
  /\ reply' = Silence
load_model ==
  /\ Called
  /\ held.kind # "ranker"
  /\ \E model \in menu.files : Replaced(model)
sum_models ==
  /\ Called
  /\ held.kind = "regressor"
  /\ menu.files # {}
  /\ IF is_fitted(held)
     THEN Replaced([held.model EXCEPT !.values = [r \in DOMAIN @ |-> 2 * @[r]]])
     ELSE reply' = Refused /\ UNCHANGED <<held, said, lastFit>>

EstimatorInit ==
  /\ menu = Nobody /\ held = Nobody /\ said = <<>> /\ lastFit = NoFit
  /\ reply = Silence /\ left = 0

EstimatorNext ==
  New \/ set_params \/ fit_called \/ predict \/ score \/ classes_ \/ load_model \/ sum_models

EstimatorDone == held # Nobody /\ left = 0

-----------------------------------------------------------------------------
(* What a caller may rely on. *)

(* Names that are read elsewhere than in make_builder, or by nobody.       *)
Elsewhere == {"task_type", "cat_features", "class_names", "logging_level", "verbose", "silent",
              "metric_period"}
(* Options another name sets as well.                                      *)
Shared == {"od_type", "od_wait", "max_ctr_complexity"}

Uses(words, name) ==
  {s \in Range(Spellings(name)) : \E k \in DOMAIN words : s \in DOMAIN words[k]}
LastUse(words, spelling) ==
  CHOOSE k \in DOMAIN words :
    /\ spelling \in DOMAIN words[k]
    /\ \A j \in k + 1 .. Len(words) : spelling \notin DOMAIN words[j]
LastWord(words, spelling) == words[LastUse(words, spelling)][spelling]

(* What a name has been given under one spelling only is trained as it was *)
(* given last; a name nobody gave, or gave as None, is not set.            *)
LastWordIsTrained(words, options) ==
  \A name \in (IMPLEMENTED \ Elsewhere) \ Shared :
    CASE Uses(words, name) = {} ->
           name \in DOMAIN options => (name = "loss_function" /\ options[name] = Logloss)
      [] Cardinality(Uses(words, name)) = 1 ->
           \A s \in Uses(words, name) :
             IF LastWord(words, s) = Nil THEN name \notin DOMAIN options
             ELSE name \in DOMAIN options /\ options[name] = Told(name, LastWord(words, s))
      [] OTHER -> TRUE

(* The labels of the last fit come back as they were given.                *)
LabelsComeBack ==
  lastFit.call.x.form # "pool" =>
    decode_labels(held.model.label, held.class_names) = lastFit.call.y.items

(* After any calls, and any that failed, the object is that of one fit:    *)
(* its options are the caller's last words, its names give back that fit's *)
(* labels, and a prediction reads each column as that fit did.             *)
EstimatorKeepsItsWord ==
  lastFit # NoFit =>
    /\ LastWordIsTrained(lastFit.said, held.model.options)
    /\ LabelsComeBack
    /\ (reply.kind = "predicted" /\ reply.input.form # "pool") =>
          reply.floats = held.model.floats /\ reply.cats = held.model.cats
=============================================================================
