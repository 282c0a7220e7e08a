--------------------------- MODULE MCLibraryCalls ---------------------------
(***************************************************************************)
(* Fits: columns of two to twelve values, every way to choose borders,     *)
(* budgets of none to four, and pools of two float and three categorical   *)
(* columns given in every form, with ignored features, weights and eval    *)
(* sets.  Searches: pools of four to six rows, with groups of one to three *)
(* and without, two or three folds, up to four candidates that tie, fail   *)
(* on one fold or return a metric that is not a number.  Selections: up to *)
(* five features in up to four steps with ties between importances.        *)
(* Estimators: every name with values in and out of its range, and three   *)
(* calls among changes of names and options, fits of any form of data,     *)
(* good and bad, predictions, scores and loaded models.  Options: every    *)
(* policy, kind of boosting, sampler and kind of columns with sixteen      *)
(* losses and leaf methods, and with one option changed for three of them. *)
(***************************************************************************)
EXTENDS LibraryCalls

MCBase == <<>>

(* What a candidate yields depends on its parameters and on the fold.      *)
Mix(p) == FoldLeft(LAMBDA a, b : 3 * a + b, 0, p) % 7
MCLearns(p, k) ==
  CASE Mix(p) = 4 -> IF k = 2 THEN Failed ELSE <<1, 1>>
    [] Mix(p) = 5 -> <<NotFinite, NotFinite>>
    [] Mix(p) = 6 -> <<NotFinite, k>>
    [] OTHER -> <<(Mix(p) * k) % 4, (Mix(p) + k) % 3>>
MCRefits(p) == Mix(p) # 2

Pool(n, ids) == [rows |-> n, groups |-> ids, cats |-> FALSE, pairs |-> FALSE]
Ungrouped == {Pool(n, <<>>) : n \in {1, 4, 5}}
Grouped == {Pool(5, <<7, 7, 3, 5, 5>>), Pool(6, <<4, 4, 4, 2, 8, 8>>), Pool(4, <<7, 3, 7, 7>>)}
Odd == {[Pool(4, <<>>) EXCEPT !.cats = TRUE], [Pool(4, <<>>) EXCEPT !.pairs = TRUE]}

Orders(n) == {Rows(n), [i \in 1 .. n |-> IF i = n THEN 1 ELSE i + 1]}

Asked(kind, grid, pool) ==
  [kind |-> kind, grid |-> grid, pool |-> pool, explicit |-> FALSE, list |-> <<>>,
   fold_count |-> 2, order |-> Rows(Items(pool)), inverted |-> FALSE, ranking |-> pool.groups # <<>>,
   sample |-> Rows(Len(expand_param_grid(grid))), n_iter |-> 2, error_score |-> NotFinite,
   raise |-> FALSE, refit |-> TRUE]

TwoByTwo == <<<<1, 2>>, <<1, 2>>>>
Line == <<<<1, 4, 2>>>>
Sick == <<<<4, 5>>>>

(* Every shape of folds, for two candidates.                               *)
ByFolds ==
  UNION {UNION {{[Asked("grid", <<<<1, 3>>>>, pool) EXCEPT !.fold_count = c, !.inverted = i, !.order = o] :
                   o \in Orders(Items(pool))} : c \in {1, 2, 3, 4}, i \in BOOLEAN} :
         pool \in Ungrouped \union Grouped}
ByList ==
  {[Asked("grid", <<<<1, 3>>>>, pool) EXCEPT !.explicit = TRUE, !.list = l] :
     pool \in {Pool(4, <<>>), Pool(4, <<7, 7, 3, 3>>)},
     l \in {<<>>, <<<<1, 2>>>>, <<<<1, 2>>, <<3, 4>>>>, <<<<1, 3>>, <<2, 4>>>>,
            <<<<1, 5>>, <<2>>>>, <<<<1, 2, 3, 4>>, <<1>>>>, <<<<2, 1, 1>>, <<>>>>}}
(* Every way to choose among three or four candidates.                     *)
ByScore ==
  {[Asked("grid", g, Pool(4, <<>>)) EXCEPT !.ranking = m, !.error_score = e, !.raise = x, !.refit = f] :
     g \in {TwoByTwo, Line, Sick}, m \in BOOLEAN, e \in {NotFinite, 0, 9}, x \in BOOLEAN, f \in BOOLEAN}
BySample ==
  {[Asked("randomized", g, Pool(4, <<>>)) EXCEPT !.sample = s, !.n_iter = n, !.ranking = m] :
     g \in {TwoByTwo}, n \in {0, 1, 2, 3, 9}, m \in BOOLEAN,
     s \in {<<3, 1, 4, 2>>, <<2, 4, 1, 3>>, <<4, 3, 2, 1>>}}
Crossed ==
  {[Asked("cv", <<>>, pool) EXCEPT !.refit = FALSE, !.fold_count = c] :
     pool \in {Pool(1, <<>>), Pool(4, <<>>)}, c \in {2, 3}}
  \union {[Asked("cv", <<<<p>>>>, Pool(4, <<>>)) EXCEPT !.refit = FALSE] : p \in {4, 5}}
Turned == {Asked("grid", <<<<1, 3>>>>, pool) : pool \in Odd}
  \union {Asked("grid", <<<<1>>, <<>>>>, Pool(4, <<>>))}

MCRequests == ByFolds \union ByList \union ByScore \union BySample \union Crossed \union Turned

MCImportance(kept, f) == (f * (1 + Cardinality(kept)) + 2) % 4
MCSelections ==
  {[features |-> 6, bordered |-> 6, selectable |-> s, keep |-> k, steps |-> n, final |-> x] :
     s \in {<<2, 3, 5, 6>>, <<6, 1, 4, 2, 3>>, <<1, 2, 3, 4, 5, 6>>, <<5>>, <<2, 2, 4>>, <<3, 7>>},
     k \in 0 .. 4, n \in 0 .. 4, x \in BOOLEAN}
  \union {[features |-> 6, bordered |-> b, selectable |-> <<2, 3>>, keep |-> 1, steps |-> 1, final |-> FALSE] :
            b \in {5, 7}}

-----------------------------------------------------------------------------
(* Fits. *)

(* The logarithms of 1 to 12, in millionths. *)
Logs == <<0, 693147, 1098612, 1386294, 1609438, 1791759, 1945910,
       2079442, 2197225, 2302585, 2397895, 2484907>>
MCLn(w) == Logs[w]
(* The sample of a long column: its last places, from the end. *)
MCDrawn(n, m) == [k \in 1..m |-> n + 1 - k]
(* Two values of one hash. *)
MCCatHash(v) == CASE v \in {"b", "c"} -> "#b" [] OTHER -> v

Owned(floats, label) ==
    [kind |-> "owned", floats |-> floats, f32 |-> <<>>, cats |-> <<>>, label |-> label,
     weights |-> <<>>, groups |-> <<>>, baseline |-> <<>>, pairs |-> <<>>]
Fit(source) ==
    [call |-> "fit", source |-> source, evals |-> <<>>, ignored |-> <<>>, border_count |-> 2,
     type |-> "GreedyLogSum", nan_mode |-> "Min", classification |-> FALSE, class_weights |-> <<>>,
     auto |-> "None", scale |-> 1, save_snapshot |-> FALSE, snapshot_file |-> TRUE,
     backtracking |-> "AnyImprovement", one_hot_max_size |-> 2]

(* The borders of one column. *)
Wide(column) == [k \in DOMAIN column |-> IF column[k] = NaN THEN NaN ELSE Fine * column[k]]
Columns == {<<8, 10, 10, 10, 10, 12, 14, 16, 16, 18, 18>>, <<9, 10, 10>>, <<8, 8, 8, 10, 12, 12>>, <<9, 8, 15, 10, 11, 10>>,
            <<8, 8, 8>>, <<15, 8>>, <<NaN, 12, 8, 10, 12>>, <<NaN, NaN>>, <<12, 8, 10, 8, 14, NaN, 16, 12, 8, 20, 10, 12>>}
ByBorders ==
    {[Fit(Owned(<<Wide(c)>>, [k \in DOMAIN c |-> 0])) EXCEPT !.type = t, !.border_count = n, !.nan_mode = m] :
       c \in Columns, t \in Types, n \in 0..4, m \in NanModes}
Quantized ==
    {[Fit(Owned(<<Wide(c)>>, [k \in DOMAIN c |-> 0])) EXCEPT !.call = "quantize", !.border_count = n, !.nan_mode = m] :
       c \in Columns, n \in {1, 3, 4, 6, 7}, m \in NanModes}

(* Pools. *)
A == <<33, 41, 39, 32>>
B == <<40, NaN, 60, 40>>
Label == <<0, 2, 2, 4>>
Two == Owned(<<A, B>>, Label)
Mixed == [Two EXCEPT !.cats = <<<<"a", "b", "a", "a">>, <<"d", "a", "c", "b">>, <<"x", "x", "x", "x">>>>]
Cell(c, ok) == [f64 |-> ok, cells |-> c]
Arrow(d) == [kind |-> "arrow", floats |-> <<Cell(A, TRUE), Cell(<<40, Null, 60, NaN>>, TRUE)>>,
             label |-> Cell(Label, TRUE), declared |-> d]
Polars(n) == [kind |-> "polars", frame |-> [a |-> Cell(A, TRUE), b |-> Cell(<<Null, 50, 60, 44>>, TRUE),
                                           i |-> Cell(A, FALSE), y |-> Cell(Label, TRUE)],
              names |-> n, label_name |-> "y", declared |-> <<FALSE, TRUE>>]
Sources ==
    {Two, Mixed, Arrow(<<>>), Arrow(<<TRUE>>), Arrow(<<FALSE, TRUE>>), Polars(<<"a">>), Polars(<<"b", "a">>),
     Polars(<<"a", "b">>), Polars(<<"i">>), Polars(<<"z">>),
     [Arrow(<<>>) EXCEPT !.floats[2].cells = <<40>>], [Arrow(<<>>) EXCEPT !.label.cells = <<0, Null, 2, 4>>],
     [Two EXCEPT !.f32 = <<<<8, 10, 10, 8>>, <<10, NaN, 15, 10>>>>], [Two EXCEPT !.f32 = <<<<8, 10, 10, 8>>>>],
     [Two EXCEPT !.weights = <<2, 1, 1, 1>>], [Two EXCEPT !.weights = <<2, 1>>],
     [Two EXCEPT !.pairs = <<[winner |-> 1, loser |-> 3]>>], [Two EXCEPT !.pairs = <<[winner |-> 4, loser |-> 0]>>]}
BySource ==
    {[Fit(s) EXCEPT !.ignored = i, !.one_hot_max_size = o, !.nan_mode = m] :
       s \in Sources, i \in {<<>>, <<1>>, <<2>>, <<0, 3>>, <<3, 4>>, <<5>>}, o \in {1, 2, 4}, m \in NanModes}
Weighed == {Two, [Two EXCEPT !.weights = <<2, 1, 1, 1>>], [Two EXCEPT !.weights = <<2, 1, 1, 0>>],
            [Two EXCEPT !.label = <<>>], [Two EXCEPT !.label = <<>>, !.weights = <<2, 1, 1, 1>>],
            [Two EXCEPT !.label = <<0, 1, 2, 2>>],
            [Two EXCEPT !.label = <<0, 2, 2, 0>>], [Two EXCEPT !.label = <<4, 2, NaN, 0>>], [Two EXCEPT !.label = <<4, 0, 4, 4>>]}
ByWeight ==
    {[Fit(s) EXCEPT !.classification = l, !.class_weights = w, !.auto = a, !.scale = x] :
       s \in Weighed, l \in BOOLEAN, w \in {<<>>, <<1, 3>>, <<2, 1, 5>>},
       a \in {"None", "Balanced", "SqrtBalanced"}, x \in {1, 3}}
ByCall ==
    {[Fit(s) EXCEPT !.evals = e, !.save_snapshot = v, !.snapshot_file = p, !.backtracking = b] :
       s \in {Two, Mixed, [Two EXCEPT !.weights = <<2, 1, 1, 1>>]},
       e \in {<<>>, <<[floats |-> 2, cats |-> 0]>>, <<[floats |-> 2, cats |-> 3], [floats |-> 2, cats |-> 3]>>,
              <<[floats |-> 1, cats |-> 0]>>},
       v \in BOOLEAN, p \in BOOLEAN, b \in {"No", "Armijo"}}
MCFits == ByBorders \union Quantized \union BySource \union ByWeight \union ByCall

-----------------------------------------------------------------------------
(* Estimators. *)

Num(n) == [type |-> "int", n |-> 10 * n]
Tenths(n) == [type |-> "float", n |-> n]
Word(s) == [type |-> "word", s |-> s]
Flag(b) == [type |-> "flag", b |-> b]
Many(s) == [type |-> "list", items |-> s]
Ctr(t, k, d) == [ctr_type |-> t, keys |-> k, denominators |-> d]
Descriptions(s) == [type |-> "descriptions", items |-> s]

(* One value in range and two out of range for each kind of option. *)
Samples(name) ==
  CASE name \in DOMAIN Numbers ->
         {Num(1), Num(-1), Tenths(3), Tenths(25), [type |-> "infinite"], Word("1"), Nil}
    [] name \in DOMAIN Words -> {Word(w) : w \in Words[name]} \union {Word("Region"), Num(1), Nil}
    [] name = "monotone_constraints" ->
         {Many(<<1, 0>>), Many(<<2>>), [type |-> "text", items |-> <<-1>>],
          [type |-> "dict", entries |-> (2 :> 1) @@ (0 :> -1)], Nil, Word("1")}
    [] name \in {"simple_ctr", "combinations_ctr"} ->
         {Nil, Descriptions(<<>>), Descriptions(<<Ctr("Counter", {"Prior"}, {1})>>), Descriptions(<<Ctr("FeatureFreq", {}, {})>>),
          Descriptions(<<Ctr("Borders", {"Prior"}, {1, 2})>>), Descriptions(<<Ctr("Borders", {"TargetBorderCount"}, {})>>),
          Descriptions(<<Ctr("Borders", {}, {}), Ctr("Counter", {}, {})>>)}
    [] OTHER -> {Nil, Num(2), Word("GPU"), Word("CPU"), Word("Debug"), Flag(TRUE), Many(<<1, -1>>), Many(<<2>>)}

Numpy(n) == [form |-> "numpy", columns |-> [i \in 1 .. n |-> "f32"], rows |-> 3]
Pandas(c, capsule) == [form |-> "pandas", columns |-> c, rows |-> 3, capsule |-> capsule]
Frame == Pandas(<<"f32", "int", "obj">>, TRUE)
Plain == Pandas(<<"f32", "f32", "f32">>, TRUE)
Y(items) == [given |-> TRUE, f32 |-> TRUE, items |-> items]
ThePool(x, d, g) == [form |-> "pool", data |-> x, label |-> Y(<<0, 1, 1>>), declared |-> d, grouped |-> g]
Strings(items) == [given |-> TRUE, f32 |-> FALSE, items |-> items]
Unsaid == [given |-> FALSE, items |-> <<>>]
Cats(s) == [given |-> TRUE, items |-> s]
Call(x, y, c) == [x |-> x, y |-> y, cats |-> c, evals |-> <<>>, values |-> <<-2, 1, 3>>, fails |-> FALSE]

Session(kind, kwargs) ==
  [kind |-> kind, kwargs |-> kwargs, calls |-> 1, settings |-> {}, labels |-> {}, inputs |-> {}, files |-> {},
   fits |-> {Call(Numpy(2), Y(<<0, 1, 1>>), Unsaid)}]

EveryName == IMPLEMENTED \union {"langevin", "verbose_eval", "depht"}
  \union UNION {Range(ALIASES[c]) : c \in DOMAIN ALIASES}
OneOption == UNION {{Session("regressor", (name :> v)) : v \in Samples(resolve_alias(name))} : name \in EveryName}
OneStop == UNION {{[Session("classifier", (name :> v)) EXCEPT
                       !.fits = {[Call(Numpy(2), Y(<<0, 1, 1>>), Unsaid) EXCEPT !.evals = <<<<Numpy(2), Y(<<1, 0, 1>>)>>>>]}] :
                     v \in Samples(name)} : name \in EVAL_SET_ONLY}

Nothing == [x \in {} |-> Nil]
TwoSpellings ==
  {(a :> u) @@ (b :> v) :
     a \in {"depth", "early_stopping_rounds", "combinations_ctr", "verbose"}, u \in {Num(2), Num(3), Descriptions(<<>>)},
     b \in {"max_depth", "od_wait", "max_ctr_complexity", "silent"}, v \in {Num(4)}}
Both == {[Session(k, p) EXCEPT !.calls = 2, !.settings = {[max_depth |-> Num(5)], [depth |-> Nil]}] :
           p \in TwoSpellings, k \in {"classifier"}}

Names(items) == [class_names |-> Many(items)]
TheFits ==
  {[Call(x, y, c) EXCEPT !.fails = b] :
     x \in {Frame, Plain, Numpy(3)}, y \in {Y(<<0, 1, 1>>), Strings(<<7, 5, 7>>), NoLabel},
     c \in {Unsaid, Cats(<<3>>), Cats(<<2, 3>>), Cats(<<3, 3>>), Cats(<<1>>)}, b \in BOOLEAN}
  \union
  {[Call(x, NoLabel, Unsaid) EXCEPT !.evals = e] :
     x \in {ThePool(Frame, {3}, TRUE), ThePool(Numpy(3), {}, FALSE)},
     e \in {<<>>, <<<<ThePool(Frame, {3}, FALSE)>>>>, <<<<Numpy(3), Y(<<1, 1, 0>>)>>>>, <<<<Numpy(3)>>>>,
            <<<<Frame, Y(<<1, 1, 0>>)>>, <<>>>>}}
TheInputs == {Frame, Plain, Numpy(2), ThePool(Frame, {3}, FALSE)}
File(n, c) == [kind |-> "trained", options |-> Nothing, floats |-> 1 .. n, cats |-> c, label |-> <<>>, values |-> <<4, 0, 1>>]
Long ==
  {[kind |-> k, kwargs |-> p, calls |-> 3,
    settings |-> {Names(<<7, 5>>), [class_names |-> Nil], [depth |-> Num(3)], [eta |-> Tenths(2)]},
    fits |-> TheFits, inputs |-> TheInputs, files |-> {File(3, {}), File(2, {3})},
    labels |-> {Y(<<0, 1, 1>>), Y(<<5, 7, 7>>), Y(<<1, 1, 1>>), Strings(<<7, 7, 5>>), Y(<<1>>)}] :
     k \in {"classifier", "regressor", "ranker"},
     p \in {Nothing, Names(<<5, 7>>), Names(<<5>>), [cat_features |-> Many(<<3>>), depth |-> Num(2)]}}
MCSessions == OneOption \union OneStop \union Both \union Long

(* Line and borders of a device that a pool of three bins fits.            *)
Wish ==
  [entry |-> "fit", evalColumnsFit |-> TRUE, loss |-> "RMSE", parameters |-> <<>>,
   labels |-> 1, leaf_method |-> "Gradient", grow_policy |-> "SymmetricTree", boosting_type |-> "Plain",
   bootstrap_type |-> "No", score_function |-> "Cosine", ctr_type |-> "Borders",
   columns |-> "floats", evals |-> FALSE, groups |-> FALSE, weights |-> "unit", rsm |-> 10,
   random_strength |-> 0, penalties |-> FALSE, monotone_constraints |-> {},
   langevin |-> "unset", posterior_sampling |-> FALSE, diffusion_temperature |-> -1,
   model_shrink_rate |-> -1, model_shrink_mode |-> "Constant", leaf_estimation_iterations |-> 1,
   backtracking |-> "No", model_size_reg |-> "default", auto_learning_rate |-> FALSE,
   constant_label |-> FALSE, allow_const_label |-> FALSE, ctr_history_unit |-> "Sample",
   sampling_unit |-> "Object", sampling_frequency |-> "PerTree", permutation_count |-> 1,
   depth |-> 1, bins |-> 3, narrow_borders |-> TRUE]

Shaped(samplers, kinds) ==
  {[Wish EXCEPT !.grow_policy = g, !.boosting_type = t, !.bootstrap_type = b, !.columns = c] :
     g \in {"SymmetricTree", "Depthwise", "Lossguide", "Region"}, t \in {"Plain", "Ordered"},
     b \in samplers, c \in kinds}
Lossy(w, l) ==
  [w EXCEPT !.loss = l[1], !.leaf_method = l[2], !.labels = l[3],
            !.entry = IF l[1] \in GroupedLosses /\ w.columns = "floats" THEN "train_ranking" ELSE "fit",
            !.groups = l[1] \in GroupedLosses /\ w.columns = "floats"]
ByLoss ==
  {Lossy(w, l) :
     w \in Shaped({"No", "Bayesian", "Mvs", "Poisson"}, {"floats", "one_hot", "ctr", "both"}),
     l \in ({"RMSE", "Logloss"} \X {"Gradient", "Newton"} \X {1})
             \union ({"MAE", "LogCosh"} \X {"Exact", "Gradient"} \X {1})
             \union {<<"RMSE", "Exact", 1>>, <<"MultiQuantile", "Exact", 1>>,
                     <<"MultiClass", "Newton", 1>>,
                     <<"MultiClassOneVsAll", "Gradient", 1>>, <<"MultiLogloss", "Newton", 2>>,
                     <<"QueryRMSE", "Gradient", 1>>, <<"PairLogitPairwise", "Newton", 1>>}}

ByOption ==
  UNION {{[w EXCEPT !.weights = "other"], [w EXCEPT !.rsm = 5], [w EXCEPT !.rsm = 11],
          [w EXCEPT !.random_strength = 1], [w EXCEPT !.penalties = TRUE],
          [w EXCEPT !.monotone_constraints = {0, 1}], [w EXCEPT !.monotone_constraints = {2}],
          [w EXCEPT !.langevin = "on"], [w EXCEPT !.model_shrink_rate = 1],
          [w EXCEPT !.leaf_estimation_iterations = 2], [w EXCEPT !.model_size_reg = "other"],
          [w EXCEPT !.auto_learning_rate = TRUE], [w EXCEPT !.permutation_count = 2],
          [w EXCEPT !.evals = (w.entry = "fit")], [w EXCEPT !.bins = 4], [w EXCEPT !.bins = 5],
          [w EXCEPT !.narrow_borders = FALSE], [w EXCEPT !.sampling_frequency = "PerTreeLevel"]} :
         w \in {Lossy(v, l) : v \in Shaped({"No", "Mvs"}, {"floats", "one_hot", "ctr"}),
                              l \in {<<"RMSE", "Gradient", 1>>, <<"MAE", "Exact", 1>>,
                                     <<"PairLogitPairwise", "Gradient", 1>>}}}

ByRefusal ==
  {[Wish EXCEPT !.depth = 3], [Wish EXCEPT !.depth = 0], [Wish EXCEPT !.ctr_type = "FeatureFreq"],
   [Wish EXCEPT !.score_function = "Newton"], [Wish EXCEPT !.sampling_unit = "Group"],
   [Wish EXCEPT !.ctr_history_unit = "Group"], [Wish EXCEPT !.leaf_estimation_iterations = 0]}
  \union {[Wish EXCEPT !.loss = l[1], !.leaf_method = l[2], !.parameters = l[3]] :
            l \in {<<"Lq", "Newton", [q |-> v]>> : v \in 1 .. 4}
                  \union {<<"Lq", "Gradient", [q |-> v]>> : v \in 1 .. 2}
                  \union {<<"Quantile", "Exact", [alpha |-> a, delta |-> d]>> : a \in {-1, 0, 2, 3}, d \in -1 .. 1}
                  \union {<<"Huber", "Newton", [delta |-> d]>> : d \in -1 .. 1}
                  \union {<<"Tweedie", "Newton", [variance_power |-> v]>> : v \in 2 .. 4}}
  \union {[Wish EXCEPT !.entry = "train_ranking", !.groups = TRUE, !.loss = l[1], !.parameters = l[2]] :
            l \in {<<"QuerySoftMax", [lambda |-> a, beta |-> b]>> : a \in -1 .. 0, b \in 0 .. 1}
                  \union {<<"YetiRank", [permutations |-> n, decay |-> d]>> : n \in {0, 2}, d \in {-1, 1, 3}}
                  \union {<<"LambdaMart", [sigma |-> a, top |-> n]>> : a \in 0 .. 1, n \in {0, 2}}
                  \union {<<"StochasticRank", [sigma |-> 1, mu |-> u, num_estimations |-> n]>> :
                             u \in -1 .. 0, n \in {0, 2}}}
  \union {[Wish EXCEPT !.constant_label = TRUE, !.allow_const_label = a] : a \in BOOLEAN}
  \union {[Wish EXCEPT !.leaf_estimation_iterations = 2, !.backtracking = b] : b \in {"No", "AnyImprovement"}}

ByNoise ==
  {[Wish EXCEPT !.langevin = l, !.posterior_sampling = p, !.diffusion_temperature = t,
                !.model_shrink_rate = r, !.model_shrink_mode = m, !.leaf_method = v] :
     l \in {"unset", "on", "off"}, p \in BOOLEAN, t \in {-2, -1, 0, 2}, r \in {-1, 0, 1},
     m \in {"Constant", "Decreasing"}, v \in {"Gradient", "Newton"}}

(* Each entry with the data its signature takes.                           *)
ByEntry ==
  {[Wish EXCEPT !.entry = e, !.evals = v] : e \in {"train_with_eval", "train_with_eval_sets"}, v \in BOOLEAN}
  \union {[Wish EXCEPT !.entry = "train_ranking", !.groups = g] : g \in BOOLEAN}
  \union {[Wish EXCEPT !.entry = "train", !.weights = w] : w \in {"unit", "other"}}
  \union {[Wish EXCEPT !.entry = "train_cat", !.columns = c] : c \in {"floats", "one_hot", "ctr"}}
  \union {[Wish EXCEPT !.entry = "train_cat_with_eval_sets", !.columns = c, !.evals = v, !.evalColumnsFit = f] :
            c \in {"floats", "one_hot", "ctr"}, v \in BOOLEAN, f \in BOOLEAN}
  \union {[Wish EXCEPT !.columns = c, !.evals = v, !.groups = g, !.loss = l] :
            c \in {"floats", "one_hot", "ctr"}, v \in BOOLEAN, g \in BOOLEAN, l \in {"RMSE", "QueryRMSE"}}

(* Pairs of options that one guard or one branch decides on.               *)
ByPair ==
  {[Wish EXCEPT !.bootstrap_type = "Mvs", !.weights = "other", !.grow_policy = g] :
     g \in {"SymmetricTree", "Depthwise", "Region"}}
  \union {[Wish EXCEPT !.monotone_constraints = {1}, !.leaf_estimation_iterations = s, !.rsm = r, !.loss = l,
                       !.leaf_method = "Newton"] : s \in {1, 2}, r \in {5, 10}, l \in {"Logloss", "MultiClass"}}
  \union {[Wish EXCEPT !.langevin = "on", !.random_strength = 1, !.weights = "other", !.evals = v] : v \in BOOLEAN}
  \union {[Wish EXCEPT !.columns = "ctr", !.bins = n, !.model_size_reg = "other"] : n \in {3, 4}}
MCWishes == ByLoss \union ByOption \union ByRefusal \union ByNoise \union ByEntry \union ByPair
=============================================================================
