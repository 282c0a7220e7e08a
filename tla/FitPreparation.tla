---------------------------- MODULE FitPreparation ----------------------------
(***************************************************************************)
(* From a caller's columns to what the trees are grown on: the ingestion   *)
(* into a pool (cb-data: ingest, pool.rs), the fit up to the trainer       *)
(* (catboost-rs/src/builder.rs, cb-data/src/weights.rs) and the encoding   *)
(* of the categorical columns (cat_hash.rs, boosting.rs); before it, how a *)
(* float column becomes borders and bins (cb-data: borders.rs,             *)
(* border_types.rs, nan_mode.rs, quantize.rs, quantized_pool.rs).          *)
(* A value is an integer: a point of one binade of f32, so that rounding   *)
(* to f32 is rounding to an integer, ties to even.  Objects have weight 1  *)
(* for the borders.                                                        *)
(* The f64 numbers of a pool are counted in 1/Fine of the step between two *)
(* f32 numbers, labels in halves.  Rows and features are numbered from 1.  *)
(***************************************************************************)
EXTENDS Integers, Sequences, FiniteSets, SequencesExt, FiniteSetsExt

CONSTANTS
    NaN,
    Lowest, Highest,     \* f32::MIN and f32::MAX
    Ln(_),               \* the logarithm, in millionths
    MaxSubset,           \* MAX_SUBSET_SIZE_FOR_BUILD_BORDERS
    Drawn(_, _),         \* the fixed draw of some of n places
    U8Limit, U16Limit,   \* U8_BORDER_LIMIT, U16_BORDER_LIMIT
    Null,                \* no value, in an Arrow column
    Fine,
    Fits,                \* the fits to explore
    CatHash(_),          \* calc_cat_feature_hash
    MaxUniq              \* MAX_UNIQ_CAT_VALUES

Types == {"Median", "GreedyLogSum", "UniformAndQuantiles", "MinEntropy",
          "MaxLogSum", "Uniform", "GreedyMinEntropy"}
NanModes == {"Min", "Max", "Forbidden"}

Rounded(num, den) ==
    LET low == num \div den  twice == 2 * (num % den)
    IN  IF twice < den \/ (twice = den /\ low % 2 = 0) THEN low ELSE low + 1
Midpoint(a, b) == Rounded(a + b, 2)

(* What Body makes of a value that is computed once.                       *)
With(value, Body(_)) == CHOOSE r \in {Body(v) : v \in {value}} : TRUE

(***************************************************************************)
(* The values a border is chosen from: of a long column a fixed sample.    *)
(***************************************************************************)
sample_indices_for_build_borders(n) == Drawn(n, MaxSubset)

gather_non_nan(column, places) ==
    SelectSeq([k \in DOMAIN places |-> column[places[k]]], LAMBDA v : v # NaN)

ValuesOf(column) ==
    IF Len(column) > MaxSubset
    THEN gather_non_nan(column, sample_indices_for_build_borders(Len(column)))
    ELSE SelectSeq(column, LAMBDA v : v # NaN)

real_border_budget(count, sentinel) == IF sentinel /\ count > 0 THEN count - 1 ELSE count

sort_f32_ascending(values) == SortSeq(values, LAMBDA a, b : a < b)

finalize_border_set(found, sentinel) ==
    (IF sentinel THEN <<Lowest>> ELSE <<>>) \o SetToSortSeq(found, LAMBDA a, b : a < b)

(***************************************************************************)
(* What a bin of w objects costs.                                          *)
(***************************************************************************)
Penalty(penalty, w) == IF penalty = "MaxSumLog" THEN -Ln(w) ELSE w * Ln(w)

(***************************************************************************)
(* The greedy search: a queue of bins, each with its better split at the   *)
(* ends of its middle value.  A bin holds places start+1 .. end.           *)
(***************************************************************************)
Never == -1000000000

calc_split_score(start, end, at, penalty) ==
    IF at \in {start, end} THEN Never
    ELSE Penalty(penalty, end - start) - Penalty(penalty, at - start) - Penalty(penalty, end - at)

Before(values, lo, hi, Test(_)) == lo + Cardinality({k \in (lo + 1)..hi : Test(values[k])})

(* The end of the middle value with the higher score, the lower on a tie. *)
Bin(values, start, end, seq, penalty) ==
    LET Ends(mid) == {Before(values, start, mid, LAMBDA v : v < values[mid + 1]),
                      Before(values, mid, end, LAMBDA v : v <= values[mid + 1])}
        splits == {[start |-> start, end |-> end, seq |-> seq, split |-> at,
                    score |-> calc_split_score(start, end, at, penalty)] :
                     at \in UNION {Ends(mid) : mid \in {start + (end - start) \div 2}}}
    IN  CHOOSE b \in splits :
          \A c \in splits : c.score < b.score \/ (c.score = b.score /\ c.split >= b.split)

CanSplit(bin) == bin.split \notin {bin.start, bin.end}

PoppedFirst(a, b) == a.score > b.score \/ (a.score = b.score /\ a.seq < b.seq)

Tops(queue) == {a \in queue : \A b \in queue \ {a} : PoppedFirst(a, b)}

Halve(queue, step, values, penalty) ==
    UNION {IF ~CanSplit(top) THEN queue
           ELSE (queue \ {top}) \union
                {Bin(values, top.start, top.split, 2 * step - 1, penalty),
                 Bin(values, top.split, top.end, 2 * step, penalty)} : top \in Tops(queue)}

greedy_split(values, max_borders, penalty) ==
    IF Len(values) < 2 THEN {}
    ELSE LET bins == FoldLeft(LAMBDA q, step : Halve(q, step, values, penalty),
                              {Bin(values, 0, Len(values), 0, penalty)},
                              [k \in 1..max_borders |-> k])
         IN  {Midpoint(values[b.start], values[b.start + 1]) : b \in {c \in bins : c.start > 0}}

(***************************************************************************)
(* The borders that look at values only.                                   *)
(***************************************************************************)
EqualWidth(values, max_borders) ==
    LET low == Min(ToSet(values))  high == Max(ToSet(values))
    IN  {low + Rounded(k * (high - low), max_borders + 1) : k \in 1..max_borders}

Constant(values) == Cardinality(ToSet(values)) <= 1

uniform_borders(values, max_borders) ==
    IF Constant(values) THEN {} ELSE EqualWidth(values, max_borders)

(* The border next to a value, between two that were seen.                 *)
\* Mutant: a midpoint that rounds up to the upper value is kept.
UpperMidpoint(border, sorted) ==
    LET below == Cardinality({k \in DOMAIN sorted : sorted[k] < border})
    IN  IF below = 0 THEN sorted[1] \div 2
        ELSE IF below = Len(sorted) THEN 2 * sorted[below]
        ELSE Midpoint(sorted[below], sorted[below + 1])

regular_border(border, sorted) ==
    LET below == Cardinality({k \in DOMAIN sorted : sorted[k] < border})
    IN  IF below = 0 THEN sorted[1] \div 2
        ELSE IF below = Len(sorted) THEN 2 * sorted[below]
        ELSE LET mid == Midpoint(sorted[below], sorted[below + 1])
             IN  IF mid = sorted[below + 1] THEN sorted[below] ELSE mid

generate_median_borders(sorted, max_borders) ==
    IF Constant(sorted) THEN {}
    ELSE LET quantile(k) == sorted[Min({(k * Len(sorted)) \div (max_borders + 1), Len(sorted) - 1}) + 1]
         IN  {regular_border(v, sorted) :
                v \in {quantile(k) : k \in 1..max_borders} \ {sorted[1]}}

median_plus_uniform_borders(sorted, max_borders) ==
    IF Constant(sorted) THEN {}
    ELSE generate_median_borders(sorted, max_borders - max_borders \div 2)
         \union {regular_border(v, sorted) : v \in EqualWidth(sorted, max_borders \div 2)}

(***************************************************************************)
(* The exact search over the distinct values and how often each was seen.  *)
(* Layer l covers the values up to place l + 1 + j with l + 2 bins; the    *)
(* last of them begins behind place l + i.  Places and indices start at 0. *)
(***************************************************************************)
group_and_sort_values(values) ==
    LET distinct == SetToSortSeq(ToSet(values), LAMBDA a, b : a < b)
    IN  [unique |-> distinct,
         weights |-> [k \in DOMAIN distinct |->
                        Cardinality({i \in DOMAIN values : values[i] = distinct[k]})]]

(* The last place of a run that never gets worse, from one that is better. *)
Climb(Cost(_), from, to) ==
    Min({k \in from..to : k = to \/ Cost(k + 1) > Cost(k)})
Improve(Cost(_), from, limit, incumbent) ==
    LET better == {k \in from..(limit - 2) : Cost(k) < incumbent}
    IN  IF better = {} THEN limit ELSE Climb(Cost, Min(better), limit - 2)

(* Two guesses of the best i of every j: b1 from below and b2 from above.  *)
ForwardPass(cost, d) ==
    LET scan == FoldLeft(LAMBDA a, j : [i |-> Climb(LAMBDA k : cost[j, k], a.i, j),
                                        b |-> Append(a.b, Climb(LAMBDA k : cost[j, k], a.i, j))],
                         [i |-> 0, b |-> <<>>], [k \in 1..d |-> k - 1])
    IN  [j \in 0..(d - 1) |-> scan.b[j + 1]]

(* One scan of the places in the order given, each from where the last     *)
(* one ended.                                                              *)
InvertedStep(cost, d, g, i, back) ==
    LET limit == d - g.b1[back] - 1
        found == Improve(LAMBDA k : cost[back, d - k - 1], i, limit, g.e1[back])
    IN  [i |-> found,
         g |-> [g EXCEPT !.b2[back] = d - found - 1,
                         !.e2[back] = IF found = limit THEN g.e1[back] ELSE cost[back, d - found - 1]]]

InvertedPass(cost, d, g) ==
    FoldLeft(LAMBDA a, j : InvertedStep(cost, d, a.g, Max({a.i, j}), d - j - 1),
             [i |-> 0, g |-> g], [k \in 1..d |-> k - 1]).g

ForwardStep(cost, g, i, j) ==
    LET found == Improve(LAMBDA k : cost[j, k], i, g.b2[j], g.e2[j])
    IN  [i |-> found,
         g |-> [g EXCEPT !.b1[j] = found,
                         !.e1[j] = IF found = g.b2[j] THEN g.e2[j] ELSE cost[j, found]]]

(* Where the guesses of place k leave room between them, both are redone.  *)
RepairForward(cost, d, g, k) ==
    FoldLeft(LAMBDA a, j :
                IF a.end < d THEN a
                ELSE IF a.i <= a.g.b1[j] THEN [a EXCEPT !.end = j]
                ELSE LET s == ForwardStep(cost, a.g, a.i, j) IN [i |-> s.i, g |-> s.g, end |-> d],
             [i |-> g.b1[k] + 2, g |-> g, end |-> d], [n \in 1..(d - k) |-> k + n - 1])

RepairInverted(cost, d, g, k, end) ==
    FoldLeft(LAMBDA a, j : InvertedStep(cost, d, a.g, a.i, d - j - 1),
             [i |-> d - g.b2[end - 1] + 1, g |-> g], [n \in 1..(end - k) |-> d - end + n - 1]).g

\* Mutant: the guesses that disagree are left as they are.
NeverRepaired(cost, d, g, k) == g

RepairOnce(cost, d, g, k) ==
    IF g.b1[k] + 1 >= g.b2[k] THEN g
    ELSE With(RepairForward(cost, d, g, k), LAMBDA f : RepairInverted(cost, d, f.g, k, f.end))

Guesses(cost, d, b1) ==
    LET e1 == [j \in 0..(d - 1) |-> cost[j, b1[j]]]
    IN  InvertedPass(cost, d, [b1 |-> b1, e1 |-> e1, b2 |-> b1, e2 |-> e1])

rlm2_layer(cost, d) ==
    With(FoldLeft(LAMBDA g, n : RepairOnce(cost, d, g, (n - 1) \div d),
                  With(ForwardPass(cost, d), LAMBDA b1 : Guesses(cost, d, b1)),
                  [n \in 1..(d * d) |-> n]),
         LAMBDA g : [best |-> g.b1, error |-> g.e1])

(* What it costs to end the last bin but one of layer l behind place i.    *)
LayerCost(error, sums, d, l, penalty) ==
    [j \in 0..(d - 1), i \in 0..(d - 1) |->
        IF i > j THEN 0 ELSE error[i] + Penalty(penalty, sums[l + j + 2] - sums[l + i + 1])]

Layers(sums, d, count, penalty) ==
    FoldLeft(LAMBDA ls, l : Append(ls, With(LayerCost(ls[l + 1].error, sums, d, l, penalty),
                                            LAMBDA cost : rlm2_layer(cost, d))),
             <<[best |-> <<>>, error |-> [i \in 0..(d - 1) |-> Penalty(penalty, sums[i + 1])]]>>,
             [l \in 1..count |-> l - 1])

(* The best end of the last layer, and back from it through the others.    *)
LastEnd(layers, sums, d, penalty) ==
    LET final == [i \in 0..(d - 1) |->
                    layers[Len(layers)].error[i]
                    + Penalty(penalty, sums[Len(sums)] - sums[Len(layers) + i])]
    IN  Min({i \in DOMAIN final : \A k \in DOMAIN final : final[i] <= final[k]})

Trace(layers, last) ==
    FoldRight(LAMBDA l, t : <<layers[l + 1].best[t[1]]>> \o t,
              [l \in 1..(Len(layers) - 1) |-> l], <<last>>)

Sums(weights) == [k \in DOMAIN weights |-> FoldLeft(LAMBDA a, b : a + b, 0, SubSeq(weights, 1, k))]

(* The ends of the bins, as places of distinct values from 0.              *)
exact_split(weights, max_borders, penalty) ==
    LET d == Len(weights) - max_borders
        Ends(layers, sums) ==
            With(Trace(layers, LastEnd(layers, sums, d, penalty)),
                 LAMBDA t : {t[k] + k - 1 : k \in DOMAIN t})
    IN  IF max_borders = 0 \/ Len(weights) <= 1 THEN {}
        ELSE IF max_borders + 1 >= Len(weights) THEN 0..(Len(weights) - 2)
        ELSE With(Sums(weights), LAMBDA sums :
               With(Layers(sums, d, max_borders - 1, penalty), LAMBDA layers : Ends(layers, sums)))

exact_borders(values, max_borders, penalty) ==
    With(group_and_sort_values(values), LAMBDA seen :
      {Midpoint(seen.unique[t + 1], seen.unique[t + 2]) :
         t \in {u \in exact_split(seen.weights, max_borders, penalty) : u + 1 # Len(seen.unique)}})

(***************************************************************************)
(* The seven ways to choose borders.                                       *)
(***************************************************************************)
Chosen(values, sorted, budget, type) ==
    CASE type = "GreedyLogSum" -> greedy_split(sorted, budget, "MaxSumLog")
      [] type = "GreedyMinEntropy" -> greedy_split(sorted, budget, "MinEntropy")
      [] type = "Uniform" -> uniform_borders(values, budget)
      [] type = "Median" -> generate_median_borders(sorted, budget)
      [] type = "UniformAndQuantiles" -> median_plus_uniform_borders(sorted, budget)
      [] type = "MaxLogSum" -> exact_borders(sorted, budget, "MaxSumLog")
      [] type = "MinEntropy" -> exact_borders(sorted, budget, "MinEntropy")

select_borders_from_values(values, count, type, sentinel) ==
    With(sort_f32_ascending(values), LAMBDA sorted :
      finalize_border_set(Chosen(values, sorted, real_border_budget(count, sentinel), type), sentinel))

select_borders(column, count, type, sentinel) ==
    With(ValuesOf(column), LAMBDA values : select_borders_from_values(values, count, type, sentinel))

(***************************************************************************)
(* Bins.                                                                   *)
(***************************************************************************)
HasNaN(column) == \E k \in DOMAIN column : column[k] = NaN

insert_sentinel(mode, borders) ==
    CASE mode = "Min" -> <<Lowest>> \o borders
      [] mode = "Max" -> Append(borders, Highest)
      [] OTHER -> borders

bin_of(borders, value) == Cardinality({k \in DOMAIN borders : value > borders[k]})

nan_bin(mode, borders) == IF mode = "Max" THEN Len(borders) ELSE 0

(* The narrowest unsigned integer that holds every bin of a float column.  *)
Limit(width) == CASE width = "u8" -> U8Limit [] width = "u16" -> U16Limit
\* Mutant: a width is taken for one border more than it can tell apart.
WideBinWidth(count) ==
    IF count <= U8Limit THEN "u8" ELSE IF count < U16Limit THEN "u16" ELSE "none"

select_bin_width(count) ==
    IF count < U8Limit THEN "u8" ELSE IF count < U16Limit THEN "u16" ELSE "none"

pack_bins(count, bins) ==
    LET width == select_bin_width(count)
    IN  [width |-> width, bins |-> [k \in DOMAIN bins |-> bins[k] % Limit(width)]]

(* One column of Pool::quantize: its own mode, borders, bins.              *)
Packed(column, mode, borders) ==
    IF select_bin_width(Len(borders)) = "none" THEN [refused |-> TRUE]
    ELSE [refused |-> FALSE, mode |-> mode, borders |-> borders,
          packed |-> pack_bins(Len(borders), [k \in DOMAIN column |->
              IF column[k] = NaN THEN nan_bin(mode, borders) ELSE bin_of(borders, column[k])])]

QuantizedColumn(column, count, nan_mode) ==
    LET mode == IF HasNaN(column) THEN nan_mode ELSE "Forbidden"
        chosen == select_borders(column, count, "GreedyLogSum", mode = "Min")
    IN  With(IF mode = "Max" THEN insert_sentinel(mode, chosen) ELSE chosen,
             LAMBDA borders : Packed(column, mode, borders))

-----------------------------------------------------------------------------
(* Every column is a list; labels and weights are numbers, a label may be  *)
(* missing; an f32 copy of the columns is what narrowing gives; a feature  *)
(* to ignore is a number from 0.                                           *)
AList(s) == s \in Seq(ToSet(s))
AreLists(columns) == AList(columns) /\ \A f \in DOMAIN columns : AList(columns[f])
Narrow(v) == IF v = NaN THEN NaN ELSE Rounded(v, Fine)
SoundOwned(s) ==
    /\ AreLists(s.floats) /\ AreLists(s.f32) /\ AreLists(s.cats)
    /\ AList(s.label) /\ ToSet(s.label) \subseteq Int \union {NaN}
    /\ AList(s.weights) /\ ToSet(s.weights) \subseteq Int
    /\ \A f \in DOMAIN s.f32 : \A k \in DOMAIN s.f32[f] : s.f32[f][k] = Narrow(s.floats[f][k])
SoundLabel(label) == AList(label.cells) /\ ToSet(label.cells) \subseteq Int \union {NaN, Null}
SoundArrow(s) ==
    AList(s.floats) /\ SoundLabel(s.label) /\ \A f \in DOMAIN s.floats : AList(s.floats[f].cells)
SoundPolars(s) ==
    /\ AList(s.names)
    /\ s.label_name \in DOMAIN s.frame => SoundLabel(s.frame[s.label_name])
    /\ \A name \in DOMAIN s.frame : AList(s.frame[name].cells)
ASSUME FitsAssumption ==
    \A f \in Fits :
        /\ ToSet(f.ignored) \subseteq Nat
        /\ \/ f.source.kind = "owned" /\ SoundOwned(f.source)
           \/ f.source.kind = "arrow" /\ SoundArrow(f.source)
           \/ f.source.kind = "polars" /\ SoundPolars(f.source)

VARIABLES
    fit,       \* the call: a fit, or the quantization of a pool
    data,      \* the pool, or a rejection
    columns,   \* what the parallel pass has prepared: feature -> [values, borders]
    prepared,  \* what the stages after it have: weights, masked columns
    matrix     \* what the trees are grown on, the quantized pool, or a rejection

pvars == <<fit, data, columns, prepared, matrix>>

Unset == [kind |-> "unset"]
Rejection(why) == [kind |-> "rejected", why |-> why]
PoolRows == 1..data.rows
Floats == 1..Len(data.floats)

PreparationInit ==
    /\ fit = Unset /\ data = Unset /\ columns = <<>> /\ prepared = Unset /\ matrix = Unset

FitAsked ==
    /\ fit = Unset
    /\ \E f \in Fits : fit' = f
    /\ UNCHANGED <<data, columns, prepared, matrix>>

(***************************************************************************)
(* Ingestion.                                                              *)
(***************************************************************************)
Metadata(s) == {s.label, s.weights, s.groups, s.baseline}

reference_n_rows(s) == IF s.floats # <<>> THEN Len(s.floats[1]) ELSE Len(s.label)

MadePool(n, s) ==
    [kind |-> "pool", rows |-> n, floats |-> s.floats, f32 |-> s.f32, cats |-> s.cats,
     label |-> s.label, weights |-> s.weights, groups |-> s.groups, pairs |-> s.pairs]

OwnedIntoPool(s) ==
    LET n == reference_n_rows(s)
        Even(features) == \A f \in DOMAIN features : Len(features[f]) = n
    IN  IF /\ Even(s.floats) /\ Even(s.f32) /\ Even(s.cats)
           /\ s.f32 # <<>> => Len(s.f32) = Len(s.floats)
           /\ \A c \in Metadata(s) : Len(c) \in {0, n}
           /\ \A p \in ToSet(s.pairs) : {p.winner, p.loser} \subseteq 0..(n - 1)
        THEN MadePool(n, s) ELSE Rejection("length")

(* A column of an Arrow array; polars columns are rechunked into one.      *)
ArrowBad(column, categorical) ==
    \/ ~column.f64
    \/ categorical /\ \E k \in DOMAIN column.cells : column.cells[k] \in {Null, NaN}

\* Mutant: the value buffer is read without its validity bitmap.
RawArrowColumn(column) == [k \in DOMAIN column.cells |->
    IF column.cells[k] = Null THEN 0 ELSE column.cells[k]]

arrow_f64_column(column) == [k \in DOMAIN column.cells |->
    IF column.cells[k] = Null THEN NaN ELSE column.cells[k]]

Declared(s, f) == f \in DOMAIN s.declared /\ s.declared[f]

ArrowIntoPool(s) ==
    IF \/ \E f \in DOMAIN s.floats : Len(s.floats[f].cells) # Len(s.label.cells)
       \/ \E f \in DOMAIN s.floats : ArrowBad(s.floats[f], Declared(s, f))
       \/ ArrowBad(s.label, FALSE)
    THEN Rejection("arrow")
    ELSE MadePool(Len(s.label.cells),
                  [floats |-> [f \in DOMAIN s.floats |-> arrow_f64_column(s.floats[f])],
                   label |-> arrow_f64_column(s.label),
                   f32 |-> <<>>, cats |-> <<>>, weights |-> <<>>, groups |-> <<>>, pairs |-> <<>>])

(* A frame has one height; a column that is asked for may be missing.      *)
PolarsIntoPool(s) ==
    IF \E name \in ToSet(s.names) \union {s.label_name} : name \notin DOMAIN s.frame
    THEN Rejection("polars")
    ELSE ArrowIntoPool([floats |-> [f \in DOMAIN s.names |-> s.frame[s.names[f]]],
                        label |-> s.frame[s.label_name], declared |-> s.declared])

Ingest ==
    /\ fit # Unset /\ data = Unset
    /\ LET s == fit.source
       IN  data' = CASE s.kind = "owned" -> OwnedIntoPool(s)
                     [] s.kind = "arrow" -> ArrowIntoPool(s)
                     [] s.kind = "polars" -> PolarsIntoPool(s)
    /\ UNCHANGED <<fit, columns, prepared, matrix>>

(***************************************************************************)
(* The fit: the checks, then every column by itself, in any order.         *)
(***************************************************************************)
ForbidsNaN == fit.nan_mode = "Forbidden" /\ \E f \in Floats : HasNaN(data.floats[f])

FitRejected ==
    /\ data.kind = "pool" /\ fit.call = "fit" /\ matrix = Unset /\ columns = <<>>
    /\ fit.backtracking = "Armijo" \/ ForbidsNaN
    /\ matrix' = Rejection("options")
    /\ UNCHANGED <<fit, data, columns, prepared>>

StorageColumn(f) ==
    IF data.f32 # <<>> THEN data.f32[f] ELSE [k \in PoolRows |-> Narrow(data.floats[f][k])]

borders_for_col(column) ==
    IF HasNaN(column)
    THEN CASE fit.nan_mode = "Min" -> select_borders(column, fit.border_count, fit.type, TRUE)
           [] fit.nan_mode = "Max" ->
                Append(select_borders(column, real_border_budget(fit.border_count, TRUE),
                                      fit.type, FALSE), Highest)
           [] OTHER -> select_borders(column, fit.border_count, fit.type, FALSE)
    ELSE select_borders(column, fit.border_count, fit.type, FALSE)

PrepareColumn(f) ==
    /\ data.kind = "pool" /\ fit.call = "fit" /\ matrix = Unset /\ prepared = Unset
    /\ fit.backtracking # "Armijo" /\ ~ForbidsNaN
    /\ f \in Floats \ DOMAIN columns
    /\ \E values \in {StorageColumn(f)} :
         columns' = [g \in DOMAIN columns \union {f} |->
                       IF g = f THEN [values |-> values, borders |-> borders_for_col(values)]
                       ELSE columns[g]]
    /\ UNCHANGED <<fit, data, prepared, matrix>>

AllPrepared ==
    /\ data.kind = "pool" /\ fit.call = "fit" /\ matrix = Unset
    /\ fit.backtracking # "Armijo" /\ ~ForbidsNaN
    /\ DOMAIN columns = Floats

(***************************************************************************)
(* ignored_features: an ignored float column loses its borders, an ignored *)
(* categorical one its values.  The indices are flat, from 0.              *)
(***************************************************************************)
IgnoredFloats == {f + 1 : f \in ToSet(fit.ignored)} \intersect Floats

\* Mutant: a flat index is taken for that of a categorical column.
FlatIgnoredCats == {f + 1 : f \in ToSet(fit.ignored)} \intersect 1..Len(data.cats)

IgnoredCats == {f + 1 - Len(data.floats) : f \in ToSet(fit.ignored)} \intersect 1..Len(data.cats)

mask_ignored_cat_columns(cats, ignored) ==
    [c \in DOMAIN cats |-> IF c \in ignored THEN [k \in PoolRows |-> ""] ELSE cats[c]]

(***************************************************************************)
(* Class weights, as fractions; a square root is kept under its sign.      *)
(***************************************************************************)
ClassWeight(num, den, root) == [num |-> num, den |-> den, root |-> root]
BaseWeight(i) == IF data.weights = <<>> THEN 1 ELSE data.weights[i]

ActiveControls ==
    (IF fit.class_weights # <<>> THEN {"explicit"} ELSE {})
    \union (IF fit.auto # "None" THEN {"auto"} ELSE {})
    \union (IF fit.scale # 1 THEN {"scaled"} ELSE {})

ClassLabels ==
    \A i \in DOMAIN data.label : data.label[i] # NaN /\ data.label[i] >= 0 /\ data.label[i] % 2 = 0
ClassOf(i) == data.label[i] \div 2
Observed == Max({0} \union {ClassOf(i) + 1 : i \in DOMAIN data.label})

(* The weight of some labelled rows, added up in their order.              *)
WeightOf(some) ==
    LET upTo[n \in 0..Len(data.label)] ==
            IF n = 0 THEN 0 ELSE upTo[n - 1] + (IF n \in some THEN BaseWeight(n) ELSE 0)
    IN  upTo[Len(data.label)]

summary_class_weights ==
    [c \in 0..(Observed - 1) |-> WeightOf({i \in DOMAIN data.label : ClassOf(i) = c})]

auto_class_weights(root) ==
    LET total == summary_class_weights
        top == Max({total[c] : c \in DOMAIN total})
    IN  [c \in DOMAIN total |->
            IF total[c] > 0 THEN ClassWeight(top, total[c], root) ELSE ClassWeight(1, 1, FALSE)]

ClassWeights ==
    CASE fit.class_weights # <<>> ->
           [c \in 0..(Len(fit.class_weights) - 1) |-> ClassWeight(fit.class_weights[c + 1], 1, FALSE)]
      [] fit.scale # 1 -> [c \in 0..1 |-> ClassWeight(IF c = 1 THEN fit.scale ELSE 1, 1, FALSE)]
      [] OTHER -> auto_class_weights(fit.auto = "SqrtBalanced")

resolve_object_weights(weights) ==
    [i \in DOMAIN data.label |-> [base |-> BaseWeight(i), class |-> weights[ClassOf(i)]]]

WeightsRejected ==
    /\ ActiveControls # {}
    /\ \/ Cardinality(ActiveControls) > 1
       \/ ~fit.classification
       \/ ~ClassLabels
       \/ IF fit.auto = "None" THEN Observed > Cardinality(DOMAIN ClassWeights) ELSE Observed = 0
       \/ data.weights # <<>> /\ Len(data.weights) # Len(data.label)

(* None: no control is active, and the trainer gets the pool's weights. *)
resolve_weights == IF ActiveControls = {} THEN <<>> ELSE resolve_object_weights(ClassWeights)

PrepareTheRest ==
    /\ AllPrepared /\ prepared = Unset
    /\ IF (\E f \in ToSet(fit.ignored) : f >= Len(data.floats) + Len(data.cats)) \/ WeightsRejected
       THEN matrix' = Rejection("options") /\ UNCHANGED <<columns, prepared>>
       ELSE /\ prepared' = [kind |-> "prepared", weights |-> resolve_weights, masked |-> IgnoredCats]
            /\ columns' = [f \in DOMAIN columns |->
                             IF f \in IgnoredFloats THEN [columns[f] EXCEPT !.borders = <<>>]
                             ELSE columns[f]]
            /\ UNCHANGED matrix
    /\ UNCHANGED <<fit, data>>

(***************************************************************************)
(* The categorical columns: first-seen bins, and one of two encodings.     *)
(***************************************************************************)
Alike(column, k) == {j \in DOMAIN column : CatHash(column[j]) = CatHash(column[k])}

(* The rows that bring a hash for the first time: it gets the next bin.    *)
PerfectHash(column) == {k \in DOMAIN column : \A j \in Alike(column, k) : k <= j}

perfect_hash_bins(column) ==
    [k \in DOMAIN column |-> Cardinality({j \in PerfectHash(column) : j < Min(Alike(column, k))})]

learn_set_cardinality(column) == Cardinality(PerfectHash(column))

route_categorical(cardinality) ==
    IF cardinality <= 1 THEN "skip" ELSE IF cardinality <= fit.one_hot_max_size THEN "onehot" ELSE "ctr"

partition_cat_columns(cats, route) ==
    LET taken == {c \in DOMAIN cats : route_categorical(learn_set_cardinality(cats[c])) = route}
    IN  [p \in 1..Cardinality(taken) |->
            CHOOSE c \in taken : Cardinality({d \in taken : d < c}) = p - 1]

(* The hash that a bin stands for is that of the first row that has it.    *)
build_one_hot_columns(cats, places) ==
    [p \in DOMAIN places |->
        LET bins == perfect_hash_bins(cats[places[p]])
        IN  [bins |-> bins,
             hash |-> [b \in ToSet(bins) |->
                         CatHash(cats[places[p]][Min({k \in DOMAIN bins : bins[k] = b})])]]]

Encoded(cats) ==
    LET one_hot == partition_cat_columns(cats, "onehot")
        ctr == partition_cat_columns(cats, "ctr")
    IN  IF data.label = <<>> THEN Rejection("empty target")
        ELSE IF \E c \in DOMAIN cats : learn_set_cardinality(cats[c]) > MaxUniq THEN Rejection("hash")
        ELSE IF one_hot # <<>> /\ ctr # <<>> THEN Rejection("both encodings")
        ELSE [kind |-> "matrix", entry |-> "train", floats |-> columns,
              places |-> one_hot, one_hot |-> build_one_hot_columns(cats, one_hot),
              ctr |-> ctr, ctr_bins |-> [p \in DOMAIN ctr |-> perfect_hash_bins(cats[ctr[p]])],
              label |-> data.label,
              weights |-> IF prepared.weights # <<>> THEN prepared.weights ELSE data.weights]

(***************************************************************************)
(* The trainer is entered with the eval sets, or with a snapshot.          *)
(***************************************************************************)
EvalFits(e) == e.floats = Len(data.floats) /\ e.cats = Len(data.cats)

SnapshotRejected ==
    fit.save_snapshot /\ (~fit.snapshot_file \/ data.cats # <<>> \/ fit.evals # <<>>)

DenseWeights(weights) == IF weights = <<>> THEN [i \in PoolRows |-> 1] ELSE weights

Dispatch ==
    /\ AllPrepared /\ prepared # Unset
    /\ matrix' =
         IF \/ \E e \in ToSet(fit.evals) : ~EvalFits(e)
            \/ SnapshotRejected
         THEN Rejection("call")
         ELSE LET m == Encoded(mask_ignored_cat_columns(data.cats, prepared.masked))
              IN  IF m.kind = "matrix" /\ fit.save_snapshot
                  THEN [m EXCEPT !.entry = "snapshot", !.weights = DenseWeights(m.weights)]
                  ELSE m
    /\ UNCHANGED <<fit, data, columns, prepared>>

(* Pool::quantize, which asks its own question of every column.            *)
QuantizePool ==
    /\ data.kind = "pool" /\ fit.call = "quantize" /\ matrix = Unset
    /\ LET quantized == [f \in Floats |->
                QuantizedColumn([k \in PoolRows |-> Narrow(data.floats[f][k])],
                                fit.border_count, fit.nan_mode)]
       IN  matrix' = IF \E f \in Floats : quantized[f].refused THEN Rejection("width")
                     ELSE [kind |-> "quantized", floats |-> quantized]
    /\ UNCHANGED <<fit, data, columns, prepared>>

PreparationNext ==
    \/ FitAsked \/ Ingest \/ FitRejected
    \/ \E f \in 1..9 : PrepareColumn(f)
    \/ PrepareTheRest \/ Dispatch \/ QuantizePool

PreparationDone == data.kind = "rejected" \/ matrix # Unset

(***************************************************************************)
(* Borders.                                                                *)
(***************************************************************************)
Real(borders) == SelectSeq(borders, LAMBDA b : b \notin {Lowest, Highest})
Sentinel(column, mode) == HasNaN(column) /\ mode \in {"Min", "Max"}

(* Between neighbours one step apart there is no room for a border.        *)
HaveRoom(values) == \A v, w \in ToSet(values) : v - w # 1

BinSizes(borders, values) ==
    [k \in 0..Len(borders) |-> Cardinality({i \in DOMAIN values : bin_of(borders, values[i]) = k})]

Cost(borders, values, penalty) ==
    FoldFunction(LAMBDA w, sum : Penalty(penalty, w) + sum, 0, BinSizes(borders, values))

Increasing(borders) == \A k \in 2..Len(borders) : borders[k - 1] < borders[k]

WithinBudget(borders, column, count, mode) ==
    Len(Real(borders)) <= IF Sentinel(column, mode) THEN Max({count - 1, 0}) ELSE count

EveryBinIsInhabited(borders, values) ==
    Len(borders) > 0 => \A n \in Range(BinSizes(borders, values)) : n > 0

(* A budget that is large enough tells all values apart.                   *)
TellsAllApart(borders, values, budget) ==
    LET distinct == Cardinality(ToSet(values))
    IN  distinct > 0 /\ budget + 1 >= distinct /\ HaveRoom(values) => Len(borders) + 1 = distinct

(* No other choice of as many borders costs less.                          *)
Cheapest(borders, values, penalty) ==
    Len(borders) > 0 /\ HaveRoom(values) =>
      \A ends \in kSubset(Len(borders), ToSet(values) \ {Max(ToSet(values))}) :
        Cost(borders, values, penalty)
          <= Cost(SetToSortSeq(ends, LAMBDA a, b : a < b), values, penalty)

(* A missing value shares its bin with no other.                           *)
MissingAlone(borders, column, mode) ==
    Sentinel(column, mode) =>
      \A v \in ToSet(column) \ {NaN} : bin_of(borders, v) # nan_bin(mode, borders)

Greedy == {"GreedyLogSum", "GreedyMinEntropy"}
Exact == {"MaxLogSum", "MinEntropy"}

SoundFor(column, borders, type) ==
    LET values == ValuesOf(column)
        real == Real(borders)
        budget == fit.border_count - IF Sentinel(column, fit.nan_mode) THEN 1 ELSE 0
    IN  /\ Increasing(borders)
        /\ MissingAlone(borders, column, fit.nan_mode)
        /\ type = "Median" \/ (type # "Uniform" /\ HaveRoom(values)) => EveryBinIsInhabited(real, values)
        /\ type \in Greedy \union Exact => TellsAllApart(real, values, budget)
        /\ type \in Exact =>
             Cheapest(real, values, IF type = "MaxLogSum" THEN "MaxSumLog" ELSE "MinEntropy")

(* Whatever way of choosing borders: a column's borders ascend and fit     *)
(* their budget, each bin but those of equal width holds an object, a      *)
(* missing value has a bin of its own, the greedy and exact ways tell all  *)
(* values apart where they may, and an exact way is beaten by no other     *)
(* choice, though it looks at few of them.  The same of Pool::quantize,    *)
(* whose packed bins are the bins.                                         *)
BordersAreSound ==
    /\ prepared = Unset =>
         \A f \in DOMAIN columns :
           /\ SoundFor(columns[f].values, columns[f].borders, fit.type)
           /\ WithinBudget(columns[f].borders, columns[f].values, fit.border_count, fit.nan_mode)
    /\ matrix # Unset /\ matrix.kind = "quantized" =>
         \A f \in Floats :
           LET column == [k \in PoolRows |-> Narrow(data.floats[f][k])]
               q == matrix.floats[f]
           IN  /\ SoundFor(column, q.borders, "GreedyLogSum")
               /\ \A k \in PoolRows :
                    q.packed.bins[k] = IF column[k] = NaN THEN nan_bin(q.mode, q.borders)
                                       ELSE bin_of(q.borders, column[k])

(***************************************************************************)
(* What the trees are grown on.                                            *)
(***************************************************************************)
Given(cell) == IF cell = Null THEN NaN ELSE cell
SourceFloat(s, f, i) ==
    CASE s.kind = "owned" -> s.floats[f][i]
      [] s.kind = "arrow" -> Given(s.floats[f].cells[i])
      [] s.kind = "polars" -> Given(s.frame[s.names[f]].cells[i])
SourceLabel(s, i) ==
    CASE s.kind = "owned" -> s.label[i]
      [] s.kind = "arrow" -> Given(s.label.cells[i])
      [] s.kind = "polars" -> Given(s.frame[s.label_name].cells[i])
SourceCats(s) == IF s.kind = "owned" THEN s.cats ELSE <<>>
SourceWidth(s) == IF s.kind = "polars" THEN Len(s.names) ELSE Len(s.floats)

Ignored(place) == \E f \in ToSet(fit.ignored) : f + 1 = place

NumbersArrive(s) ==
    /\ DOMAIN matrix.floats = 1..SourceWidth(s)
    /\ \A f \in DOMAIN matrix.floats :
         /\ \A i \in PoolRows : matrix.floats[f].values[i] = Narrow(SourceFloat(s, f, i))
         /\ Ignored(f) => matrix.floats[f].borders = <<>>
         /\ ~Ignored(f) => matrix.floats[f].borders = borders_for_col(matrix.floats[f].values)

(* An encoding keeps a column if its bins tell its values apart.           *)
Keeps(bins, column) ==
    \A i, j \in PoolRows : bins[i] = bins[j] <=> CatHash(column[i]) = CatHash(column[j])

CategoriesArrive(cats) ==
    \A c \in DOMAIN cats :
      LET ways == {p \in DOMAIN matrix.places : matrix.places[p] = c}
          ctrs == {p \in DOMAIN matrix.ctr : matrix.ctr[p] = c}
          varied == Cardinality({CatHash(cats[c][i]) : i \in PoolRows}) > 1
      IN  /\ Cardinality(ways) + Cardinality(ctrs)
                = IF varied /\ ~Ignored(Len(data.floats) + c) THEN 1 ELSE 0
          /\ \A p \in ctrs : Keeps(matrix.ctr_bins[p], cats[c])
          /\ \A p \in ways :
               \A i \in PoolRows :
                 matrix.one_hot[p].hash[matrix.one_hot[p].bins[i]] = CatHash(cats[c][i])

(* Balanced classes weigh the same, whatever their objects weigh, as long  *)
(* as they weigh anything.                                                 *)
ClassesBalance ==
    \A i, j \in PoolRows :
      LET Total(k) == WeightOf({n \in DOMAIN data.label : ClassOf(n) = ClassOf(k)})
          w == matrix.weights[i].class  v == matrix.weights[j].class
      IN  Total(i) > 0 /\ Total(j) > 0 => w.num * Total(i) * v.den = v.num * Total(j) * w.den

WeightsArrive(s) ==
    LET own(i) == IF s.kind = "owned" /\ s.weights # <<>> THEN s.weights[i] ELSE 1
    IN  CASE ActiveControls = {} -> matrix.weights \in {<<>>, [i \in PoolRows |-> own(i)]}
                                    /\ (matrix.weights = <<>> => \A i \in PoolRows : own(i) = 1)
          [] fit.auto # "None" -> ClassesBalance
          [] OTHER -> \A i \in PoolRows : matrix.weights[i].base = own(i)

(* What the trees are grown on is what the caller gave: row by row its     *)
(* numbers, narrowed, with every way of saying that one is missing; its    *)
(* labels; each categorical column that varies and is not ignored, in      *)
(* exactly one encoding that tells its values apart, with the hash behind  *)
(* each one-hot bin; the others' borders as if no feature were ignored;    *)
(* and its weights, by which balanced classes weigh the same.              *)
TrainerSeesTheData ==
    matrix # Unset /\ matrix.kind = "matrix" =>
      /\ NumbersArrive(fit.source)
      /\ \A i \in PoolRows : matrix.label[i] = SourceLabel(fit.source, i)
      /\ CategoriesArrive(SourceCats(fit.source))
      /\ WeightsArrive(fit.source)
===============================================================================
