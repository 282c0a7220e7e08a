----------------------------- MODULE CtrTables -----------------------------
(***************************************************************************)
(* Object orders and body/tail segments of a fit (cb-train/src/fold.rs,    *)
(* cb-train/src/permutation.rs, and the fold orders boosting.rs derives).  *)
(* Objects and positions are 1..n; an order is a sequence of objects, the  *)
(* one at position k being order[k].  A stream is the sequence of          *)
(* shuffles one generator yields; its first element is the shuffle of the  *)
(* learn set, because both start from the same seed.                       *)
(*                                                                         *)
(* Target statistics of categorical features: the ONLINE value a row gets  *)
(* while training, from the rows before it in a fold's order               *)
(* (cb-train/src/ctr/online.rs, ctr_feature.rs), and the table over the    *)
(* whole learn set a saved model looks a value up in (ctr/bake.rs,         *)
(* ctr/final_ctr.rs, cb-model/src/ctr_data.rs, cb-model/src/apply.rs).     *)
(*                                                                         *)
(* A row's key under a projection is the tuple of its member values: the   *)
(* hash of the combination and its first-seen bucket number are both       *)
(* injective here.  A prior is counted in halves (prior = p / 2) over the  *)
(* unit denominator, and every real value is an exact fraction             *)
(* [num, den].  Classes are 0 and 1.                                       *)
(***************************************************************************)
EXTENDS Integers, FiniteSets, Sequences

Smaller(a, b) == IF a < b THEN a ELSE b
Larger(a, b)  == IF a > b THEN a ELSE b
Identity(n)   == [k \in 1..n |-> k]

(* The Fisher-Yates pass: draws[i] \in 0..i is the draw of step i.         *)
Draws(n) == {d \in [1..(n - 1) -> 0..(n - 1)] : \A i \in 1..(n - 1) : d[i] <= i}

\* Mutant: the drawn element is copied instead of swapped.
ShuffleInPlaceCopies(n, draws) ==
    [k \in 1..n |-> IF k = 1 THEN 1 ELSE draws[k - 1] + 1]

ShuffleInPlace(n, draws) ==
    LET v[i \in 0..(n - 1)] ==
            IF i = 0 THEN Identity(n)
            ELSE LET j == draws[i]
                 IN  [v[i - 1] EXCEPT ![i + 1] = v[i - 1][j + 1],
                                      ![j + 1] = v[i - 1][i + 1]]
    IN  v[n - 1]

(* A permutation of the shuffled learn set, read in original objects.      *)
Carried(s, p) == [k \in DOMAIN p |-> s[p[k]]]

LearningFoldCount(permutationCount, needed) ==
    IF needed THEN Larger(1, permutationCount - 1) ELSE 1

NeedShuffle(hasCtr, ordered, hasTime) == (hasCtr \/ ordered) /\ ~hasTime

(* The order each learning fold reads its CTR columns in.                  *)
StructureOrder(stream, n, fold, shuffled) ==
    CASE ~shuffled             -> Identity(n)
      [] shuffled /\ fold = 1  -> stream[1]
      [] shuffled /\ fold > 1  -> Carried(stream[1], stream[fold])

(* The order of the averaging fold, whose columns give the leaf values.    *)
AveragingOrder(stream, learningFolds, shuffled) ==
    IF shuffled THEN Carried(stream[1], stream[learningFolds + 1])
                ELSE stream[learningFolds + 1]

(* The order ordered boosting walks its segments in.                       *)
OrderedLearningOrder(stream, n, hasTime) ==
    IF NeedShuffle(FALSE, TRUE, hasTime) THEN stream[1] ELSE Identity(n)

(* Which learning fold the tree of an iteration is grown on: a recorded    *)
(* cycle for four permutations and seed 0, the first fold otherwise.       *)
RecordedCycle == <<1, 3, 1, 3, 3>>

StructureFoldCycle(permutationCount, seedZero, iteration) ==
    IF permutationCount = 4 /\ seedZero
    THEN RecordedCycle[(iteration % Len(RecordedCycle)) + 1]
    ELSE 1

SelectMinBatchSize(n) == IF n > 500 THEN Smaller(100, n \div 50) ELSE 1

(* The multiplier is the fraction mult[1] / mult[2], rounded up.           *)
SelectTailSize(size, mult) == ((size * mult[1]) + mult[2] - 1) \div mult[2]

NextBoundary(n, left, mult) ==
    LET tail == Smaller(SelectTailSize(left, mult), n)
    IN  IF tail <= left THEN n ELSE tail

BodyTailBoundaries(n, mult) ==
    LET from[left \in 1..n] ==
            IF left >= n THEN <<left>>
            ELSE <<left>> \o from[NextBoundary(n, left, mult)]
    IN  IF n = 0 THEN <<>> ELSE from[Smaller(SelectMinBatchSize(n), n)]

BodyTailSegments(n, mult) ==
    LET b == BodyTailBoundaries(n, mult)
    IN  [s \in 1..(Larger(Len(b), 1) - 1) |-> [body |-> b[s], tail |-> b[s + 1]]]

PositionIn(order, object) == CHOOSE k \in DOMAIN order : order[k] = object

-----------------------------------------------------------------------------

CONSTANT BorderCount     \* ctr_border_count, 15 in the code

Borders == "Borders"
Buckets == "Buckets"
Mean    == "BinarizedTargetMeanValue"
Counter == "Counter"
CtrTypes == {Borders, Buckets, Mean, Counter}

TargetBorderCount(type) == IF type = Buckets THEN 2 ELSE 1

Key(row, projection) == [f \in projection |-> row[f]]
RowsWith(rows, objects, projection, key) ==
    {i \in objects : Key(rows[i], projection) = key}

(* Numerator of a set of rows: the rows the statistic counts.              *)
Counted(type, border, cls, objects) ==
    CASE type = Buckets -> Cardinality({i \in objects : cls[i] = border})
      [] type = Borders -> Cardinality({i \in objects : cls[i] > border})
      [] type = Mean    -> Cardinality({i \in objects : cls[i] = 1})

(* Counter: occurrences of the key in the learn rows and the extra rows,   *)
(* over the occurrences of the most frequent key.                          *)
Occurrences(data, projection, key) ==
      Cardinality(RowsWith(data.rows, DOMAIN data.rows, projection, key))
    + Cardinality(RowsWith(data.extra, DOMAIN data.extra, projection, key))

KeysOf(data, projection) ==
         {Key(data.rows[i], projection) : i \in DOMAIN data.rows}
    \cup {Key(data.extra[i], projection) : i \in DOMAIN data.extra}

Greatest(S) == IF S = {} THEN 0 ELSE CHOOSE x \in S : \A y \in S : y <= x

CounterDenominator(data, projection) ==
    Greatest({Occurrences(data, projection, k) : k \in KeysOf(data, projection)})

\* Mutant: the row is counted before it is read.
PassedWithSelf(order, object) == {order[k] : k \in 1..PositionIn(order, object)}

(* The rows a fold's order has already passed when it reaches an object.   *)
Passed(order, object) == {order[k] : k \in 1..(PositionIn(order, object) - 1)}

(* Count and total of a statistic over the given earlier rows of a key.    *)
OnlinePair(data, cls, candidate, earlier, key) ==
    IF candidate.type = Counter
    THEN [num   |-> Occurrences(data, candidate.projection, key),
          total |-> CounterDenominator(data, candidate.projection)]
    ELSE LET same == RowsWith(data.rows, earlier, candidate.projection, key)
         IN  [num   |-> Counted(candidate.type, candidate.border, cls, same),
              total |-> Cardinality(same)]

(* calc_normalization, in halves: left = min(0, prior), right = max(1, .). *)
ShiftHalves(p) == -Smaller(0, p)
NormHalves(p)  == Larger(2, p) - Smaller(0, p)

(* ((num + prior) / (total + 1) + shift) / norm * BorderCount.             *)
Scaled(pair, p) ==
    [num |-> (2 * pair.num + p + ShiftHalves(p) * (pair.total + 1)) * BorderCount,
     den |-> (pair.total + 1) * NormHalves(p)]

(* The bin of a training column: truncated and clamped.                    *)
OnlineBin(pair, p) ==
    LET x == Scaled(pair, p)
    IN  Larger(0, Smaller(BorderCount, x.num \div x.den))

MaterializeCtrFeature(data, cls, candidate, order) ==
    [candidate |-> candidate,
     bins |-> [i \in DOMAIN data.rows |->
                 OnlineBin(OnlinePair(data, cls, candidate, Passed(order, i),
                                      Key(data.rows[i], candidate.projection)),
                           candidate.prior)]]

(* Candidates in the order the columns are built: per projection, per      *)
(* class selector, per prior; singletons take the simple configuration,    *)
(* and an empty list of priors stands for 0.5 (a prior is in halves).      *)
Concat(seqs) ==
    LET upTo[k \in 0..Len(seqs)] == IF k = 0 THEN <<>> ELSE upTo[k - 1] \o seqs[k]
    IN  upTo[Len(seqs)]

DefaultPriors == <<1>>
CtrConfigFor(ctr, projection) ==
    LET c == IF Cardinality(projection) = 1 THEN ctr.simple ELSE ctr.combinations
    IN  [type |-> c.type, priors |-> IF c.priors = <<>> THEN DefaultPriors ELSE c.priors]

CandidatesOf(ctr, projection) ==
    LET c == CtrConfigFor(ctr, projection)
    IN  Concat([b \in 1..TargetBorderCount(c.type) |->
            [q \in 1..Len(c.priors) |->
                [projection |-> projection, type |-> c.type,
                 border |-> b - 1, prior |-> c.priors[q]]]])

CtrCandidates(ctr) ==
    Concat([j \in DOMAIN ctr.projections |-> CandidatesOf(ctr, ctr.projections[j])])

CtrColumns(data, cls, ctr, order) ==
    LET cs == CtrCandidates(ctr)
    IN  [j \in DOMAIN cs |-> MaterializeCtrFeature(data, cls, cs[j], order)]

(***************************************************************************)
(* The table a model keeps for a (projection, type), over the whole learn  *)
(* set; the extra rows enter the Counter tally only.                       *)
(***************************************************************************)
BakeCtrTable(data, cls, projection, type) ==
    LET keys == IF type = Counter THEN KeysOf(data, projection)
                ELSE {Key(data.rows[i], projection) : i \in DOMAIN data.rows}
        of(k) == RowsWith(data.rows, DOMAIN data.rows, projection, k)
    IN  [projection |-> projection, type |-> type,
         counts |-> [k \in keys |->
            IF type = Counter THEN <<Occurrences(data, projection, k)>>
            ELSE <<Counted(Buckets, 0, cls, of(k)), Counted(Buckets, 1, cls, of(k))>>],
         denominator |-> IF type = Counter THEN CounterDenominator(data, projection)
                         ELSE 0]

(* What a lookup reads: an unknown value reads an empty history.           *)
NumeratorDenominator(table, key, border) ==
    IF table.type = Counter
    THEN [num   |-> IF key \in DOMAIN table.counts THEN table.counts[key][1] ELSE 0,
          total |-> table.denominator]
    ELSE IF key \notin DOMAIN table.counts THEN [num |-> 0, total |-> 0]
    ELSE LET c == table.counts[key]
         IN  [num |-> IF table.type = Buckets THEN c[border + 1] ELSE c[2],
              total |-> c[1] + c[2]]

(* Bins per unit: a persisted border is (bin + 1) - 2^-20.                 *)
BorderUnit == 1048576

\* Mutant: the bin index is persisted as the border.
CtrBinBorderKept(bin) == [num |-> bin * BorderUnit, den |-> BorderUnit]

CtrBinBorderToValueSpace(bin) == [num |-> (bin + 1) * BorderUnit - 1, den |-> BorderUnit]

Above(x, border) == x.num * border.den > border.num * x.den
=============================================================================
