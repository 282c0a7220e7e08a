---------------------------- MODULE FoldTraining ----------------------------
(***************************************************************************)
(* The approximants of one CPU fit (cb-train/src/boosting.rs): the fold    *)
(* orders drawn once, the categorical columns each fold reads, and the     *)
(* buffers the iterations advance side by side:                            *)
(*   approx      the averaging fold, whose leaf values the model keeps;    *)
(*   avgExp      the same fold in the exponential domain (CTR + Logloss),  *)
(*               kept here as its logarithm;                               *)
(*   foldApprox  one per learning fold of a CTR fit, each advanced over    *)
(*               the leaves of its own columns;                            *)
(*   segApprox   one per body/tail segment of ordered boosting.            *)
(* The structure search is abstracted to the choice of any candidates: it  *)
(* is module TreeGrowth's subject.                                         *)
(*                                                                         *)
(* Reals are integers in units of 1/Unit.  A leaf value is the average     *)
(* derivative times the learning rate 1/2, rounded to a multiple of Unit,  *)
(* so that shrinking by 1/2 stays exact for a whole fit.                   *)
(*                                                                         *)
(* segTwin is a history variable: segApprox of the same fit on data where  *)
(* the class of one object, flipped, is the other one.                     *)
(***************************************************************************)
EXTENDS CtrTables

CONSTANTS
    Datasets,          \* sets of [rows, extra, cls, floats]: categorical values
                       \* of learn and eval rows, classes, float conditions
    Configs,           \* [ctr, ordered, logloss, hasTime, shrinks, counterFull,
                       \*  settings: [simple, combinations, projections]]
    PermutationCount, FoldLenMultiplier, SeedZero,
    StreamDraws,       \* the draws a shuffle may make
    Iterations, Depth, Unit, Bias0

(* A fit of Iterations trees halves its first values at most so often.     *)
Pow2[k \in Nat] == IF k = 0 THEN 1 ELSE 2 * Pow2[k - 1]
ASSUME UnitAssumption ==
    Iterations \in Nat /\ Unit = Pow2[Iterations] /\ Bias0 \in Int /\ Bias0 % Unit = 0

ASSUME BoundsAssumption ==
    /\ PermutationCount \in Nat /\ Depth \in Nat /\ BorderCount \in Nat
    /\ FoldLenMultiplier \in Seq(Int) /\ Len(FoldLenMultiplier) = 2
    /\ FoldLenMultiplier[2] > 0

(* Parallel columns of one learn set, with classes 0 and 1.                *)
IsList(s) == Len(s) \in Nat /\ DOMAIN s = 1..Len(s)
ASSUME DataAssumption ==
    \A d \in Datasets :
        /\ IsList(d.rows) /\ IsList(d.extra) /\ Len(d.rows) > 0
        /\ d.cls \in [DOMAIN d.rows -> {0, 1}]
        /\ StreamDraws \subseteq Draws(Len(d.rows))
ASSUME ConfigAssumption ==
    \A c \in Configs :
        /\ c.ctr \in BOOLEAN /\ c.ordered \in BOOLEAN /\ c.hasTime \in BOOLEAN
        /\ IsList(c.settings.projections)
        /\ \A s \in {c.settings.simple, c.settings.combinations} :
              s.type \in CtrTypes /\ s.priors \in Seq(Int)

VARIABLES stage, config, data, flipped, stream, foldColumns, averagingColumns,
          iter, bias, trees, grown, approx, avgExp, foldApprox, segApprox,
          segTwin, tables

inputs  == <<config, data, flipped>>
columns == <<stream, foldColumns, averagingColumns>>
buffers == <<avgExp, foldApprox, segApprox, segTwin>>
vars == <<stage, inputs, columns, iter, bias, trees, grown, approx, buffers, tables>>

Objects == DOMAIN data.rows
N == Len(data.rows)
TwinCls == [data.cls EXCEPT ![flipped] = 1 - @]
Target(cls, i) == 4 * Unit * cls[i]

HasCtr  == config.ctr
ExpCtr  == HasCtr /\ config.logloss
Shuffled == NeedShuffle(HasCtr, config.ordered, config.hasTime)
LearningFolds == LearningFoldCount(PermutationCount, HasCtr)
FoldIds == 1..(IF HasCtr THEN LearningFolds ELSE 0)

(* Extra rows join the Counter tally under counter_calc_method = Full.     *)
CtrData == [rows |-> data.rows, extra |-> IF config.counterFull THEN data.extra ELSE <<>>]

FoldOrder(drawn, fold) == StructureOrder(drawn, N, fold, Shuffled)
AverageOrder(drawn)    == AveragingOrder(drawn, LearningFolds, Shuffled)
ColumnsUnder(order) == CtrColumns(CtrData, data.cls, config.settings, order)

Segments == IF config.ordered THEN BodyTailSegments(N, FoldLenMultiplier) ELSE <<>>
LearningOrder == OrderedLearningOrder(stream, N, config.hasTime)

(***************************************************************************)
(* Leaves.  A level is a float condition (the objects passing it) or a CTR *)
(* split [candidate, bin]; a leaf is the sequence of levels passed.        *)
(***************************************************************************)
FloatLevel(s)     == [kind |-> "float", passing |-> s]
CtrLevel(c, bin)  == [kind |-> "ctr", candidate |-> c, bin |-> bin]

(* The search reads a column by its index in the taken fold's list.        *)
SearchLevels(cols) ==
    [level : {FloatLevel(s) : s \in data.floats}, column : {0}]
      \cup {[level |-> CtrLevel(cols[j].candidate, b), column |-> j] :
              j \in DOMAIN cols, b \in 0..(BorderCount - 1)}

SearchPasses(cols, chosen, i) ==
    IF chosen.column = 0 THEN i \in chosen.level.passing
                         ELSE cols[chosen.column].bins[i] > chosen.level.bin

SearchLeafOf(cols, choice) ==
    [i \in Objects |-> [l \in DOMAIN choice |-> SearchPasses(cols, choice[l], i)]]

(* Every later reading finds the column by the candidate's full identity.  *)

\* Mutant: a column is found by its projection and type alone.
IsColumnOfAnyPrior(column, candidate) ==
    /\ column.candidate.projection = candidate.projection
    /\ column.candidate.type = candidate.type

IsColumnOf(column, candidate) == column.candidate = candidate

LevelPasses(cols, level, i) ==
    IF level.kind = "float" THEN i \in level.passing
    ELSE \E j \in DOMAIN cols :
            /\ IsColumnOf(cols[j], level.candidate)
            /\ \A k \in 1..(j - 1) : ~IsColumnOf(cols[k], level.candidate)
            /\ cols[j].bins[i] > level.bin

AssignLeafOverCtrColumns(cols, levels) ==
    [i \in Objects |-> [l \in DOMAIN levels |-> LevelPasses(cols, levels[l], i)]]

(***************************************************************************)
(* Leaf values.                                                            *)
(***************************************************************************)
SumOver(f, S) ==
    LET upTo[k \in 0..N] == IF k = 0 THEN 0
                            ELSE upTo[k - 1] + (IF k \in S THEN f[k] ELSE 0)
    IN  upTo[N]

(* The average of a leaf at the learning rate; an empty leaf gives 0.      *)
LeafDelta(sum, weight) ==
    IF weight = 0 THEN 0 ELSE (sum \div (2 * weight * Unit)) * Unit

Derivatives(cls, a) == [i \in Objects |-> Target(cls, i) - a[i]]

LeafValues(leafOf, ders) ==
    [leaf \in {leafOf[i] : i \in Objects} |->
        LET S == {i \in Objects : leafOf[i] = leaf}
        IN  LeafDelta(SumOver(ders, S), Cardinality(S))]

Advanced(a, leafOf, values) == [i \in Objects |-> a[i] + values[leafOf[i]]]

(* Multiplying by exp(value) adds the value to the logarithm.              *)
AdvancedExp(a, leafOf, values) == Advanced(a, leafOf, values)

\* Mutant: every row of the segment shares the average of its whole leaf.
OrderedApproxDeltaPlain(leafOf, ders, order, segment) ==
    [i \in Objects |->
        LET mine == {j \in Objects : /\ leafOf[j] = leafOf[i]
                                     /\ PositionIn(order, j) <= segment.tail}
        IN  IF PositionIn(order, i) > segment.tail THEN 0
            ELSE LeafDelta(SumOver(ders, mine), Cardinality(mine))]

(* One segment's deltas: the body rows share the average over the body, a  *)
(* tail row reads the running average right after entering it, and the     *)
(* rows behind the segment keep 0.                                         *)
OrderedApproxDelta(leafOf, ders, order, segment) ==
    [i \in Objects |->
        LET at   == PositionIn(order, i)
            upto == Larger(at, segment.body)
            mine == {j \in Objects : /\ leafOf[j] = leafOf[i]
                                     /\ PositionIn(order, j) <= upto}
        IN  IF at > segment.tail THEN 0
            ELSE LeafDelta(SumOver(ders, mine), Cardinality(mine))]

AdvancedSegments(segs, cls, leafOf) ==
    [s \in DOMAIN segs |->
        LET delta == OrderedApproxDelta(leafOf, Derivatives(cls, segs[s]),
                                        LearningOrder, Segments[s])
        IN  [i \in Objects |-> segs[s][i] + delta[i]]]

(***************************************************************************)
(* The fit.                                                                *)
(***************************************************************************)
NoTree == <<>>

Init ==
    /\ config \in Configs
    /\ data \in Datasets
    /\ flipped \in (IF config.ordered THEN Objects ELSE {1})
    /\ stage = "folds" /\ iter = 0 /\ bias = Bias0
    /\ stream = <<>> /\ foldColumns = <<>> /\ averagingColumns = <<>>
    /\ trees = <<>> /\ grown = NoTree /\ tables = {}
    /\ approx = <<>> /\ avgExp = <<>> /\ foldApprox = <<>>
    /\ segApprox = <<>> /\ segTwin = <<>>

(* The orders are drawn and the columns materialized once for the fit, and *)
(* every approximant starts from the bias; the logarithm of exp(bias) is   *)
(* the bias.                                                               *)
CreateFolds ==
    /\ stage = "folds"
    /\ \E draws \in [1..(LearningFolds + 1) -> StreamDraws] :
          stream' = [k \in DOMAIN draws |-> ShuffleInPlace(N, draws[k])]
    /\ foldColumns' = [f \in FoldIds |-> ColumnsUnder(FoldOrder(stream', f))]
    /\ averagingColumns' = IF HasCtr THEN ColumnsUnder(AverageOrder(stream')) ELSE <<>>
    /\ LET start == [i \in Objects |-> bias]
       IN  /\ approx' = start
           /\ avgExp' = IF ExpCtr THEN start ELSE <<>>
           /\ foldApprox' = [f \in FoldIds |-> start]
           /\ segApprox' = [s \in DOMAIN Segments |-> start]
           /\ segTwin' = segApprox'
    /\ stage' = "iteration"
    /\ UNCHANGED <<inputs, iter, bias, trees, grown, tables>>

Halved(f) == [i \in DOMAIN f |-> f[i] \div 2]

\* Mutant: the trees already grown keep their values.
HalvedTreeKept(t) == t

HalvedTree(t) == [t EXCEPT !.values = [leaf \in DOMAIN @ |-> @[leaf] \div 2]]

(* From the second iteration on, a shrinking fit first rescales the bias,  *)
(* the trees and the linear approximant.                                   *)
StartIteration ==
    /\ stage = "iteration" /\ iter < Iterations
    /\ IF config.shrinks /\ iter > 0
       THEN /\ bias' = bias \div 2
            /\ trees' = [t \in DOMAIN trees |-> HalvedTree(trees[t])]
            /\ approx' = Halved(approx)
       ELSE UNCHANGED <<bias, trees, approx>>
    /\ stage' = "search"
    /\ UNCHANGED <<inputs, columns, iter, grown, buffers, tables>>

TakenFold == StructureFoldCycle(PermutationCount, SeedZero, iter)

(* The structure is grown on the taken fold's columns.                     *)
GrowTree ==
    /\ stage = "search"
    /\ LET cols == IF HasCtr THEN foldColumns[TakenFold] ELSE <<>>
       IN  \E choice \in [1..Depth -> SearchLevels(cols)] :
              grown' = [levels |-> [l \in 1..Depth |-> choice[l].level],
                        leafOf |-> SearchLeafOf(cols, choice)]
    /\ stage' = "leaves"
    /\ UNCHANGED <<inputs, columns, iter, bias, trees, approx, buffers, tables>>

LeafValueLeafOf ==
    IF HasCtr THEN AssignLeafOverCtrColumns(averagingColumns, grown.levels)
              ELSE grown.leafOf

\* Mutant: every fold reuses the leaves of the fold that was searched.
FoldLeafOfShared(fold) == grown.leafOf

(* The taken fold reuses the search's leaves; the others read their own.   *)
FoldLeafOf(fold) ==
    IF fold = TakenFold THEN grown.leafOf
    ELSE AssignLeafOverCtrColumns(foldColumns[fold], grown.levels)

AveragingDerivatives == Derivatives(data.cls, IF ExpCtr THEN avgExp ELSE approx)

(* Leaf values over the averaging fold, then every buffer advances from    *)
(* its own derivatives as they were before the tree.                       *)
EstimateLeaves ==
    /\ stage = "leaves"
    /\ LET leafOf == LeafValueLeafOf
           values == LeafValues(leafOf, AveragingDerivatives)
       IN  /\ trees' = Append(trees, [levels |-> grown.levels, leafOf |-> leafOf,
                                      values |-> values])
           /\ approx' = Advanced(approx, leafOf, values)
           /\ avgExp' = IF ExpCtr THEN AdvancedExp(avgExp, leafOf, values) ELSE avgExp
           /\ segApprox' = AdvancedSegments(segApprox, data.cls, leafOf)
           /\ segTwin' = AdvancedSegments(segTwin, TwinCls, leafOf)
    /\ foldApprox' = [f \in FoldIds |->
          LET leafOf == FoldLeafOf(f)
          IN  Advanced(foldApprox[f], leafOf,
                       LeafValues(leafOf, Derivatives(data.cls, foldApprox[f])))]
    /\ iter' = iter + 1
    /\ grown' = NoTree
    /\ stage' = "iteration"
    /\ UNCHANGED <<inputs, columns, bias, tables>>

CtrLevelsOf(ts) ==
    UNION {{ts[t].levels[l] : l \in {m \in DOMAIN ts[t].levels :
                                        ts[t].levels[m].kind = "ctr"}} : t \in DOMAIN ts}

(* One table per (projection, type) some tree splits on.                   *)
BakeTables ==
    /\ stage = "iteration" /\ iter = Iterations
    /\ tables' = {BakeCtrTable(CtrData, data.cls, v.candidate.projection, v.candidate.type) :
                    v \in CtrLevelsOf(trees)}
    /\ stage' = "done"
    /\ UNCHANGED <<inputs, columns, iter, bias, trees, grown, approx, buffers>>

Next == CreateFolds \/ StartIteration \/ GrowTree \/ EstimateLeaves \/ BakeTables

Spec == Init /\ [][Next]_vars

(* What the saved model does with a key at a CTR split: the table of the   *)
(* split's projection and type, read with the split's own prior.           *)
TableFor(level) ==
    CHOOSE t \in tables : /\ t.projection = level.candidate.projection
                          /\ t.type = level.candidate.type

PassesCtrSplit(level, key) ==
    Above(Scaled(NumeratorDenominator(TableFor(level), key, level.candidate.border),
                 level.candidate.prior),
          CtrBinBorderToValueSpace(level.bin))

(***************************************************************************)
(* Properties.                                                             *)
(***************************************************************************)
(* The stages keep their buffers: one approximant per object and fold, and *)
(* no tree beyond the iteration count (fn boosting_loop's locals).         *)
TypeOK ==
    /\ stage \in {"folds", "iteration", "search", "leaves", "done"}
    /\ iter \in 0..Iterations /\ Len(trees) = iter
    /\ stage # "folds" =>
          /\ approx \in [Objects -> Int]
          /\ foldApprox \in [FoldIds -> [Objects -> Int]]
          /\ segApprox \in [DOMAIN Segments -> [Objects -> Int]]
          /\ \A k \in DOMAIN stream : stream[k] \in [Objects -> Objects]

(* The orders composed from the shared stream (a shuffle read through      *)
(* another) still visit every object once, and the segments of an order    *)
(* grow from the first body to the last object without gap or overlap.     *)
FoldsVisitEveryObject ==
    stage = "iteration" =>
      /\ \A f \in FoldIds :
            {FoldOrder(stream, f)[k] : k \in Objects} = Objects
      /\ {AverageOrder(stream)[k] : k \in Objects} = Objects
      /\ LET segs == Segments
         IN  \A s \in DOMAIN segs :
               /\ 0 < segs[s].body /\ segs[s].body < segs[s].tail
               /\ segs[s].tail = IF s = Len(segs) THEN N ELSE segs[s + 1].body

(* No categorical value a row is trained on uses that row's class or a     *)
(* later row's, in any fold (the prefix is read before it is incremented). *)
OwnClassNeverRead ==
    (stage = "iteration" /\ iter = 0 /\ HasCtr) =>
      \A order \in {FoldOrder(stream, f) : f \in FoldIds} \cup {AverageOrder(stream)} :
        \A k \in Objects :
          LET other == [data.cls EXCEPT ![order[k]] = 1 - @]
              mine  == ColumnsUnder(order)
              its   == CtrColumns(CtrData, other, config.settings, order)
          IN  \A j \in DOMAIN mine, m \in 1..k :
                 mine[j].bins[order[m]] = its[j].bins[order[m]]

(* Ordered boosting: the class of an object reaches no segment's           *)
(* approximant of a row before it, except through a body it shares.        *)
LaterClassesNeverReachARow ==
    (stage = "iteration" /\ ~HasCtr) =>
      \A s \in DOMAIN segApprox, i \in Objects :
         LET at == PositionIn(LearningOrder, i)
         IN  PositionIn(LearningOrder, flipped) > Larger(at, Segments[s].body)
               => segApprox[s][i] = segTwin[s][i]

(* The CTR values a row is trained on know neither its own class nor a     *)
(* later one's, and the approximant its derivative is taken at no later    *)
(* one's.  Its own it may know: a tail row adds to its leaf, then reads.   *)
NoRowLearnsFromItsFuture == OwnClassNeverRead /\ LaterClassesNeverReachARow

(* The averaging approximant is what the accumulated model says of the     *)
(* learn rows, bias and shrinking included, whichever fold grew each tree. *)
LearnApproxIsModel ==
    stage = "iteration" =>
      \A i \in Objects :
         LET upTo[t \in 0..Len(trees)] ==
                IF t = 0 THEN bias
                ELSE upTo[t - 1] + trees[t].values[trees[t].leafOf[i]]
         IN  approx[i] = upTo[Len(trees)]

(* The search reads a column by index, everything after by identity: on    *)
(* the taken fold both give the same leaves, so reusing them is sound.     *)
TakenFoldLeavesAreItsOwn ==
    (stage = "leaves" /\ HasCtr) =>
       grown.leafOf = AssignLeafOverCtrColumns(foldColumns[TakenFold], grown.levels)

(* Each learning fold's approximant is what its own columns and the trees' *)
(* structures alone give, however the iterations took turns on the folds.  *)
FoldApproxIsItsOwnFit ==
    (stage = "iteration" /\ HasCtr /\ ~config.shrinks) =>
      \A f \in FoldIds :
         LET fit[t \in 0..Len(trees)] ==
                IF t = 0 THEN [i \in Objects |-> bias]
                ELSE LET leafOf == AssignLeafOverCtrColumns(foldColumns[f], trees[t].levels)
                     IN  Advanced(fit[t - 1], leafOf,
                                  LeafValues(leafOf, Derivatives(data.cls, fit[t - 1])))
         IN  foldApprox[f] = fit[Len(trees)]

(* Every fold visits every object, and every buffer the iterations advance *)
(* is the approximant it stands for, whichever fold each tree was searched *)
(* on.                                                                     *)
BuffersAreTheirFits ==
    TypeOK /\ FoldsVisitEveryObject /\ LearnApproxIsModel /\ TakenFoldLeavesAreItsOwn /\ FoldApproxIsItsOwnFit

(* A saved table decides each split as training would decide it for a row  *)
(* that comes after the whole learn set: known value or not.               *)
Unseen(projection) == [f \in projection |-> "unseen"]

AppliedCtrContinuesTraining ==
    stage = "done" =>
      \A v \in CtrLevelsOf(trees) :
        \A key \in KeysOf(CtrData, v.candidate.projection)
                     \cup {Unseen(v.candidate.projection)} :
           PassesCtrSplit(v, key) <=>
             OnlineBin(OnlinePair(CtrData, data.cls, v.candidate, Objects, key),
                       v.candidate.prior) > v.bin
=============================================================================
