--------------------------- MODULE MCFoldTraining ---------------------------
(* Small instance: four objects, two categorical features of two values    *)
(* (a third value only in an eval row), three priors, two learning folds.  *)
EXTENDS FoldTraining

MCDatasets ==
    {[rows |-> <<<<"a", "x">>, <<"b", "x">>, <<"a", "y">>, <<"a", "x">>>>,
      extra |-> <<<<"b", "x">>, <<"b", "x">>, <<"c", "y">>>>,
      cls |-> c, floats |-> {{1, 3}}] : c \in {<<1, 0, 1, 1>>, <<0, 1, 1, 0>>}}

Ctr(type, priors) == [type |-> type, priors |-> priors]

Settings(simple, combinations) ==
    [simple |-> simple, combinations |-> combinations,
     projections |-> <<{1}, {1, 2}>>]
BucketsAndCounter == Settings(Ctr("Buckets", <<1, 4>>), Ctr("Counter", <<0>>))
BordersAndMean    == Settings(Ctr("Borders", <<-1, 1>>),
                              Ctr("BinarizedTargetMeanValue", <<>>))

Config(ctr, ordered, logloss, hasTime, shrinks, settings) ==
    [ctr |-> ctr, ordered |-> ordered, logloss |-> logloss, hasTime |-> hasTime,
     shrinks |-> shrinks, counterFull |-> ~hasTime, settings |-> settings]

PlainConfigs ==
    {Config(FALSE, o, FALSE, t, s, BucketsAndCounter) : o, t, s \in BOOLEAN}
CtrConfigs ==
    {Config(TRUE, FALSE, TRUE, FALSE, FALSE, BucketsAndCounter),
     Config(TRUE, FALSE, TRUE, FALSE, FALSE, BordersAndMean),
     Config(TRUE, FALSE, FALSE, TRUE, TRUE, BucketsAndCounter)}
MCConfigs      == PlainConfigs \cup CtrConfigs

MCMultiplier == <<2, 1>>
MCDraws == {<<1, 0, 2>>, <<0, 2, 1>>}
=============================================================================
