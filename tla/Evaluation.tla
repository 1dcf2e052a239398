----------------------------- MODULE Evaluation -----------------------------
(***************************************************************************)
(* The computations that numbers are published from, each on a few rows:   *)
(* thresholds.py tunes a label's threshold, evaluate.py resamples the      *)
(* held-out rows, fairness.py compares a slice of them with the whole,     *)
(* monitoring/stats.py weighs the reviewed sample.  Each is translated as  *)
(* it computes, and its property states what its result has to be.         *)
(*                                                                         *)
(* Rationals are pairs of a numerator and a positive denominator.          *)
(***************************************************************************)
EXTENDS Naturals, FiniteSets, FiniteSetsExt, LabelSet

CONSTANTS
    Samples,    \* rows of a table: 1..Samples
    GridSize,   \* thresholds of the grid; a score is how many of them it reaches
    Weights,    \* recall weights: the beta of F-beta
    Design      \* denominator of the audit rates, a multiple of each rate's numerator

ASSUME EvaluationAssumption ==
    /\ Samples \in Nat \ {0} /\ GridSize \in Nat \ {0} /\ Design \in Nat \ {0}
    /\ Weights \subseteq Nat \ {0}
    /\ IsFiniteSet(Annotated)

Sample == 1..Samples
Grid == 1..GridSize
Default == 0    \* DEFAULT_THRESHOLD, 0.5: it is not one of the grid's points
Rates == {a \in 1..Design : Design % a = 0}

VARIABLES
    task,       \* what is computed, and from what
    answer      \* its result

evaluationVars == <<task, answer>>

\* tune_thresholds refuses rows without a fold or a finite score: these all have one.
Tunings == [kind : {"tune"}, truth : [Sample -> {0, 1}], score : [Sample -> 0..GridSize],
            beta : Weights]
Resamplings == [kind : {"resample"}, truth : [Sample -> SUBSET Annotated]]
Slicings == [kind : {"slice"}, truth : [Sample -> SUBSET Annotated],
             flags : [Sample -> SUBSET Annotated], mask : SUBSET Sample]
Audits == [kind : {"audit"}, flagged : SUBSET Sample, correct : SUBSET Sample,
           rate : [Sample -> Rates]]

NoAnswer == <<>>

EvaluationInit ==
    /\ \/ task \in Tunings
       \/ task \in Resamplings
       \/ task \in Slicings
       \/ task \in Audits
    /\ answer = NoAnswer

-----------------------------------------------------------------------------
\* Rationals.

Add(p, q) == <<p[1] * q[2] + q[1] * p[2], p[2] * q[2]>>
Leq(p, q) == p[1] * q[2] <= q[1] * p[2]
Less(p, q) == p[1] * q[2] < q[1] * p[2]
SumOf(f, S) == FoldFunctionOnSet(Add, <<0, 1>>, f, S)

-----------------------------------------------------------------------------
\* evaluate.py: the counts at a threshold, and F1, which is 0 where nothing is there
\* to be found or flagged.

F1(tp, fp, fn) == IF 2 * tp + fp + fn = 0 THEN <<0, 1>> ELSE <<2 * tp, 2 * tp + fp + fn>>

\* _f_beta: the weighted harmonic mean of precision tp / (tp + fp) and recall
\* tp / (tp + fn), and 0 when nothing true was caught.
FBeta(tp, fp, fn, beta) ==
    IF tp = 0 THEN <<0, 1>>
    ELSE LET p == <<tp, tp + fp>>  r == <<tp, tp + fn>>  b2 == beta * beta IN
         <<(1 + b2) * p[1] * r[1], b2 * p[1] * r[2] + r[1] * p[2]>>

Positives(t) == {i \in Sample : t.truth[i] = 1}
Caught(t, g) == Cardinality({i \in Positives(t) : t.score[i] >= g})
FalseAlarms(t, g) == Cardinality({i \in Sample \ Positives(t) : t.score[i] >= g})
Missed(t, g) == Cardinality(Positives(t)) - Caught(t, g)

ScoreAt(t, g) == FBeta(Caught(t, g), FalseAlarms(t, g), Missed(t, g), t.beta)

\* Mutation: ties resolve upwards.
ScanLast(t) ==
    LET best[g \in Grid] ==
            IF g = 1 THEN 1
            ELSE IF Leq(ScoreAt(t, best[g - 1]), ScoreAt(t, g)) THEN g ELSE best[g - 1]
    IN  best[GridSize]

\* _tune_one walks up the grid and keeps the first threshold of the best score ...
Scan(t) ==
    LET best[g \in Grid] ==
            IF g = 1 THEN 1
            ELSE IF Less(ScoreAt(t, best[g - 1]), ScoreAt(t, g)) THEN g ELSE best[g - 1]
    IN  best[GridSize]

\* ... and falls back where there is no positive, or where none is caught anywhere.
TuneOne(t) ==
    IF Positives(t) = {} \/ ScoreAt(t, Scan(t))[1] = 0 THEN Default ELSE Scan(t)

Tune ==
    /\ task.kind = "tune" /\ answer = NoAnswer
    /\ answer' = <<TuneOne(task)>>
    /\ task' = task

-----------------------------------------------------------------------------
\* Mutation: strata of rows with and without a label.
StratumOfAny(t, i) == {j \in Sample : (t.truth[j] = {}) = (t.truth[i] = {})}

\* evaluate.py: the rows that carry exactly the same labels are one stratum, and a
\* resample draws, for each place in a stratum, a row of that stratum.

Stratum(t, i) == {j \in Sample : t.truth[j] = t.truth[i]}

Resample ==
    /\ task.kind = "resample" /\ answer = NoAnswer
    /\ answer' \in {d \in [Sample -> Sample] : \A i \in Sample : d[i] \in Stratum(task, i)}
    /\ task' = task

-----------------------------------------------------------------------------
\* fairness.py: the F1 of a label over some rows, defined where it has positives there.

With(labels, l, S) == {i \in S : l \in labels[i]}

LabelF1(t, l, S) ==
    LET actual == With(t.truth, l, S)  flagged == With(t.flags, l, S) IN
    F1(Cardinality(actual \cap flagged), Cardinality(flagged \ actual),
       Cardinality(actual \ flagged))

Scored(t, S) == {l \in Annotated : With(t.truth, l, S) # {}}

LabelF1s(t, S) == [l \in Annotated |-> LabelF1(t, l, S)]

\* Mutation: the slice's mean over its labels against the mean over all that are scored.
SliceTotalsOverall(t) ==
    <<Add(<<0, Cardinality(Scored(t, Sample))>>,
          SumOf(LabelF1s(t, t.mask), Scored(t, t.mask))),
      SumOf(LabelF1s(t, Sample), Scored(t, Sample))>>

\* The slice's macro-F1 and that of the whole set over the same labels, both times the
\* number of labels.
SliceTotals(t) ==
    <<SumOf(LabelF1s(t, t.mask), Scored(t, t.mask)),
      SumOf(LabelF1s(t, Sample), Scored(t, t.mask))>>

\* A slice whose macro-F1 gap is negative is a candidate for worst_f1_term.
Slice ==
    /\ task.kind = "slice" /\ answer = NoAnswer
    /\ task.mask # {}
    /\ answer' = <<Scored(task, task.mask) # {} /\ Less(SliceTotals(task)[1], SliceTotals(task)[2])>>
    /\ task' = task

-----------------------------------------------------------------------------
\* audit.py and stats.py: every flagged request is reviewed, an allowed one with the
\* probability rate / Design; a reviewed row weighs the inverse of the probability it
\* was sampled with.  Sums are in units of 1.

Chance(t, i) == IF i \in t.flagged THEN Design ELSE t.rate[i]

\* Mutation: the two strata are pooled.
WeightPooled(t, i) == 1

Weight(t, i) == Design \div Chance(t, i)

Weighed(t, S) == SumFunctionOnSet([i \in Sample |-> Weight(t, i)], S)

\* The two sums of horvitz_thompson_accuracy over the reviewed rows S.
Estimate(t, S) == <<Weighed(t, S \cap t.correct), Weighed(t, S)>>

Audit ==
    /\ task.kind = "audit" /\ answer = NoAnswer
    /\ \E S \in SUBSET Sample :
         /\ \A i \in Sample : Chance(task, i) = Design => i \in S
         /\ answer' = Estimate(task, S)
    /\ task' = task

EvaluationNext == Tune \/ Resample \/ Slice \/ Audit

EvaluationSpec == EvaluationInit /\ [][EvaluationNext]_evaluationVars

-----------------------------------------------------------------------------
Done(kind) == task.kind = kind /\ answer # NoAnswer

\* A tuned threshold is the lowest of those with the highest F-beta on the grid, and the
\* neutral one exactly when no threshold catches a positive: never the lowest point of
\* the grid by default, which would flag nearly everything (thresholds.py:20-24).
TunedBest ==
    Done("tune") =>
        LET g == answer[1]
            Caughts == {h \in Grid : Caught(task, h) > 0}
        IN  IF Caughts = {} THEN g = Default
            ELSE /\ g \in Caughts
                 /\ \A h \in Grid : Leq(ScoreAt(task, h), ScoreAt(task, g))
                 /\ \A h \in 1..(g - 1) : Less(ScoreAt(task, h), ScoreAt(task, g))

\* What the tuner maximises for a label of weight 1 is the F1 that evaluation reports: the
\* two modules compute it along different ways, with different guards against 0 / 0.
ScoresAgree ==
    (Done("tune") /\ task.beta = 1) =>
        \A g \in Grid :
            LET f == F1(Caught(task, g), FalseAlarms(task, g), Missed(task, g)) IN
            Leq(f, ScoreAt(task, g)) /\ Leq(ScoreAt(task, g), f)

\* The tuner is sound: it finds the best threshold of the score that is reported.
TunerSound == TunedBest /\ ScoresAgree

\* Every resample has as many positives of every label as the rows it is drawn from, so
\* no macro average inherits a resample without a rare label (evaluate.py:396-401).
SupportKept ==
    Done("resample") =>
        \A l \in Annotated :
            Cardinality({i \in Sample : l \in task.truth[answer[i]]}) =
                Cardinality(With(task.truth, l, Sample))

\* A slice in which no label does worse than over the whole set is never reported as
\* losing F1, however few of the labels it has positives for: like is compared with
\* like (fairness.py:292-295).
LikeWithLike ==
    (Done("slice") /\ \A l \in Scored(task, task.mask) :
                          Leq(LabelF1(task, l, Sample), LabelF1(task, l, task.mask)))
        => ~ answer[1]

\* No number is compared with one taken over other labels: not between resamples, and not
\* between a slice and the whole set.
ComparedAlike == SupportKept /\ LikeWithLike

\* Probabilities in units of 1 / Certain: of that exactly the rows S are reviewed ...
Product(f, S) == FoldFunctionOnSet(LAMBDA a, b : a * b, 1, f, S)

Certain == Product([i \in Sample |-> Design], Sample)

Likelihood(t, S) ==
    Product([i \in Sample |-> IF i \in S THEN Chance(t, i) ELSE Design - Chance(t, i)], Sample)

\* ... and what a number is on average over all the audits chance may make.
Mean(t, of) == SumFunctionOnSet([S \in SUBSET Sample |-> Likelihood(t, S) * of[S]], SUBSET Sample)

\* Both sums of the estimator are unbiased: over all the audits chance may make, the
\* weighted number of correct decisions averages to the number of correct decisions of
\* the whole traffic, and the weights to its size, whichever rates were configured when
\* (stats.py:3-7).  Their quotient, which is what is shown, is not; see the README.
TotalsUnbiased ==
    Done("audit") =>
        LET estimate(k) == [S \in SUBSET Sample |-> Estimate(task, S)[k]]
        IN  /\ Mean(task, estimate(1)) = Cardinality(task.correct) * Certain
            /\ Mean(task, estimate(2)) = Samples * Certain

=============================================================================
