-------------------------- MODULE Pipeline_proofs ---------------------------
(***************************************************************************)
(* Proofs about the pipeline that makes the models: Corpus, Evaluation,    *)
(* Challenger and Release.                                                 *)
(***************************************************************************)
EXTENDS Corpus, Evaluation, Challenger, Release, FiniteSetTheorems, WellFoundedInduction, TLAPS


-----------------------------------------------------------------------------
(* Corpus                                                                  *)

\* The lowest of a set of numbers is there and is the lowest.
LEMMA LowestIs ==
    ASSUME NEW S \in SUBSET Nat, S # {}
    PROVE  Lowest(S) \in S /\ \A p \in S : Lowest(S) <= p
<1>1. \E R : IsWellFoundedOn(R, Nat) /\ \A x, y \in Nat : y < x => <<y, x>> \in R
  <2>1. \A x, y \in Nat : y < x => <<y, x>> \in OpToRel(<, Nat)
    BY DEF OpToRel
  <2>2. QED
    BY <2>1, NatLessThanWellFounded
<1>2. PICK R : IsWellFoundedOn(R, Nat) /\ \A x, y \in Nat : y < x => <<y, x>> \in R
  BY <1>1
<1>3. PICK x \in S : \A y \in S : ~ (<<y, x>> \in R)
  BY <1>2, WFMin
<1>4. ASSUME NEW y \in S PROVE x <= y
  <2>1. x \in Nat /\ y \in Nat /\ ~ (<<y, x>> \in R)
    BY <1>3
  <2>2. ~ (y < x)
    BY <1>2, <2>1
  <2>3. QED
    BY <2>1, <2>2
<1>5. QED
  BY <1>3, <1>4 DEF Lowest

\* The row a text is collapsed into is one of its rows, and carries the labels of all.
LEMMA CollapsedInto ==
    ASSUME CorpusTypeOK, NEW r \in Ids
    PROVE  /\ Lowest(SameText(r)) \in Ids
           /\ text[Lowest(SameText(r))] = text[r]
           /\ labels[r] \subseteq UNION {labels[q] : q \in SameText(Lowest(SameText(r)))}
<1>1. SameText(r) \in SUBSET Nat /\ SameText(r) # {}
  BY CorpusAssumption DEF SameText, Ids
<1>2. Lowest(SameText(r)) \in SameText(r)
  BY <1>1, LowestIs
<1>3. Lowest(SameText(r)) \in Ids /\ text[Lowest(SameText(r))] = text[r]
  BY <1>2 DEF SameText
<1>4. r \in SameText(Lowest(SameText(r)))
  BY <1>3 DEF SameText
<1>5. QED
  BY <1>3, <1>4

Begun == {"collapsed", "split", "accepted", "profiled"}

\* A row that dedup has not considered stands for copies of its own text only, so what is
\* merged with it later was compared on the text it stands for.
StandsForCopies ==
    stage \in Begun => \A r \in Ids : keeper[r] \in todo => text[r] = text[keeper[r]]

\* Two rows that both survived and are alike were never compared.
SurvivorsMissed ==
    \A a, b \in kept : a # b /\ Alike(text[a], text[b]) => {text[a], text[b]} \in missed

Deduplicated ==
    /\ CorpusTypeOK
    /\ stage = "raw" => kept = {}
    /\ LabelsKept
    /\ StandsForCopies
    /\ SurvivorsMissed

LEMMA DeduplicatedAlways == CorpusSpec => []Deduplicated
<1>1. CorpusInit => Deduplicated
  BY DEF CorpusInit, Deduplicated, CorpusTypeOK, LabelsKept, StandsForCopies, SurvivorsMissed, Begun
<1>2. Deduplicated /\ [CorpusNext]_corpusVars => Deduplicated'
  <2> SUFFICES ASSUME Deduplicated, [CorpusNext]_corpusVars PROVE Deduplicated'
    OBVIOUS
  <2> USE DEF raw, Begun
  <2>1. ASSUME UNCHANGED <<raw, todo, kept, merged, keeper, missed>>,
               stage' \in Begun => stage \in Begun,
               stage' = "raw" => stage = "raw",
               stage' \in Begun \cup {"raw", "refused"}
        PROVE  Deduplicated'
    BY <2>1 DEF Deduplicated, CorpusTypeOK, LabelsKept, StandsForCopies, SurvivorsMissed,
                  Alike, Pairs
  <2>2. CASE CollapseExact
    <3>1. /\ \A r \in Ids : /\ keeper'[r] = Lowest(SameText(r))
                            /\ merged'[r] = UNION {labels[q] : q \in SameText(r)}
          /\ todo' = {Lowest(SameText(r)) : r \in Ids}
      BY <2>2 DEF CollapseExact
    <3>0. /\ UNCHANGED <<text, labels, similar, gateSees, missed>>
          /\ kept = {} /\ kept' = {} /\ stage' = "collapsed"
      BY <2>2 DEF CollapseExact, Deduplicated
    <3>2. CorpusTypeOK'
      <4>1. \A r \in Ids : Lowest(SameText(r)) \in Ids
        BY CollapsedInto DEF Deduplicated
      <4>2. \A r \in Ids : UNION {labels[q] : q \in SameText(r)} \in SUBSET Annotated
        BY DEF SameText, Deduplicated, CorpusTypeOK
      <4>3. keeper' \in [Ids -> Ids] /\ merged' \in [Ids -> SUBSET Annotated]
        BY <2>2, <4>1, <4>2 DEF CollapseExact
      <4>4. todo' \subseteq Ids
        <5>1. todo' = {Lowest(SameText(r)) : r \in Ids}
          BY <2>2, Zenon DEF CollapseExact
        <5>2. QED
          BY <4>1, <5>1
      <4>5. QED
        BY <3>0, <4>3, <4>4 DEF Deduplicated, CorpusTypeOK, Pairs
    <3>3. \A r \in Ids : /\ keeper'[r] \in todo'
                         /\ labels[r] \subseteq merged'[keeper'[r]]
                         /\ text[keeper'[r]] = text[r]
      <4>1. \A r \in Ids : Lowest(SameText(r)) \in Ids
        BY CollapsedInto DEF Deduplicated
      <4>2. QED
        BY <3>1, <4>1, CollapsedInto DEF Deduplicated
    <3>4. LabelsKept' /\ StandsForCopies'
      BY <3>0, <3>3 DEF LabelsKept, StandsForCopies, Alike
    <3>5. SurvivorsMissed'
      BY <3>0 DEF SurvivorsMissed
    <3>6. QED
      BY <3>0, <3>2, <3>4, <3>5 DEF Deduplicated
  <2>3. ASSUME NEW r \in Ids, NEW nominated \in SUBSET kept, Consider(r, nominated)
        PROVE  Deduplicated'
    <3> DEFINE verified == {c \in nominated : Alike(text[c], text[r])}
    <3>1. /\ stage = "collapsed" /\ stage' = "collapsed" /\ r \in todo /\ r \notin kept
          /\ todo' = todo \ {r}
          /\ missed' = missed \cup {{text[c], text[r]} : c \in kept \ nominated}
          /\ UNCHANGED <<text, labels, similar, gateSees>>
      BY <2>3 DEF Consider, Deduplicated, CorpusTypeOK
    <3>2. missed' \subseteq Pairs /\ missed \subseteq missed'
      BY <3>1 DEF Deduplicated, CorpusTypeOK, Pairs
    <3>3. CASE verified = {}
      <4>1. kept' = kept \cup {r} /\ merged' = merged /\ keeper' = keeper
        BY <2>3, <3>3 DEF Consider
      <4>2. CorpusTypeOK'
        BY <3>1, <3>2, <4>1 DEF Deduplicated, CorpusTypeOK, Pairs
      <4>3. LabelsKept' /\ StandsForCopies'
        BY <3>1, <4>1 DEF Deduplicated, LabelsKept, StandsForCopies, Alike
      <4>4. \A c \in kept : Alike(text[c], text[r]) => {text[c], text[r]} \in missed'
        BY <3>1, <3>3
      <4>5. \A c \in kept : Alike(text[r], text[c]) => {text[r], text[c]} \in missed'
        BY <4>4 DEF Alike
      <4>6. SurvivorsMissed'
        BY <3>1, <3>2, <4>1, <4>4, <4>5 DEF Deduplicated, SurvivorsMissed, Alike
      <4>7. QED
        BY <3>1, <4>2, <4>3, <4>6 DEF Deduplicated
    <3>4. CASE verified # {}
      <4>1. PICK rep \in verified :
                /\ merged' = [merged EXCEPT ![rep] = @ \cup merged[r]]
                /\ keeper' = [q \in Ids |-> IF keeper[q] = r THEN rep ELSE keeper[q]]
                /\ kept' = kept
        BY <2>3, <3>4 DEF Consider
      <4>2. rep \in kept /\ rep \in Ids /\ rep # r /\ Alike(text[rep], text[r])
        BY <3>1 DEF Deduplicated, CorpusTypeOK
      <4>3. CorpusTypeOK'
        BY <3>1, <3>2, <4>1, <4>2 DEF Deduplicated, CorpusTypeOK, Pairs
      <4>4. \A q \in Ids : /\ labels[q] \subseteq merged[keeper[q]]
                           /\ keeper[q] \in kept \cup todo /\ keeper[q] \in Ids
                           /\ Alike(text[q], text[keeper[q]])
                           /\ keeper[q] = r => text[q] = text[r]
        BY <3>1 DEF Deduplicated, LabelsKept, StandsForCopies, CorpusTypeOK
      <4>5. \A q \in Ids : merged'[q] = IF q = rep THEN merged[rep] \cup merged[r] ELSE merged[q]
        BY <4>1, <4>2 DEF Deduplicated, CorpusTypeOK
      <4>6. ASSUME NEW q \in Ids
            PROVE  /\ keeper'[q] \in kept \cup (todo \ {r})
                   /\ labels[q] \subseteq merged'[keeper'[q]]
                   /\ Alike(text[q], text[keeper'[q]])
        <5>1. CASE keeper[q] = r
          <6>1. keeper'[q] = rep /\ text[q] = text[r]
            BY <4>1, <4>4, <5>1
          <6>2. labels[q] \subseteq merged'[rep]
            BY <4>2, <4>4, <4>5, <5>1
          <6>3. Alike(text[r], text[rep])
            BY <4>2 DEF Alike
          <6>4. QED
            BY <4>2, <6>1, <6>2, <6>3
        <5>2. CASE keeper[q] # r
          <6>1. keeper'[q] = keeper[q]
            BY <4>1, <5>2
          <6>2. QED
            BY <4>4, <4>5, <5>2, <6>1
        <5>3. QED
          BY <5>1, <5>2
      <4>7. LabelsKept'
        BY <3>1, <4>1, <4>6 DEF LabelsKept, Alike
      <4>8. StandsForCopies'
        BY <3>1, <4>1, <4>2 DEF Deduplicated, StandsForCopies, CorpusTypeOK
      <4>9. SurvivorsMissed'
        BY <3>1, <3>2, <4>1 DEF Deduplicated, SurvivorsMissed, Alike
      <4>10. QED
        BY <3>1, <4>3, <4>7, <4>8, <4>9 DEF Deduplicated
    <3>5. QED
      BY <3>3, <3>4
  <2>4. QED
    BY <2>1, <2>2, <2>3 DEF CorpusNext, corpusVars, LoadRaises, Split, GateAccepts, GateRefuses,
       Profile, Deduplicated, CorpusTypeOK
<1>3. QED
  BY <1>1, <1>2, PTL DEF CorpusSpec

\* However the bands collided and whatever was merged before, every raw row's labels are
\* on the row that stands for it.
THEOREM LabelsKeptCorrect == CorpusSpec => []LabelsKept
BY DeduplicatedAlways, PTL DEF Deduplicated

LEMMA TrainTestSizes ==
    ASSUME CorpusTypeOK
    PROVE  Cardinality(Train) \in Nat /\ Cardinality(Test) \in Nat
<1>1. IsFiniteSet(Ids)
  BY FS_Interval, CorpusAssumption DEF Ids
<1>2. Train \subseteq Ids /\ Test \subseteq Ids
  BY DEF Train, Test, CorpusTypeOK
<1>3. QED
  BY <1>1, <1>2, FS_Subset, FS_CardinalityType

\* What passed the gate and is alike on both sides was missed twice, by bands drawn
\* independently, in a corpus too large for the exhaustive comparison.
THEOREM NoLeakCorrect == CorpusSpec => []NoLeak
<1>1. CorpusInit => NoLeak
  BY DEF CorpusInit, NoLeak
<1>2. Deduplicated /\ NoLeak /\ [CorpusNext]_corpusVars => NoLeak'
  <2> SUFFICES ASSUME Deduplicated, NoLeak, [CorpusNext]_corpusVars PROVE NoLeak'
    OBVIOUS
  <2>0. ASSUME UNCHANGED <<raw, kept, missed, side>>
        PROVE  Train' = Train /\ Test' = Test /\ UNCHANGED <<text, similar, gateSees, missed>>
    BY <2>0 DEF Train, Test, raw
  <2>1. CASE stage' \notin {"accepted", "profiled"}
    BY <2>1 DEF NoLeak
  <2>2. CASE UNCHANGED <<raw, kept, missed, side>> /\ stage \in {"accepted", "profiled"}
    BY <2>0, <2>2 DEF NoLeak, Alike
  <2>3. CASE GateAccepts
    <3>1. UNCHANGED <<raw, kept, missed, side>> /\ ExactLeak = {} /\ Hits = {}
      BY <2>3 DEF GateAccepts
    <3>2. ASSUME NEW a \in Train, NEW b \in Test, Alike(text[a], text[b])
          PROVE  /\ {text[a], text[b]} \in missed \ gateSees
                 /\ Cardinality(Train) * Cardinality(Test) > PairBudget
      <4>1. text[a] # text[b]
        BY <3>1 DEF ExactLeak
      <4>2. a # b /\ a \in kept /\ b \in kept
        BY <4>1 DEF Train, Test
      <4>3. {text[a], text[b]} \in missed
        BY <3>2, <4>2 DEF Deduplicated, SurvivorsMissed
      <4>4. ~ Compared(a, b)
        <5>1. <<a, b>> \notin Hits
          BY <3>1
        <5>2. QED
          BY <3>2, <5>1 DEF Hits
      <4>5. Cardinality(Train) * Cardinality(Test) \in Nat /\ PairBudget \in Nat
        BY TrainTestSizes, CorpusAssumption DEF Deduplicated
      <4>6. QED
        BY <4>3, <4>4, <4>5 DEF Compared
    <3>3. QED
      BY <2>0, <3>1, <3>2 DEF NoLeak, Alike
  <2>4. QED
    BY <2>1, <2>2, <2>3 DEF CorpusNext, corpusVars, raw, LoadRaises, CollapseExact, Consider, Split,
       GateRefuses, Profile
<1>3. QED
  BY <1>1, <1>2, DeduplicatedAlways, PTL DEF CorpusSpec

-----------------------------------------------------------------------------
(* Release                                                                 *)

\* What each place of the two programs holds, which the types alone do not say.
Held ==
    /\ tpc # "idle" => tsplit \in Splits
    /\ tpc = "checkpoint" => k \in OuterFold
    /\ tpc = "cv" => \A j \in OuterFold : j < k => rowScores[j] \in Splits
    /\ tpc = "checkpoint" => \A j \in OuterFold : j <= k => rowScores[j] \in Splits
    /\ rpc # "idle" => rsplit \in Splits
    /\ rpc \notin {"idle", "opened"} => rthr \in Tuned
    /\ rpc \notin {"idle", "opened", "loaded"} => result \in Result

ReleaseInv == ReleaseTypeOK /\ Held

LEMMA ReleaseTyped == ReleaseSpec => []ReleaseInv
<1> USE ConstantsAssumption DEF Maybe, Names, OuterFold, Stages, TrainPlaces, ReleasePlaces
<1>1. ReleaseInit => ReleaseInv
  BY DEF ReleaseInit, ReleaseInv, ReleaseTypeOK, Held, Unscored
<1>2. ReleaseInv /\ [ReleaseNext]_releaseVars => ReleaseInv'
  <2> SUFFICES ASSUME ReleaseInv, [ReleaseNext]_releaseVars
               PROVE  ReleaseInv'
    OBVIOUS
  <2> USE DEF ReleaseInv, ReleaseTypeOK, Held, tvars, rvars, world
  <2>1. CASE UNCHANGED releaseVars
    BY <2>1 DEF releaseVars
  <2>2. ASSUME NEW s \in Splits, RemoveOldCache(s) PROVE ReleaseInv'
    BY <2>2 DEF RemoveOldCache
  <2>3. CASE MoveCacheIn \/ KillRebuild
    BY <2>3 DEF MoveCacheIn, KillRebuild
  <2>4. ASSUME NEW j \in OuterFold, DeleteTorn(j) PROVE ReleaseInv'
    BY <2>4 DEF DeleteTorn
  <2>5. CASE TrainPhase1
    <3>1. CASE TrainEnds
      BY <3>1 DEF TrainEnds, Unscored
    <3>2. CASE LoadBundle \/ StartRun \/ MeasureLatency
      BY <3>2 DEF LoadBundle, StartRun, MeasureLatency
    <3>3. ASSUME NEW part \in Stages, BeginStage(part) PROVE ReleaseInv'
      BY <3>3 DEF BeginStage, Unscored
    <3>4. CASE ResumeFold
      BY <3>4 DEF ResumeFold, Readable
    <3>5. CASE FitFold
      BY <3>5 DEF FitFold
    <3>6. CASE Checkpoint
      BY <3>6 DEF Checkpoint
    <3>7. CASE DumpBaseline
      BY <3>7 DEF DumpBaseline, TrainWrites
    <3>8. CASE CacheOof
      BY <3>8 DEF CacheOof, TrainWrites, Oof
    <3>9. CASE TuneOutOfFold \/ DumpCvMetrics
      BY <3>9 DEF TuneOutOfFold, DumpCvMetrics, TrainWrites, Tuned, Readable
    <3>10. CASE DumpModel
      BY <3>10 DEF DumpModel, TrainWrites, Fitted
    <3>11. CASE DumpFootprint
      BY <3>11 DEF DumpFootprint, TrainWrites, Footprint, Readable
    <3>12. CASE TearCheckpoint
      BY <3>12 DEF TearCheckpoint, Unscored
    <3>13. ASSUME NEW n \in Names, TearFile(n) PROVE ReleaseInv'
      BY <3>13 DEF TearFile, Unscored, Writing
    <3>14. QED
      BY <2>5, <3>1, <3>2, <3>3, <3>4, <3>5, <3>6, <3>7, <3>8, <3>9, <3>10, <3>11, <3>12, <3>13
      DEF TrainPhase1, TrainDone, ResumeRaises, FitRaises, CvRaises, TuneRaises, FinalRaises,
          LatencyRaises, KillTraining
  <2>6. CASE Publish
    <3>1. CASE ReleaseStart \/ LoadThresholds \/ ReleaseStops \/ CheckDigest \/ Reload
      BY <2>6, <3>1 DEF ReleaseStart, LoadThresholds, ReleaseStops, CheckDigest, Reload,
        ReleaseEnds, ReleaseStays, boxFiles, Readable
    <3>2. CASE ScoreHeldOut
      BY <3>2 DEF ScoreHeldOut, ReleaseStays, boxFiles, Metrics, Result, Readable
    <3>3. CASE RecordTouch
      BY <3>3 DEF RecordTouch, boxFiles, Stray, Result
    <3>4. CASE WriteTestResult
      BY <3>4 DEF WriteTestResult, boxFiles, Filed, Readable, Result
    <3>5. CASE Upload
      BY <3>5 DEF Upload, boxFiles, Stray
    <3>6. CASE TearResult \/ EvaluationDies
      BY <3>6 DEF TearResult, EvaluationDies, boxFiles, Filed, Readable, Result
    <3>7. QED
      BY <2>6, <3>1, <3>2, <3>3, <3>4, <3>5, <3>6 DEF Publish
  <2>7. QED
    BY <2>1, <2>2, <2>3, <2>4, <2>5, <2>6 DEF ReleaseNext
<1>3. QED
  BY <1>1, <1>2, PTL DEF ReleaseSpec

\* The held-out evaluation, wherever it is: in the release process, on disk, or read.
Measured ==
    /\ \A r \in readings : r.split \in touched
    /\ HeldOutOnce
    /\ rpc = "scored" => result.split = rsplit
    /\ rpc \in {"evaluated", "written", "checked", "published"} => result \in readings
    /\ rpc \in {"written", "checked", "published"} => disk["test"] = result
    /\ Readable(disk["test"]) => disk["test"] \in readings
    /\ ResultKept

\* No step of the training process, of a rebuild or of a kill moves what Measured is about.
LEMMA MeasuredElsewhere ==
    ASSUME ReleaseInv, Measured, UNCHANGED <<rvars, world>>, disk'["test"] = disk["test"]
    PROVE  Measured'
BY DEF Measured, HeldOutOnce, ResultKept, rvars, world, Readable

LEMMA TrainKeepsTest ==
    ASSUME ReleaseInv, TrainPhase1
    PROVE  /\ UNCHANGED <<rvars, world>> /\ disk'["test"] = disk["test"]
           /\ bundle' = bundle /\ building' = building
<1> USE DEF ReleaseInv, ReleaseTypeOK, Names, TrainWrites
<1>1. CASE TrainEnds
  BY <1>1 DEF TrainEnds
<1>2. ASSUME NEW n \in Names, TearFile(n)
      PROVE  UNCHANGED <<rvars, world, bundle, building>> /\ disk'["test"] = disk["test"]
  BY <1>2 DEF TearFile, Writing
<1>3. ASSUME NEW part \in Stages, BeginStage(part)
      PROVE  UNCHANGED <<rvars, world, bundle, building>> /\ disk'["test"] = disk["test"]
  BY <1>3 DEF BeginStage
<1>4. QED
  BY <1>1, <1>2, <1>3 DEF TrainPhase1, TrainDone, ResumeRaises, FitRaises, CvRaises, TuneRaises,
     FinalRaises, LatencyRaises, KillTraining, LoadBundle, StartRun, MeasureLatency, ResumeFold,
     FitFold, Checkpoint, CacheOof, TuneOutOfFold, DumpCvMetrics, DumpBaseline, DumpModel,
     DumpFootprint, TearCheckpoint

LEMMA MeasuredAlways == ReleaseSpec => []Measured
<1>1. ReleaseInit => Measured
  BY DEF ReleaseInit, Measured, HeldOutOnce, ResultKept, Readable, Names
<1>2. ReleaseInv /\ Measured /\ [ReleaseNext]_releaseVars => Measured'
  <2> SUFFICES ASSUME ReleaseInv, Measured, [ReleaseNext]_releaseVars
               PROVE  Measured'
    OBVIOUS
  <2>1. CASE UNCHANGED releaseVars
    BY <2>1, MeasuredElsewhere DEF releaseVars
  <2>2. ASSUME NEW s \in Splits, RemoveOldCache(s) PROVE Measured'
    BY <2>2, MeasuredElsewhere DEF RemoveOldCache, ReleaseInv, ReleaseTypeOK, Names
  <2>3. CASE MoveCacheIn \/ KillRebuild
    BY <2>3, MeasuredElsewhere DEF MoveCacheIn, KillRebuild
  <2>4. ASSUME NEW j \in OuterFold, DeleteTorn(j) PROVE Measured'
    BY <2>4, MeasuredElsewhere DEF DeleteTorn
  <2>5. CASE TrainPhase1
    BY <2>5, TrainKeepsTest, MeasuredElsewhere
  <2>6. CASE Publish
    <3> USE DEF Measured, HeldOutOnce, ResultKept, Readable, world, ReleaseInv, ReleaseTypeOK,
                Held, Names
    <3>1. CASE ReleaseStart \/ LoadThresholds \/ ReleaseStops \/ CheckDigest
      BY <3>1 DEF ReleaseStart, LoadThresholds, ReleaseStops, CheckDigest, ReleaseEnds, ReleaseStays
    <3>2. CASE Reload
      BY <3>2 DEF Reload, ReleaseStays
    <3>3. CASE ScoreHeldOut
      BY <3>3 DEF ScoreHeldOut, ReleaseStays, Metrics
    <3>4. CASE RecordTouch
      BY <3>4 DEF RecordTouch
    <3>5. CASE WriteTestResult
      <4>1. /\ result \in readings /\ disk'["test"] = result
            /\ lost' = lost \cup (Filed \ {result.split})
            /\ UNCHANGED <<touched, readings, result, rsplit>>
            /\ rpc = "evaluated" /\ rpc' = "written"
        BY <3>5 DEF WriteTestResult
      <4>2. \A s \in touched : s = result.split \/ s \in Filed \/ s \in lost
        BY <4>1 DEF Filed
      <4>3. ResultKept'
        <5>1. Readable(result)
          BY <4>1, FilesAssumption
        <5> QED
          BY <4>1, <4>2, <5>1
      <4> QED
        BY <4>1, <4>3
    <3>6. CASE Upload
      BY <3>6 DEF Upload
    <3>7. CASE TearResult \/ EvaluationDies
      BY <3>7, ConstantsAssumption DEF TearResult, EvaluationDies, Filed
    <3>8. QED
      BY <2>6, <3>1, <3>2, <3>3, <3>4, <3>5, <3>6, <3>7 DEF Publish
  <2>7. QED
    BY <2>1, <2>2, <2>3, <2>4, <2>5, <2>6 DEF ReleaseNext
<1>3. QED
  BY <1>1, <1>2, ReleaseTyped, PTL DEF ReleaseSpec

\* Whoever dies between the scoring and the ledger, however often the cache is rebuilt
\* and the release run again: the held-out rows of a split yield one set of numbers.
THEOREM HeldOutOnceCorrect == ReleaseSpec => []HeldOutOnce
BY MeasuredAlways, PTL DEF Measured

\* Under any faults: a split whose rows were spent has its evaluation in the file of
\* results, or in the hands of the release that is about to write it, but for the three
\* ways to lose it.
THEOREM ResultKeptCorrect == ReleaseSpec => []ResultKept
<1>1. Measured => ResultKept
  BY DEF Measured
<1>2. QED
  BY <1>1, MeasuredAlways, PTL

-----------------------------------------------------------------------------
\* One process at a time, over a cache that no rebuild touches meanwhile.
Alone ==
    /\ tpc = "idle" \/ rpc = "idle"
    /\ building # Absent => bundle = Absent /\ tpc = "idle" /\ rpc = "idle"
    /\ tpc # "idle" => tsplit = bundle
    /\ rpc # "idle" => rsplit = bundle

\* Scores never outlive the cache they were made from: a checkpoint, the scores in
\* memory and those on disk are all of the split of the cache.
FoldsOfBundle ==
    /\ \A j \in OuterFold : ckpt[j] \in Splits => ckpt[j] = bundle
    /\ tpc = "cv" => \A j \in OuterFold : j < k => rowScores[j] = bundle
    /\ tpc = "checkpoint" => \A j \in OuterFold : j <= k => rowScores[j] = bundle
    /\ Readable(disk["oof"]) =>
         disk["oof"].labels = bundle /\ \A j \in OuterFold : disk["oof"].scored[j] = bundle

OutOfFold == Alone /\ FoldsOfBundle /\ TunedOutOfFold

LEMMA OutOfFoldInductive ==
    ASSUME "overlap" \notin Faults
    PROVE  /\ ReleaseInit => OutOfFold
           /\ ReleaseInv /\ OutOfFold /\ [ReleaseNext]_releaseVars => OutOfFold'
<1> USE ConstantsAssumption DEF Names, OuterFold, Readable
<1>1. ReleaseInit => OutOfFold
  BY DEF ReleaseInit, OutOfFold, Alone, FoldsOfBundle, TunedOutOfFold
<1>2. ReleaseInv /\ OutOfFold /\ [ReleaseNext]_releaseVars => OutOfFold'
  <2> SUFFICES ASSUME ReleaseInv, OutOfFold, [ReleaseNext]_releaseVars
               PROVE  OutOfFold'
    OBVIOUS
  <2> USE DEF OutOfFold, Alone, FoldsOfBundle, TunedOutOfFold, ReleaseInv, ReleaseTypeOK, Held,
              Maybe, tvars, rvars, world
  <2>1. CASE UNCHANGED releaseVars
    BY <2>1 DEF releaseVars
  <2>2. ASSUME NEW s \in Splits, RemoveOldCache(s) PROVE OutOfFold'
    BY <2>2 DEF RemoveOldCache, Undisturbed
  <2>3. CASE MoveCacheIn \/ KillRebuild
    BY <2>3 DEF MoveCacheIn, KillRebuild, Oof
  <2>4. ASSUME NEW j \in OuterFold, DeleteTorn(j) PROVE OutOfFold'
    BY <2>4 DEF DeleteTorn
  <2>5. CASE TrainPhase1
    <3>1. CASE TrainEnds
      BY <3>1 DEF TrainEnds
    <3>2. CASE LoadBundle \/ StartRun \/ MeasureLatency
      BY <3>2 DEF LoadBundle, StartRun, MeasureLatency
    <3>3. ASSUME NEW part \in Stages, BeginStage(part) PROVE OutOfFold'
      BY <3>3 DEF BeginStage, Stages
    <3>4. CASE ResumeFold
      <4>1. Alone' /\ FoldsOfBundle'
        BY <3>4 DEF ResumeFold
      <4>2. TunedOutOfFold'
        BY <3>4 DEF ResumeFold
      <4> QED
        BY <4>1, <4>2
    <3>5. CASE FitFold
      BY <3>5 DEF FitFold
    <3>6. CASE Checkpoint
      BY <3>6 DEF Checkpoint
    <3>7. CASE DumpBaseline \/ DumpCvMetrics
      BY <3>7 DEF DumpBaseline, DumpCvMetrics, TrainWrites
    <3>8. CASE CacheOof
      BY <3>8 DEF CacheOof, TrainWrites
    <3>9. CASE TuneOutOfFold
      BY <3>9 DEF TuneOutOfFold, TrainWrites
    <3>10. CASE DumpModel
      BY <3>10 DEF DumpModel, TrainWrites
    <3>11. CASE DumpFootprint
      BY <3>11 DEF DumpFootprint, TrainWrites
    <3>12. CASE TearCheckpoint
      BY <3>12 DEF TearCheckpoint
    <3>13. ASSUME NEW n \in Names, TearFile(n) PROVE OutOfFold'
      BY <3>13 DEF TearFile, Writing
    <3>14. QED
      BY <2>5, <3>1, <3>2, <3>3, <3>4, <3>5, <3>6, <3>7, <3>8, <3>9, <3>10, <3>11, <3>12, <3>13
      DEF TrainPhase1, TrainDone, ResumeRaises, FitRaises, CvRaises, TuneRaises, FinalRaises,
          LatencyRaises, KillTraining
  <2>6. CASE Publish
    <3>1. /\ bundle' = bundle /\ building' = building /\ ckpt' = ckpt /\ UNCHANGED tvars
          /\ disk'["oof"] = disk["oof"] /\ disk'["thresholds"] = disk["thresholds"]
      BY <2>6 DEF Publish, ReleaseStart, LoadThresholds, Reload, ScoreHeldOut, RecordTouch,
         WriteTestResult, CheckDigest, Upload, ReleaseStops, EvaluationDies, TearResult,
         ReleaseEnds, ReleaseStays, boxFiles
    <3>2. \/ rpc' = "idle"
          \/ rpc # "idle" /\ rsplit' = rsplit
          \/ tpc = "idle" /\ bundle # Absent /\ rsplit' = bundle
      BY <2>6 DEF Publish, ReleaseStart, LoadThresholds, Reload, ScoreHeldOut, RecordTouch,
         WriteTestResult, CheckDigest, Upload, ReleaseStops, EvaluationDies, TearResult,
         ReleaseEnds, ReleaseStays, boxFiles
    <3>3. QED
      BY <3>1, <3>2
  <2>7. QED
    BY <2>1, <2>2, <2>3, <2>4, <2>5, <2>6 DEF ReleaseNext
<1>3. QED
  BY <1>1, <1>2

\* Through any number of kills, resumed folds and rebuilt caches, the thresholds on disk
\* were tuned on scores that no model gave to a row it had been fitted on.
THEOREM TunedOutOfFoldCorrect ==
    ASSUME "overlap" \notin Faults
    PROVE  ReleaseSpec => []TunedOutOfFold
<1>1. ReleaseInit => OutOfFold
  BY OutOfFoldInductive
<1>2. ReleaseInv /\ OutOfFold /\ [ReleaseNext]_releaseVars => OutOfFold'
  BY OutOfFoldInductive
<1>3. OutOfFold => TunedOutOfFold
  BY DEF OutOfFold
<1>4. QED
  BY <1>1, <1>2, <1>3, ReleaseTyped, PTL DEF ReleaseSpec

-----------------------------------------------------------------------------
\* A footprint is of the split its own model was fitted on.  The model on disk may be
\* another, and is then a stray if a release has scored it.
OfOneSplit ==
    /\ Readable(disk["footprint"]) => disk["footprint"].split = disk["footprint"].model.split
    /\ tpc = "footprint" /\ Readable(disk["model"]) => disk["model"].split = tsplit
    /\ rpc # "idle" => Readable(disk["footprint"]) /\ disk["footprint"].split = rsplit
    /\ rpc = "scored" => result.split = rsplit
    /\ ScoredOwnSplit

\* What is uploaded is what was scored.
Shown ==
    /\ rpc \in {"checked", "published"} => disk["model"] = result.model
    /\ PublishedIsMeasured

OwnSplit == OfOneSplit /\ Shown

LEMMA OwnSplitInductive ==
    ASSUME "overlap" \notin Faults
    PROVE  /\ ReleaseInit => OwnSplit
           /\ ReleaseInv /\ Measured /\ Alone /\ OwnSplit /\ [ReleaseNext]_releaseVars => OwnSplit'
<1> USE ConstantsAssumption DEF Names, Readable
<1>1. ReleaseInit => OwnSplit
  BY DEF ReleaseInit, OwnSplit, OfOneSplit, Shown, ScoredOwnSplit, PublishedIsMeasured
<1>2. ReleaseInv /\ Measured /\ Alone /\ OwnSplit /\ [ReleaseNext]_releaseVars => OwnSplit'
  <2> SUFFICES ASSUME ReleaseInv, Measured, Alone, OwnSplit, [ReleaseNext]_releaseVars
               PROVE  OwnSplit'
    OBVIOUS
  <2> USE DEF OwnSplit, OfOneSplit, Shown, ScoredOwnSplit, PublishedIsMeasured, ReleaseInv,
              ReleaseTypeOK, Held, Maybe, tvars, rvars, world
  <2>1. CASE UNCHANGED releaseVars
    BY <2>1 DEF releaseVars
  <2>2. ASSUME NEW s \in Splits, RemoveOldCache(s) PROVE OwnSplit'
    BY <2>2 DEF RemoveOldCache, Undisturbed
  <2>3. CASE MoveCacheIn \/ KillRebuild
    BY <2>3 DEF MoveCacheIn, KillRebuild
  <2>4. ASSUME NEW j \in OuterFold, DeleteTorn(j) PROVE OwnSplit'
    BY <2>4 DEF DeleteTorn
  <2>5. CASE TrainPhase1
    <3>0. rpc' = rpc /\ rsplit' = rsplit /\ result' = result
          /\ readings' = readings /\ production' = production /\ strays' = strays
      BY <2>5, TrainKeepsTest
    <3>1. CASE TrainEnds
      BY <3>1 DEF TrainEnds
    <3>2. CASE LoadBundle \/ StartRun \/ MeasureLatency
      BY <3>2 DEF LoadBundle, StartRun, MeasureLatency
    <3>3. ASSUME NEW part \in Stages, BeginStage(part) PROVE OwnSplit'
      BY <3>3 DEF BeginStage, Stages
    <3>4. CASE ResumeFold \/ FitFold \/ Checkpoint \/ TearCheckpoint
      BY <3>4 DEF ResumeFold, FitFold, Checkpoint, TearCheckpoint
    <3>5. CASE DumpBaseline \/ CacheOof \/ TuneOutOfFold \/ DumpCvMetrics
      BY <3>5 DEF DumpBaseline, CacheOof, TuneOutOfFold, DumpCvMetrics, TrainWrites
    <3>6. CASE DumpModel
      <4>1. rpc = "idle" /\ tpc' = "footprint"
        BY <3>6 DEF DumpModel, TrainWrites, Alone
      <4>2. /\ disk'["model"].split = tsplit /\ tsplit' = tsplit
            /\ disk'["footprint"] = disk["footprint"]
        BY <3>6 DEF DumpModel, TrainWrites
      <4>3. QED
        BY <3>0, <4>1, <4>2
    <3>7. CASE DumpFootprint
      <4>1. rpc = "idle" /\ tpc' = "ready" /\ tpc = "footprint"
        BY <3>7 DEF DumpFootprint, TrainWrites, Alone
      <4>2. disk'["footprint"].split = disk'["footprint"].model.split
        BY <3>7 DEF DumpFootprint, TrainWrites
      <4>3. QED
        BY <3>0, <4>1, <4>2
    <3>8. ASSUME NEW n \in Names, TearFile(n) PROVE OwnSplit'
      BY <3>8 DEF TearFile, Writing, Alone
    <3>9. QED
      BY <2>5, <3>1, <3>2, <3>3, <3>4, <3>5, <3>6, <3>7, <3>8
      DEF TrainPhase1, TrainDone, ResumeRaises, FitRaises, CvRaises, TuneRaises, FinalRaises,
          LatencyRaises, KillTraining
  <2>6. CASE Publish
    <3> USE DEF Measured, ReleaseStays, boxFiles
    <3>0. tpc = "idle" \/ rpc = "idle"
      BY DEF Alone
    <3>1. CASE ReleaseStart
      BY <3>1 DEF ReleaseStart, ModelFittedOn
    <3>2. CASE LoadThresholds \/ ReleaseStops \/ EvaluationDies
      BY <3>2 DEF LoadThresholds, ReleaseStops, EvaluationDies, ReleaseEnds
    <3>3. CASE Reload
      BY <3>3 DEF Reload
    <3>4. CASE ScoreHeldOut
      BY <3>4 DEF ScoreHeldOut, Metrics
    <3>5. CASE RecordTouch
      <4>1. /\ readings' = readings \cup {result} /\ strays' = strays \cup Stray(result.model)
            /\ rpc = "scored" /\ rpc' = "evaluated"
            /\ UNCHANGED <<disk, tvars, rsplit, result, production>>
        BY <3>5 DEF RecordTouch
      <4>2. result.model.split = result.split \/ result.model \in strays'
        BY <4>1 DEF Stray
      <4> QED
        BY <4>1, <4>2
    <3>6. CASE WriteTestResult \/ TearResult
      BY <3>6 DEF WriteTestResult, TearResult
    <3>7. CASE CheckDigest
      BY <3>7 DEF CheckDigest
    <3>8. CASE Upload
      <4>1. /\ production' = [split |-> rsplit, bytes |-> disk["model"], metrics |-> result]
            /\ strays' = strays \cup Stray(disk["model"])
            /\ UNCHANGED <<disk, rsplit, result, readings, tvars>>
            /\ rpc = "checked" /\ rpc' = "published"
        BY <3>8 DEF Upload
      <4>2. result \in readings /\ disk["model"] = result.model
        BY <4>1
      <4>3. disk["model"].split = rsplit \/ disk["model"] \in strays'
        BY <4>1 DEF Stray
      <4>4. result.model.split = result.split \/ result.model \in strays'
        BY <4>1, <4>2
      <4>5. OfOneSplit'
        BY <4>1
      <4>6. Shown'
        BY <4>1, <4>2, <4>3, <4>4
      <4> QED
        BY <4>5, <4>6
    <3>9. QED
      BY <2>6, <3>1, <3>2, <3>3, <3>4, <3>5, <3>6, <3>7, <3>8 DEF Publish
  <2>7. QED
    BY <2>1, <2>2, <2>3, <2>4, <2>5, <2>6 DEF ReleaseNext
<1>3. QED
  BY <1>1, <1>2

\* The held-out rows of a split are scored by a model fitted on that split, or by one
\* beside which the footprint of another lay, whichever stages raised or were killed.
THEOREM ScoredOwnSplitCorrect ==
    ASSUME "overlap" \notin Faults
    PROVE  ReleaseSpec => []ScoredOwnSplit
<1>1. ReleaseInit => OutOfFold /\ OwnSplit
  BY OutOfFoldInductive, OwnSplitInductive
<1>2. ReleaseInv /\ Measured /\ OutOfFold /\ OwnSplit /\ [ReleaseNext]_releaseVars
        => OutOfFold' /\ OwnSplit'
  BY OutOfFoldInductive, OwnSplitInductive DEF OutOfFold
<1>3. OwnSplit => ScoredOwnSplit
  BY DEF OwnSplit, OfOneSplit
<1>4. QED
  BY <1>1, <1>2, <1>3, ReleaseTyped, MeasuredAlways, PTL DEF ReleaseSpec

\* What the registry shows was measured, under the same hypothesis: the result reloaded
\* for a split may be another split's, and it is the digest that stops it, because models
\* of two splits differ; a stray alone gets past it under another split's name.
THEOREM PublishedIsMeasuredCorrect ==
    ASSUME "overlap" \notin Faults
    PROVE  ReleaseSpec => []PublishedIsMeasured
<1>1. ReleaseInit => OutOfFold /\ OwnSplit
  BY OutOfFoldInductive, OwnSplitInductive
<1>2. ReleaseInv /\ Measured /\ OutOfFold /\ OwnSplit /\ [ReleaseNext]_releaseVars
        => OutOfFold' /\ OwnSplit'
  BY OutOfFoldInductive, OwnSplitInductive DEF OutOfFold
<1>3. OwnSplit => PublishedIsMeasured
  BY DEF OwnSplit, Shown
<1>4. QED
  BY <1>1, <1>2, <1>3, ReleaseTyped, MeasuredAlways, PTL DEF ReleaseSpec

-----------------------------------------------------------------------------
(* Challenger and Release.                                                 *)

-----------------------------------------------------------------------------
(* Distances and flips                                                     *)

LEMMA OutputsAreIntegers == \A x \in Outputs, c \in Cells : x[c] \in Int
BY ChallengerAssumption

\* Two gates one after the other: the tolerances add up.
LEMMA WithinChain ==
    ASSUME NEW x \in Outputs, NEW y \in Outputs, NEW z \in Outputs, NEW a \in Nat, NEW b \in Nat,
           Within(x, y, a), Within(y, z, b)
    PROVE  Within(x, z, a + b)
<1> SUFFICES ASSUME NEW c \in Cells PROVE Gap(x[c], z[c]) <= a + b
    BY DEF Within
<1>1. x[c] \in Int /\ y[c] \in Int /\ z[c] \in Int
    BY OutputsAreIntegers
<1>2. Gap(x[c], y[c]) <= a /\ Gap(y[c], z[c]) <= b
    BY DEF Within
<1> QED
    BY <1>1, <1>2 DEF Gap

LEMMA WithinLooser ==
    ASSUME NEW x \in Outputs, NEW y \in Outputs, NEW a \in Nat, NEW b \in Nat, a <= b,
           Within(x, y, a)
    PROVE  Within(x, y, b)
<1> SUFFICES ASSUME NEW c \in Cells PROVE Gap(x[c], y[c]) <= b
    BY DEF Within
<1>1. x[c] \in Int /\ y[c] \in Int /\ Gap(x[c], y[c]) <= a
    BY OutputsAreIntegers DEF Within
<1> QED
    BY <1>1 DEF Gap

LEMMA FlipsFinite ==
    ASSUME NEW x, NEW y
    PROVE  IsFiniteSet(Flips(x, y))
<1>1. IsFiniteSet(Cells)
    BY ChallengerAssumption, FS_Product DEF Cells
<1> QED
    BY <1>1, FS_Subset DEF Flips

\* A graph that flips no decision may stand for the other.
LEMMA FlipsChain ==
    ASSUME NEW x, NEW y, NEW z, Cardinality(Flips(x, y)) <= 0
    PROVE  Flips(x, z) = Flips(y, z)
<1>1. Flips(x, y) = {}
    BY FlipsFinite, FS_EmptySet, FS_CardinalityType
<1>2. \A c \in Cells : Flag(x, c) = Flag(y, c)
    BY <1>1 DEF Flips
<1> QED
    BY <1>2 DEF Flips

-----------------------------------------------------------------------------
(* The invariant                                                           *)

\* What both gates together say of an int8 graph.
Evidenced(e) ==
    /\ Within(e.reference, e.int8, TorchAtol + LogitAtol)
    /\ Cardinality(Flips(e.reference, e.int8)) <= Allowed(FlipPerMille, FlipMin)

\* The manifest that lies in the directory tells of graphs that were gated once, whether
\* or not they still lie beside it.
ManifestGated == manifest # None => Evidenced(manifest)

\* An int8 graph lies beside a float graph, in the directory and in the registry.
FloatBeside ==
    /\ int8File # None => floatFile # None
    /\ \A v \in registry : v.float \in Outputs

ChallengerInv == ChallengerTypeOK /\ ManifestGated /\ FloatBeside /\ GatesHold

LEMMA NoneIsNoOutput ==
    None \notin Outputs /\ None \notin Declared /\ Checkpoints \subseteq Outputs
BY ChallengerAssumption

\* Both gates hold of what VerifyAndRecord is about to write down.
LEMMA GatesGiveEvidence ==
    ASSUME NEW x \in Checkpoints, NEW y \in Outputs, NEW z \in Outputs,
           FloatGate(x, y), Int8Gate(y, z)
    PROVE  Evidenced([int8 |-> z, reference |-> x])
<1>1. TorchAtol \in Nat /\ LogitAtol \in Nat /\ x \in Outputs
    BY ChallengerAssumption
<1>2. Within(x, y, TorchAtol) /\ Cardinality(Flips(x, y)) <= 0
    BY DEF FloatGate, Agree
<1>3. Within(y, z, LogitAtol) /\ Cardinality(Flips(y, z)) <= Allowed(FlipPerMille, FlipMin)
    BY DEF Int8Gate, Agree
<1>4. Within(x, z, TorchAtol + LogitAtol)
    BY <1>1, <1>2, <1>3, WithinChain
<1>5. Flips(x, z) = Flips(y, z)
    BY <1>2, FlipsChain
<1> QED
    BY <1>3, <1>4, <1>5 DEF Evidenced

LEMMA ChallengerInitHolds == ChallengerInit => ChallengerInv
BY NoneIsNoOutput
   DEF ChallengerInit, ChallengerInv, ChallengerTypeOK, ManifestGated, FloatBeside, GatesHold,
       RegisteredIsGated, ServedWithinCeiling

LEMMA StartHolds == ChallengerInv /\ Start => ChallengerInv'
<1> SUFFICES ASSUME ChallengerInv, Start PROVE ChallengerInv'
    OBVIOUS
<1>1. PICK file \in Files, reference \in Outputs, declared \in Declared \cup {None} :
          /\ \E atol \in Tolerances(declared) : Within(reference, file, atol)
          /\ serving' = [graph |-> file, reference |-> reference]
    BY DEF Start
<1>2. PICK atol \in 0..MaxParityAtol : Within(reference, file, atol)
    BY <1>1, ChallengerAssumption DEF Tolerances
<1>3. file \in Outputs
    BY <1>1 DEF Files, ChallengerInv, ChallengerTypeOK, FloatBeside
<1>4. Within(reference, file, MaxParityAtol)
    BY <1>2, <1>3, WithinLooser, ChallengerAssumption
<1>5. ServedWithinCeiling'
    BY <1>1, <1>4 DEF ServedWithinCeiling, Within
<1>6. serving' \in [graph : Outputs, reference : Outputs]
    BY <1>1, <1>3
<1>7. UNCHANGED <<final, command, floatFile, int8File, manifest, registry>>
    BY DEF Start, directory
<1> QED
    BY <1>5, <1>6, <1>7
    DEF ChallengerInv, ChallengerTypeOK, ManifestGated, Evidenced, Within, FloatBeside, GatesHold,
        RegisteredIsGated

LEMMA RegisterHolds == ChallengerInv /\ Register => ChallengerInv'
<1> SUFFICES ASSUME ChallengerInv, Register PROVE ChallengerInv'
    OBVIOUS
<1> DEFINE v == [float |-> floatFile, int8 |-> int8File, evidence |-> manifest]
<1>1. manifest # None /\ int8File = manifest.int8
    BY DEF Register, ManifestHolds
<1>2. manifest \in ManifestOf /\ int8File \in Outputs
    BY <1>1 DEF ChallengerInv, ChallengerTypeOK, ManifestOf
<1>3. floatFile \in Outputs
    BY <1>2, NoneIsNoOutput DEF ChallengerInv, ChallengerTypeOK, FloatBeside
<1>4. Evidenced(manifest)
    BY <1>1 DEF ChallengerInv, ManifestGated
<1>5. registry' = registry \cup {v}
    BY DEF Register
<1>6. UNCHANGED <<final, command, floatFile, int8File, manifest, serving>>
    BY DEF Register, directory
<1>7. RegisteredIsGated'
    BY <1>1, <1>4, <1>5 DEF ChallengerInv, GatesHold, RegisteredIsGated, Evidenced, Within
<1>8. ServedWithinCeiling'
    BY <1>6 DEF ChallengerInv, GatesHold, ServedWithinCeiling, Within
<1>9. ManifestGated' /\ FloatBeside'
    BY <1>3, <1>5, <1>6 DEF ChallengerInv, ManifestGated, Evidenced, Within, FloatBeside
<1>10. ChallengerTypeOK'
    BY <1>2, <1>3, <1>5, <1>6 DEF ChallengerInv, ChallengerTypeOK
<1> QED
    BY <1>7, <1>8, <1>9, <1>10 DEF ChallengerInv, GatesHold

LEMMA ChallengerStepHolds == ChallengerInv /\ [ChallengerNext]_challengerVars => ChallengerInv'
<1> SUFFICES ASSUME ChallengerInv, [ChallengerNext]_challengerVars PROVE ChallengerInv'
    OBVIOUS
<1> USE NoneIsNoOutput
        DEF ChallengerInv, ChallengerTypeOK, ManifestGated, FloatBeside, GatesHold, RegisteredIsGated,
            ServedWithinCeiling, directory
<1>1. CASE Retrain
    BY <1>1 DEF Retrain, Evidenced, Within
<1>2. CASE ExportFloat
    BY <1>2 DEF ExportFloat, Evidenced, Within
<1>3. CASE QuantizeInt8
    BY <1>3 DEF QuantizeInt8, Evidenced, Within
<1>4. CASE VerifyAndRecord
  <2>1. Evidenced([int8 |-> int8File, reference |-> final])
    BY <1>4, GatesGiveEvidence DEF VerifyAndRecord
  <2>2. [int8 |-> int8File, reference |-> final] \in ManifestOf
    BY <1>4 DEF VerifyAndRecord, ManifestOf
  <2> QED
    BY <1>4, <2>1, <2>2 DEF VerifyAndRecord, Evidenced, Within
<1>5. CASE ExportDies
    BY <1>5 DEF ExportDies, Evidenced, Within
<1>6. CASE Register
    BY <1>6, RegisterHolds
<1>7. CASE Start
    BY <1>7, StartHolds
<1>8. CASE UNCHANGED challengerVars
    BY <1>8 DEF challengerVars, Evidenced, Within
<1> QED
    BY <1>1, <1>2, <1>3, <1>4, <1>5, <1>6, <1>7, <1>8 DEF ChallengerNext

-----------------------------------------------------------------------------
(* Theorems                                                                *)

LEMMA ChallengerInvariant == ChallengerSpec => []ChallengerInv
BY ChallengerInitHolds, ChallengerStepHolds, PTL DEF ChallengerSpec

\* Every variable keeps its type: a worker serves a graph, never the absence of one.
THEOREM ChallengerTypeCorrect == ChallengerSpec => []ChallengerTypeOK
<1>1. ChallengerInv => ChallengerTypeOK
    BY DEF ChallengerInv
<1> QED
    BY <1>1, ChallengerInvariant, PTL

\* What register_pod_artifacts uploads and what load_challenger serves is within the
\* tolerances of the gates, whatever exports and trainings died or ran in between.
THEOREM GatesHoldCorrect == ChallengerSpec => []GatesHold
<1>1. ChallengerInv => GatesHold
    BY DEF ChallengerInv
<1> QED
    BY <1>1, ChallengerInvariant, PTL

-----------------------------------------------------------------------------
(* Evaluation                                                              *)

\* Induction, as a fact about sets of numbers.
LEMMA Reaches ==
    ASSUME NEW S \in SUBSET Nat, 0 \in S, \A n \in S : n + 1 \in S
    PROVE  S = Nat
<1> SUFFICES ASSUME Nat \ S # {} PROVE FALSE
  OBVIOUS
<1>1. PICK x \in Nat \ S : \A y \in Nat \ S : ~ (<<y, x>> \in OpToRel(<, Nat))
  BY NatLessThanWellFounded, WFMin
<1>2. x # 0 /\ x - 1 \in Nat /\ x - 1 < x /\ (x - 1) + 1 = x
  <2>1. x \in Nat /\ x # 0
    OBVIOUS
  <2> QED
    BY ONLY <2>1
<1>3. <<x - 1, x>> \in OpToRel(<, Nat)
  BY <1>1, <1>2 DEF OpToRel
<1>4. x - 1 \in S
  BY <1>1, <1>2, <1>3
<1> QED
  BY <1>1, <1>2, <1>4

\* The rationals of this module.
Fraction(p) == p = <<p[1], p[2]>> /\ p[1] \in Nat /\ p[2] \in Nat \ {0}

LEMMA Multiplied ==
    /\ \A x, y \in Nat : x * y \in Nat
    /\ \A x, y \in Nat \ {0} : x * y \in Nat \ {0}
    /\ \A x, y, z \in Nat : x <= y => x * z <= y * z
    /\ \A x, y \in Nat, z \in Nat \ {0} : x * z <= y * z => x <= y
    /\ \A x, y \in Nat, z \in Nat \ {0} : x < y => x * z < y * z
    /\ \A x, y \in Nat, z \in Nat : x * z < y * z => x < y
<1>1. \A x, y \in Nat : x * y \in Nat
  OBVIOUS
<1>2. \A x, y \in Nat \ {0} : x * y \in Nat \ {0}
  OBVIOUS
<1>3. \A x, y, z \in Nat : x <= y => x * z <= y * z
  OBVIOUS
<1>4. \A x, y \in Nat, z \in Nat \ {0} : x < y => x * z < y * z
  OBVIOUS
<1>5. \A x, y \in Nat, z \in Nat \ {0} : x * z <= y * z => x <= y
  <2> SUFFICES ASSUME NEW x \in Nat, NEW y \in Nat, NEW z \in Nat \ {0}, ~ (x <= y)
               PROVE  ~ (x * z <= y * z)
    OBVIOUS
  <2>1. y * z < x * z
    BY <1>4
  <2>2. x * z \in Nat /\ y * z \in Nat
    BY <1>1
  <2> QED
    BY <2>1, <2>2
<1>6. \A x, y \in Nat, z \in Nat : x * z < y * z => x < y
  <2> SUFFICES ASSUME NEW x \in Nat, NEW y \in Nat, NEW z \in Nat, ~ (x < y)
               PROVE  ~ (x * z < y * z)
    OBVIOUS
  <2>1. y * z <= x * z
    BY <1>3
  <2>2. x * z \in Nat /\ y * z \in Nat
    BY <1>1
  <2> QED
    BY <2>1, <2>2
<1> QED
  BY <1>1, <1>2, <1>3, <1>4, <1>5, <1>6

\* Order and sum of rationals.
LEMMA LeqOrLess ==
    ASSUME NEW p, NEW q, Fraction(p), Fraction(q)
    PROVE  (~ Less(p, q) <=> Leq(q, p)) /\ (Less(p, q) => Leq(p, q)) /\ Leq(p, p)
<1>1. p[1] * q[2] \in Nat /\ q[1] * p[2] \in Nat /\ p[1] * p[2] \in Nat
  BY Multiplied DEF Fraction
<1> QED
  BY <1>1 DEF Less, Leq

LEMMA LeqTrans ==
    ASSUME NEW p, NEW q, NEW r, Fraction(p), Fraction(q), Fraction(r), Leq(p, q)
    PROVE  (Leq(q, r) => Leq(p, r)) /\ (Less(q, r) => Less(p, r))
<1> DEFINE a == p[1]  b == p[2]  c == q[1]  d == q[2]  e == r[1]  f == r[2]
<1>1. /\ a \in Nat /\ c \in Nat /\ e \in Nat
      /\ b \in Nat \ {0} /\ d \in Nat \ {0} /\ f \in Nat \ {0}
      /\ a * d <= c * b
  BY DEF Fraction, Leq
<1>2. (Leq(q, r) <=> c * f <= e * d) /\ (Leq(p, r) <=> a * f <= e * b)
  BY DEF Leq
<1>3. (Less(q, r) <=> c * f < e * d) /\ (Less(p, r) <=> a * f < e * b)
  BY DEF Less
<1> HIDE DEF a, b, c, d, e, f
<1>4. /\ a * d \in Nat /\ c * b \in Nat /\ c * f \in Nat /\ e * d \in Nat
      /\ a * f \in Nat /\ e * b \in Nat
  BY <1>1, Multiplied
<1>5. (a * d) * f <= (c * b) * f
  BY <1>1, <1>4, Multiplied
<1>6. (a * d) * f = (a * f) * d /\ (c * b) * f = (c * f) * b /\ (e * d) * b = (e * b) * d
  BY <1>1
<1>7. (a * f) * d \in Nat /\ (c * f) * b \in Nat /\ (e * b) * d \in Nat
  BY <1>1, <1>4, Multiplied
<1>8. ASSUME c * f <= e * d PROVE a * f <= e * b
  <2>1. (c * f) * b <= (e * d) * b
    BY <1>1, <1>4, <1>8, Multiplied
  <2>2. (a * f) * d <= (e * b) * d
    BY <1>5, <1>6, <1>7, <2>1
  <2> QED
    BY <1>1, <1>4, <2>2, Multiplied
<1>9. ASSUME c * f < e * d PROVE a * f < e * b
  <2>1. (c * f) * b < (e * d) * b
    BY <1>1, <1>4, <1>9, Multiplied
  <2>2. (a * f) * d < (e * b) * d
    BY <1>5, <1>6, <1>7, <2>1
  <2> QED
    BY <1>1, <1>4, <2>2, Multiplied
<1> QED
  BY <1>2, <1>3, <1>8, <1>9

LEMMA AddFractions ==
    ASSUME NEW p, NEW q, NEW r, NEW s,
           Fraction(p), Fraction(q), Fraction(r), Fraction(s)
    PROVE  /\ Fraction(Add(p, q))
           /\ Leq(p, q) /\ Leq(r, s) => Leq(Add(p, r), Add(q, s))
<1> DEFINE a == p[1]  b == p[2]  c == q[1]  d == q[2]
           e == r[1]  f == r[2]  g == s[1]  h == s[2]
<1>1. /\ a \in Nat /\ c \in Nat /\ e \in Nat /\ g \in Nat
      /\ b \in Nat \ {0} /\ d \in Nat \ {0} /\ f \in Nat \ {0} /\ h \in Nat \ {0}
  BY DEF Fraction
<1>2. /\ Add(p, q) = <<a * d + c * b, b * d>>
      /\ Add(p, r) = <<a * f + e * b, b * f>>
      /\ Add(q, s) = <<c * h + g * d, d * h>>
  BY DEF Add
<1>3. (Leq(p, q) <=> a * d <= c * b) /\ (Leq(r, s) <=> e * h <= g * f)
  BY DEF Leq
<1>4. Leq(Add(p, r), Add(q, s)) <=>
        (a * f + e * b) * (d * h) <= (c * h + g * d) * (b * f)
  BY <1>2 DEF Leq
<1> HIDE DEF a, b, c, d, e, f, g, h
<1>5. Fraction(Add(p, q))
  <2>1. a * d + c * b \in Nat /\ b * d \in Nat \ {0}
    BY <1>1, Multiplied
  <2> QED
    BY <1>2, <2>1 DEF Fraction
<1>6. ASSUME a * d <= c * b, e * h <= g * f
      PROVE  (a * f + e * b) * (d * h) <= (c * h + g * d) * (b * f)
  <2>1. /\ a * d \in Nat /\ c * b \in Nat /\ e * h \in Nat /\ g * f \in Nat
        /\ f * h \in Nat /\ b * d \in Nat
    BY <1>1, Multiplied
  <2>2. (a * d) * (f * h) <= (c * b) * (f * h)
    BY <1>6, <2>1, Multiplied
  <2>3. (e * h) * (b * d) <= (g * f) * (b * d)
    BY <1>6, <2>1, Multiplied
  <2>4. /\ (a * d) * (f * h) \in Nat /\ (c * b) * (f * h) \in Nat
        /\ (e * h) * (b * d) \in Nat /\ (g * f) * (b * d) \in Nat
    BY <2>1, Multiplied
  <2>5. (a * f + e * b) * (d * h) = (a * d) * (f * h) + (e * h) * (b * d)
    BY <1>1
  <2>6. (c * h + g * d) * (b * f) = (c * b) * (f * h) + (g * f) * (b * d)
    BY <1>1
  <2> QED
    BY <2>2, <2>3, <2>4, <2>5, <2>6
<1> QED
  BY <1>3, <1>4, <1>5, <1>6

-----------------------------------------------------------------------------
\* The tuner.

LEMMA SampleFinite ==
    /\ IsFiniteSet(Sample)
    /\ \A S \in SUBSET Sample : IsFiniteSet(S) /\ Cardinality(S) \in Nat
<1>1. IsFiniteSet(Sample)
  BY FS_Interval, EvaluationAssumption DEF Sample
<1>2. \A S \in SUBSET Sample : IsFiniteSet(S)
  BY <1>1, FS_Subset
<1> QED
  BY <1>1, <1>2, FS_CardinalityType

LEMMA Counts ==
    ASSUME NEW t \in Tunings, NEW g \in Grid
    PROVE  /\ Caught(t, g) \in Nat /\ FalseAlarms(t, g) \in Nat /\ Missed(t, g) \in Nat
           /\ Positives(t) = {} => Caught(t, g) = 0
<1>1. /\ Positives(t) \in SUBSET Sample
      /\ {i \in Positives(t) : t.score[i] >= g} \in SUBSET Positives(t)
      /\ {i \in Sample \ Positives(t) : t.score[i] >= g} \in SUBSET Sample
  BY DEF Positives
<1>2. IsFiniteSet(Positives(t)) /\ Cardinality(Positives(t)) \in Nat
  BY <1>1, SampleFinite
<1>3. Caught(t, g) \in Nat /\ Caught(t, g) <= Cardinality(Positives(t))
  BY <1>1, <1>2, FS_Subset, FS_CardinalityType DEF Caught
<1>4. FalseAlarms(t, g) \in Nat
  BY <1>1, SampleFinite DEF FalseAlarms
<1>5. Positives(t) = {} => Caught(t, g) = 0
  BY <1>1, FS_EmptySet DEF Caught
<1> QED
  BY <1>2, <1>3, <1>4, <1>5 DEF Missed

\* The score is a rational, zero exactly where nothing is caught; and at weight 1 it
\* is the F1 of the evaluation.
LEMMA FBetaIs ==
    ASSUME NEW tp \in Nat, NEW fp \in Nat, NEW fn \in Nat, NEW beta \in Nat \ {0}
    PROVE  /\ Fraction(FBeta(tp, fp, fn, beta))
           /\ FBeta(tp, fp, fn, beta)[1] = 0 <=> tp = 0
           /\ beta = 1 => /\ Leq(F1(tp, fp, fn), FBeta(tp, fp, fn, beta))
                          /\ Leq(FBeta(tp, fp, fn, beta), F1(tp, fp, fn))
<1>1. CASE tp = 0
  <2>1. FBeta(tp, fp, fn, beta) = <<0, 1>>
    BY <1>1 DEF FBeta
  <2>2. \E d \in Nat : F1(tp, fp, fn) = <<0, d>>
    BY <1>1 DEF F1
  <2> QED
    BY <1>1, <2>1, <2>2 DEF Fraction, Leq
<1>2. CASE tp # 0
  <2> DEFINE b2 == beta * beta
             num == (1 + b2) * tp * tp
             den == b2 * tp * (tp + fn) + tp * (tp + fp)
  <2>1. FBeta(tp, fp, fn, beta) = <<num, den>>
    BY <1>2 DEF FBeta
  <2>2. /\ tp \in Nat \ {0} /\ tp + fn \in Nat \ {0} /\ tp + fp \in Nat \ {0}
        /\ b2 \in Nat \ {0}
    BY <1>2, Multiplied
  <2>3. num \in Nat \ {0}
    <3> HIDE DEF b2
    <3>1. 1 + b2 \in Nat \ {0}
      BY <2>2
    <3>2. (1 + b2) * tp \in Nat \ {0}
      BY <2>2, <3>1, Multiplied
    <3> QED
      BY <2>2, <3>2, Multiplied
  <2>4. den \in Nat \ {0}
    <3> HIDE DEF b2
    <3>1. b2 * tp \in Nat \ {0}
      BY <2>2, Multiplied
    <3>2. b2 * tp * (tp + fn) \in Nat \ {0} /\ tp * (tp + fp) \in Nat \ {0}
      BY <2>2, <3>1, Multiplied
    <3> QED
      BY <3>2
  <2>5. F1(tp, fp, fn) = <<2 * tp, 2 * tp + fp + fn>>
    BY <1>2 DEF F1
  <2>6. beta = 1 => /\ num = 2 * tp * tp
                    /\ den = tp * (2 * tp + fp + fn)
    OBVIOUS
  <2>7. 2 * tp * (tp * (2 * tp + fp + fn)) = 2 * tp * tp * (2 * tp + fp + fn)
    OBVIOUS
  <2>8. (2 * tp) * (tp * (2 * tp + fp + fn)) \in Nat
    <3>1. 2 * tp \in Nat /\ 2 * tp + fp + fn \in Nat
      OBVIOUS
    <3>2. tp * (2 * tp + fp + fn) \in Nat
      BY <3>1, Multiplied
    <3> QED
      BY <3>1, <3>2, Multiplied
  <2> HIDE DEF num, den
  <2>9. beta = 1 => /\ Leq(F1(tp, fp, fn), FBeta(tp, fp, fn, beta))
                    /\ Leq(FBeta(tp, fp, fn, beta), F1(tp, fp, fn))
    BY <2>1, <2>5, <2>6, <2>7, <2>8 DEF Leq
  <2> QED
    BY <1>2, <2>1, <2>3, <2>4, <2>9 DEF Fraction
<1> QED
  BY <1>1, <1>2

LEMMA ScoreIs ==
    ASSUME NEW t \in Tunings, NEW g \in Grid
    PROVE  /\ Fraction(ScoreAt(t, g))
           /\ ScoreAt(t, g)[1] = 0 <=> Caught(t, g) = 0
<1>1. t.beta \in Nat \ {0}
  BY EvaluationAssumption DEF Tunings
<1>2. Caught(t, g) \in Nat /\ FalseAlarms(t, g) \in Nat /\ Missed(t, g) \in Nat
  BY Counts
<1>3. ScoreAt(t, g) = FBeta(Caught(t, g), FalseAlarms(t, g), Missed(t, g), t.beta)
  BY DEF ScoreAt
<1>4. ASSUME NEW tp \in Nat, NEW fp \in Nat, NEW fn \in Nat
      PROVE  /\ Fraction(FBeta(tp, fp, fn, t.beta))
             /\ FBeta(tp, fp, fn, t.beta)[1] = 0 <=> tp = 0
  BY <1>1, FBetaIs
<1> QED
  BY <1>2, <1>3, <1>4

\* One step of the walk up the grid.
Walk(t, f) ==
    [g \in Grid |->
        IF g = 1 THEN 1
        ELSE IF Less(ScoreAt(t, f[g - 1]), ScoreAt(t, g)) THEN g ELSE f[g - 1]]

\* The walk is a function: what it keeps at each point is determined by what it kept
\* at the point before.
LEMMA WalkExists ==
    ASSUME NEW t
    PROVE  \E f : f = Walk(t, f)
<1> DEFINE Upto(n) == \E f : \A g \in Grid : g <= n => f[g] = Walk(t, f)[g]
           S == {n \in Nat : Upto(n)}
<1>1. 0 \in S
  BY DEF Grid
<1>2. ASSUME NEW n \in S PROVE n + 1 \in S
  <2>1. PICK f : \A g \in Grid : g <= n => f[g] = Walk(t, f)[g]
    OBVIOUS
  <2> DEFINE h == [g \in Grid |-> IF g <= n THEN f[g] ELSE Walk(t, f)[g]]
  <2>2. ASSUME NEW g \in Grid, g <= n + 1
        PROVE  h[g] = Walk(t, h)[g]
    <3>1. n \in Nat /\ g \in Nat /\ g >= 1
      BY DEF Grid
    <3>2. CASE g = 1
      BY <2>1, <3>2 DEF Walk
    <3>3. CASE g > 1
      <4>1. g - 1 \in Grid /\ g - 1 <= n
        BY <2>2, <3>1, <3>3, EvaluationAssumption DEF Grid
      <4>2. h[g - 1] = f[g - 1]
        BY <4>1
      <4>3. Walk(t, h)[g] = Walk(t, f)[g]
        BY <4>2 DEF Walk
      <4>4. h[g] = Walk(t, f)[g]
        BY <2>1
      <4> QED
        BY <4>3, <4>4
    <3> QED
      BY <3>1, <3>2, <3>3
  <2>3. Upto(n + 1)
    BY <2>2
  <2> QED
    BY <2>3
<1>3. S = Nat
  <2> HIDE DEF S
  <2>1. S \in SUBSET Nat
    BY DEF S
  <2> QED
    BY <1>1, <1>2, <2>1, Reaches
<1>4. PICK f : \A g \in Grid : g <= GridSize => f[g] = Walk(t, f)[g]
  BY <1>3, EvaluationAssumption
<1> DEFINE h == [g \in Grid |-> f[g]]
<1>5. \A g \in Grid : h[g] = Walk(t, f)[g]
  BY <1>4, EvaluationAssumption DEF Grid
<1>6. \A g \in Grid : g = 1 \/ g - 1 \in Grid
  BY EvaluationAssumption DEF Grid
<1>7. \A g \in Grid : Walk(t, h)[g] = Walk(t, f)[g]
  BY <1>6 DEF Walk
<1>8. h = Walk(t, h)
  BY <1>5, <1>7 DEF Walk
<1> QED
  BY <1>8

\* Of the points up to g, the lowest of those with the best score.
BestUpto(t, best, g) ==
    /\ best \in 1..g
    /\ \A h \in 1..g : Leq(ScoreAt(t, h), ScoreAt(t, best))
    /\ \A h \in 1..(best - 1) : Less(ScoreAt(t, h), ScoreAt(t, best))

\* The walk keeps the lowest of the best, and Scan returns what it kept at its end.
LEMMA ScanIsBest ==
    ASSUME NEW t \in Tunings
    PROVE  Scan(t) \in Grid /\ BestUpto(t, Scan(t), GridSize)
<1> DEFINE best == CHOOSE f : f = [g \in Grid |->
                IF g = 1 THEN 1
                ELSE IF Less(ScoreAt(t, f[g - 1]), ScoreAt(t, g)) THEN g ELSE f[g - 1]]
           S == {n \in Nat : n + 1 \in Grid => BestUpto(t, best[n + 1], n + 1)}
<1>1. Scan(t) = best[GridSize]
  BY DEF Scan
<1>2. best = Walk(t, best)
  BY WalkExists DEF Walk
<1> HIDE DEF best
<1>3. \A g \in Grid : g \in Nat \ {0} /\ Fraction(ScoreAt(t, g)) /\ 1..g \subseteq Grid
  BY ScoreIs, EvaluationAssumption DEF Grid
<1>4. 0 \in S
  <2>1. 1 \in Grid => best[1] = 1
    BY <1>2 DEF Walk
  <2>2. \A h \in 1..1 : h = 1
    OBVIOUS
  <2>3. \A h \in 1..(1 - 1) : FALSE
    OBVIOUS
  <2>4. 1 \in Grid => Leq(ScoreAt(t, 1), ScoreAt(t, 1))
    BY <1>3, LeqOrLess
  <2> QED
    BY <2>1, <2>2, <2>3, <2>4 DEF BestUpto
<1>5. ASSUME NEW n \in S PROVE n + 1 \in S
  <2> SUFFICES ASSUME n + 2 \in Grid PROVE BestUpto(t, best[n + 2], n + 2)
    OBVIOUS
  <2> DEFINE low == best[n + 1]
             g == n + 2
  <2>1. n \in Nat /\ n + 1 \in Grid /\ g # 1 /\ g - 1 = n + 1
    BY EvaluationAssumption DEF Grid
  <2>2. /\ low \in 1..(n + 1)
        /\ \A h \in 1..(n + 1) : Leq(ScoreAt(t, h), ScoreAt(t, low))
        /\ \A h \in 1..(low - 1) : Less(ScoreAt(t, h), ScoreAt(t, low))
    BY <2>1 DEF BestUpto
  <2>3. best[g] = IF Less(ScoreAt(t, low), ScoreAt(t, g)) THEN g ELSE low
    BY <1>2, <2>1 DEF Walk
  <2> HIDE DEF low
  <2>4. /\ low \in Grid /\ g \in Grid
        /\ 1..g = 1..(n + 1) \union {g} /\ 1..(g - 1) = 1..(n + 1)
        /\ low \in 1..g /\ g \in 1..g
    BY <1>3, <2>1, <2>2
  <2>5. \A h \in 1..g : Fraction(ScoreAt(t, h))
    BY <1>3, <2>4
  <2>6. CASE Less(ScoreAt(t, low), ScoreAt(t, g))
    <3>1. \A h \in 1..(n + 1) : Less(ScoreAt(t, h), ScoreAt(t, g))
      BY <2>2, <2>4, <2>5, <2>6, LeqTrans
    <3>2. \A h \in 1..(n + 1) : Leq(ScoreAt(t, h), ScoreAt(t, g))
      BY <2>4, <2>5, <3>1, LeqOrLess
    <3>3. Leq(ScoreAt(t, g), ScoreAt(t, g))
      BY <2>4, <2>5, LeqOrLess
    <3> QED
      BY <2>3, <2>4, <2>6, <3>1, <3>2, <3>3 DEF BestUpto
  <2>7. CASE ~ Less(ScoreAt(t, low), ScoreAt(t, g))
    <3>1. Leq(ScoreAt(t, g), ScoreAt(t, low))
      BY <2>4, <2>5, <2>7, LeqOrLess
    <3> QED
      BY <2>2, <2>3, <2>4, <2>7, <3>1 DEF BestUpto
  <2> QED
    BY <2>6, <2>7
<1>6. S = Nat
  <2> HIDE DEF S
  <2>1. S \in SUBSET Nat
    BY DEF S
  <2> QED
    BY <1>4, <1>5, <2>1, Reaches
<1>7. GridSize \in Grid /\ GridSize - 1 \in Nat /\ (GridSize - 1) + 1 = GridSize
  BY EvaluationAssumption DEF Grid
<1>8. BestUpto(t, best[GridSize], GridSize)
  BY <1>6, <1>7
<1> QED
  BY <1>1, <1>8 DEF BestUpto, Grid

\* What _tune_one returns.
LEMMA TunedIsBest ==
    ASSUME NEW t \in Tunings
    PROVE  LET g == TuneOne(t)
               Caughts == {h \in Grid : Caught(t, h) > 0}
           IN  IF Caughts = {} THEN g = Default
               ELSE /\ g \in Caughts
                    /\ \A h \in Grid : Leq(ScoreAt(t, h), ScoreAt(t, g))
                    /\ \A h \in 1..(g - 1) : Less(ScoreAt(t, h), ScoreAt(t, g))
<1> DEFINE top == Scan(t)
           Caughts == {h \in Grid : Caught(t, h) > 0}
<1>1. /\ top \in Grid
      /\ \A h \in Grid : Leq(ScoreAt(t, h), ScoreAt(t, top))
      /\ \A h \in 1..(top - 1) : Less(ScoreAt(t, h), ScoreAt(t, top))
  BY ScanIsBest DEF BestUpto, Grid
<1>2. \A h \in Grid : /\ Fraction(ScoreAt(t, h)) /\ Caught(t, h) \in Nat
                      /\ ScoreAt(t, h)[1] = 0 <=> Caught(t, h) = 0
                      /\ Positives(t) = {} => Caught(t, h) = 0
  BY ScoreIs, Counts
<1> HIDE DEF top
<1>3. CASE Caughts = {}
  <2>1. ScoreAt(t, top)[1] = 0
    BY <1>1, <1>2, <1>3
  <2> QED
    BY <1>3, <2>1 DEF TuneOne, top
<1>4. CASE Caughts # {}
  <2>1. PICK h \in Grid : Caught(t, h) > 0
    BY <1>4
  <2>2. /\ ScoreAt(t, h)[1] \in Nat \ {0} /\ ScoreAt(t, top)[2] \in Nat \ {0}
        /\ ScoreAt(t, top)[1] \in Nat /\ ScoreAt(t, h)[2] \in Nat
    BY <1>1, <1>2, <2>1 DEF Fraction
  <2>3. ScoreAt(t, h)[1] * ScoreAt(t, top)[2] <= ScoreAt(t, top)[1] * ScoreAt(t, h)[2]
    BY <1>1 DEF Leq
  <2>4. ScoreAt(t, h)[1] * ScoreAt(t, top)[2] \in Nat \ {0}
    BY <2>2, Multiplied
  <2>5. ScoreAt(t, top)[1] # 0
    <3>1. 0 * ScoreAt(t, h)[2] = 0
      BY <2>2
    <3> QED
      BY <2>2, <2>3, <2>4, <3>1
  <2>6. Caught(t, top) > 0
    BY <1>1, <1>2, <2>5
  <2>7. Positives(t) # {}
    BY <1>2, <2>1
  <2>8. TuneOne(t) = top
    BY <2>5, <2>7 DEF TuneOne, top
  <2> QED
    BY <1>1, <1>4, <2>6, <2>8
<1> QED
  BY <1>3, <1>4

-----------------------------------------------------------------------------
\* Induction on the subsets of a finite set.
LEMMA SubsetInduction ==
    ASSUME NEW S, IsFiniteSet(S), NEW Good, {} \in Good,
           \A T \in SUBSET S : T # {} /\ (\A x \in T : T \ {x} \in Good) => T \in Good
    PROVE  \A T \in SUBSET S : T \in Good
<1> DEFINE N == {n \in Nat : \A T \in SUBSET S : Cardinality(T) = n => T \in Good}
<1>0. \A T \in SUBSET S : IsFiniteSet(T) /\ Cardinality(T) \in Nat /\ (Cardinality(T) = 0 => T = {})
  <2>1. \A T \in SUBSET S : IsFiniteSet(T)
    BY FS_Subset
  <2> QED
    BY <2>1, FS_CardinalityType, FS_EmptySet
<1>1. 0 \in N
  BY <1>0
<1>2. ASSUME NEW n \in N PROVE n + 1 \in N
  <2> SUFFICES ASSUME NEW T \in SUBSET S, Cardinality(T) = n + 1 PROVE T \in Good
    OBVIOUS
  <2>1. T # {}
    <3>1. CASE T = {}
      BY <3>1, FS_EmptySet
    <3> QED
      BY <3>1
  <2>2. ASSUME NEW x \in T PROVE T \ {x} \in Good
    <3>1. Cardinality(T \ {x}) = n
      BY <1>0, FS_RemoveElement
    <3> QED
      BY <3>1
  <2> QED
    BY <2>1, <2>2
<1>3. N = Nat
  <2> HIDE DEF N
  <2>1. N \in SUBSET Nat
    BY DEF N
  <2> QED
    BY <1>1, <1>2, <2>1, Reaches
<1> QED
  BY <1>0, <1>3

\* Sums over labels.

Summing(f, S, it) ==
    [T \in SUBSET S |->
        IF T = {} THEN <<0, 1>>
        ELSE Add(f[CHOOSE x \in T : TRUE], it[T \ {CHOOSE x \in T : TRUE}])]

\* The first element, and the rest.
LEMMA FirstOf ==
    ASSUME NEW S, IsFiniteSet(S), NEW T \in SUBSET S, T # {}
    PROVE  LET x == CHOOSE x \in T : TRUE
           IN  /\ x \in T /\ T \ {x} \in SUBSET S
               /\ Cardinality(T) \in Nat /\ Cardinality(T \ {x}) = Cardinality(T) - 1
<1>1. (CHOOSE x \in T : TRUE) \in T
  OBVIOUS
<1>2. IsFiniteSet(T) /\ Cardinality(T) \in Nat
  BY FS_Subset, FS_CardinalityType
<1> QED
  BY <1>1, <1>2, FS_RemoveElement

LEMMA SummingExists ==
    ASSUME NEW f, NEW S, IsFiniteSet(S)
    PROVE  \E it : it = Summing(f, S, it)
<1> DEFINE Upto(n) == \E it : \A T \in SUBSET S :
                          Cardinality(T) <= n => it[T] = Summing(f, S, it)[T]
           N == {n \in Nat : Upto(n)}
<1>0. \A T \in SUBSET S : Cardinality(T) \in Nat /\ (Cardinality(T) = 0 => T = {})
  <2>1. \A T \in SUBSET S : IsFiniteSet(T)
    BY FS_Subset
  <2> QED
    BY <2>1, FS_CardinalityType, FS_EmptySet
<1>1. 0 \in N
  <2> DEFINE it == [T \in SUBSET S |-> <<0, 1>>]
  <2>1. \A T \in SUBSET S : Cardinality(T) <= 0 => it[T] = Summing(f, S, it)[T]
    BY <1>0 DEF Summing
  <2>2. Upto(0)
    BY <2>1
  <2> QED
    BY <2>2
<1>2. ASSUME NEW n \in N PROVE n + 1 \in N
  <2>1. PICK it : \A T \in SUBSET S : Cardinality(T) <= n => it[T] = Summing(f, S, it)[T]
    OBVIOUS
  <2> DEFINE next == [T \in SUBSET S |->
                          IF Cardinality(T) <= n THEN it[T] ELSE Summing(f, S, it)[T]]
  <2>2. ASSUME NEW T \in SUBSET S, Cardinality(T) <= n + 1
        PROVE  next[T] = Summing(f, S, next)[T]
    <3>1. next[T] = Summing(f, S, it)[T]
      BY <2>1
    <3>2. CASE T = {}
      BY <3>1, <3>2 DEF Summing
    <3>3. CASE T # {}
      <4> DEFINE x == CHOOSE x \in T : TRUE
      <4>1. T \ {x} \in SUBSET S /\ Cardinality(T \ {x}) <= n
        BY <2>2, <3>3, FirstOf
      <4>2. next[T \ {x}] = it[T \ {x}]
        BY <4>1
      <4> QED
        BY <3>1, <3>3, <4>2 DEF Summing
    <3> QED
      BY <3>2, <3>3
  <2>3. Upto(n + 1)
    BY <2>2
  <2> QED
    BY <2>3
<1>3. N = Nat
  <2> HIDE DEF N
  <2>1. N \in SUBSET Nat
    BY DEF N
  <2> QED
    BY <1>1, <1>2, <2>1, Reaches
<1>4. Cardinality(S) \in Nat /\ \A T \in SUBSET S : Cardinality(T) <= Cardinality(S)
  BY FS_CardinalityType, FS_Subset
<1>5. PICK it : \A T \in SUBSET S : Cardinality(T) <= Cardinality(S)
                    => it[T] = Summing(f, S, it)[T]
  BY <1>3, <1>4
<1> DEFINE sum == [T \in SUBSET S |-> it[T]]
<1>6. \A T \in SUBSET S : sum[T] = Summing(f, S, it)[T]
  BY <1>4, <1>5
<1>7. \A T \in SUBSET S : Summing(f, S, sum)[T] = Summing(f, S, it)[T]
  BY DEF Summing
<1>8. sum = Summing(f, S, sum)
  BY <1>6, <1>7 DEF Summing
<1> QED
  BY <1>8

LEMMA SumOfIs ==
    ASSUME NEW f, NEW S, IsFiniteSet(S)
    PROVE  \E it : it = Summing(f, S, it) /\ SumOf(f, S) = it[S]
<1> DEFINE sum == CHOOSE it : it = [T \in SUBSET S |->
                IF T = {} THEN <<0, 1>>
                ELSE Add(f[CHOOSE x \in T : TRUE], it[T \ {CHOOSE x \in T : TRUE}])]
<1>1. SumOf(f, S) = sum[S]
  BY DEF SumOf, FoldFunctionOnSet, MapThenFoldSet
<1>2. sum = Summing(f, S, sum)
  <2>1. sum = CHOOSE it : it = Summing(f, S, it)
    BY Zenon DEF Summing
  <2>2. \E it : it = Summing(f, S, it)
    BY SummingExists
  <2> HIDE DEF sum
  <2> QED
    BY <2>1, <2>2, Zenon
<1> QED
  BY <1>1, <1>2

\* A sum of rationals is one, and no larger than the sum of larger ones.
LEMMA SumOfMonotone ==
    ASSUME NEW f, NEW g, NEW S, IsFiniteSet(S),
           \A x \in S : Fraction(f[x]) /\ Fraction(g[x]) /\ Leq(f[x], g[x])
    PROVE  /\ Fraction(SumOf(f, S)) /\ Fraction(SumOf(g, S))
           /\ Leq(SumOf(f, S), SumOf(g, S))
<1>1. PICK F : F = Summing(f, S, F) /\ SumOf(f, S) = F[S]
  BY SumOfIs
<1>2. PICK G : G = Summing(g, S, G) /\ SumOf(g, S) = G[S]
  BY SumOfIs
<1> DEFINE Below(T) == Fraction(F[T]) /\ Fraction(G[T]) /\ Leq(F[T], G[T])
           Good == {T \in SUBSET S : Below(T)}
<1>3. {} \in Good
  <2>1. F[{}] = <<0, 1>> /\ G[{}] = <<0, 1>>
    BY <1>1, <1>2 DEF Summing
  <2>2. Below({})
    BY <2>1 DEF Fraction, Leq
  <2> QED
    BY <2>2
<1>4. ASSUME NEW T \in SUBSET S, T # {}, \A x \in T : T \ {x} \in Good PROVE T \in Good
  <2> DEFINE x == CHOOSE x \in T : TRUE
  <2>1. x \in T
    BY <1>4
  <2>2. F[T] = Add(f[x], F[T \ {x}]) /\ G[T] = Add(g[x], G[T \ {x}])
    BY <1>1, <1>2, <1>4 DEF Summing
  <2> HIDE DEF x
  <2>3. Below(T \ {x})
    BY <1>4, <2>1
  <2>4. Fraction(f[x]) /\ Fraction(g[x]) /\ Leq(f[x], g[x])
    BY <2>1
  <2> QED
    BY <2>2, <2>3, <2>4, AddFractions
<1> HIDE DEF Good
<1>5. \A T \in SUBSET S : T \in Good
  BY <1>3, <1>4, SubsetInduction
<1> QED
  BY <1>1, <1>2, <1>5 DEF Good

-----------------------------------------------------------------------------
\* Folds: what f holds for the elements of S, combined by op.

Folding(op, base, f, S, it) ==
    [T \in SUBSET S |->
        IF T = {} THEN base
        ELSE op[<<f[CHOOSE x \in T : TRUE], it[T \ {CHOOSE x \in T : TRUE}]>>]]

LEMMA FoldingExists ==
    ASSUME NEW op, NEW base, NEW f, NEW S, IsFiniteSet(S)
    PROVE  \E it : it = Folding(op, base, f, S, it)
<1> DEFINE Upto(n) == \E it : \A T \in SUBSET S :
                          Cardinality(T) <= n => it[T] = Folding(op, base, f, S, it)[T]
           N == {n \in Nat : Upto(n)}
<1>0. \A T \in SUBSET S : Cardinality(T) \in Nat /\ (Cardinality(T) = 0 => T = {})
  <2>1. \A T \in SUBSET S : IsFiniteSet(T)
    BY FS_Subset
  <2> QED
    BY <2>1, FS_CardinalityType, FS_EmptySet
<1>1. 0 \in N
  <2> DEFINE it == [T \in SUBSET S |-> base]
  <2>1. \A T \in SUBSET S : Cardinality(T) <= 0 => it[T] = Folding(op, base, f, S, it)[T]
    BY <1>0 DEF Folding
  <2>2. Upto(0)
    BY <2>1
  <2> QED
    BY <2>2
<1>2. ASSUME NEW n \in N PROVE n + 1 \in N
  <2>1. PICK it : \A T \in SUBSET S : Cardinality(T) <= n => it[T] = Folding(op, base, f, S, it)[T]
    OBVIOUS
  <2> DEFINE next == [T \in SUBSET S |->
                          IF Cardinality(T) <= n THEN it[T] ELSE Folding(op, base, f, S, it)[T]]
  <2>2. ASSUME NEW T \in SUBSET S, Cardinality(T) <= n + 1
        PROVE  next[T] = Folding(op, base, f, S, next)[T]
    <3>1. next[T] = Folding(op, base, f, S, it)[T]
      BY <2>1
    <3>2. CASE T = {}
      BY <3>1, <3>2 DEF Folding
    <3>3. CASE T # {}
      <4> DEFINE x == CHOOSE x \in T : TRUE
      <4>1. T \ {x} \in SUBSET S /\ Cardinality(T \ {x}) <= n
        BY <2>2, <3>3, FirstOf
      <4>2. next[T \ {x}] = it[T \ {x}]
        BY <4>1
      <4> QED
        BY <3>1, <3>3, <4>2 DEF Folding
    <3> QED
      BY <3>2, <3>3
  <2>3. Upto(n + 1)
    BY <2>2
  <2> QED
    BY <2>3
<1>3. N = Nat
  <2> HIDE DEF N
  <2>1. N \in SUBSET Nat
    BY DEF N
  <2> QED
    BY <1>1, <1>2, <2>1, Reaches
<1>4. Cardinality(S) \in Nat /\ \A T \in SUBSET S : Cardinality(T) <= Cardinality(S)
  BY FS_CardinalityType, FS_Subset
<1>5. PICK it : \A T \in SUBSET S : Cardinality(T) <= Cardinality(S)
                    => it[T] = Folding(op, base, f, S, it)[T]
  BY <1>3, <1>4
<1> DEFINE sum == [T \in SUBSET S |-> it[T]]
<1>6. \A T \in SUBSET S : sum[T] = Folding(op, base, f, S, it)[T]
  BY <1>4, <1>5
<1>7. \A T \in SUBSET S : Folding(op, base, f, S, sum)[T] = Folding(op, base, f, S, it)[T]
  BY DEF Folding
<1>8. sum = Folding(op, base, f, S, sum)
  <2> DEFINE F == Folding(op, base, f, S, sum)
  <2>1. F = [T \in SUBSET S |-> F[T]]
    BY DEF Folding
  <2>2. sum = [T \in SUBSET S |-> sum[T]]
    OBVIOUS
  <2>3. \A T \in SUBSET S : sum[T] = F[T]
    BY <1>6, <1>7
  <2> HIDE DEF sum, F
  <2>4. sum = F
    BY <2>1, <2>2, <2>3
  <2> QED
    BY <2>4 DEF F
<1> QED
  BY <1>8

\* An operation of which the order of its arguments does not matter ...
Monoid(op, base, V) ==
    /\ op \in [V \X V -> V] /\ base \in V
    /\ \A a, b \in V : op[<<a, b>>] = op[<<b, a>>]
    /\ \A a, b, c \in V : op[<<a, op[<<b, c>>]>>] = op[<<op[<<a, b>>], c>>]

\* ... and finitely many arguments of it.
Given(f, S, V) == IsFiniteSet(S) /\ \A x \in S : f[x] \in V

InAnyOrder(op, base, f, S, it, V) ==
    /\ it \in [SUBSET S -> V]
    /\ it[{}] = base
    /\ \A T \in SUBSET S, x \in S : x \in T => it[T] = op[<<f[x], it[T \ {x}]>>]

\* What is combined does not depend on the order.
LEMMA FoldingIs ==
    ASSUME NEW V, NEW op, NEW base, Monoid(op, base, V),
           NEW S, NEW f, Given(f, S, V),
           NEW it, it = Folding(op, base, f, S, it)
    PROVE  InAnyOrder(op, base, f, S, it, V)
<1> USE DEF Given
<1>0. \A T \in SUBSET S :
        it[T] = IF T = {} THEN base
                ELSE op[<<f[CHOOSE x \in T : TRUE], it[T \ {CHOOSE x \in T : TRUE}]>>]
  BY DEF Folding
<1> DEFINE first(T) == CHOOSE x \in T : TRUE
<1>1. \A T \in SUBSET S : T # {}
          => first(T) \in T /\ it[T] = op[<<f[first(T)], it[T \ {first(T)}]>>]
  BY <1>0
<1>2. it[{}] = base
  BY <1>0
<1> HIDE DEF first
<1>3. \A T \in SUBSET S : it[T] \in V
  <2> DEFINE Good == {T \in SUBSET S : it[T] \in V}
  <2>1. {} \in Good
    BY <1>2 DEF Monoid
  <2>2. ASSUME NEW T \in SUBSET S, T # {}, \A x \in T : T \ {x} \in Good PROVE T \in Good
    <3>1. first(T) \in T /\ it[T \ {first(T)}] \in V /\ f[first(T)] \in V
      BY <1>1, <2>2
    <3> QED
      BY <1>1, <2>2, <3>1 DEF Monoid
  <2> HIDE DEF Good
  <2>3. \A T \in SUBSET S : T \in Good
    BY <2>1, <2>2, SubsetInduction
  <2> QED
    BY <2>3 DEF Good
<1>4. ASSUME NEW a \in V, NEW b \in V, NEW c \in V
      PROVE  op[<<a, op[<<b, c>>]>>] = op[<<b, op[<<a, c>>]>>]
  <2>1. op[<<op[<<a, b>>], c>>] = op[<<op[<<b, a>>], c>>]
    BY <1>4 DEF Monoid
  <2> QED
    BY <1>4, <2>1 DEF Monoid
<1>5. \A T \in SUBSET S, x \in S : x \in T => it[T] = op[<<f[x], it[T \ {x}]>>]
  <2> DEFINE Good == {T \in SUBSET S : \A x \in T : it[T] = op[<<f[x], it[T \ {x}]>>]}
  <2>1. {} \in Good
    OBVIOUS
  <2>2. ASSUME NEW T \in SUBSET S, T # {}, \A x \in T : T \ {x} \in Good PROVE T \in Good
    <3> DEFINE y == first(T)
    <3>1. y \in T /\ it[T] = op[<<f[y], it[T \ {y}]>>]
      BY <1>1, <2>2
    <3> HIDE DEF y
    <3>2. ASSUME NEW x \in T, x # y PROVE it[T] = op[<<f[x], it[T \ {x}]>>]
      <4> DEFINE rest == (T \ {x}) \ {y}
      <4>1. rest = (T \ {y}) \ {x} /\ rest \in SUBSET S
        OBVIOUS
      <4>2. it[T \ {y}] = op[<<f[x], it[rest]>>] /\ it[T \ {x}] = op[<<f[y], it[rest]>>]
        <5>1. T \ {y} \in Good /\ T \ {x} \in Good /\ x \in T \ {y} /\ y \in T \ {x}
          BY <2>2, <3>1, <3>2
        <5>2. it[T \ {y}] = op[<<f[x], it[(T \ {y}) \ {x}]>>]
          BY <5>1
        <5>3. it[T \ {x}] = op[<<f[y], it[(T \ {x}) \ {y}]>>]
          BY <5>1
        <5> QED
          BY <4>1, <5>2, <5>3
      <4>3. f[x] \in V /\ f[y] \in V /\ it[rest] \in V
        BY <1>3, <3>1, <4>1
      <4> HIDE DEF rest
      <4> QED
        BY <1>4, <3>1, <4>2, <4>3
    <3> QED
      BY <3>1, <3>2
  <2> HIDE DEF Good
  <2>3. \A T \in SUBSET S : T \in Good
    BY <2>1, <2>2, SubsetInduction
  <2> QED
    BY <2>3 DEF Good
<1>6. it \in [SUBSET S -> V]
  BY <1>3 DEF Folding
<1> QED
  BY <1>2, <1>5, <1>6 DEF InAnyOrder

Plus == [p \in Nat \X Nat |-> p[1] + p[2]]

Adding(f, S, it) ==
    [T \in SUBSET S |->
        IF T = {} THEN 0
        ELSE f[CHOOSE x \in T : TRUE] + it[T \ {CHOOSE x \in T : TRUE}]]

\* A sum over a set, one element at a time and in any order.
LEMMA SumIs ==
    ASSUME NEW S, NEW f, Given(f, S, Nat)
    PROVE  /\ \A T \in SUBSET S : SumFunctionOnSet(f, T) \in Nat
           /\ SumFunctionOnSet(f, {}) = 0
           /\ \A T \in SUBSET S, x \in S :
                 x \in T => SumFunctionOnSet(f, T) = f[x] + SumFunctionOnSet(f, T \ {x})
<1> USE DEF Given
<1>1. /\ Plus \in [Nat \X Nat -> Nat]
      /\ \A a, b \in Nat : Plus[<<a, b>>] = a + b
  BY DEF Plus
<1>2. /\ \A a, b \in Nat : Plus[<<a, b>>] = Plus[<<b, a>>]
      /\ \A a, b, c \in Nat : Plus[<<a, Plus[<<b, c>>]>>] = Plus[<<Plus[<<a, b>>], c>>]
  <2>1. \A a, b \in Nat : a + b \in Nat /\ a + b = b + a
    OBVIOUS
  <2>2. \A a, b, c \in Nat : a + (b + c) = (a + b) + c
    OBVIOUS
  <2> QED
    BY <1>1, <2>1, <2>2
<1>3. PICK it : it = Folding(Plus, 0, f, S, it)
  BY FoldingExists
<1>4. /\ it \in [SUBSET S -> Nat]
      /\ it[{}] = 0
      /\ \A T \in SUBSET S, x \in S : x \in T => it[T] = Plus[<<f[x], it[T \ {x}]>>]
  <2> DEFINE V == Nat
  <2>1. Monoid(Plus, 0, V) /\ Given(f, S, V)
    BY <1>1, <1>2 DEF Monoid
  <2> HIDE DEF V, Plus, Given
  <2>2. InAnyOrder(Plus, 0, f, S, it, V)
    BY <1>3, <2>1, FoldingIs
  <2> QED
    BY <2>2 DEF V, InAnyOrder
<1>5. \A T \in SUBSET S, x \in S : x \in T => it[T] = f[x] + it[T \ {x}]
  BY <1>1, <1>4
<1>6. ASSUME NEW T \in SUBSET S PROVE SumFunctionOnSet(f, T) = it[T]
  <2> DEFINE jt == CHOOSE jt : jt = Adding(f, T, jt)
  <2>1. SumFunctionOnSet(f, T) = jt[T]
    BY Zenon DEF SumFunctionOnSet, FoldFunctionOnSet, MapThenFoldSet, Adding
  <2>2. jt = Adding(f, T, jt)
    <3> DEFINE kt == [U \in SUBSET T |-> it[U]]
    <3>1. ASSUME NEW U \in SUBSET T
          PROVE  kt[U] = IF U = {} THEN 0
                         ELSE f[CHOOSE x \in U : TRUE] + kt[U \ {CHOOSE x \in U : TRUE}]
      <4>1. CASE U = {}
        BY <1>4, <4>1
      <4>2. CASE U # {}
        <5>1. (CHOOSE x \in U : TRUE) \in U
          BY <4>2
        <5> DEFINE y == CHOOSE x \in U : TRUE
        <5>2. y \in U /\ U \ {y} \in SUBSET T /\ U \in SUBSET S
          BY <5>1
        <5> HIDE DEF y
        <5>3. it[U] = f[y] + it[U \ {y}]
          BY <1>5, <5>2
        <5>4. kt[U] = f[y] + kt[U \ {y}]
          BY <5>2, <5>3
        <5> QED
          BY <4>2, <5>4 DEF y
      <4> QED
        BY <4>1, <4>2
    <3>2. kt = Adding(f, T, kt)
      <4> HIDE DEF kt
      <4>1. kt = [U \in SUBSET T |-> kt[U]]
        BY DEF kt
      <4> QED
        BY <3>1, <4>1 DEF Adding
    <3> QED
      BY <3>2, Zenon
  <2> HIDE DEF jt
  <2>3. \A U \in SUBSET T :
          jt[U] = IF U = {} THEN 0
                  ELSE f[CHOOSE x \in U : TRUE] + jt[U \ {CHOOSE x \in U : TRUE}]
    BY <2>2 DEF Adding
  <2> DEFINE Good == {U \in SUBSET T : jt[U] = it[U]}
  <2>4. {} \in Good
    BY <1>4, <2>3
  <2>5. ASSUME NEW U \in SUBSET T, U # {}, \A x \in U : U \ {x} \in Good PROVE U \in Good
    <3> DEFINE y == CHOOSE x \in U : TRUE
    <3>1. y \in U
      BY <2>5
    <3>2. jt[U] = f[y] + jt[U \ {y}]
      BY <2>3, <2>5
    <3> HIDE DEF y
    <3>3. it[U] = f[y] + it[U \ {y}] /\ jt[U \ {y}] = it[U \ {y}]
      BY <1>5, <2>5, <3>1
    <3> QED
      BY <3>2, <3>3
  <2>6. IsFiniteSet(T)
    BY FS_Subset
  <2> HIDE DEF Good
  <2>7. \A U \in SUBSET T : U \in Good
    BY <2>4, <2>5, <2>6, SubsetInduction
  <2> QED
    BY <2>1, <2>7 DEF Good
<1> QED
  BY <1>4, <1>5, <1>6

Times == [p \in Nat \X Nat |-> p[1] * p[2]]

Multiplying(f, S, it) ==
    [T \in SUBSET S |->
        IF T = {} THEN 1
        ELSE f[CHOOSE x \in T : TRUE] * it[T \ {CHOOSE x \in T : TRUE}]]

\* The same for products.
LEMMA ProductIs ==
    ASSUME NEW S, NEW f, Given(f, S, Nat)
    PROVE  /\ \A T \in SUBSET S : Product(f, T) \in Nat
           /\ Product(f, {}) = 1
           /\ \A T \in SUBSET S, x \in S :
                 x \in T => Product(f, T) = f[x] * Product(f, T \ {x})
<1> USE DEF Given
<1>1. /\ Times \in [Nat \X Nat -> Nat]
      /\ \A a, b \in Nat : Times[<<a, b>>] = a * b
  BY DEF Times
<1>2. /\ \A a, b \in Nat : Times[<<a, b>>] = Times[<<b, a>>]
      /\ \A a, b, c \in Nat : Times[<<a, Times[<<b, c>>]>>] = Times[<<Times[<<a, b>>], c>>]
  <2>1. \A a, b \in Nat : a * b \in Nat /\ a * b = b * a
    OBVIOUS
  <2>2. \A a, b, c \in Nat : a * (b * c) = (a * b) * c
    OBVIOUS
  <2> QED
    BY <1>1, <2>1, <2>2
<1>3. PICK it : it = Folding(Times, 1, f, S, it)
  BY FoldingExists
<1>4. /\ it \in [SUBSET S -> Nat]
      /\ it[{}] = 1
      /\ \A T \in SUBSET S, x \in S : x \in T => it[T] = Times[<<f[x], it[T \ {x}]>>]
  <2> DEFINE V == Nat
  <2>1. Monoid(Times, 1, V) /\ Given(f, S, V)
    BY <1>1, <1>2 DEF Monoid
  <2> HIDE DEF V, Times, Given
  <2>2. InAnyOrder(Times, 1, f, S, it, V)
    BY <1>3, <2>1, FoldingIs
  <2> QED
    BY <2>2 DEF V, InAnyOrder
<1>5. \A T \in SUBSET S, x \in S : x \in T => it[T] = f[x] * it[T \ {x}]
  BY <1>1, <1>4
<1>6. ASSUME NEW T \in SUBSET S PROVE Product(f, T) = it[T]
  <2> DEFINE jt == CHOOSE jt : jt = Multiplying(f, T, jt)
  <2>1. Product(f, T) = jt[T]
    BY Zenon DEF Product, FoldFunctionOnSet, MapThenFoldSet, Multiplying
  <2>2. jt = Multiplying(f, T, jt)
    <3> DEFINE kt == [U \in SUBSET T |-> it[U]]
    <3>1. ASSUME NEW U \in SUBSET T
          PROVE  kt[U] = IF U = {} THEN 1
                         ELSE f[CHOOSE x \in U : TRUE] * kt[U \ {CHOOSE x \in U : TRUE}]
      <4>1. CASE U = {}
        BY <1>4, <4>1
      <4>2. CASE U # {}
        <5>1. (CHOOSE x \in U : TRUE) \in U
          BY <4>2
        <5> DEFINE y == CHOOSE x \in U : TRUE
        <5>2. y \in U /\ U \ {y} \in SUBSET T /\ U \in SUBSET S
          BY <5>1
        <5> HIDE DEF y
        <5>3. it[U] = f[y] * it[U \ {y}]
          BY <1>5, <5>2
        <5>4. kt[U] = f[y] * kt[U \ {y}]
          BY <5>2, <5>3
        <5> QED
          BY <4>2, <5>4 DEF y
      <4> QED
        BY <4>1, <4>2
    <3>2. kt = Multiplying(f, T, kt)
      <4> HIDE DEF kt
      <4>1. kt = [U \in SUBSET T |-> kt[U]]
        BY DEF kt
      <4> QED
        BY <3>1, <4>1 DEF Multiplying
    <3> QED
      BY <3>2, Zenon
  <2> HIDE DEF jt
  <2>3. \A U \in SUBSET T :
          jt[U] = IF U = {} THEN 1
                  ELSE f[CHOOSE x \in U : TRUE] * jt[U \ {CHOOSE x \in U : TRUE}]
    BY <2>2 DEF Multiplying
  <2> DEFINE Good == {U \in SUBSET T : jt[U] = it[U]}
  <2>4. {} \in Good
    BY <1>4, <2>3
  <2>5. ASSUME NEW U \in SUBSET T, U # {}, \A x \in U : U \ {x} \in Good PROVE U \in Good
    <3> DEFINE y == CHOOSE x \in U : TRUE
    <3>1. y \in U
      BY <2>5
    <3>2. jt[U] = f[y] * jt[U \ {y}]
      BY <2>3, <2>5
    <3> HIDE DEF y
    <3>3. it[U] = f[y] * it[U \ {y}] /\ jt[U \ {y}] = it[U \ {y}]
      BY <1>5, <2>5, <3>1
    <3> QED
      BY <3>2, <3>3
  <2>6. IsFiniteSet(T)
    BY FS_Subset
  <2> HIDE DEF Good
  <2>7. \A U \in SUBSET T : U \in Good
    BY <2>4, <2>5, <2>6, SubsetInduction
  <2> QED
    BY <2>1, <2>7 DEF Good
<1> QED
  BY <1>4, <1>5, <1>6

-----------------------------------------------------------------------------
(* Sums                                                                    *)

LEMMA Arithmetic ==
    /\ \A a, b, u, v \in Nat : a * (u + v) = a * u + a * v /\ (a + b) * u = a * u + b * u
    /\ \A a, b, u, v, x, y \in Nat :
          (a * u + b * v) + (a * x + b * y) = a * (u + x) + b * (v + y)
    /\ \A a, b \in Nat : a * b \in Nat /\ a + b \in Nat
    /\ \A a, b, c \in Nat : a * (b * c) = (a * b) * c /\ a * b = b * a
OBVIOUS

LEMMA SumOfOne ==
    ASSUME NEW f, NEW z, f[z] \in Nat
    PROVE  SumFunctionOnSet(f, {z}) = f[z]
<1> DEFINE S == {z}
<1>1. Given(f, S, Nat) /\ z \in S /\ S \in SUBSET S /\ S \ {z} = {}
  BY FS_Singleton DEF Given
<1> HIDE DEF S
<1>2. SumFunctionOnSet(f, S) = f[z] + SumFunctionOnSet(f, S \ {z}) /\ SumFunctionOnSet(f, {}) = 0
  BY <1>1, SumIs
<1> QED
  BY <1>1, <1>2 DEF S

Combined(h, a, u, b, v, S) ==
    /\ IsFiniteSet(S) /\ a \in Nat /\ b \in Nat
    /\ \A x \in S : u[x] \in Nat /\ v[x] \in Nat /\ h[x] = a * u[x] + b * v[x]

LEMMA SumLinear ==
    ASSUME NEW S, NEW a, NEW b, NEW u, NEW v, NEW h, Combined(h, a, u, b, v, S)
    PROVE  SumFunctionOnSet(h, S) = a * SumFunctionOnSet(u, S) + b * SumFunctionOnSet(v, S)
<1> USE DEF Combined
<1> DEFINE H(T) == SumFunctionOnSet(h, T)
           U(T) == SumFunctionOnSet(u, T)
           W(T) == SumFunctionOnSet(v, T)
           Good == {T \in SUBSET S : H(T) = a * U(T) + b * W(T)}
<1>1. \A x \in S : h[x] \in Nat
  BY Arithmetic
<1>2. /\ \A T \in SUBSET S : H(T) \in Nat /\ U(T) \in Nat /\ W(T) \in Nat
      /\ H({}) = 0 /\ U({}) = 0 /\ W({}) = 0
      /\ \A T \in SUBSET S, x \in S : x \in T =>
            H(T) = h[x] + H(T \ {x}) /\ U(T) = u[x] + U(T \ {x}) /\ W(T) = v[x] + W(T \ {x})
  <2>1. /\ \A T \in SUBSET S : H(T) \in Nat
        /\ H({}) = 0
        /\ \A T \in SUBSET S, x \in S : x \in T => H(T) = h[x] + H(T \ {x})
    <3>1. Given(h, S, Nat)
      BY <1>1 DEF Given
    <3> QED
      BY <3>1, SumIs
  <2>2. /\ \A T \in SUBSET S : U(T) \in Nat
        /\ U({}) = 0
        /\ \A T \in SUBSET S, x \in S : x \in T => U(T) = u[x] + U(T \ {x})
    <3>1. Given(u, S, Nat)
      BY DEF Given
    <3> QED
      BY <3>1, SumIs
  <2>3. /\ \A T \in SUBSET S : W(T) \in Nat
        /\ W({}) = 0
        /\ \A T \in SUBSET S, x \in S : x \in T => W(T) = v[x] + W(T \ {x})
    <3>1. Given(v, S, Nat)
      BY DEF Given
    <3> QED
      BY <3>1, SumIs
  <2> QED
    BY <2>1, <2>2, <2>3
<1> HIDE DEF H, U, W
<1>3. {} \in Good
  BY <1>2
<1>4. ASSUME NEW T \in SUBSET S, T # {}, \A x \in T : T \ {x} \in Good PROVE T \in Good
  <2>1. PICK x \in T : TRUE
    BY <1>4
  <2>2. /\ H(T) = (a * u[x] + b * v[x]) + (a * U(T \ {x}) + b * W(T \ {x}))
        /\ U(T) = u[x] + U(T \ {x}) /\ W(T) = v[x] + W(T \ {x})
    BY <1>2, <1>4, <2>1
  <2>3. u[x] \in Nat /\ v[x] \in Nat /\ U(T \ {x}) \in Nat /\ W(T \ {x}) \in Nat
    BY <1>2, <2>1
  <2> QED
    BY <2>2, <2>3, Arithmetic
<1> HIDE DEF Good
<1>5. \A T \in SUBSET S : T \in Good
  BY <1>3, <1>4, SubsetInduction
<1> QED
  BY <1>5 DEF Good, H, U, W

\* A sum over the subsets of R and x: with x and without it.
Halved(h, f, R, x) ==
    /\ IsFiniteSet(R) /\ x \notin R
    /\ \A S \in SUBSET (R \union {x}) : f[S] \in Nat
    /\ \A S \in SUBSET R : h[S] = f[S] + f[S \union {x}]

LEMMA SumOverSubsets ==
    ASSUME NEW R, NEW x, NEW f, NEW h, Halved(h, f, R, x)
    PROVE  SumFunctionOnSet(f, SUBSET (R \union {x})) = SumFunctionOnSet(h, SUBSET R)
<1> DEFINE All == SUBSET (R \union {x})
           Both(F) == F \union {S \union {x} : S \in F}
           Good == {F \in SUBSET SUBSET R : SumFunctionOnSet(f, Both(F)) = SumFunctionOnSet(h, F)}
<1>0. /\ IsFiniteSet(R) /\ x \notin R
      /\ \A S \in SUBSET (R \union {x}) : f[S] \in Nat
      /\ \A S \in SUBSET R : h[S] = f[S] + f[S \union {x}]
  BY DEF Halved
<1>1. IsFiniteSet(SUBSET R) /\ IsFiniteSet(All)
  BY <1>0, FS_SUBSET, FS_AddElement
<1>2. \A S \in SUBSET R : S \in All /\ S \union {x} \in All /\ h[S] \in Nat
  <2>1. \A S \in SUBSET R : S \in All /\ S \union {x} \in All
    OBVIOUS
  <2>2. ASSUME NEW S \in SUBSET R PROVE h[S] \in Nat
    <3>1. f[S] \in Nat /\ f[S \union {x}] \in Nat /\ h[S] = f[S] + f[S \union {x}]
      BY <1>0, <2>1
    <3> HIDE DEF All
    <3> QED
      BY ONLY <3>1
  <2> QED
    BY <2>1, <2>2
<1>3. \A F \in SUBSET SUBSET R : Both(F) \in SUBSET All
  BY <1>2
<1>4. /\ \A T \in SUBSET All : SumFunctionOnSet(f, T) \in Nat
      /\ SumFunctionOnSet(f, {}) = 0
      /\ \A T \in SUBSET All, S \in All :
            S \in T => SumFunctionOnSet(f, T) = f[S] + SumFunctionOnSet(f, T \ {S})
  <2>1. Given(f, All, Nat)
    BY <1>0, <1>1 DEF Given
  <2> HIDE DEF All
  <2> QED
    BY <2>1, SumIs
<1>5. /\ SumFunctionOnSet(h, {}) = 0
      /\ \A T \in SUBSET SUBSET R, S \in SUBSET R :
            S \in T => SumFunctionOnSet(h, T) = h[S] + SumFunctionOnSet(h, T \ {S})
  <2> DEFINE Subsets == SUBSET R
  <2>1. Given(h, Subsets, Nat)
    BY <1>1, <1>2 DEF Given
  <2> HIDE DEF Subsets
  <2>2. /\ SumFunctionOnSet(h, {}) = 0
        /\ \A T \in SUBSET Subsets, S \in Subsets :
              S \in T => SumFunctionOnSet(h, T) = h[S] + SumFunctionOnSet(h, T \ {S})
    BY <2>1, SumIs
  <2> QED
    BY <2>2 DEF Subsets
<1> HIDE DEF All
<1>6. {} \in Good
  <2>1. Both({}) = {}
    OBVIOUS
  <2> QED
    BY <1>4, <1>5, <2>1
<1>7. ASSUME NEW F \in SUBSET SUBSET R, F # {}, \A S \in F : F \ {S} \in Good PROVE F \in Good
  <2>1. PICK S \in F : TRUE
    BY <1>7
  <2>2. S \in SUBSET R /\ x \notin S /\ S # S \union {x}
    BY <1>0, <2>1
  <2>3. (Both(F) \ {S}) \ {S \union {x}} = Both(F \ {S})
    <3>1. ASSUME NEW e PROVE e \in (Both(F) \ {S}) \ {S \union {x}} <=> e \in Both(F \ {S})
      <4>1. CASE e \in F
        <5>1. x \notin e
          BY <1>0, <4>1
        <5> QED
          BY <2>2, <4>1, <5>1
      <4>2. CASE e \notin F
        <5>1. \A A \in F : A \union {x} = S \union {x} <=> A = S
          <6>1. \A A \in F : A = (A \union {x}) \ {x}
            BY <1>0
          <6> QED
            BY <2>1, <6>1
        <5> QED
          BY <2>1, <4>2, <5>1
      <4> QED
        BY <4>1, <4>2
    <3> QED
      BY <3>1
  <2>4. /\ S \in Both(F) /\ S \union {x} \in Both(F) \ {S}
        /\ Both(F) \in SUBSET All /\ Both(F) \ {S} \in SUBSET All
        /\ S \in All /\ S \union {x} \in All
    BY <1>2, <1>3, <2>1, <2>2
  <2> HIDE DEF Both
  <2>5. SumFunctionOnSet(f, Both(F)) = f[S] + (f[S \union {x}] + SumFunctionOnSet(f, Both(F \ {S})))
    <3>1. SumFunctionOnSet(f, Both(F)) = f[S] + SumFunctionOnSet(f, Both(F) \ {S})
      BY <1>4, <2>4
    <3>2. SumFunctionOnSet(f, Both(F) \ {S}) =
              f[S \union {x}] + SumFunctionOnSet(f, (Both(F) \ {S}) \ {S \union {x}})
      BY <1>4, <2>4
    <3> QED
      BY <2>3, <3>1, <3>2
  <2>6. SumFunctionOnSet(f, Both(F \ {S})) = SumFunctionOnSet(h, F \ {S})
    BY <1>7, <2>1
  <2>7. /\ f[S] \in Nat /\ f[S \union {x}] \in Nat /\ h[S] = f[S] + f[S \union {x}]
        /\ SumFunctionOnSet(f, Both(F \ {S})) \in Nat
    <3>1. Both(F \ {S}) \in SUBSET All
      BY <1>3
    <3> QED
      BY <1>0, <1>4, <2>2, <2>4, <3>1 DEF All
  <2>8. SumFunctionOnSet(h, F) = h[S] + SumFunctionOnSet(h, F \ {S})
    BY <1>5, <2>1, <2>2
  <2> QED
    BY <2>5, <2>6, <2>7, <2>8
<1> HIDE DEF Good
<1>8. \A F \in SUBSET SUBSET R : F \in Good
  <2> DEFINE Subsets == SUBSET R
  <2>1. IsFiniteSet(Subsets)
    BY <1>1
  <2>2. \A F \in SUBSET Subsets : F # {} /\ (\A S \in F : F \ {S} \in Good) => F \in Good
    BY <1>7
  <2> HIDE DEF Subsets
  <2>3. \A F \in SUBSET Subsets : F \in Good
    BY <1>6, <2>1, <2>2, SubsetInduction
  <2> QED
    BY <2>3 DEF Subsets
<1>9. SumFunctionOnSet(f, Both(SUBSET R)) = SumFunctionOnSet(h, SUBSET R)
  BY <1>8 DEF Good
<1>10. Both(SUBSET R) = SUBSET (R \union {x})
  <2>1. ASSUME NEW S \in SUBSET (R \union {x}) PROVE S \in Both(SUBSET R)
    <3>1. /\ S \ {x} \in SUBSET R
          /\ x \in S => S = (S \ {x}) \union {x}
          /\ x \notin S => S \in SUBSET R
      OBVIOUS
    <3> QED
      BY <3>1
  <2> QED
    BY <2>1
<1> QED
  BY <1>9, <1>10

LEMMA ProductAgree ==
    ASSUME NEW S, NEW f, NEW g, Given(f, S, Nat), Given(g, S, Nat), \A x \in S : f[x] = g[x]
    PROVE  Product(f, S) = Product(g, S)
<1> DEFINE F(T) == Product(f, T)
           G(T) == Product(g, T)
           Good == {T \in SUBSET S : F(T) = G(T)}
<1>1. F({}) = 1 /\ \A T \in SUBSET S, x \in S : x \in T => F(T) = f[x] * F(T \ {x})
  BY ProductIs
<1>2. G({}) = 1 /\ \A T \in SUBSET S, x \in S : x \in T => G(T) = g[x] * G(T \ {x})
  BY ProductIs
<1> HIDE DEF F, G
<1>3. {} \in Good
  BY <1>1, <1>2
<1>4. ASSUME NEW T \in SUBSET S, T # {}, \A x \in T : T \ {x} \in Good PROVE T \in Good
  <2>1. PICK x \in T : TRUE
    BY <1>4
  <2>2. F(T) = f[x] * F(T \ {x}) /\ G(T) = g[x] * G(T \ {x}) /\ F(T \ {x}) = G(T \ {x})
    BY <1>1, <1>2, <1>4, <2>1
  <2>3. f[x] = g[x]
    OBVIOUS
  <2> QED
    BY <2>2, <2>3
<1>5. IsFiniteSet(S)
  BY DEF Given
<1> HIDE DEF Good
<1>6. \A T \in SUBSET S : T \in Good
  BY <1>3, <1>4, <1>5, SubsetInduction
<1> QED
  BY <1>6 DEF Good, F, G

-----------------------------------------------------------------------------
(* The estimator                                                           *)

\* What makes it unbiased: a row weighs the inverse of the chance it is reviewed with.
LEMMA WeighsInverse ==
    ASSUME NEW t \in Audits, NEW i \in Sample
    PROVE  /\ Chance(t, i) \in Nat /\ Design - Chance(t, i) \in Nat /\ Weight(t, i) \in Nat
           /\ Chance(t, i) + (Design - Chance(t, i)) = Design
           /\ Chance(t, i) * Weight(t, i) = Design
<1>1. Design \in Nat \ {0}
  BY EvaluationAssumption
<1>2. Chance(t, i) \in 1..Design /\ Design % Chance(t, i) = 0
  <2>1. Design \in 1..Design /\ Design % Design = 0
    BY <1>1
  <2>2. t.rate[i] \in Rates
    BY DEF Audits
  <2> QED
    BY <2>1, <2>2 DEF Chance, Rates
<1> DEFINE c == Chance(t, i)  w == Weight(t, i)
<1>3. c \in Nat \ {0} /\ c <= Design /\ Design % c = 0 /\ w = Design \div c
  BY <1>1, <1>2 DEF Weight
<1> HIDE DEF c, w
<1>4. w \in Nat /\ c * w = Design
  BY <1>1, <1>3
<1> QED
  BY <1>1, <1>3, <1>4 DEF c, w

\* The chance that of the rows R exactly those of S are reviewed, and the weight of the
\* rows of S that are counted.
Draw(t, S) == [i \in Sample |-> IF i \in S THEN Chance(t, i) ELSE Design - Chance(t, i)]
ChanceOf(t, S, R) == Product(Draw(t, S), R)
Sure(R) == Product([i \in Sample |-> Design], R)
Counted(t, C, S) == Weighed(t, S \intersect C)

\* One more row x: what the chances and the weights become.
OneMore(t, C, Q, x, S) ==
    /\ ChanceOf(t, S, Q) \in Nat /\ Counted(t, C, S) \in Nat /\ Sure(Q) \in Nat
    /\ ChanceOf(t, S, Q \union {x}) = (Design - Chance(t, x)) * ChanceOf(t, S, Q)
    /\ ChanceOf(t, S \union {x}, Q \union {x}) = Chance(t, x) * ChanceOf(t, S, Q)
    /\ Sure(Q \union {x}) = Design * Sure(Q)
    /\ Counted(t, C, S \union {x}) =
          IF x \in C THEN Weight(t, x) + Counted(t, C, S) ELSE Counted(t, C, S)

LEMMA OneMoreRow ==
    ASSUME NEW t \in Audits, NEW C \in SUBSET Sample, NEW Q \in SUBSET Sample,
           NEW x \in Sample, x \notin Q, NEW S \in SUBSET Q
    PROVE  OneMore(t, C, Q, x, S)
<1> DEFINE R == Q \union {x}
           Sx == S \union {x}
<1>1. R \in SUBSET Sample /\ x \in R /\ R \ {x} = Q /\ S \in SUBSET Sample /\ Sx \in SUBSET Sample
      /\ x \in Sx /\ x \notin S
  OBVIOUS
<1>2. IsFiniteSet(Sample) /\ Design \in Nat
  BY SampleFinite, EvaluationAssumption
<1>3. \A A \in SUBSET Sample : Given(Draw(t, A), Sample, Nat)
  BY <1>2, WeighsInverse DEF Given, Draw
<1>4. ASSUME NEW A \in SUBSET Sample
      PROVE  /\ ChanceOf(t, A, Q) \in Nat
             /\ ChanceOf(t, A, R) = Draw(t, A)[x] * ChanceOf(t, A, Q)
  <2>1. Given(Draw(t, A), Sample, Nat)
    BY <1>3
  <2> HIDE DEF R
  <2> QED
    BY <1>1, <2>1, ProductIs DEF ChanceOf
<1>5. Draw(t, S)[x] = Design - Chance(t, x) /\ Draw(t, Sx)[x] = Chance(t, x)
  BY <1>1 DEF Draw
<1>6. ChanceOf(t, Sx, Q) = ChanceOf(t, S, Q)
  <2>1. \A i \in Q : Draw(t, Sx)[i] = Draw(t, S)[i]
    BY DEF Draw
  <2>2. Given(Draw(t, Sx), Q, Nat) /\ Given(Draw(t, S), Q, Nat)
    BY <1>1, <1>3, FS_Subset DEF Given
  <2> HIDE DEF Sx
  <2> QED
    BY <2>1, <2>2, ProductAgree DEF ChanceOf
<1>7. Sure(Q) \in Nat /\ Sure(R) = Design * Sure(Q)
  <2> DEFINE d == [i \in Sample |-> Design]
  <2>1. Given(d, Sample, Nat) /\ d[x] = Design
    BY <1>2 DEF Given
  <2> HIDE DEF d
  <2>2. Product(d, Q) \in Nat /\ Product(d, R) = d[x] * Product(d, R \ {x})
    <3> HIDE DEF R
    <3> QED
      BY <1>1, <2>1, ProductIs
  <2> QED
    BY <1>1, <2>1, <2>2 DEF Sure, d
<1>8. /\ Counted(t, C, S) \in Nat
      /\ Counted(t, C, Sx) = IF x \in C THEN Weight(t, x) + Counted(t, C, S) ELSE Counted(t, C, S)
  <2> DEFINE w == [i \in Sample |-> Weight(t, i)]
  <2>1. Given(w, Sample, Nat) /\ w[x] = Weight(t, x)
    BY <1>2, WeighsInverse DEF Given
  <2>2. \A A : Weighed(t, A) = SumFunctionOnSet(w, A)
    BY DEF Weighed
  <2> HIDE DEF w
  <2>3. S \intersect C \in SUBSET Sample /\ SumFunctionOnSet(w, S \intersect C) \in Nat
    BY <1>1, <2>1, SumIs
  <2>4. CASE x \in C
    <3>1. Sx \intersect C \in SUBSET Sample /\ x \in Sx \intersect C
          /\ (Sx \intersect C) \ {x} = S \intersect C
      BY <2>4
    <3>2. SumFunctionOnSet(w, Sx \intersect C) = w[x] + SumFunctionOnSet(w, (Sx \intersect C) \ {x})
      <4> HIDE DEF Sx
      <4> QED
        BY <2>1, <3>1, SumIs
    <3> QED
      BY <2>1, <2>2, <2>3, <2>4, <3>1, <3>2 DEF Counted
  <2>5. CASE x \notin C
    <3>1. Sx \intersect C = S \intersect C
      BY <2>5
    <3> QED
      BY <2>2, <2>3, <2>5, <3>1 DEF Counted
  <2> QED
    BY <2>4, <2>5
<1> QED
  BY <1>1, <1>4, <1>5, <1>6, <1>7, <1>8 DEF OneMore

\* Of the rows R: how likely all audits are together, and what is counted on average.
Drawn(t, R) == [S \in SUBSET R |-> ChanceOf(t, S, R)]
Contributed(t, C, R) == [S \in SUBSET R |-> ChanceOf(t, S, R) * Counted(t, C, S)]
Mass(t, R) == SumFunctionOnSet(Drawn(t, R), SUBSET R)
Average(t, C, R) == SumFunctionOnSet(Contributed(t, C, R), SUBSET R)

LEMMA Regrouped ==
    ASSUME NEW c \in Nat, NEW e \in Nat, NEW p \in Nat, NEW n \in Nat, NEW w \in Nat
    PROVE  /\ e * p + c * p = (c + e) * p
           /\ (e * p) * n + (c * p) * n = (c + e) * (p * n)
           /\ (e * p) * n + (c * p) * (w + n) = (c + e) * (p * n) + (c * w) * p
<1>1. p * n \in Nat /\ e * p \in Nat /\ c * p \in Nat /\ c * w \in Nat
  BY Arithmetic
<1>2. (c + e) * p = c * p + e * p
  BY Arithmetic
<1>3. /\ (e * p) * n = e * (p * n) /\ (c * p) * n = c * (p * n)
      /\ (c + e) * (p * n) = c * (p * n) + e * (p * n)
  BY <1>1, Arithmetic
<1>4. (c * p) * (w + n) = (c * p) * w + (c * p) * n /\ (c * p) * w = (c * w) * p
  BY <1>1, Arithmetic
<1>5. e * (p * n) \in Nat /\ c * (p * n) \in Nat /\ (c * w) * p \in Nat
  BY <1>1, Arithmetic
<1> QED
  BY <1>1, <1>2, <1>3, <1>4, <1>5

LEMMA AverageOfOneMore ==
    ASSUME NEW t \in Audits, NEW C \in SUBSET Sample, NEW Q \in SUBSET Sample,
           NEW x \in Sample, x \notin Q
    PROVE  /\ Mass(t, Q) \in Nat /\ Average(t, C, Q) \in Nat
           /\ Mass(t, Q \union {x}) = Design * Mass(t, Q)
           /\ Average(t, C, Q \union {x}) =
                 Design * Average(t, C, Q) + (IF x \in C THEN Design ELSE 0) * Mass(t, Q)
<1> DEFINE R == Q \union {x}
           c == Chance(t, x)
           e == Design - c
           b == IF x \in C THEN Design ELSE 0
           P(S) == ChanceOf(t, S, Q)
           K(S) == Counted(t, C, S)
<1>1. /\ Design \in Nat /\ b \in Nat /\ c \in Nat /\ e \in Nat /\ c + e = Design
      /\ Weight(t, x) \in Nat /\ c * Weight(t, x) = Design
  BY EvaluationAssumption, WeighsInverse
<1>2. ASSUME NEW S \in SUBSET Q
      PROVE  /\ P(S) \in Nat /\ K(S) \in Nat
             /\ ChanceOf(t, S, R) = e * P(S) /\ ChanceOf(t, S \union {x}, R) = c * P(S)
             /\ K(S \union {x}) = IF x \in C THEN Weight(t, x) + K(S) ELSE K(S)
  <2>1. OneMore(t, C, Q, x, S)
    BY OneMoreRow
  <2> QED
    BY <2>1 DEF OneMore
<1>3. IsFiniteSet(Q) /\ IsFiniteSet(SUBSET Q)
  BY SampleFinite, FS_SUBSET
<1>4. \A S \in SUBSET R : ChanceOf(t, S, R) \in Nat /\ K(S) \in Nat
  <2>1. ASSUME NEW S \in SUBSET R PROVE ChanceOf(t, S, R) \in Nat /\ K(S) \in Nat
    <3>1. /\ S \ {x} \in SUBSET Q
          /\ x \in S => S = (S \ {x}) \union {x}
          /\ x \notin S => S = S \ {x}
      OBVIOUS
    <3> DEFINE A == S \ {x}
    <3>2. /\ P(A) \in Nat /\ K(A) \in Nat /\ e * P(A) \in Nat /\ c * P(A) \in Nat
          /\ Weight(t, x) + K(A) \in Nat
      <4>1. P(A) \in Nat /\ K(A) \in Nat
        BY <1>2, <3>1
      <4> HIDE DEF P, K, A, c, e
      <4> QED
        BY <1>1, <4>1, Arithmetic
    <3>3. /\ ChanceOf(t, A, R) = e * P(A) /\ ChanceOf(t, A \union {x}, R) = c * P(A)
          /\ K(A \union {x}) = IF x \in C THEN Weight(t, x) + K(A) ELSE K(A)
      BY <1>2, <3>1
    <3> HIDE DEF P, K, c, e, R
    <3> QED
      BY <3>1, <3>2, <3>3
  <2> QED
    BY <2>1
<1> HIDE DEF P, K, c, e, b
<1>5. Mass(t, Q) \in Nat /\ Average(t, C, Q) \in Nat
  <2> DEFINE u == Drawn(t, Q)
             v == Contributed(t, C, Q)
             Subsets == SUBSET Q
  <2>1. Given(u, Subsets, Nat) /\ Given(v, Subsets, Nat)
    BY <1>2, <1>3, Arithmetic DEF Given, Drawn, Contributed, P, K
  <2> HIDE DEF u, v, Subsets
  <2>2. SumFunctionOnSet(u, Subsets) \in Nat /\ SumFunctionOnSet(v, Subsets) \in Nat
    BY <2>1, SumIs
  <2> QED
    BY <2>2 DEF Mass, Average, u, v, Subsets
<1>6. Mass(t, R) = Design * Mass(t, Q)
  <2> DEFINE f == Drawn(t, R)
             h == [S \in SUBSET Q |-> f[S] + f[S \union {x}]]
             u == Drawn(t, Q)
             Subsets == SUBSET Q
  <2>1. \A S \in SUBSET R : f[S] \in Nat
    BY <1>4 DEF Drawn
  <2>2. \A S \in SUBSET Q : h[S] = f[S] + f[S \union {x}]
    OBVIOUS
  <2>3. ASSUME NEW S \in SUBSET Q PROVE u[S] \in Nat /\ h[S] = Design * u[S] + 0 * u[S]
    <3>1. u[S] = P(S) /\ f[S] = e * P(S) /\ f[S \union {x}] = c * P(S)
      <4>1. S \in SUBSET R /\ S \union {x} \in SUBSET R
        OBVIOUS
      <4> QED
        BY <1>2, <4>1 DEF Drawn, P
    <3>2. P(S) \in Nat
      BY <1>2
    <3> HIDE DEF f, u
    <3>3. e * P(S) + c * P(S) = (c + e) * P(S)
      BY <1>1, <3>2, Regrouped
    <3>4. h[S] = e * P(S) + c * P(S)
      BY <3>1
    <3> QED
      BY <1>1, <3>1, <3>2, <3>3, <3>4
  <2> HIDE DEF f, h, u
  <2>4. SumFunctionOnSet(f, SUBSET R) = SumFunctionOnSet(h, SUBSET Q)
    <3>1. Halved(h, f, Q, x)
      BY <1>3, <2>1, <2>2 DEF Halved
    <3> QED
      BY <3>1, SumOverSubsets
  <2>5. SumFunctionOnSet(h, Subsets) =
            Design * SumFunctionOnSet(u, Subsets) + 0 * SumFunctionOnSet(u, Subsets)
    <3>1. Combined(h, Design, u, 0, u, Subsets)
      BY <1>1, <1>3, <2>3 DEF Combined
    <3> HIDE DEF Subsets
    <3> QED
      BY <3>1, SumLinear
  <2>6. SumFunctionOnSet(u, Subsets) = Mass(t, Q) /\ SumFunctionOnSet(f, SUBSET R) = Mass(t, R)
    BY DEF Mass, u, f
  <2>7. Design * Mass(t, Q) \in Nat
    BY <1>1, <1>5, Arithmetic
  <2> QED
    BY <1>5, <2>4, <2>5, <2>6, <2>7
<1>7. Average(t, C, R) = Design * Average(t, C, Q) + b * Mass(t, Q)
  <2> DEFINE f == Contributed(t, C, R)
             h == [S \in SUBSET Q |-> f[S] + f[S \union {x}]]
             u == Contributed(t, C, Q)
             v == Drawn(t, Q)
             Subsets == SUBSET Q
  <2>1. \A S \in SUBSET R : f[S] \in Nat
    BY <1>4, Arithmetic DEF Contributed, K
  <2>2. \A S \in SUBSET Q : h[S] = f[S] + f[S \union {x}]
    OBVIOUS
  <2>3. ASSUME NEW S \in SUBSET Q
        PROVE  u[S] \in Nat /\ v[S] \in Nat /\ h[S] = Design * u[S] + b * v[S]
    <3>1. /\ u[S] = P(S) * K(S) /\ v[S] = P(S)
          /\ f[S] = (e * P(S)) * K(S)
          /\ f[S \union {x}] = (c * P(S)) * K(S \union {x})
      <4>1. S \in SUBSET R /\ S \union {x} \in SUBSET R
        OBVIOUS
      <4> QED
        BY <1>2, <4>1 DEF Drawn, Contributed, P, K
    <3>2. P(S) \in Nat /\ K(S) \in Nat /\ P(S) * K(S) \in Nat
      BY <1>2, Arithmetic
    <3> HIDE DEF f, u, v
    <3>3. CASE x \in C
      <4>1. K(S \union {x}) = Weight(t, x) + K(S) /\ b = Design
        BY <1>2, <3>3 DEF b
      <4>2. (e * P(S)) * K(S) + (c * P(S)) * (Weight(t, x) + K(S)) =
                (c + e) * (P(S) * K(S)) + (c * Weight(t, x)) * P(S)
        BY <1>1, <3>2, Regrouped
      <4>3. h[S] = (e * P(S)) * K(S) + (c * P(S)) * (Weight(t, x) + K(S))
        BY <3>1, <4>1
      <4> QED
        BY <1>1, <3>1, <3>2, <4>1, <4>2, <4>3
    <3>4. CASE x \notin C
      <4>1. K(S \union {x}) = K(S) /\ b = 0
        BY <1>2, <3>4 DEF b
      <4>2. (e * P(S)) * K(S) + (c * P(S)) * K(S) = (c + e) * (P(S) * K(S))
        BY <1>1, <3>2, Regrouped
      <4>3. h[S] = (e * P(S)) * K(S) + (c * P(S)) * K(S)
        BY <3>1, <4>1
      <4> QED
        BY <1>1, <3>1, <3>2, <4>1, <4>2, <4>3
    <3> QED
      BY <3>3, <3>4
  <2> HIDE DEF f, h, u, v
  <2>4. SumFunctionOnSet(f, SUBSET R) = SumFunctionOnSet(h, SUBSET Q)
    <3>1. Halved(h, f, Q, x)
      BY <1>3, <2>1, <2>2 DEF Halved
    <3> QED
      BY <3>1, SumOverSubsets
  <2>5. SumFunctionOnSet(h, Subsets) =
            Design * SumFunctionOnSet(u, Subsets) + b * SumFunctionOnSet(v, Subsets)
    <3>1. Combined(h, Design, u, b, v, Subsets)
      BY <1>1, <1>3, <2>3 DEF Combined
    <3> HIDE DEF Subsets
    <3> QED
      BY <3>1, SumLinear
  <2> QED
    BY <2>4, <2>5 DEF Mass, Average, u, v, f
<1> QED
  BY <1>5, <1>6, <1>7 DEF b

LEMMA Unbiased ==
    ASSUME NEW t \in Audits, NEW C \in SUBSET Sample
    PROVE  Average(t, C, Sample) = Cardinality(C) * Sure(Sample)
<1> DEFINE Holds(R) == /\ Mass(t, R) = Sure(R) /\ Sure(R) \in Nat
                       /\ Average(t, C, R) = Cardinality(R \intersect C) * Sure(R)
           Good == {R \in SUBSET Sample : Holds(R)}
<1>1. Design \in Nat
  BY EvaluationAssumption
<1>2. \A R \in SUBSET Sample : IsFiniteSet(R \intersect C) /\ Cardinality(R \intersect C) \in Nat
  BY SampleFinite
<1>3. {} \in Good
  <2>1. Given([i \in Sample |-> Design], Sample, Nat) /\ Given(Draw(t, {}), Sample, Nat)
    BY <1>1, SampleFinite, WeighsInverse DEF Given, Draw
  <2>2. Sure({}) = 1 /\ ChanceOf(t, {}, {}) = 1
    BY <2>1, ProductIs DEF Sure, ChanceOf
  <2>3. Counted(t, C, {}) = 0
    <3> DEFINE w == [i \in Sample |-> Weight(t, i)]
    <3>1. Given(w, Sample, Nat)
      BY SampleFinite, WeighsInverse DEF Given
    <3> HIDE DEF w
    <3>2. SumFunctionOnSet(w, {}) = 0
      BY <3>1, SumIs
    <3> QED
      BY <3>2 DEF Counted, Weighed, w
  <2> DEFINE u == Drawn(t, {})
             v == Contributed(t, C, {})
  <2>4. u[{}] = 1 /\ v[{}] = 0 /\ SUBSET {} = {{}}
    BY <2>2, <2>3 DEF Drawn, Contributed
  <2> HIDE DEF u, v
  <2>5. SumFunctionOnSet(u, {{}}) = 1 /\ SumFunctionOnSet(v, {{}}) = 0
    <3> DEFINE z == {}
    <3> HIDE DEF z
    <3>1. u[z] = 1 /\ v[z] = 0
      BY <2>4 DEF z
    <3>2. SumFunctionOnSet(u, {z}) = 1 /\ SumFunctionOnSet(v, {z}) = 0
      BY <3>1, SumOfOne
    <3> QED
      BY <3>2 DEF z
  <2>7. Mass(t, {}) = 1 /\ Average(t, C, {}) = 0
    <3>1. Mass(t, {}) = SumFunctionOnSet(u, {{}}) /\ Average(t, C, {}) = SumFunctionOnSet(v, {{}})
      BY <2>4 DEF Mass, Average, u, v
    <3> QED
      BY <2>5, <3>1
  <2> QED
    BY <2>2, <2>7, FS_EmptySet
<1>4. ASSUME NEW R \in SUBSET Sample, R # {}, \A x \in R : R \ {x} \in Good PROVE R \in Good
  <2>1. PICK x \in R : TRUE
    BY <1>4
  <2> DEFINE Q == R \ {x}
             n == Cardinality(Q \intersect C)
             E == Sure(Q)
  <2>2. Q \in SUBSET Sample /\ x \in Sample /\ x \notin Q /\ Q \union {x} = R
    OBVIOUS
  <2>3. Mass(t, Q) = E /\ E \in Nat /\ Average(t, C, Q) = n * E /\ n \in Nat
    BY <1>2, <1>4, <2>1, <2>2
  <2>4. Sure(R) = Design * E
    <3>1. {} \in SUBSET Q
      OBVIOUS
    <3> HIDE DEF Q
    <3>2. OneMore(t, C, Q, x, {})
      BY <2>2, <3>1, OneMoreRow
    <3> QED
      BY <2>2, <3>2 DEF OneMore, E
  <2>5. Mass(t, R) = Design * Mass(t, Q)
    BY <2>2, AverageOfOneMore
  <2>6. Average(t, C, R) = Design * Average(t, C, Q) + (IF x \in C THEN Design ELSE 0) * Mass(t, Q)
    BY <2>2, AverageOfOneMore
  <2>7. Cardinality(R \intersect C) = IF x \in C THEN n + 1 ELSE n
    <3>1. CASE x \in C
      <4>1. R \intersect C = (Q \intersect C) \union {x} /\ x \notin Q \intersect C
        BY <2>2, <3>1
      <4> QED
        BY <1>2, <2>2, <3>1, <4>1, FS_AddElement
    <3>2. CASE x \notin C
      <4>1. R \intersect C = Q \intersect C
        BY <2>2, <3>2
      <4> QED
        BY <3>2, <4>1
    <3> QED
      BY <3>1, <3>2
  <2> HIDE DEF Q, n, E
  <2>8. Design * E \in Nat /\ n * E \in Nat
    BY <1>1, <2>3, Arithmetic
  <2>9. /\ Design * (n * E) = n * (Design * E)
        /\ (n + 1) * (Design * E) = n * (Design * E) + Design * E
    <3>1. /\ Design * (n * E) = (Design * n) * E /\ Design * n = n * Design
          /\ n * (Design * E) = (n * Design) * E
      BY <1>1, <2>3, Arithmetic
    <3>2. (n + 1) * (Design * E) = n * (Design * E) + 1 * (Design * E)
      BY <2>3, <2>8, Arithmetic
    <3> QED
      BY <2>8, <3>1, <3>2
  <2>10. n * (Design * E) \in Nat
    BY <2>3, <2>8, Arithmetic
  <2>11. Average(t, C, R) = Cardinality(R \intersect C) * Sure(R)
    <3>1. CASE x \in C
      BY <2>3, <2>4, <2>6, <2>7, <2>8, <2>9, <3>1
    <3>2. CASE x \notin C
      BY <2>3, <2>4, <2>6, <2>7, <2>8, <2>9, <2>10, <3>2
    <3> QED
      BY <3>1, <3>2
  <2> QED
    BY <2>3, <2>4, <2>5, <2>8, <2>11
<1>5. IsFiniteSet(Sample)
  BY SampleFinite
<1> HIDE DEF Good
<1>6. \A R \in SUBSET Sample : R \in Good
  BY <1>3, <1>4, <1>5, SubsetInduction
<1>7. Sample \intersect C = C
  OBVIOUS
<1> QED
  BY <1>6, <1>7 DEF Good

\* What the property calls a mean is that average.
LEMMA MeanIs ==
    ASSUME NEW t \in Audits, NEW C \in SUBSET Sample,
           NEW of, of = [S \in SUBSET Sample |-> Counted(t, C, S)]
    PROVE  Mean(t, of) = Cardinality(C) * Certain
<1>1. \A S \in SUBSET Sample : Likelihood(t, S) = ChanceOf(t, S, Sample)
  BY DEF Likelihood, ChanceOf, Draw
<1>2. [S \in SUBSET Sample |-> Likelihood(t, S) * of[S]] = Contributed(t, C, Sample)
  <2>1. \A S \in SUBSET Sample : of[S] = Counted(t, C, S)
    OBVIOUS
  <2> QED
    BY <1>1, <2>1, Zenon DEF Contributed
<1>3. Mean(t, of) = Average(t, C, Sample)
  BY <1>2, Zenon DEF Mean, Average
<1>4. Certain = Sure(Sample)
  BY Zenon DEF Certain, Sure
<1> QED
  BY <1>3, <1>4, Unbiased

TotalsFor(t) ==
    LET estimate(j) == [S \in SUBSET Sample |-> Estimate(t, S)[j]]
    IN  /\ Mean(t, estimate(1)) = Cardinality(t.correct) * Certain
        /\ Mean(t, estimate(2)) = Samples * Certain

LEMMA TotalsForAudit ==
    ASSUME NEW t \in Audits
    PROVE  TotalsFor(t)
<1> DEFINE estimate(j) == [S \in SUBSET Sample |-> Estimate(t, S)[j]]
<1>1. t.correct \in SUBSET Sample /\ Sample \in SUBSET Sample
  BY DEF Audits
<1>2. \A S \in SUBSET Sample : /\ Estimate(t, S)[1] = Counted(t, t.correct, S)
                               /\ Estimate(t, S)[2] = Counted(t, Sample, S)
  <2>1. \A S \in SUBSET Sample : S \intersect Sample = S
    OBVIOUS
  <2> QED
    BY <2>1 DEF Estimate, Counted
<1>3. Cardinality(Sample) = Samples
  BY EvaluationAssumption, FS_Interval DEF Sample
<1>4. estimate(1) = [S \in SUBSET Sample |-> Counted(t, t.correct, S)]
  BY <1>2, Zenon
<1>5. estimate(2) = [S \in SUBSET Sample |-> Counted(t, Sample, S)]
  BY <1>2, Zenon
<1> HIDE DEF estimate
<1>6. Mean(t, estimate(1)) = Cardinality(t.correct) * Certain
  BY <1>1, <1>4, MeanIs
<1>7. Mean(t, estimate(2)) = Samples * Certain
  BY <1>1, <1>3, <1>5, MeanIs
<1> QED
  BY <1>6, <1>7, Zenon DEF TotalsFor, estimate

-----------------------------------------------------------------------------
\* What an answer is the answer to.

Answers ==
    \/ answer = NoAnswer
    \/ task.kind = "tune" /\ answer = <<TuneOne(task)>>
    \/ /\ task.kind = "resample" /\ answer \in [Sample -> Sample]
       /\ \A i \in Sample : answer[i] \in Stratum(task, i)
    \/ /\ task.kind = "slice"
       /\ answer = <<Scored(task, task.mask) # {}
                       /\ Less(SliceTotals(task)[1], SliceTotals(task)[2])>>
    \/ task.kind = "audit"

Tasks == Tunings \union Resamplings \union Slicings \union Audits

EvaluationInv == task \in Tasks /\ Answers

LEMMA EvaluationInitial == EvaluationInit => EvaluationInv
BY DEF EvaluationInit, EvaluationInv, Answers, Tasks

LEMMA EvaluationStep == EvaluationInv /\ [EvaluationNext]_evaluationVars => EvaluationInv'
<1> SUFFICES ASSUME EvaluationInv, [EvaluationNext]_evaluationVars PROVE EvaluationInv'
  OBVIOUS
<1>1. task' = task
  BY DEF EvaluationNext, evaluationVars, Tune, Resample, Slice, Audit
<1>2. CASE Tune
  BY <1>1, <1>2 DEF Tune, EvaluationInv, Answers
<1>3. CASE Resample
  BY <1>1, <1>3 DEF Resample, EvaluationInv, Answers
<1>4. CASE Slice
  BY <1>1, <1>4 DEF Slice, EvaluationInv, Answers
<1>5. CASE Audit
  BY <1>1, <1>5 DEF Audit, EvaluationInv, Answers
<1>6. CASE UNCHANGED evaluationVars
  BY <1>1, <1>6 DEF evaluationVars, EvaluationInv, Answers, NoAnswer
<1> QED
  BY <1>2, <1>3, <1>4, <1>5, <1>6 DEF EvaluationNext

\* For any table, grid and weights, a tuned threshold is the lowest of those with the
\* best score, the neutral one exactly when no threshold catches a positive, and at
\* weight 1 the score is the F1 that evaluation reports: by induction along the grid.
THEOREM TunerSoundCorrect == EvaluationSpec => []TunerSound
<1>1. ASSUME EvaluationInv, Done("tune") PROVE TunerSound
  <2>1. task \in Tunings /\ answer = <<TuneOne(task)>>
    BY <1>1 DEF EvaluationInv, Answers, Tasks, Done, Tunings, Resamplings, Slicings, Audits
  <2>2. TunedBest
    BY <2>1, TunedIsBest DEF TunedBest
  <2>3. ASSUME task.beta = 1, NEW g \in Grid
        PROVE  LET f == F1(Caught(task, g), FalseAlarms(task, g), Missed(task, g))
               IN  Leq(f, ScoreAt(task, g)) /\ Leq(ScoreAt(task, g), f)
    BY <2>1, <2>3, Counts, FBetaIs DEF ScoreAt
  <2> QED
    BY <2>2, <2>3 DEF TunerSound, ScoresAgree
<1>2. ~ Done("tune") => TunerSound
  BY DEF TunerSound, TunedBest, ScoresAgree
<1>3. EvaluationInv => TunerSound
  BY <1>1, <1>2
<1> QED
  BY EvaluationInitial, EvaluationStep, <1>3, PTL DEF EvaluationSpec

\* The F1 of a label over some rows is a rational.
LEMMA LabelF1Is ==
    ASSUME NEW t \in Slicings, NEW l \in Annotated, NEW S \in SUBSET Sample
    PROVE  Fraction(LabelF1(t, l, S))
<1> DEFINE actual == With(t.truth, l, S)
           flagged == With(t.flags, l, S)
<1>1. /\ actual \cap flagged \in SUBSET Sample /\ flagged \ actual \in SUBSET Sample
      /\ actual \ flagged \in SUBSET Sample
  BY DEF With
<1>2. \A tp, fp, fn \in Nat : Fraction(F1(tp, fp, fn))
  <2> SUFFICES ASSUME NEW tp \in Nat, NEW fp \in Nat, NEW fn \in Nat
               PROVE  Fraction(F1(tp, fp, fn))
    OBVIOUS
  <2> DEFINE num == 2 * tp  den == 2 * tp + fp + fn
  <2>1. num \in Nat /\ den \in Nat
    OBVIOUS
  <2>2. F1(tp, fp, fn) = IF den = 0 THEN <<0, 1>> ELSE <<num, den>>
    BY DEF F1
  <2> HIDE DEF num, den
  <2> QED
    BY <2>1, <2>2 DEF Fraction
<1>3. /\ Cardinality(actual \cap flagged) \in Nat /\ Cardinality(flagged \ actual) \in Nat
      /\ Cardinality(actual \ flagged) \in Nat
  BY <1>1, SampleFinite
<1> HIDE DEF actual, flagged
<1>4. LabelF1(t, l, S) = F1(Cardinality(actual \cap flagged),
                            Cardinality(flagged \ actual), Cardinality(actual \ flagged))
  BY DEF LabelF1, actual, flagged
<1> QED
  BY <1>2, <1>3, <1>4

\* For any table, a resample keeps the support of every label, and a slice in which
\* no label does worse than over the whole set is never said to lose F1.
THEOREM ComparedAlikeCorrect == EvaluationSpec => []ComparedAlike
<1>1. EvaluationInv => SupportKept
  <2> SUFFICES ASSUME EvaluationInv, Done("resample"), NEW l \in Annotated
               PROVE  Cardinality({i \in Sample : l \in task.truth[answer[i]]}) =
                          Cardinality(With(task.truth, l, Sample))
    BY DEF SupportKept
  <2>1. \A i \in Sample : task.truth[answer[i]] = task.truth[i]
    BY DEF EvaluationInv, Answers, Done, Stratum
  <2>2. {i \in Sample : l \in task.truth[answer[i]]} = With(task.truth, l, Sample)
    BY <2>1 DEF With
  <2> QED
    BY <2>2
<1>2. EvaluationInv => LikeWithLike
  <2> SUFFICES ASSUME EvaluationInv, Done("slice"),
                      \A l \in Scored(task, task.mask) :
                          Leq(LabelF1(task, l, Sample), LabelF1(task, l, task.mask))
               PROVE  ~ answer[1]
    BY DEF LikeWithLike
  <2>1. task \in Slicings
    BY DEF EvaluationInv, Tasks, Done, Tunings, Resamplings, Slicings, Audits
  <2>2. answer = <<Scored(task, task.mask) # {}
                     /\ Less(SliceTotals(task)[1], SliceTotals(task)[2])>>
    BY DEF EvaluationInv, Answers, Done
  <2> DEFINE slice == LabelF1s(task, task.mask)
             whole == LabelF1s(task, Sample)
             shared == Scored(task, task.mask)
  <2>3. SliceTotals(task) = <<SumOf(slice, shared), SumOf(whole, shared)>>
    BY DEF SliceTotals
  <2>4. IsFiniteSet(shared) /\ shared \subseteq Annotated
    BY FS_Subset, EvaluationAssumption DEF Scored
  <2>5. task.mask \in SUBSET Sample
    BY <2>1 DEF Slicings
  <2>6. \A l \in shared : /\ Fraction(whole[l]) /\ Fraction(slice[l])
                          /\ Leq(whole[l], slice[l])
    BY <2>1, <2>4, <2>5, LabelF1Is DEF LabelF1s
  <2> HIDE DEF slice, whole, shared
  <2>7. /\ Fraction(SumOf(slice, shared)) /\ Fraction(SumOf(whole, shared))
        /\ Leq(SumOf(whole, shared), SumOf(slice, shared))
    BY <2>4, <2>6, SumOfMonotone
  <2>8. ~ Less(SumOf(slice, shared), SumOf(whole, shared))
    BY <2>7, LeqOrLess
  <2>9. (shared # {} /\ Less(SliceTotals(task)[1], SliceTotals(task)[2])) = FALSE
    BY <2>3, <2>8
  <2>10. answer = <<FALSE>>
    BY <2>2, <2>9, Zenon DEF shared
  <2> QED
    BY <2>10
<1>3. EvaluationInv => ComparedAlike
  BY <1>1, <1>2 DEF ComparedAlike
<1> QED
  BY EvaluationInitial, EvaluationStep, <1>3, PTL DEF EvaluationSpec

\* For any number of rows, any rates and any flags: over all the audits chance may make,
\* the two totals of the estimator average to those of the whole traffic.
THEOREM TotalsUnbiasedCorrect == EvaluationSpec => []TotalsUnbiased
<1>1. ASSUME EvaluationInv, Done("audit") PROVE TotalsUnbiased
  <2>1. task \in Audits
    BY <1>1 DEF EvaluationInv, Tasks, Done, Tunings, Resamplings, Slicings, Audits
  <2> QED
    BY <2>1, TotalsForAudit DEF TotalsUnbiased, TotalsFor
<1>2. ~ Done("audit") => TotalsUnbiased
  BY DEF TotalsUnbiased
<1>3. EvaluationInv => TotalsUnbiased
  BY <1>1, <1>2
<1> QED
  BY EvaluationInitial, EvaluationStep, <1>3, PTL DEF EvaluationSpec

=============================================================================
