------------------------------- MODULE Release -------------------------------
(***************************************************************************)
(* From a prepared corpus to a published model: the stages of              *)
(* run_phase1.py, each of which leaves files behind that a later           *)
(* invocation picks up, and run_phase1_release.py, which may score the     *)
(* held-out rows of a split once, ever.                                    *)
(*                                                                         *)
(* One training process and one release process may be running; a process  *)
(* may be killed between any two of its steps.  A fitted model, a table of *)
(* out-of-fold scores, a set of thresholds and a set of metrics are named  *)
(* by what they were computed from, since that is all the properties tell  *)
(* apart.                                                                  *)
(***************************************************************************)
EXTENDS Naturals, FiniteSets

CONSTANTS
    Splits,     \* realized splits, by their split_version
    OuterFolds,      \* number of outer folds
    Revisions,  \* revisions of the code that fits and tunes: its features, its weights
    Faults,     \* what may go wrong: a subset of FaultKinds
    Absent,     \* a file that is not there, or half written, if no reader can tell
    Torn        \* a file that a kill left half written

\* "kill": a process dies between two steps; "tear": it dies while it writes a
\* file; "overlap": the cache is rebuilt under a running process, or both processes
\* run.  What raises by itself is no fault and may always happen.
FaultKinds == {"kill", "tear", "overlap"}

OuterFold == 1..OuterFolds
Names == {"baseline", "oof", "thresholds", "cv", "model", "footprint", "test"}

ASSUME ConstantsAssumption ==
    /\ OuterFolds \in Nat \ {0}
    /\ Faults \subseteq FaultKinds
    /\ Absent \notin Splits /\ Torn \notin Splits /\ Absent # Torn

VARIABLES
    bundle,     \* the split of the bundle cache at PHASE1_CACHE
    building,   \* the split a rebuild is about to move there
    ckpt,       \* fold_<k>.npz beside the bundle: the split it was scored under
    disk,       \* the other files, by name
    tpc,        \* where the training process is
    tsplit,     \* the split of the bundle it loaded
    k,          \* the fold it is at
    rowScores,  \* its row scores: by fold, the split they were scored under
    rpc,        \* where the release process is
    rsplit,     \* the split of the bundle it loaded
    rthr,       \* the thresholds it loaded
    result,     \* the held-out evaluation it holds
    touched,    \* the splits in docs/test-set-touch-log.md
    readings,   \* history: every evaluation whose metrics were recorded
    production, \* the version aliased production: its bytes, and the metrics beside them
    strays,     \* history: models scored or published beside the footprint of another
    lost        \* history: splits whose evaluation is in no file any more

tvars == <<tpc, tsplit, k, rowScores>>
rvars == <<rpc, rsplit, rthr, result>>
world == <<touched, readings, production, strays, lost>>
releaseVars == <<bundle, building, ckpt, disk, tvars, rvars, world>>

\* What each file holds when it is whole.
Unscored == [j \in OuterFold |-> Absent]
Fitted == [split : Splits, revision : Revisions]
Oof == [labels : Splits, scored : [OuterFold -> Splits]]
Tuned == [oof : Oof, filed : Splits, revision : Revisions]
Footprint == [split : Splits, model : Fitted]
Result == [split : Splits, model : Fitted, tuned : Tuned]
\* Metrics that decide nothing: all that matters is that the file is whole.
Numbers == "numbers"

\* A file that is not there, or torn, is no result.
ASSUME FilesAssumption == Absent \notin Result /\ Torn \notin Result

Readable(content) == content \notin {Absent, Torn}

\* compute_metrics over held-out probabilities: fixed by the rows, the model that
\* scored them and the thresholds they were flagged at.
Metrics(s, m, t) == [split |-> s, model |-> m, tuned |-> t]

ReleaseInit ==
    /\ bundle \in Splits /\ building = Absent
    /\ ckpt = [j \in OuterFold |-> Absent]
    /\ disk = [n \in Names |-> Absent]
    /\ tpc = "idle" /\ tsplit = Absent /\ k = 1 /\ rowScores = Unscored
    /\ rpc = "idle" /\ rsplit = Absent /\ rthr = Absent /\ result = Absent
    /\ touched = {} /\ readings = {} /\ production = Absent /\ strays = {} /\ lost = {}

-----------------------------------------------------------------------------
\* The build box.

Undisturbed == "overlap" \in Faults \/ (tpc = "idle" /\ rpc = "idle")

\* Mutation: The old cache is overwritten in place, and what else lay in it stays.
RemoveOldCacheInPlace(s) ==
    /\ Undisturbed
    /\ building = Absent
    /\ s # bundle
    /\ bundle' = Absent
    /\ building' = s
    /\ UNCHANGED <<ckpt, disk, tvars, rvars, world>>

\* write_bundle_cache: everything is written beside the cache first; then the old
\* directory is removed, and with it the fold checkpoints and the out-of-fold
\* scores that were kept in it ...
RemoveOldCache(s) ==
    /\ Undisturbed
    /\ building = Absent
    /\ s # bundle
    /\ bundle' = Absent
    /\ building' = s
    /\ ckpt' = [j \in OuterFold |-> Absent]
    /\ disk' = [disk EXCEPT !["oof"] = Absent]
    /\ UNCHANGED <<tvars, rvars, world>>

\* ... and the new one takes its place.
MoveCacheIn ==
    /\ building # Absent
    /\ bundle' = building
    /\ building' = Absent
    /\ UNCHANGED <<ckpt, disk, tvars, rvars, world>>

\* A kill in between leaves no cache at all, and no process starts without one.
KillRebuild ==
    /\ "kill" \in Faults
    /\ building # Absent
    /\ building' = Absent
    /\ UNCHANGED <<bundle, ckpt, disk, tvars, rvars, world>>

-----------------------------------------------------------------------------
\* run_phase1.py.

\* main: the bundle is loaded once, every digest of its manifest checked ...
LoadBundle ==
    /\ tpc = "idle"
    /\ "overlap" \in Faults \/ rpc = "idle"
    /\ bundle # Absent
    /\ tpc' = "opening"
    /\ tsplit' = bundle
    /\ UNCHANGED <<bundle, building, ckpt, disk, k, rowScores, rvars, world>>

\* ... then the tracked run is opened, or refused, before the first fit.
StartRun ==
    /\ tpc = "opening"
    /\ tpc' = "ready"
    /\ UNCHANGED <<bundle, building, ckpt, disk, tsplit, k, rowScores, rvars, world>>

\* The stages named on the command line run in turn in one process.
BeginStage(stage) ==
    /\ tpc = "ready"
    /\ tpc' = stage
    /\ k' = 1
    /\ rowScores' = Unscored
    /\ UNCHANGED <<bundle, building, ckpt, disk, tsplit, rvars, world>>

\* The process ends: its stages are done, or one of them raised.
TrainEnds ==
    /\ tpc' = "idle"
    /\ tsplit' = Absent
    /\ k' = 1
    /\ rowScores' = Unscored
    /\ UNCHANGED <<bundle, building, ckpt, disk, rvars, world>>

TrainDone == tpc \in {"opening", "ready"} /\ TrainEnds

\* Writing a file ends the stage, or moves on to the stage's next file.
TrainWrites(name, content, next) ==
    /\ disk' = [disk EXCEPT ![name] = content]
    /\ tpc' = next
    /\ UNCHANGED <<bundle, building, ckpt, tsplit, k, rowScores, rvars, world>>

\* stage_baseline: the prior-only model over the same folds.
DumpBaseline ==
    /\ tpc = "baseline"
    /\ TrainWrites("baseline", Numbers, "ready")

\* stage_cv, a fold whose checkpoint is on disk: its scores are taken from it.
ResumeFold ==
    /\ tpc = "cv" /\ k \in OuterFold
    /\ Readable(ckpt[k])
    /\ rowScores' = [rowScores EXCEPT ![k] = ckpt[k]]
    /\ k' = k + 1
    /\ UNCHANGED <<bundle, building, ckpt, disk, tpc, tsplit, rvars, world>>

\* A checkpoint that exists and cannot be read ends the run.
ResumeRaises ==
    /\ tpc = "cv" /\ k \in OuterFold
    /\ ckpt[k] = Torn
    /\ TrainEnds

\* Someone deletes it, which is all that helps.
DeleteTorn(j) ==
    /\ ckpt[j] = Torn
    /\ ckpt' = [ckpt EXCEPT ![j] = Absent]
    /\ UNCHANGED <<bundle, building, disk, tvars, rvars, world>>

\* A fresh pipeline is fitted on the fold's training rows and scores its
\* validation rows only ...
FitFold ==
    /\ tpc = "cv" /\ k \in OuterFold
    /\ ckpt[k] = Absent
    /\ rowScores' = [rowScores EXCEPT ![k] = tsplit]
    /\ tpc' = "checkpoint"
    /\ UNCHANGED <<bundle, building, ckpt, disk, tsplit, k, rvars, world>>

\* ... and an estimator that did not converge, or a label with one class, raises.
FitRaises ==
    /\ tpc \in {"cv", "final"}
    /\ tpc = "cv" => k \in OuterFold /\ ckpt[k] = Absent
    /\ TrainEnds

Checkpoint ==
    /\ tpc = "checkpoint"
    /\ ckpt' = [ckpt EXCEPT ![k] = rowScores[k]]
    /\ k' = k + 1
    /\ tpc' = "cv"
    /\ UNCHANGED <<bundle, building, disk, tsplit, rowScores, rvars, world>>

\* Every row was validated and every score is a probability: they are kept, with
\* the labels of the bundle that is loaded.
CacheOof ==
    /\ tpc = "cv" /\ k = OuterFolds + 1
    /\ TrainWrites("oof", [labels |-> tsplit, scored |-> rowScores], "ready")

\* A row no fold validated, or a score that is no probability, raises.
CvRaises == tpc = "cv" /\ k = OuterFolds + 1 /\ TrainEnds

\* stage_thresholds: the scores are read back and stamped with the split that is
\* loaded now, the thresholds are tuned on them and written ...
TuneOutOfFold ==
    /\ tpc = "thresholds"
    /\ Readable(disk["oof"])
    /\ \E c \in Revisions :
         TrainWrites("thresholds",
                     [oof |-> disk["oof"], filed |-> tsplit, revision |-> c], "metrics")

\* ... and after the intervals the metrics at them, in a file of their own.
DumpCvMetrics ==
    /\ tpc = "metrics"
    /\ TrainWrites("cv", Numbers, "ready")

\* There are no scores to tune on; or the intervals, or the tracker, raise.
TuneRaises ==
    /\ \/ tpc = "thresholds" /\ ~Readable(disk["oof"])
       \/ tpc = "metrics"
    /\ TrainEnds

\* stage_final: the model is serialized over the one that was there ...
DumpModel ==
    /\ tpc = "final"
    /\ \E c \in Revisions :
         TrainWrites("model", [split |-> tsplit, revision |-> c], "footprint")

\* ... and when it has been checked and digested, its split and its digest go to
\* another file.
DumpFootprint ==
    /\ tpc = "footprint"
    /\ Readable(disk["model"])
    /\ TrainWrites("footprint", [split |-> tsplit, model |-> disk["model"]], "ready")

\* The check or the digest raises: a new model beside the footprint of the old one.
FinalRaises == tpc = "footprint" /\ TrainEnds

\* stage_latency: a fresh process loads the artifact, and the stage fails with it;
\* what it measures is read by people.
MeasureLatency ==
    /\ tpc = "latency"
    /\ Readable(disk["model"])
    /\ tpc' = "ready"
    /\ UNCHANGED <<bundle, building, ckpt, disk, tsplit, k, rowScores, rvars, world>>

LatencyRaises == tpc = "latency" /\ ~Readable(disk["model"]) /\ TrainEnds

Stages == {"baseline", "cv", "thresholds", "final", "latency"}

\* A kill between two steps, or one that tears the file being written.
KillTraining ==
    /\ tpc # "idle"
    /\ "kill" \in Faults
    /\ TrainEnds

\* The file the training process is about to write.
Writing ==
    CASE tpc = "cv" /\ k = OuterFolds + 1 -> {"oof"}
      [] tpc = "baseline" -> {"baseline"}
      [] tpc = "thresholds" -> {"thresholds"}
      [] tpc = "metrics" -> {"cv"}
      [] tpc = "final" -> {"model"}
      [] tpc = "footprint" -> {"footprint"}
      [] OTHER -> {}

\* Half a JSON file or half an array raises where a missing one does.  Of half a model
\* the digest can still be taken.
TearFile(name) ==
    /\ "tear" \in Faults
    /\ name \in Writing
    /\ disk' = [disk EXCEPT ![name] = IF name = "model" THEN Torn ELSE Absent]
    /\ tpc' = "idle" /\ tsplit' = Absent /\ k' = 1 /\ rowScores' = Unscored
    /\ UNCHANGED <<bundle, building, ckpt, rvars, world>>

TearCheckpoint ==
    /\ "tear" \in Faults
    /\ tpc = "checkpoint"
    /\ ckpt' = [ckpt EXCEPT ![k] = Torn]
    /\ tpc' = "idle" /\ tsplit' = Absent /\ k' = 1 /\ rowScores' = Unscored
    /\ UNCHANGED <<bundle, building, disk, rvars, world>>

TrainPhase1 ==
    \/ LoadBundle \/ StartRun \/ TrainDone \/ \E stage \in Stages : BeginStage(stage)
    \/ ResumeFold \/ ResumeRaises \/ FitFold \/ FitRaises \/ Checkpoint
    \/ CacheOof \/ CvRaises \/ TuneOutOfFold \/ DumpCvMetrics \/ TuneRaises
    \/ DumpBaseline \/ DumpModel \/ DumpFootprint \/ FinalRaises
    \/ MeasureLatency \/ LatencyRaises \/ KillTraining
    \/ TearCheckpoint \/ \E n \in Names : TearFile(n)

-----------------------------------------------------------------------------
\* run_phase1_release.py.

boxFiles == <<bundle, building, ckpt, tvars>>

ReleaseStays == UNCHANGED <<boxFiles, disk, world>>

\* Mutation: A footprint of any split will do.
ModelFittedOnSome(split) == Readable(disk["footprint"])

\* main opens the bundle with its held-out rows, and env_version_check refuses a
\* footprint of another split.  The digest beside it is not compared with the model.
ModelFittedOn(split) ==
    Readable(disk["footprint"]) /\ disk["footprint"].split = split

\* A model, if the footprint on disk is not of it.
Stray(m) ==
    {m} \ {f.model : f \in {disk["footprint"]} \ {Absent}}

ReleaseStart ==
    /\ rpc = "idle"
    /\ "overlap" \in Faults \/ tpc = "idle"
    /\ bundle # Absent
    /\ ModelFittedOn(bundle)
    /\ rpc' = "opened"
    /\ rsplit' = bundle
    /\ UNCHANGED <<rthr, result>>
    /\ ReleaseStays

LoadThresholds ==
    /\ rpc = "opened"
    /\ Readable(disk["thresholds"])
    /\ rthr' = disk["thresholds"]
    /\ rpc' = "loaded"
    /\ UNCHANGED <<rsplit, result>>
    /\ ReleaseStays

\* The process ends, by an exception, a refusal, a kill or because it is done.
ReleaseEnds ==
    /\ rpc' = "idle" /\ rsplit' = Absent /\ rthr' = Absent /\ result' = Absent
    /\ ReleaseStays

\* The ledger has the split: the saved result is reloaded, if it is there.
Reload ==
    /\ rpc = "loaded"
    /\ rsplit \in touched
    /\ Readable(disk["test"])
    /\ result' = disk["test"]
    /\ rpc' = "evaluated"
    /\ UNCHANGED <<rsplit, rthr>>
    /\ ReleaseStays

\* The ledger has not: the model is loaded and scores the held-out rows.
ScoreHeldOut ==
    /\ rpc = "loaded"
    /\ rsplit \notin touched
    /\ Readable(disk["model"])
    /\ result' = Metrics(rsplit, disk["model"], rthr)
    /\ rpc' = "scored"
    /\ UNCHANGED <<rsplit, rthr>>
    /\ ReleaseStays

\* Mutation: The metrics are logged and the ledger keeps no row that its reader would match.
RecordTouchUnmatched ==
    /\ rpc = "scored"
    /\ rsplit \notin touched
    /\ readings' = readings \cup {result}
    /\ strays' = strays \cup Stray(result.model)
    /\ rpc' = "evaluated"
    /\ UNCHANGED <<boxFiles, disk, rsplit, rthr, result, touched, production, lost>>

\* record_touch, before the intervals: the ledger is replaced in one step, and
\* from here on the metrics have been seen.
RecordTouch ==
    /\ rpc = "scored"
    /\ rsplit \notin touched
    /\ touched' = touched \cup {rsplit}
    /\ readings' = readings \cup {result}
    /\ strays' = strays \cup Stray(result.model)
    /\ rpc' = "evaluated"
    /\ UNCHANGED <<boxFiles, disk, rsplit, rthr, result, production, lost>>

\* The split whose evaluation the one file of results holds.
Filed == IF Readable(disk["test"]) THEN {disk["test"].split} ELSE {}

\* write_test_result, before a byte is uploaded: of a fresh evaluation, over that of
\* the split before it, or of a reloaded one, over itself.
WriteTestResult ==
    /\ rpc = "evaluated"
    /\ disk' = [disk EXCEPT !["test"] = result]
    /\ rpc' = "written"
    /\ lost' = lost \cup (Filed \ {result.split})
    /\ UNCHANGED <<boxFiles, rsplit, rthr, result, touched, readings, production, strays>>

\* Mutation: The digest recorded with the evaluation is not compared.
CheckDigestNot ==
    /\ rpc = "written"
    /\ Readable(disk["cv"]) /\ Readable(disk["baseline"]) /\ Readable(disk["model"])
    /\ rpc' = "checked"
    /\ UNCHANGED <<rsplit, rthr, result>>
    /\ ReleaseStays

\* publish: the cross-validated and the baseline numbers are read from their files
\* for the summary.  log_model_artifact: the promotion metric and the provenance are
\* there, and the bytes on disk are those of the digest recorded with the evaluation ...
CheckDigest ==
    /\ rpc = "written"
    /\ Readable(disk["cv"]) /\ Readable(disk["baseline"])
    /\ disk["model"] = result.model
    /\ rpc' = "checked"
    /\ UNCHANGED <<rsplit, rthr, result>>
    /\ ReleaseStays

\* ... then the file is added and linked into the registry, under a config that
\* carries the split of the bundle this process loaded.  (Its thresholds are there as
\* well, whether or not the metrics were computed at them.)
Upload ==
    /\ rpc = "checked"
    /\ disk["model"] # Absent
    /\ production' = [split |-> rsplit, bytes |-> disk["model"], metrics |-> result]
    /\ strays' = strays \cup Stray(disk["model"])
    /\ rpc' = "published"
    /\ UNCHANGED <<boxFiles, disk, rsplit, rthr, result, touched, readings, lost>>

\* Mutation: A release that fails at its upload clears away what it has written.
ReleaseStopsClean ==
    /\ rpc \in {"opened", "loaded", "written", "checked", "published"}
    /\ rpc' = "idle" /\ rsplit' = Absent /\ rthr' = Absent /\ result' = Absent
    /\ disk' = IF rpc = "checked" THEN [disk EXCEPT !["test"] = Absent] ELSE disk
    /\ UNCHANGED <<boxFiles, world>>

\* It raises for want of a file or a match, or is told --no-wandb, or the network
\* fails; at "published" it is simply done.
ReleaseStops ==
    /\ rpc \in {"opened", "loaded", "written", "checked", "published"}
    /\ ReleaseEnds

\* The metrics raise, or after the touch was recorded the intervals or the fairness
\* report do, or the process is killed: an evaluation that was not reloaded from its
\* file is gone.
EvaluationDies ==
    /\ rpc \in {"scored", "evaluated"}
    /\ rpc' = "idle" /\ rsplit' = Absent /\ rthr' = Absent /\ result' = Absent
    /\ lost' = lost \cup (({result.split} \cap touched) \ Filed)
    /\ UNCHANGED <<boxFiles, disk, touched, readings, production, strays>>

\* The file is written in place: a reloaded evaluation is torn as well.
TearResult ==
    /\ "tear" \in Faults
    /\ rpc = "evaluated"
    /\ disk' = [disk EXCEPT !["test"] = Absent]
    /\ rpc' = "idle" /\ rsplit' = Absent /\ rthr' = Absent /\ result' = Absent
    /\ lost' = lost \cup Filed \cup {result.split}
    /\ UNCHANGED <<boxFiles, touched, readings, production, strays>>

Publish ==
    \/ ReleaseStart \/ LoadThresholds \/ Reload \/ ScoreHeldOut \/ RecordTouch
    \/ WriteTestResult \/ CheckDigest \/ Upload \/ ReleaseStops
    \/ EvaluationDies \/ TearResult

ReleaseNext ==
    \/ \E s \in Splits : RemoveOldCache(s)
    \/ MoveCacheIn \/ KillRebuild
    \/ \E j \in OuterFold : DeleteTorn(j)
    \/ TrainPhase1
    \/ Publish

ReleaseSpec == ReleaseInit /\ [][ReleaseNext]_releaseVars

-----------------------------------------------------------------------------
TrainPlaces == {"idle", "opening", "ready", "checkpoint", "metrics", "footprint"} \cup Stages
ReleasePlaces == {"idle", "opened", "loaded", "scored", "evaluated", "written",
                  "checked", "published"}

Maybe(S) == S \cup {Absent}

\* Types of the variables of both programs and of their files.
ReleaseTypeOK ==
    /\ bundle \in Splits \cup {Absent} /\ building \in Splits \cup {Absent}
    /\ ckpt \in [OuterFold -> Maybe(Splits) \cup {Torn}]
    /\ DOMAIN disk = Names
    /\ disk["baseline"] \in Maybe({Numbers}) /\ disk["cv"] \in Maybe({Numbers})
    /\ disk["oof"] \in Maybe(Oof) /\ disk["thresholds"] \in Maybe(Tuned)
    /\ disk["model"] \in Maybe(Fitted) \cup {Torn}
    /\ disk["footprint"] \in Maybe(Footprint) /\ disk["test"] \in Maybe(Result)
    /\ tpc \in TrainPlaces /\ tsplit \in Splits \cup {Absent}
    /\ k \in 1..(OuterFolds + 1) /\ rowScores \in [OuterFold -> Splits \cup {Absent}]
    /\ rpc \in ReleasePlaces /\ rsplit \in Splits \cup {Absent}
    /\ rthr \in Tuned \cup {Absent} /\ result \in Result \cup {Absent}
    /\ touched \subseteq Splits /\ readings \subseteq Result
    /\ strays \subseteq Fitted \cup {Torn} /\ lost \subseteq Splits

\* Every fold's scores came from a model of the split its rows and labels are of,
\* so no row was scored by a model that had been fitted on it: through any number of
\* kills, resumed folds and rebuilt caches, what thresholds.json was tuned on is out
\* of fold and of the split it is filed under.
TunedOutOfFold ==
    Readable(disk["thresholds"]) =>
        LET t == disk["thresholds"] IN
        /\ t.oof.labels = t.filed
        /\ \A j \in OuterFold : t.oof.scored[j] = t.filed

\* The held-out rows of a split yield one set of numbers, ever: whoever dies
\* between the scoring and the ledger, and however often the release is run again.
HeldOutOnce ==
    \A a, b \in readings : a.split = b.split => a = b

\* The thresholds the held-out rows are scored at were tuned on that split.
OwnThresholds == \A r \in readings : r.tuned.filed = r.split

\* The held-out rows of a split are scored by a model that was fitted on that
\* split's training rows, so that it has seen none of them; but for a model whose
\* stage ended between the model and its footprint and which a release then took up
\* beside the footprint of another, whose split is all env_version_check looks at
\* (run_phase1_release.py:151-159, run_phase1.py:622-662).
ScoredOwnSplit == \A r \in readings : r.model.split = r.split \/ r.model \in strays

\* What the registry shows was measured: the bytes are those that were scored and the
\* metrics those the ledger allowed, without exception; and they are of the split it
\* says, unless the bytes are of a model as in ScoredOwnSplit
\* (run_phase1_release.py:338-344, model/tracking.py:348-359).
PublishedIsMeasured ==
    production # Absent =>
        /\ production.metrics \in readings
        /\ production.bytes = production.metrics.model
        /\ production.metrics.split = production.split \/ production.bytes \in strays

\* The evaluation a split will ever get is in the file of results from the moment the
\* release lets go of it, and stays there through refusals, failed uploads, refits,
\* rebuilt caches and further releases of the same split.  It is lost in three ways
\* only: the process ends between the ledger and the file, the file is torn as it is
\* written, or the evaluation of another split takes its place
\* (model/evaluate.py:705-717, run_phase1_release.py:175-180, :424-429).
ResultKept ==
    \A s \in touched :
        \/ Readable(disk["test"]) /\ disk["test"].split = s /\ disk["test"] \in readings
        \/ rpc = "evaluated" /\ result.split = s /\ result \in readings
        \/ s \in lost

=============================================================================
