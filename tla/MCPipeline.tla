----------------------------- MODULE MCPipeline -----------------------------
(***************************************************************************)
(* One instance of the four modules between a corpus and a published       *)
(* model: a behaviour takes a corpus through its preparation, carries out  *)
(* one evaluation, takes a challenger from its export to the worker, or    *)
(* takes the Phase 1 model through its stages and its release.  They share *)
(* no variable.                                                            *)
(***************************************************************************)
EXTENDS Corpus, Evaluation, Challenger, Release, TLC

CONSTANTS t1, t2, t3, s1, s2

MCTexts == {t1, t2, t3}
MCLabels == {"toxic", "severe_toxic", "insult"}
MCAnnotated == {"toxic", "severe_toxic"}
MCWeights == {1, 3}

\* One row of the parity sample, in hundredths of a logit: a checkpoint, what noise of
\* several sizes makes of it, its columns exchanged, and another checkpoint.
MCRows == {1}
Row(toxic, severe, insult) ==
    [c \in MCRows \X MCLabels |->
        IF c[2] = "toxic" THEN toxic ELSE IF c[2] = "severe_toxic" THEN severe ELSE insult]
MCOutputs == {Row(200, -200, 10), Row(200, -200, 14), Row(200, -200, 22),
              Row(200, -200, 50), Row(-200, 200, 10), Row(-200, -200, 10)}
MCCheckpoints == {Row(200, -200, 10), Row(-200, -200, 10)}
MCSigmoid == (-200 :> 12) @@ (10 :> 52) @@ (14 :> 53) @@ (22 :> 55) @@ (50 :> 62) @@ (200 :> 88)
MCCut == [l \in MCLabels |-> 54]
MCDeclared == {0, 5, 25}

\* Two splits of the corpus; a kill between any two steps, or within a write.
MCSplits == {s1, s2}
OneRevision == {1}
Killed == {"kill", "tear"}

MCSymmetry == Permutations(MCSplits)

\* Texts are named in the order of the first rows they are of: any other naming is
\* this one with its texts exchanged.
NamedInOrder == text[1] = t1 /\ text[2] \in {t1, t2} /\ (text[3] = t3 => text[2] = t2)

\* The parts a behaviour is not about.
NoCorpus ==
    /\ stage = "none" /\ text = NoRow /\ labels = NoRow /\ similar = {} /\ gateSees = {}
    /\ todo = {} /\ kept = {} /\ merged = NoRow /\ keeper = NoRow /\ missed = {}
    /\ side = NoRow /\ fold = NoRow
NoEvaluation == task = [kind |-> "none"] /\ answer = NoAnswer
NoChallenger ==
    /\ final = None /\ command = None /\ floatFile = None /\ int8File = None
    /\ manifest = None /\ registry = {} /\ serving = None
NoRelease ==
    /\ bundle = Absent /\ building = Absent /\ ckpt = NoRow /\ disk = [n \in Names |-> Absent]
    /\ tpc = "none" /\ tsplit = Absent /\ k = 1 /\ rowScores = NoRow
    /\ rpc = "none" /\ rsplit = Absent /\ rthr = Absent /\ result = Absent
    /\ touched = {} /\ readings = {} /\ production = Absent /\ strays = {} /\ lost = {}

Init ==
    \/ CorpusInit /\ NamedInOrder /\ NoEvaluation /\ NoChallenger /\ NoRelease
    \/ NoCorpus /\ EvaluationInit /\ NoChallenger /\ NoRelease
    \/ NoCorpus /\ NoEvaluation /\ ChallengerInit /\ NoRelease
    \/ NoCorpus /\ NoEvaluation /\ NoChallenger /\ ReleaseInit

Next ==
    \/ CorpusNext /\ UNCHANGED <<evaluationVars, challengerVars, releaseVars>>
    \/ EvaluationNext /\ UNCHANGED <<corpusVars, challengerVars, releaseVars>>
    \/ final # None /\ ChallengerNext /\ UNCHANGED <<corpusVars, evaluationVars, releaseVars>>
    \/ tpc # "none" /\ ReleaseNext /\ UNCHANGED <<corpusVars, evaluationVars, challengerVars>>

Spec == Init /\ [][Next]_<<corpusVars, evaluationVars, challengerVars, releaseVars>>
=============================================================================
