---------------------------- MODULE Challenger ----------------------------
(***************************************************************************)
(* The way of the DistilBERT challenger from a checkpoint to the worker    *)
(* that serves it: the ONNX export and its two parity gates                *)
(* (model/export_onnx.py), the registration of what lies in the output     *)
(* directory (infra/runpod/register_pod_artifacts.py), and the gates the   *)
(* worker repeats when it loads a file (rescorer/challenger.py).           *)
(*                                                                         *)
(* A checkpoint or a graph is what it computes on the parity sample: a     *)
(* logit for every row and label.  Neither the exporter nor the quantizer  *)
(* is trusted, so each may leave any output behind.  The output directory  *)
(* is written in place, file by file, and a command may die between any    *)
(* two of them.                                                            *)
(***************************************************************************)
EXTENDS Integers, FiniteSets, FiniteSetsExt, LabelSet

CONSTANTS
    ParityRows,     \* the sample: rows of the validation fold
    Outputs,        \* what a checkpoint or a graph may compute on it
    Checkpoints,    \* those of them a training may end with
    Sigmoid,        \* the probability of a logit
    Cut,            \* the threshold of a label
    TorchAtol,      \* TORCH_ONNX_ATOL
    LogitAtol,      \* LOGIT_ATOL
    LogitMeanAtol,  \* LOGIT_MEAN_ATOL
    ProbAtol,       \* PROB_ATOL
    FlipPerMille,   \* FLAG_FLIP_FRAC
    FlipMin,        \* FLAG_FLIP_MIN
    RankMargin,     \* RANK_MARGIN
    MaxParityAtol,  \* MAX_PARITY_ATOL
    Declared,       \* tolerances a parity fixture may declare
    MaxVersions,    \* bound on the versions in the registry
    None            \* no file, no version, no tolerance declared

Cells == ParityRows \X Labels

ASSUME ChallengerAssumption ==
    /\ IsFiniteSet(ParityRows) /\ ParityRows # {} /\ IsFiniteSet(Labels)
    /\ Outputs \subseteq [Cells -> Int]
    /\ Checkpoints \subseteq Outputs /\ Checkpoints # {}
    /\ \A x \in Outputs, c \in Cells : Sigmoid[x[c]] \in Int
    /\ Cut \in [Labels -> Int]
    /\ {TorchAtol, LogitAtol, LogitMeanAtol, ProbAtol} \subseteq Nat
    /\ {FlipPerMille, FlipMin, RankMargin, MaxParityAtol, MaxVersions} \subseteq Nat
    /\ Declared \subseteq Nat
    /\ None \notin Outputs /\ None \notin Declared

VARIABLES
    final,      \* the checkpoint in --model-dir
    command,    \* the step an exporter is at; the driver runs one command at a time
    floatFile,  \* float/model.onnx
    int8File,   \* int8/model_quantized.onnx
    manifest,   \* the int8 digest and, for its parity reports, the reference they compare with
    registry,   \* the versions of the ONNX artifact: their files, and the evidence with them
    serving     \* the graph a worker has loaded, and the logits its fixture shipped

challengerVars == <<final, command, floatFile, int8File, manifest, registry, serving>>
directory == <<floatFile, int8File, manifest>>

ChallengerInit ==
    /\ final \in Checkpoints
    /\ command = "idle"
    /\ floatFile = None /\ int8File = None /\ manifest = None
    /\ registry = {}
    /\ serving = None

-----------------------------------------------------------------------------
(* compare_logits: every cell by itself, for a mean or a macro score does  *)
(* not change when columns are exchanged                                   *)

Gap(a, b) == IF a <= b THEN b - a ELSE a - b

Prob(x, c) == Sigmoid[x[c]]
Flag(x, c) == Prob(x, c) >= Cut[c[2]]
Flips(x, y) == {c \in Cells : Flag(x, c) # Flag(y, c)}

\* A share of the decisions, but never less than a number of them.
Allowed(perMille, least) ==
    LET share == (perMille * Cardinality(Cells)) \div 1000 IN
    IF share >= least THEN share ELSE least

\* The label on top of a row; among equals, one of them.
Top(x, i) == CHOOSE l \in Labels : \A k \in Labels : Prob(x, <<i, k>>) <= Prob(x, <<i, l>>)

\* A row whose top label leads by more than the margin may testify about the order.
Separated(x, i) ==
    \A k \in Labels \ {Top(x, i)} : Prob(x, <<i, Top(x, i)>>) - Prob(x, <<i, k>>) > RankMargin

Within(x, y, atol) == \A c \in Cells : Gap(x[c], y[c]) <= atol

Agree(reference, candidate, logitAtol, meanAtol, probAtol, flips) ==
    /\ Within(reference, candidate, logitAtol)
    /\ MapThenSumSet(LAMBDA c : Gap(reference[c], candidate[c]), Cells)
         <= meanAtol * Cardinality(Cells)
    /\ \A c \in Cells : Gap(Prob(reference, c), Prob(candidate, c)) <= probAtol
    /\ Cardinality(Flips(reference, candidate)) <= flips
    /\ \A i \in ParityRows : Separated(reference, i) => Top(reference, i) = Top(candidate, i)

\* The float graph has the weights and the maths of the checkpoint, so no decision may
\* differ; the int8 graph is compared with the float graph, not with the checkpoint.
FloatGate(torch, float) == Agree(torch, float, TorchAtol, TorchAtol, TorchAtol, 0)
Int8Gate(float, int8) ==
    Agree(float, int8, LogitAtol, LogitMeanAtol, ProbAtol, Allowed(FlipPerMille, FlipMin))

-----------------------------------------------------------------------------
(* export_and_verify                                                       *)

\* Another training ends in the same directory.
Retrain ==
    /\ final' \in Checkpoints \ {final}
    /\ UNCHANGED <<command, directory, registry, serving>>

\* Each graph is written over the one of an earlier export; the manifest of that export
\* stays where it is.
ExportFloat ==
    /\ command = "idle"
    /\ command' = "quantize"
    /\ floatFile' \in Outputs
    /\ UNCHANGED <<final, int8File, manifest, registry, serving>>

QuantizeInt8 ==
    /\ command = "quantize"
    /\ command' = "verify"
    /\ int8File' \in Outputs
    /\ UNCHANGED <<final, floatFile, manifest, registry, serving>>

\* Both gates are run on the files and on the checkpoint as it is now, and the manifest
\* is written last.
VerifyAndRecord ==
    /\ command = "verify"
    /\ FloatGate(final, floatFile)
    /\ Int8Gate(floatFile, int8File)
    /\ manifest' = [int8 |-> int8File, reference |-> final]
    /\ command' = "idle"
    /\ UNCHANGED <<final, floatFile, int8File, registry, serving>>

\* A ParityError, an ExportError, or a kill: nothing is cleaned up.
ExportDies ==
    /\ command # "idle"
    /\ command' = "idle"
    /\ UNCHANGED <<final, directory, registry, serving>>

-----------------------------------------------------------------------------
(* register_pod_artifacts                                                  *)

\* Mutation: a manifest is enough.
ManifestHoldsUnread == manifest # None

\* load_onnx_manifest: the int8 graph must be the one the manifest was written for.
\* Nothing looks at the float graph.
ManifestHolds == manifest # None /\ int8File = manifest.int8

\* The whole directory is uploaded, with the manifest's parity reports as its metadata.
\* An upload that fails leaves no version of this artifact.
Register ==
    /\ command = "idle"
    /\ ManifestHolds
    /\ Cardinality(registry) < MaxVersions
    /\ registry' = registry \cup
         {[float |-> floatFile, int8 |-> int8File, evidence |-> manifest]}
    /\ UNCHANGED <<final, command, directory, serving>>

-----------------------------------------------------------------------------
(* load_challenger                                                         *)

Files == UNION {{v.float, v.int8} : v \in registry}

\* What _parity_tolerance makes of the tolerance in the fixture: it may tighten only.
Tolerances(declared) ==
    IF declared = None THEN {MaxParityAtol} ELSE {declared} \cap 0..MaxParityAtol

\* A worker starts on a file from the registry.  Which file, the digest it is held to,
\* and the fixture beside it are an operator's.  Digest, configuration, fixture,
\* tolerance and logits are asked in this order, and any of them stops the worker.
Start ==
    /\ \E file \in Files, pinned \in Files, reference \in Outputs,
          declared \in Declared \cup {None}, config \in BOOLEAN :
          /\ file = pinned
          /\ config
          /\ \E atol \in Tolerances(declared) : Within(reference, file, atol)
          /\ serving' = [graph |-> file, reference |-> reference]
    /\ UNCHANGED <<final, command, directory, registry>>

ChallengerNext ==
    \/ Retrain \/ ExportFloat \/ QuantizeInt8 \/ VerifyAndRecord \/ ExportDies
    \/ Register \/ Start

ChallengerSpec == ChallengerInit /\ [][ChallengerNext]_challengerVars

-----------------------------------------------------------------------------
(* Properties                                                              *)

ManifestOf == [int8 : Outputs, reference : Checkpoints]

\* Types.
ChallengerTypeOK ==
    /\ final \in Checkpoints
    /\ command \in {"idle", "quantize", "verify"}
    /\ floatFile \in Outputs \cup {None} /\ int8File \in Outputs \cup {None}
    /\ manifest \in ManifestOf \cup {None}
    /\ command = "verify" => floatFile # None /\ int8File # None
    /\ command = "quantize" => floatFile # None
    /\ registry \subseteq [float : Outputs \cup {None}, int8 : Outputs, evidence : ManifestOf]
    /\ serving \in [graph : Outputs, reference : Outputs] \cup {None}

\* What is registered has been gated, whatever exports died over the same directory and
\* whatever was trained in between: the int8 graph of a version is the one its evidence
\* is about, no logit of it is further from the checkpoint's than both gates together
\* allow, and it decides as that checkpoint does, but for the flips one gate allows.
RegisteredIsGated ==
    \A v \in registry :
        /\ v.int8 = v.evidence.int8
        /\ Within(v.evidence.reference, v.int8, TorchAtol + LogitAtol)
        /\ Cardinality(Flips(v.evidence.reference, v.int8)) <= Allowed(FlipPerMille, FlipMin)

\* What is served is gated where it is used: no graph, not even a float graph that was
\* uploaded without having passed a gate, serves further than the ceiling from the logits
\* it was shipped with, whatever tolerance was shipped with them.
ServedWithinCeiling ==
    serving # None => Within(serving.reference, serving.graph, MaxParityAtol)

\* No deviation reaches the registry or the re-scorer ungated.
GatesHold == RegisteredIsGated /\ ServedWithinCeiling

\* That the float graph of a version passed its gate as well is not so: an export that
\* died after ExportFloat leaves a new float graph beside an int8 graph and a manifest
\* that match, and Register uploads all three.
FloatIsGated ==
    \A v \in registry : v.float \in Outputs /\ FloatGate(v.evidence.reference, v.float)

=============================================================================
