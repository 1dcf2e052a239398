------------------------------- MODULE GpuRun -------------------------------
(***************************************************************************)
(* What a lease is taken for: one training run on a rented GPU             *)
(* (infra/runpod/run_phase1_gpu.py, deploy_runpod.run_finetune).           *)
(*                                                                         *)
(* Three drivers share PodLease.  "phase1" copies the bundle cache,        *)
(* without its held-out rows, into one staging directory, notes the split  *)
(* of the copy, and sends the copy to its pod; "finetune" and "classical"  *)
(* send the cache as it is.  Then each trains, exports, and copies the     *)
(* result back before the lease deletes the pod and its disk.  The cache   *)
(* may be built again at any time, and two runs share cache and staging.   *)
(*                                                                         *)
(* Any step of a driver may raise; a step that needs the pod cannot        *)
(* succeed once the pod is gone.  What preflight asks of prices, stock,    *)
(* caps and balances is abstracted to Refuse, which is always possible.    *)
(***************************************************************************)
EXTENDS PodLease, Sequences

CONSTANTS
    Commands, \* the drivers this instance admits
    Splits,   \* the splits a bundle cache may hold
    Torn      \* what a copy holds that was taken while its source changed

Drivers == {"phase1", "finetune", "classical"}

NoSplit == "none"

ASSUME RunAssumption ==
    /\ Commands \subseteq Drivers
    /\ Splits # {}
    /\ {Torn, NoSplit} \cap Splits = {}

VARIABLES
    driver,      \* the command each lease was started with
    at,          \* how far it is in its program
    cache,       \* the split of data/cache/bundle
    staging,     \* the split of artifacts/pod-bundle, and whether it is whole
    expect,      \* the split a run tells its trainer to insist on
    disk,        \* the split of the bundle on its pod
    unexported,  \* the runs that remember an export that failed
    why,         \* the step whose failure ended the run
    code,        \* how the command ended
    raced        \* history: the leases past preflight when a live pod was created

shipping == <<cache, staging, expect, disk>>
running == <<driver, at, unexported, why, code>>
runvars == <<vars, shipping, running, raced>>

Preparation == [phase1 |-> <<"look", "clear", "copy", "stamp", "preflight">>,
                finetune |-> <<"preflight">>,
                classical |-> <<"preflight">>]

Body == [phase1 |-> <<"deliver", "smoke", "train", "export", "register", "fetch">>,
         finetune |-> <<"deliver", "train", "export", "fetch">>,
         classical |-> <<"deliver", "train", "export", "fetch">>]

Programs == [command \in Drivers |-> Preparation[command] \o Body[command]]

Program(l) == Programs[driver[l]]

Finished(l) == at[l] > Len(Program(l))
Did(l, step) == \E i \in 1..(at[l] - 1) : Program(l)[i] = step
Lost(l) == why[l] # "none"

RunInit ==
    /\ Init
    /\ driver \in [Leases -> Commands]
    /\ at = [l \in Leases |-> 1]
    /\ cache \in Splits
    /\ staging = [split |-> NoSplit, whole |-> FALSE]
    /\ expect = [l \in Leases |-> NoSplit]
    /\ disk = [l \in Leases |-> NoSplit]
    /\ unexported = {}
    /\ why = [l \in Leases |-> "none"]
    /\ code = [l \in Leases |-> "none"]
    /\ raced = [l \in Leases |-> {}]

\* The driver's next step, taken; of a step inside the with block, on a pod.
Steps(l, step) ==
    /\ ~Finished(l) /\ ~Lost(l) /\ code[l] = "none"
    /\ Program(l)[at[l]] = step
    /\ at' = [at EXCEPT ![l] = @ + 1]
    /\ UNCHANGED <<driver, why, code, raced>>

OnPod(l, step) ==
    /\ pc[l] = "held"
    /\ l \in live
    /\ Steps(l, step)
    /\ UNCHANGED vars

-----------------------------------------------------------------------------
(* Before the pod                                                          *)

\* report_spend_cap, assert_nothing_is_running: nothing is live, for now.
FindNothingRunning(l) ==
    /\ live = {}
    /\ Steps(l, "look")
    /\ UNCHANGED <<vars, shipping, unexported>>

\* build_pod_bundle removes the copy of an earlier run,
ClearStaging(l) ==
    /\ Steps(l, "clear")
    /\ staging' = [split |-> NoSplit, whole |-> FALSE]
    /\ UNCHANGED <<vars, cache, expect, disk, unexported>>

\* copies the cache without its test rows, into a directory that must not be
\* there,
CopyCache(l) ==
    /\ staging.split = NoSplit
    /\ Steps(l, "copy")
    /\ staging' = [split |-> cache, whole |-> FALSE]
    /\ UNCHANGED <<vars, cache, expect, disk, unexported>>

\* and rewrites the manifest it finds there, from which main takes the split to
\* insist on.  A cache that was replaced under the copy leaves a mixture.
StampManifest(l) ==
    /\ staging.split # NoSplit
    /\ Steps(l, "stamp")
    /\ \E split \in {staging.split, cache} :
          /\ expect' = [expect EXCEPT ![l] = split]
          /\ \E whole \in {cache = staging.split, TRUE} :
                staging' = [split |-> split, whole |-> whole]
    /\ UNCHANGED <<vars, cache, disk, unexported>>

\* Mutant: only a pod that is in the registry is a reason not to launch.
MayLaunchBesideOrphans == live \cap registry = {}

\* preflight: what is live is registered or an orphan, and both refuse.
MayLaunch == live = {}

PassPreflight(l) ==
    /\ pc[l] = "new"
    /\ MayLaunch
    /\ Steps(l, "preflight")
    /\ Goes(l, "approved")
    /\ UNCHANGED <<live, books, plans, erring, shipping, unexported>>

\* Something is live, no cap is set, nothing is priced or in stock, a ceiling or
\* the balance would be passed, the W&B entity is wrong, there is no cache:
\* one message, no launch.
Refuse(l) ==
    /\ pc[l] = "new"
    /\ code[l] = "none"
    /\ code' = [code EXCEPT ![l] = "failed"]
    /\ UNCHANGED <<vars, shipping, driver, at, unexported, why, raced>>

-----------------------------------------------------------------------------
(* On the pod                                                              *)

\* assert_realized_price, wait_for_bootstrap, deliver_code, and deliver_dataset:
\* scp of a directory that others may be replacing.
Deliver(l) ==
    /\ OnPod(l, "deliver")
    /\ \E split \in {Torn, IF driver[l] # "phase1" THEN cache
                           ELSE IF staging.whole THEN staging.split ELSE Torn} :
          disk' = [disk EXCEPT ![l] = split]
    /\ UNCHANGED <<cache, staging, expect, unexported>>

\* Mutant: the command line carries no --expect-split-version.
LoadsAny(l) == disk[l] \in Splits

\* The trainer verifies every digest of the bundle, and its split if it was told
\* which.
Loads(l) == disk[l] \in Splits /\ expect[l] \in {NoSplit, disk[l]}

\* assert_pod_credentials, then 2000 rows trained and exported on the side, or
\* not (--no-smoke): what it would refuse, Train refuses.
Smoke(l) ==
    /\ OnPod(l, "smoke")
    /\ UNCHANGED <<shipping, unexported>>

Train(l) ==
    /\ Loads(l)
    /\ OnPod(l, "train")
    /\ UNCHANGED <<shipping, unexported>>

\* The int8 export; for the classical run, the copy of the out-of-fold matrix
\* into the directory that is fetched.
Export(l) ==
    /\ OnPod(l, "export")
    /\ UNCHANGED <<shipping, unexported>>

\* Mutant: nothing catches an export that failed.
ExportFailsUncaught(l) ==
    /\ driver[l] = "finetune"
    /\ pc[l] = "held"
    /\ ~Lost(l) /\ Program(l)[at[l]] = "export"
    /\ why' = [why EXCEPT ![l] = "export"]
    /\ UNCHANGED <<vars, shipping, driver, at, unexported, code, raced>>

\* run_finetune remembers the failure and goes on to the retrieval.
ExportFails(l) ==
    /\ driver[l] = "finetune"
    /\ pc[l] = "held"
    /\ Steps(l, "export")
    /\ unexported' = unexported \union {l}
    /\ UNCHANGED <<vars, shipping>>

\* register_pod_artifacts, on the pod; with --no-register, nothing.
Register(l) ==
    /\ OnPod(l, "register")
    /\ UNCHANGED <<shipping, unexported>>

\* fetch_checkpoint, the last statement inside the lease.
Fetch(l) ==
    /\ OnPod(l, "fetch")
    /\ UNCHANGED <<shipping, unexported>>

\* A step raises and the with block is left.  An export of run_finetune that
\* raises is ExportFails, unless it is Ctrl-C.
BodyRaises(l) ==
    /\ pc[l] = "held"
    /\ ~Finished(l) /\ ~Lost(l)
    /\ \E cause \in {Program(l)[at[l]]} \union (Faults \cap {"interrupt"}) :
          /\ ~(driver[l] = "finetune" /\ cause = "export")
          /\ why' = [why EXCEPT ![l] = cause]
    /\ UNCHANGED <<vars, shipping, driver, at, unexported, code, raced>>

\* The with block is left: its end is reached, a step raised, or the launch did.
\* Neither the disk of the pod nor the split insisted on is looked at again.
LeaseCloses(l) ==
    /\ pc[l] = "held" => Finished(l) \/ Lost(l)
    /\ TeardownBegins(l)
    /\ expect' = [expect EXCEPT ![l] = NoSplit]
    /\ disk' = [disk EXCEPT ![l] = NoSplit]
    /\ UNCHANGED <<cache, staging, running, raced>>

\* run_phase1_gpu asks the account once more, whoever created what it finds;
\* run_finetune raises the export failure it remembered.
Exit(l) ==
    /\ pc[l] \in Ended
    /\ code[l] = "none"
    /\ \E found \in IF driver[l] = "phase1" THEN {live} ELSE {{}} :
          code' = [code EXCEPT ![l] =
             IF pc[l] = "done" /\ Finished(l) /\ l \notin unexported /\ found = {}
             THEN "ok" ELSE "failed"]
    /\ UNCHANGED <<vars, shipping, driver, at, unexported, why, raced>>

-----------------------------------------------------------------------------
(* The lease around it, and the environment                                *)

Creates(l) ==
    /\ CreatePod(l) \/ PodWithoutId(l)
    /\ raced' = [raced EXCEPT ![l] =
          IF l \in live' \ live
          THEN {o \in Leases \ {l} : pc[o] \notin {"new"} \union Ended}
          ELSE @]
    /\ UNCHANGED <<shipping, running>>

\* What raced a pod is kept for as long as the pod is live.
Outlived == raced' = [p \in Leases |-> IF p \in live' THEN raced[p] ELSE {}]

LeaseWorks(l) ==
    /\ \/ Enter(l) \/ CreateFails(l)
       \/ AppendReads(l) \/ AppendWrites(l) \/ AppendRaises(l) \/ DeleteUnrecorded(l)
       \/ Ready(l) \/ NotReady(l) \/ Verify(l) \/ TeardownRaises(l)
    /\ Outlived
    /\ UNCHANGED <<shipping, running>>

Elsewhere ==
    /\ \/ \E q \in Processes : DeleteNext(q)
       \/ \E r \in Reapers : ReaperNext(r)
       \/ \E p \in Leases : Vanish(p)
    /\ Outlived
    /\ UNCHANGED <<shipping, running>>

\* As when the lease closes, the disk and the split are not looked at again.
Killed(l) ==
    /\ Kill(l)
    /\ code[l] = "none"
    /\ code' = [code EXCEPT ![l] = "killed"]
    /\ expect' = [expect EXCEPT ![l] = NoSplit]
    /\ disk' = [disk EXCEPT ![l] = NoSplit]
    /\ UNCHANGED <<cache, staging, driver, at, unexported, why, raced>>

\* model.train_distilbert --build-cache, in another terminal, while there is a
\* run that may still read the cache: nobody would notice a later one.
RebuildCache ==
    /\ \E l \in Leases : code[l] = "none" /\ ~Lost(l) /\ ~Did(l, "deliver")
    /\ \E split \in Splits \ {cache} : cache' = split
    /\ UNCHANGED <<vars, staging, expect, disk, running, raced>>

RunNext ==
    \/ \E l \in Leases :
          \/ FindNothingRunning(l) \/ ClearStaging(l) \/ CopyCache(l) \/ StampManifest(l)
          \/ PassPreflight(l) \/ Refuse(l)
          \/ Deliver(l) \/ Smoke(l) \/ Train(l)
          \/ Export(l) \/ ExportFails(l) \/ Register(l) \/ Fetch(l) \/ BodyRaises(l)
          \/ LeaseCloses(l) \/ Exit(l)
          \/ Creates(l) \/ LeaseWorks(l) \/ Killed(l)
    \/ Elsewhere
    \/ RebuildCache

RunSpec == RunInit /\ [][RunNext]_runvars

-----------------------------------------------------------------------------
(* Properties                                                              *)

\* A teardown deletes what was registered since its lease began, and so may
\* delete the pod of another run, in the middle of it: but only of one that
\* was created while this lease was already past its own preflight, never a
\* pod this lease could have seen, recorded or not (preflight: "from then on
\* you cannot tell the new pod from the old one").
Deletes(l, p) == p \in live \ live' /\ p \in todo[l] \ todo'[l]

OnlyRacers ==
    [][\A l, p \in Leases : l # p /\ Deletes(l, p) => l \in raced[p]]_runvars

\* Weights come from the split that run_phase1_gpu said it staged, whoever
\* replaced the staging directory or the cache between that message and the
\* delivery: every later number is keyed to that split.
TrainedAsStaged ==
    \A l \in Leases :
        driver[l] = "phase1" /\ Did(l, "train") /\ pc[l] = "held" => disk[l] = expect[l]

\* A command that exits 0 has its artifacts at home, the export among them, and
\* its pod is gone.  And run_finetune loses weights that were trained only to
\* the retrieval itself, to Ctrl-C or to a kill: "a failed export must not cost
\* the fine-tune".
RunKept ==
    \A l \in Leases :
        /\ code[l] = "ok" => /\ Did(l, "export") /\ Did(l, "fetch")
                             /\ l \notin unexported \union live
        /\ (driver[l] = "finetune" /\ Did(l, "train") /\ pc[l] # "held") =>
              \/ Did(l, "fetch")
              \/ why[l] \in {"fetch", "interrupt"}
              \/ code[l] = "killed"
=============================================================================
