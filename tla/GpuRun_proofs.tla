---------------------------- MODULE GpuRun_proofs ----------------------------
(***************************************************************************)
(* Proofs about GpuRun, for any number of runs, reapers and splits and any *)
(* faults: a run does nothing to pods and registry that PodLease does not  *)
(* describe, a teardown deletes another run's pod only if no preflight     *)
(* could have seen it, weights come from the split that was staged, and an *)
(* exit code of 0 means what it says.                                      *)
(***************************************************************************)
EXTENDS GpuRun, PodLease_proofs, SequenceTheorems

-----------------------------------------------------------------------------
(* Programs                                                                *)

StepNames == {"look", "clear", "copy", "stamp", "preflight", "deliver", "smoke",
              "train", "export", "register", "fetch"}

LEMMA Joined ==
    ASSUME NEW S, NEW s \in Seq(S), NEW t \in Seq(S)
    PROVE  /\ Len(s \o t) = Len(s) + Len(t)
           /\ \A i \in 1..Len(s) : (s \o t)[i] = s[i]
           /\ \A i \in 1..Len(t) : (s \o t)[Len(s) + i] = t[i]
<1>1. Len(s) \in Nat /\ Len(t) \in Nat
  OBVIOUS
<1>2. /\ Len(s \o t) = Len(s) + Len(t)
      /\ \A i \in 1..(Len(s) + Len(t)) :
            (s \o t)[i] = IF i <= Len(s) THEN s[i] ELSE t[i - Len(s)]
  BY ConcatProperties
<1> QED
  BY <1>1, <1>2

LEMMA ProgramSteps ==
    ASSUME NEW l \in Leases, driver[l] \in Drivers
    PROVE  /\ driver[l] = "phase1" =>
                /\ Len(Program(l)) = 11
                /\ Program(l)[1] = "look" /\ Program(l)[2] = "clear" /\ Program(l)[3] = "copy"
                /\ Program(l)[4] = "stamp" /\ Program(l)[5] = "preflight"
                /\ Program(l)[6] = "deliver" /\ Program(l)[7] = "smoke"
                /\ Program(l)[8] = "train" /\ Program(l)[9] = "export"
                /\ Program(l)[10] = "register" /\ Program(l)[11] = "fetch"
           /\ driver[l] # "phase1" => 
                /\ Len(Program(l)) = 5
                /\ Program(l)[1] = "preflight" /\ Program(l)[2] = "deliver"
                /\ Program(l)[3] = "train" /\ Program(l)[4] = "export"
                /\ Program(l)[5] = "fetch"
<1> DEFINE first == Preparation[driver[l]]
           second == Body[driver[l]]
<1>1. CASE driver[l] = "phase1"
  <2>1. first = <<"look", "clear", "copy", "stamp", "preflight">>
    BY <1>1 DEF Preparation
  <2>2. second = <<"deliver", "smoke", "train", "export", "register", "fetch">>
    BY <1>1 DEF Body
  <2>3. Len(first) = 5 /\ Len(second) = 6
    BY <2>1, <2>2
  <2>6. first \in Seq(StepNames)
    BY <2>1 DEF StepNames
  <2>7. second \in Seq(StepNames)
    BY <2>2 DEF StepNames
  <2> HIDE DEF first, second
  <2>4. /\ Len(first \o second) = Len(first) + Len(second)
        /\ \A i \in 1..Len(first) : (first \o second)[i] = first[i]
        /\ \A i \in 1..Len(second) : (first \o second)[Len(first) + i] = second[i]
    BY ONLY <2>6, <2>7, Joined
  <2>5. Program(l) = first \o second
    BY DEF Program, Programs, Drivers, first, second
  <2> QED
    BY <1>1, <2>1, <2>2, <2>3, <2>4, <2>5
<1>2. CASE driver[l] # "phase1"
  <2>1. first = <<"preflight">>
    BY <1>2 DEF Preparation, Drivers
  <2>2. second = <<"deliver", "train", "export", "fetch">>
    BY <1>2 DEF Body, Drivers
  <2>3. Len(first) = 1 /\ Len(second) = 4
    BY <2>1, <2>2
  <2>6. first \in Seq(StepNames)
    BY <2>1 DEF StepNames
  <2>7. second \in Seq(StepNames)
    BY <2>2 DEF StepNames
  <2> HIDE DEF first, second
  <2>4. /\ Len(first \o second) = Len(first) + Len(second)
        /\ \A i \in 1..Len(first) : (first \o second)[i] = first[i]
        /\ \A i \in 1..Len(second) : (first \o second)[Len(first) + i] = second[i]
    BY ONLY <2>6, <2>7, Joined
  <2>5. Program(l) = first \o second
    BY DEF Program, Programs, Drivers, first, second
  <2> QED
    BY <1>2, <2>1, <2>2, <2>3, <2>4, <2>5
<1> QED
  BY <1>1, <1>2

-----------------------------------------------------------------------------
(* The lease under a run                                                   *)

\* Whatever a run does, its pod and the registry see a step of PodLease.
LEMMA RunsAsLease == [RunNext]_runvars => [Next]_vars
<1> SUFFICES ASSUME [RunNext]_runvars PROVE [Next]_vars
  OBVIOUS
<1>1. ASSUME NEW l \in Leases, PassPreflight(l)
      PROVE  Preflight(l)
  BY <1>1 DEF PassPreflight, MayLaunch, Preflight
<1>2. ASSUME NEW l \in Leases, Creates(l)
      PROVE  CreatePod(l) \/ PodWithoutId(l)
  BY <1>2 DEF Creates
<1>3. ASSUME NEW l \in Leases, LeaseWorks(l)
      PROVE  LeaseNext(l)
  BY <1>3 DEF LeaseWorks, LeaseNext
<1>4. ASSUME NEW l \in Leases, LeaseCloses(l)
      PROVE  TeardownBegins(l)
  BY <1>4 DEF LeaseCloses
<1>5. ASSUME NEW l \in Leases, Killed(l)
      PROVE  Kill(l)
  BY <1>5 DEF Killed
<1>6. CASE Elsewhere
  BY <1>6 DEF Elsewhere, Next
<1>7. ASSUME NEW l \in Leases,
             \/ FindNothingRunning(l) \/ ClearStaging(l) \/ CopyCache(l)
             \/ StampManifest(l) \/ Refuse(l)
             \/ Deliver(l) \/ Smoke(l) \/ Train(l) \/ Export(l) \/ ExportFails(l)
             \/ Register(l) \/ Fetch(l) \/ BodyRaises(l) \/ Exit(l)
      PROVE  UNCHANGED vars
  BY <1>7 DEF FindNothingRunning, ClearStaging, CopyCache, StampManifest, Refuse,
              Deliver, Smoke, Train, Export, ExportFails, Register, Fetch, BodyRaises, Exit, OnPod
<1>8. CASE RebuildCache \/ UNCHANGED runvars
  BY <1>8 DEF RebuildCache, runvars
<1> QED
  BY <1>1, <1>2, <1>3, <1>4, <1>5, <1>6, <1>7, <1>8 DEF RunNext, Next, LeaseNext

\* A training run uses its pod as PodLease says a launcher does, whichever
\* driver it is and wherever it raises: no pod is without a record for it, and
\* what PodLease promises of a lease that returns holds of its run.
THEOREM RunImplementsLease == RunSpec => Spec
<1>1. RunInit => Init
  BY DEF RunInit
<1> QED
  BY <1>1, RunsAsLease, PTL DEF RunSpec, Spec

-----------------------------------------------------------------------------
(* Types                                                                   *)

Causes == StepNames \union {"none", "interrupt"}

RunTyped ==
    /\ driver \in [Leases -> Drivers]
    /\ at \in [Leases -> Nat \ {0}]
    /\ \A l \in Leases : at[l] <= IF driver[l] = "phase1" THEN 12 ELSE 6
    /\ cache \in Splits
    /\ staging \in [split : Splits \union {NoSplit}, whole : BOOLEAN]
    /\ expect \in [Leases -> Splits \union {NoSplit}]
    /\ disk \in [Leases -> Splits \union {NoSplit, Torn}]
    /\ unexported \subseteq Leases
    /\ why \in [Leases -> Causes]
    /\ code \in [Leases -> {"none", "ok", "failed", "killed"}]
    /\ raced \in [Leases -> SUBSET Leases]

\* Where the steps are that the properties speak of.
PhasePlaces(prog) ==
    \A i \in 1..11 :
        /\ prog[i] \in StepNames
        /\ prog[i] = "stamp" <=> i = 4
        /\ prog[i] = "preflight" <=> i = 5
        /\ prog[i] = "deliver" <=> i = 6
        /\ prog[i] = "train" <=> i = 8
        /\ prog[i] = "export" <=> i = 9
        /\ prog[i] = "fetch" <=> i = 11

TunePlaces(prog) ==
    \A i \in 1..5 :
        /\ prog[i] \in StepNames
        /\ prog[i] # "stamp"
        /\ prog[i] = "preflight" <=> i = 1
        /\ prog[i] = "deliver" <=> i = 2
        /\ prog[i] = "train" <=> i = 3
        /\ prog[i] = "export" <=> i = 4
        /\ prog[i] = "fetch" <=> i = 5

LEMMA Places ==
    ASSUME NEW l \in Leases, driver[l] \in Drivers
    PROVE  /\ driver[l] = "phase1" => Len(Program(l)) = 11 /\ PhasePlaces(Program(l))
           /\ driver[l] # "phase1" => Len(Program(l)) = 5 /\ TunePlaces(Program(l))
<1> DEFINE prog == Program(l)
<1>1. CASE driver[l] = "phase1"
  <2>1. /\ Len(prog) = 11
        /\ prog[1] = "look" /\ prog[2] = "clear" /\ prog[3] = "copy"
        /\ prog[4] = "stamp" /\ prog[5] = "preflight"
        /\ prog[6] = "deliver" /\ prog[7] = "smoke"
        /\ prog[8] = "train" /\ prog[9] = "export"
        /\ prog[10] = "register" /\ prog[11] = "fetch"
    BY <1>1, ProgramSteps
  <2> HIDE DEF prog
  <2>2. ASSUME NEW i \in 1..11
        PROVE  /\ prog[i] \in StepNames
               /\ prog[i] = "stamp" <=> i = 4
               /\ prog[i] = "preflight" <=> i = 5
               /\ prog[i] = "deliver" <=> i = 6
               /\ prog[i] = "train" <=> i = 8
               /\ prog[i] = "export" <=> i = 9
               /\ prog[i] = "fetch" <=> i = 11
    <3>1. \/ i = 1 \/ i = 2 \/ i = 3 \/ i = 4 \/ i = 5
          \/ i = 6 \/ i = 7 \/ i = 8 \/ i = 9 \/ i = 10 \/ i = 11
      OBVIOUS
    <3> QED
      BY <2>1, <3>1 DEF StepNames
  <2>3. PhasePlaces(prog)
    BY <2>2 DEF PhasePlaces
  <2> QED
    BY <1>1, <2>1, <2>3 DEF prog
<1>2. CASE driver[l] # "phase1"
  <2>1. /\ Len(prog) = 5
        /\ prog[1] = "preflight" /\ prog[2] = "deliver" /\ prog[3] = "train"
        /\ prog[4] = "export" /\ prog[5] = "fetch"
    BY <1>2, ProgramSteps
  <2> HIDE DEF prog
  <2>2. ASSUME NEW i \in 1..5
        PROVE  /\ prog[i] \in StepNames
               /\ prog[i] # "stamp"
               /\ prog[i] = "preflight" <=> i = 1
               /\ prog[i] = "deliver" <=> i = 2
               /\ prog[i] = "train" <=> i = 3
               /\ prog[i] = "export" <=> i = 4
               /\ prog[i] = "fetch" <=> i = 5
    <3>1. i = 1 \/ i = 2 \/ i = 3 \/ i = 4 \/ i = 5
      OBVIOUS
    <3> QED
      BY <2>1, <3>1 DEF StepNames
  <2>3. TunePlaces(prog)
    BY <2>2 DEF TunePlaces
  <2> QED
    BY <1>2, <2>1, <2>3 DEF prog
<1> QED
  BY <1>1, <1>2

\* What a driver has done, read off how far it is.
LEMMA DoneSteps ==
    ASSUME RunTyped, NEW l \in Leases
    PROVE  /\ Did(l, "train") <=> at[l] > IF driver[l] = "phase1" THEN 8 ELSE 3
           /\ Did(l, "export") <=> at[l] > IF driver[l] = "phase1" THEN 9 ELSE 4
           /\ Did(l, "fetch") <=> at[l] > IF driver[l] = "phase1" THEN 11 ELSE 5
           /\ Finished(l) <=> at[l] > IF driver[l] = "phase1" THEN 11 ELSE 5
<1>1. driver[l] \in Drivers /\ at[l] \in Nat \ {0}
  BY DEF RunTyped
<1> DEFINE prog == Program(l)
           here == at[l]
<1>2. CASE driver[l] = "phase1"
  <2>1. Len(prog) = 11 /\ PhasePlaces(prog)
    BY <1>1, <1>2, Places
  <2>2. here \in 1..12
    BY <1>1, <1>2 DEF RunTyped
  <2> HIDE DEF prog, here
  <2>3. /\ (\E i \in 1..(here - 1) : prog[i] = "train") <=> here > 8
        /\ (\E i \in 1..(here - 1) : prog[i] = "export") <=> here > 9
        /\ (\E i \in 1..(here - 1) : prog[i] = "fetch") <=> here > 11
    BY <2>1, <2>2 DEF PhasePlaces
  <2> QED
    BY <1>2, <2>1, <2>3 DEF Did, Finished, prog, here
<1>3. CASE driver[l] # "phase1"
  <2>1. Len(prog) = 5 /\ TunePlaces(prog)
    BY <1>1, <1>3, Places
  <2>2. here \in 1..6
    BY <1>1, <1>3 DEF RunTyped
  <2> HIDE DEF prog, here
  <2>3. /\ (\E i \in 1..(here - 1) : prog[i] = "train") <=> here > 3
        /\ (\E i \in 1..(here - 1) : prog[i] = "export") <=> here > 4
        /\ (\E i \in 1..(here - 1) : prog[i] = "fetch") <=> here > 5
    BY <2>1, <2>2 DEF TunePlaces
  <2> QED
    BY <1>3, <2>1, <2>3 DEF Did, Finished, prog, here
<1> QED
  BY <1>2, <1>3

\* The step a driver is about to take.
LEMMA NextStep ==
    ASSUME RunTyped, NEW l \in Leases, ~Finished(l)
    PROVE  /\ driver[l] = "phase1" => at[l] \in 1..11 /\ PhasePlaces(Program(l))
           /\ driver[l] # "phase1" => at[l] \in 1..5 /\ TunePlaces(Program(l))
           /\ Program(l)[at[l]] \in StepNames
<1>1. driver[l] \in Drivers /\ at[l] \in Nat \ {0}
  BY DEF RunTyped
<1>2. CASE driver[l] = "phase1"
  <2>1. at[l] \in 1..11
    BY <1>1, <1>2, DoneSteps
  <2>2. PhasePlaces(Program(l))
    BY <1>1, <1>2, Places
  <2> QED
    BY <1>2, <2>1, <2>2 DEF PhasePlaces
<1>3. CASE driver[l] # "phase1"
  <2>1. at[l] \in 1..5
    BY <1>1, <1>3, DoneSteps
  <2>2. TunePlaces(Program(l))
    BY <1>1, <1>3, Places
  <2> QED
    BY <1>3, <2>1, <2>2 DEF TunePlaces
<1> QED
  BY <1>2, <1>3

-----------------------------------------------------------------------------
(* How a lease goes on while its run stands still                          *)

\* Between preflight and the first step on the pod, or the first exception.
Begun == {"approved", "entered", "waiting", "failing"} \union Unrecorded

Quiet(l) ==
    \/ pc'[l] = pc[l]
    \/ pc[l] \in Begun /\ pc'[l] \in Begun \union {"held"}
    \/ pc[l] \in Closing /\ pc'[l] \in Closing \union Ended

LEMMA CreatesQuietly ==
    ASSUME TypeOK, NEW l \in Leases, Creates(l), NEW o \in Leases
    PROVE  Quiet(o) /\ live' \subseteq live \union {l}
<1> USE DEF Quiet, Begun, Unrecorded, TypeOK, Processes, Goes
<1>1. CASE CreatePod(l)
  BY <1>1 DEF CreatePod
<1>2. CASE PodWithoutId(l)
  BY <1>2 DEF PodWithoutId
<1> QED
  BY <1>1, <1>2 DEF Creates

LEMMA WorksQuietly ==
    ASSUME TypeOK, NEW l \in Leases, LeaseWorks(l), NEW o \in Leases
    PROVE  Quiet(o) /\ live' \subseteq live
<1> USE LeaseAssumption DEF Quiet, Begun, Unrecorded, Closing, Ended, TypeOK, Processes, Goes, books, plans
<1>1. CASE Enter(l)
  BY <1>1 DEF Enter
<1>2. CASE CreateFails(l)
  BY <1>2 DEF CreateFails
<1>3. CASE AppendReads(l)
  BY <1>3 DEF AppendReads
<1>4. CASE AppendWrites(l)
  BY <1>4 DEF AppendWrites
<1>5. CASE AppendRaises(l)
  BY <1>5 DEF AppendRaises
<1>6. CASE DeleteUnrecorded(l)
  BY <1>6 DEF DeleteUnrecorded
<1>7. CASE Ready(l)
  BY <1>7 DEF Ready
<1>8. CASE NotReady(l)
  BY <1>8 DEF NotReady
<1>9. CASE Verify(l)
  BY <1>9 DEF Verify
<1>10. CASE TeardownRaises(l)
  BY <1>10 DEF TeardownRaises, Ends
<1> QED
  BY <1>1, <1>2, <1>3, <1>4, <1>5, <1>6, <1>7, <1>8, <1>9, <1>10 DEF LeaseWorks

LEMMA ElsewhereQuietly ==
    ASSUME TypeOK, Elsewhere, NEW o \in Leases
    PROVE  Quiet(o) /\ live' \subseteq live
<1> USE LeaseAssumption DEF Quiet, Closing, Ended, TypeOK, Processes, Goes, books, plans
<1>1. ASSUME NEW r \in Reapers, ReaperNext(r)
      PROVE  Quiet(o) /\ live' \subseteq live
  BY <1>1 DEF ReaperNext, ReaperReads, ReaperLists, ReaperTakesOne, ReaperDies, Ends
<1>2. ASSUME NEW p \in Leases, Vanish(p)
      PROVE  Quiet(o) /\ live' \subseteq live
  BY <1>2 DEF Vanish
<1>3. ASSUME NEW q \in Processes, NEW p \in Leases, Deleted(q, p)
      PROVE  Quiet(o) /\ live' \subseteq live
  BY <1>3 DEF Deleted
<1>4. ASSUME NEW q \in Processes, NEW p \in Leases, DeletedInWord(q, p)
      PROVE  Quiet(o) /\ live' \subseteq live
  BY <1>4 DEF DeletedInWord
<1>5. ASSUME NEW q \in Processes, NEW p \in Leases, DeleteFails(q, p)
      PROVE  Quiet(o) /\ live' \subseteq live
  BY <1>5 DEF DeleteFails
<1>6. ASSUME NEW q \in Processes, NothingToPrune(q)
      PROVE  Quiet(o) /\ live' \subseteq live
  BY <1>6 DEF NothingToPrune, Ends, Outcome
<1>7. ASSUME NEW q \in Processes, PruneReads(q)
      PROVE  Quiet(o) /\ live' \subseteq live
  BY <1>7 DEF PruneReads
<1>8. ASSUME NEW q \in Processes, PruneWrites(q)
      PROVE  Quiet(o) /\ live' \subseteq live
  BY <1>8 DEF PruneWrites, Ends, Outcome
<1> QED
  BY <1>1, <1>2, <1>3, <1>4, <1>5, <1>6, <1>7, <1>8 DEF Elsewhere, DeleteNext

-----------------------------------------------------------------------------
(* The invariant                                                           *)

\* A driver reaches preflight before its lease begins and its pod after it.
Prepared ==
    \A l \in Leases :
        LET start == IF driver[l] = "phase1" THEN 5 ELSE 1
        IN /\ IF pc[l] = "new" THEN at[l] <= start ELSE at[l] > start
           /\ pc[l] \in Begun => at[l] = start + 1

\* From its manifest on, a phase-1 run knows which split it insists on.
Insists ==
    \A l \in Leases :
        driver[l] = "phase1" /\ at[l] > 4 /\ pc[l] \notin Closing \union Ended
            => expect[l] \in Splits

TrainedOnStaged ==
    \A l \in Leases :
        driver[l] = "phase1" /\ at[l] > 8 /\ pc[l] = "held" => disk[l] = expect[l]

ExitHonest ==
    \A l \in Leases :
        code[l] = "ok" => pc[l] = "done" /\ at[l] > (IF driver[l] = "phase1" THEN 11 ELSE 5)
                          /\ l \notin unexported

\* What may end a fine-tune once its model is trained.
LostLate ==
    \A l \in Leases :
        driver[l] = "finetune" /\ at[l] > 3 => why[l] \in {"none", "fetch", "interrupt"}

WeightsKept ==
    \A l \in Leases :
        (driver[l] = "finetune" /\ at[l] > 3 /\ pc[l] # "held") =>
            at[l] > 5 \/ why[l] \in {"fetch", "interrupt"} \/ code[l] = "killed"

\* A live pod was created after the preflight of every other lease that is on
\* its way: that preflight saw no pod at all.
Raced ==
    \A l \in Leases : \A p \in live :
        l # p /\ pc[l] \notin {"new"} \union Ended => l \in raced[p]

RunInv ==
    /\ RunTyped /\ Prepared /\ Insists /\ TrainedOnStaged
    /\ ExitHonest /\ LostLate /\ WeightsKept /\ Raced

\* A step of a driver moves it alone, by one.
LEMMA StepMoves ==
    ASSUME RunTyped, NEW l \in Leases, NEW step, Steps(l, step)
    PROVE  /\ ~Finished(l) /\ code[l] = "none" /\ why[l] = "none"
           /\ at' = [at EXCEPT ![l] = at[l] + 1]
           /\ at' \in [Leases -> Nat \ {0}]
           /\ \A o \in Leases : at'[o] <= IF driver[o] = "phase1" THEN 12 ELSE 6
           /\ driver[l] = "phase1" => at[l] \in 1..11 /\ PhasePlaces(Program(l))
           /\ driver[l] # "phase1" => at[l] \in 1..5 /\ TunePlaces(Program(l))
           /\ Program(l)[at[l]] = step
           /\ UNCHANGED <<driver, why, code, raced>>
<1>1. ~Finished(l)
  BY DEF Steps
<1>2. /\ driver[l] = "phase1" => at[l] \in 1..11 /\ PhasePlaces(Program(l))
      /\ driver[l] # "phase1" => at[l] \in 1..5 /\ TunePlaces(Program(l))
  BY <1>1, NextStep
<1>3. at' = [at EXCEPT ![l] = at[l] + 1] /\ UNCHANGED <<driver, why, code, raced>>
  BY DEF Steps
<1>4. /\ at' \in [Leases -> Nat \ {0}]
      /\ \A o \in Leases : at'[o] <= IF driver[o] = "phase1" THEN 12 ELSE 6
  BY <1>2, <1>3 DEF RunTyped
<1> QED
  BY <1>1, <1>2, <1>3, <1>4 DEF Steps, Lost

LEMMA RunTypedStep == RunTyped /\ [RunNext]_runvars => RunTyped'
<1> SUFFICES ASSUME RunTyped, [RunNext]_runvars PROVE RunTyped'
  OBVIOUS
<1>1. ASSUME NEW l \in Leases, ClearStaging(l)
      PROVE  RunTyped'
  BY <1>1, StepMoves DEF ClearStaging, RunTyped
<1>2. ASSUME NEW l \in Leases, CopyCache(l)
      PROVE  RunTyped'
  BY <1>2, StepMoves DEF CopyCache, RunTyped
<1>3. ASSUME NEW l \in Leases, StampManifest(l)
      PROVE  RunTyped'
  <2>1. {staging.split, cache} \subseteq Splits
    BY <1>3 DEF StampManifest, RunTyped
  <2>2. /\ expect' \in [Leases -> Splits \union {NoSplit}]
        /\ staging' \in [split : Splits \union {NoSplit}, whole : BOOLEAN]
    <3>1. PICK split \in {staging.split, cache} :
              /\ expect' = [expect EXCEPT ![l] = split]
              /\ \E whole \in {cache = staging.split, TRUE} :
                    staging' = [split |-> split, whole |-> whole]
      BY <1>3 DEF StampManifest
    <3>2. PICK whole \in {cache = staging.split, TRUE} :
              staging' = [split |-> split, whole |-> whole]
      BY <3>1
    <3>3. whole \in BOOLEAN
      BY <3>2, Zenon
    <3> QED
      BY <2>1, <3>1, <3>2, <3>3 DEF RunTyped
  <2> QED
    BY <1>3, <2>2, StepMoves DEF StampManifest, RunTyped
<1>4. ASSUME NEW l \in Leases, PassPreflight(l)
      PROVE  RunTyped'
  BY <1>4, StepMoves DEF PassPreflight, shipping, RunTyped
<1>5. ASSUME NEW l \in Leases, Refuse(l)
      PROVE  RunTyped'
  BY <1>5 DEF Refuse, shipping, RunTyped
<1>6. ASSUME NEW l \in Leases, Deliver(l)
      PROVE  RunTyped'
  BY <1>6, StepMoves DEF Deliver, OnPod, RunTyped
<1>7. ASSUME NEW l \in Leases,
             Smoke(l) \/ Train(l) \/ Export(l) \/ Register(l) \/ Fetch(l)
      PROVE  RunTyped'
  <2>1. PICK step : OnPod(l, step) /\ UNCHANGED <<shipping, unexported>>
    BY <1>7 DEF Smoke, Train, Export, Register, Fetch
  <2> QED
    BY <2>1, StepMoves DEF OnPod, shipping, RunTyped
<1>8. ASSUME NEW l \in Leases, ExportFails(l)
      PROVE  RunTyped'
  BY <1>8, StepMoves DEF ExportFails, shipping, RunTyped
<1>9. ASSUME NEW l \in Leases, BodyRaises(l)
      PROVE  RunTyped'
  <2>1. Program(l)[at[l]] \in StepNames
    BY <1>9, NextStep DEF BodyRaises
  <2> QED
    BY <1>9, <2>1 DEF BodyRaises, shipping, Causes, RunTyped
<1>10. ASSUME NEW l \in Leases, LeaseCloses(l)
      PROVE  RunTyped'
  BY <1>10 DEF LeaseCloses, running, RunTyped
<1>11. ASSUME NEW l \in Leases, Exit(l)
      PROVE  RunTyped'
  BY <1>11 DEF Exit, shipping, RunTyped
<1>12. ASSUME NEW l \in Leases, Creates(l)
      PROVE  RunTyped'
  BY <1>12 DEF Creates, shipping, running, RunTyped
<1>13. ASSUME NEW l \in Leases, LeaseWorks(l)
      PROVE  RunTyped'
  BY <1>13 DEF LeaseWorks, Outlived, shipping, running, RunTyped
<1>14. ASSUME NEW l \in Leases, Killed(l)
      PROVE  RunTyped'
  BY <1>14 DEF Killed, shipping, RunTyped
<1>15. CASE Elsewhere
  BY <1>15 DEF Elsewhere, Outlived, shipping, running, RunTyped
<1>16. CASE RebuildCache
  BY <1>16 DEF RebuildCache, running, RunTyped
<1>17. CASE UNCHANGED runvars
  BY <1>17 DEF runvars, shipping, running, RunTyped
<1>18. ASSUME NEW l \in Leases, FindNothingRunning(l)
      PROVE  RunTyped'
  BY <1>18, StepMoves DEF FindNothingRunning, shipping, RunTyped
<1> QED
  BY <1>1, <1>2, <1>3, <1>4, <1>5, <1>6, <1>7, <1>8, <1>9, <1>10, <1>11, <1>12,
     <1>13, <1>14, <1>15, <1>16, <1>17, <1>18 DEF RunNext

\* A step of the driver that leaves its lease alone.
LEMMA RunInvDriver ==
    ASSUME TypeOK, RunInv, RunTyped', NEW l \in Leases, NEW step, Steps(l, step),
           UNCHANGED vars, pc[l] = "held" \/ step \in {"look", "clear", "copy", "stamp"},
           pc[l] = "new" \/ pc[l] = "held",
           \A o \in Leases \ {l} : expect'[o] = expect[o] /\ disk'[o] = disk[o],
           step # "stamp" => expect' = expect,
           step = "stamp" => expect'[l] \in Splits,
           step # "deliver" => disk' = disk,
           step = "train" => Loads(l),
           unexported' = unexported \/ (step = "export" /\ unexported' = unexported \union {l})
    PROVE  RunInv'
<1> USE DEF RunInv
<1>1. /\ ~Finished(l) /\ code[l] = "none" /\ why[l] = "none"
      /\ at' = [at EXCEPT ![l] = at[l] + 1]
      /\ driver[l] = "phase1" => at[l] \in 1..11 /\ PhasePlaces(Program(l))
      /\ driver[l] # "phase1" => at[l] \in 1..5 /\ TunePlaces(Program(l))
      /\ Program(l)[at[l]] = step
      /\ UNCHANGED <<driver, why, code, raced, live, pc>>
  BY StepMoves DEF vars
<1>2. /\ step = "stamp" <=> driver[l] = "phase1" /\ at[l] = 4
      /\ step = "deliver" <=> at[l] = IF driver[l] = "phase1" THEN 6 ELSE 2
      /\ step = "train" <=> at[l] = IF driver[l] = "phase1" THEN 8 ELSE 3
      /\ step = "export" <=> at[l] = IF driver[l] = "phase1" THEN 9 ELSE 4
      /\ step = "preflight" <=> at[l] = IF driver[l] = "phase1" THEN 5 ELSE 1
  BY <1>1 DEF PhasePlaces, TunePlaces
<1>3. at[l] \in Nat /\ at'[l] = at[l] + 1 /\ \A o \in Leases \ {l} : at'[o] = at[o]
  BY <1>1 DEF RunTyped
<1>4. Prepared'
  <2>1. pc[l] = "new" => at[l] < IF driver[l] = "phase1" THEN 5 ELSE 1
    BY <1>1, <1>2, <1>3 DEF Prepared, RunTyped
  <2> QED
    BY <1>1, <1>3, <2>1 DEF Prepared, RunTyped, Begun, Unrecorded
<1>5. Insists'
  BY <1>1, <1>2, <1>3 DEF Insists, RunTyped
<1>6. TrainedOnStaged'
  BY <1>1, <1>2, <1>3, RunAssumption DEF TrainedOnStaged, Insists, Loads, Closing, Ended, RunTyped
<1>7. ExitHonest'
  BY <1>1, <1>3 DEF ExitHonest, RunTyped
<1>8. LostLate'
  BY <1>1, <1>3 DEF LostLate, RunTyped
<1>9. WeightsKept'
  BY <1>1, <1>2, <1>3 DEF WeightsKept, Prepared, RunTyped
<1>10. Raced'
  BY <1>1 DEF Raced
<1> QED
  BY <1>4, <1>5, <1>6, <1>7, <1>8, <1>9, <1>10

\* A step of the lease that leaves its driver alone.
LEMMA RunInvQuiet ==
    ASSUME TypeOK, RunInv, RunTyped', UNCHANGED <<shipping, running>>,
           \A l \in Leases : Quiet(l),
           Raced'
    PROVE  RunInv'
<1> USE DEF RunInv, shipping, running, Quiet, Begun, Unrecorded, Closing, Ended
<1>1. Prepared' /\ Insists'
  BY DEF Prepared, Insists
<1>2. TrainedOnStaged'
  BY DEF TrainedOnStaged, Prepared, RunTyped
<1>3. ExitHonest' /\ LostLate'
  BY DEF ExitHonest, LostLate
<1>4. WeightsKept'
  BY DEF WeightsKept, Prepared, RunTyped
<1> QED
  BY <1>1, <1>2, <1>3, <1>4

\* A pod that stays live keeps what raced it.
LEMMA RacedOutlives ==
    ASSUME TypeOK, Raced, Outlived, live' \subseteq live, \A o \in Leases : Quiet(o)
    PROVE  Raced'
<1> SUFFICES ASSUME NEW l \in Leases, NEW p \in live', l # p, pc'[l] \notin {"new"} \union Ended
             PROVE  l \in raced'[p]
  BY DEF Raced
<1>1. pc[l] \notin {"new"} \union Ended
  BY DEF Quiet, Begun, Unrecorded, Closing, Ended
<1>2. p \in Leases /\ p \in live /\ l \in raced[p]
  BY <1>1 DEF Raced, TypeOK
<1> QED
  BY <1>2 DEF Outlived

LEMMA RunInvStep == TypeOK /\ RunInv /\ [RunNext]_runvars => RunInv'
<1> SUFFICES ASSUME TypeOK, RunInv, [RunNext]_runvars PROVE RunInv'
  OBVIOUS
<1>0. /\ RunTyped /\ RunTyped'
      /\ Prepared /\ Insists /\ TrainedOnStaged /\ ExitHonest /\ LostLate /\ WeightsKept /\ Raced
  BY RunTypedStep DEF RunInv
\* Before preflight
<1>1. ASSUME NEW l \in Leases, NEW step \in {"look", "clear", "copy", "stamp"}, Steps(l, step)
      PROVE  pc[l] = "new"
  <2>1. /\ driver[l] = "phase1" => at[l] \in 1..11 /\ PhasePlaces(Program(l))
        /\ driver[l] # "phase1" => at[l] \in 1..5 /\ TunePlaces(Program(l))
        /\ Program(l)[at[l]] = step
    BY <1>0, <1>1, StepMoves
  <2>2. ~(at[l] > IF driver[l] = "phase1" THEN 5 ELSE 1)
    BY <2>1, ProgramSteps, <1>0 DEF PhasePlaces, TunePlaces, RunTyped
  <2> QED
    BY <1>0, <2>2 DEF Prepared
<1>2. ASSUME NEW l \in Leases, ClearStaging(l)
      PROVE  RunInv'
  BY <1>0, <1>1, <1>2, RunInvDriver DEF ClearStaging
<1>3. ASSUME NEW l \in Leases, CopyCache(l)
      PROVE  RunInv'
  BY <1>0, <1>1, <1>3, RunInvDriver DEF CopyCache
<1>4. ASSUME NEW l \in Leases, StampManifest(l)
      PROVE  RunInv'
  <2>1. Steps(l, "stamp") /\ UNCHANGED <<vars, disk, unexported>> /\ pc[l] = "new"
    BY <1>1, <1>4 DEF StampManifest
  <2>2. /\ \A o \in Leases \ {l} : expect'[o] = expect[o]
        /\ expect'[l] \in Splits
    BY <1>0, <1>4 DEF StampManifest, RunTyped
  <2> QED
    BY <1>0, <2>1, <2>2, RunInvDriver
<1>5. ASSUME NEW l \in Leases, PassPreflight(l)
      PROVE  RunInv'
  <2>1. /\ at' = [at EXCEPT ![l] = at[l] + 1]
        /\ driver[l] = "phase1" => at[l] \in 1..11 /\ PhasePlaces(Program(l))
        /\ driver[l] # "phase1" => at[l] \in 1..5 /\ TunePlaces(Program(l))
        /\ Program(l)[at[l]] = "preflight"
        /\ UNCHANGED <<driver, why, code, raced>>
    BY <1>0, <1>5, StepMoves DEF PassPreflight
  <2>2. /\ at[l] = IF driver[l] = "phase1" THEN 5 ELSE 1
        /\ at'[l] = at[l] + 1
        /\ \A o \in Leases \ {l} : at'[o] = at[o]
    BY <1>0, <2>1 DEF PhasePlaces, TunePlaces, RunTyped
  <2>3. /\ pc[l] = "new" /\ pc'[l] = "approved" /\ live = {} /\ live' = {}
        /\ \A o \in Leases \ {l} : pc'[o] = pc[o]
        /\ UNCHANGED <<expect, disk, unexported>>
    BY <1>5 DEF PassPreflight, MayLaunch, Goes, shipping, TypeOK, Processes
  <2>4. Prepared'
    BY <1>0, <2>1, <2>2, <2>3 DEF Prepared, Begun, Unrecorded, RunTyped
  <2>5. Insists'
    BY <1>0, <2>1, <2>2, <2>3 DEF Insists, Closing, Ended, RunTyped
  <2>6. TrainedOnStaged' /\ WeightsKept' /\ LostLate'
    BY <1>0, <2>1, <2>2, <2>3 DEF TrainedOnStaged, WeightsKept, LostLate, RunTyped
  <2>7. ExitHonest'
    BY <1>0, <2>1, <2>2, <2>3 DEF ExitHonest, RunTyped
  <2>8. Raced'
    BY <2>3 DEF Raced
  <2> QED
    BY <1>0, <2>4, <2>5, <2>6, <2>7, <2>8 DEF RunInv
<1>6. ASSUME NEW l \in Leases, Refuse(l)
      PROVE  RunInv'
  BY <1>0, <1>6 DEF Refuse, vars, shipping, RunInv, RunTyped, Prepared, Insists,
                    TrainedOnStaged, ExitHonest, LostLate, WeightsKept, Raced
\* On the pod
<1>7. ASSUME NEW l \in Leases, Deliver(l)
      PROVE  RunInv'
  <2>1. /\ Steps(l, "deliver") /\ pc[l] = "held"
        /\ UNCHANGED <<vars, expect, unexported>>
    BY <1>7 DEF Deliver, OnPod
  <2>2. \A o \in Leases \ {l} : disk'[o] = disk[o]
    BY <1>0, <1>7 DEF Deliver, RunTyped
  <2> QED
    BY <1>0, <2>1, <2>2, RunInvDriver
<1>8. ASSUME NEW l \in Leases,
             Smoke(l) \/ Train(l) \/ Export(l) \/ Register(l) \/ Fetch(l)
      PROVE  RunInv'
  <2>1. PICK step \in {"smoke", "train", "export", "register", "fetch"} :
           /\ OnPod(l, step) /\ UNCHANGED <<shipping, unexported>>
           /\ step = "train" => Loads(l)
    BY <1>8 DEF Smoke, Train, Export, Register, Fetch
  <2> QED
    BY <1>0, <2>1, RunInvDriver DEF OnPod, shipping
<1>9. ASSUME NEW l \in Leases, ExportFails(l)
      PROVE  RunInv'
  BY <1>0, <1>9, RunInvDriver DEF ExportFails, shipping
<1>10. ASSUME NEW l \in Leases, BodyRaises(l)
      PROVE  RunInv'
  <2>1. /\ driver[l] = "phase1" => at[l] \in 1..11 /\ PhasePlaces(Program(l))
        /\ driver[l] # "phase1" => at[l] \in 1..5 /\ TunePlaces(Program(l))
    BY <1>0, <1>10, NextStep DEF BodyRaises
  <2>2. /\ UNCHANGED <<vars, shipping, driver, at, unexported, code, raced>>
        /\ pc[l] = "held"
        /\ \A o \in Leases \ {l} : why'[o] = why[o]
        /\ driver[l] = "finetune" => why'[l] # "export"
        /\ why'[l] \in {Program(l)[at[l]], "interrupt"}
    BY <1>0, <1>10 DEF BodyRaises, RunTyped
  <2>3. driver[l] = "finetune" /\ at[l] > 3 => why'[l] \in {"fetch", "interrupt"}
    BY <2>1, <2>2 DEF TunePlaces
  <2>4. LostLate' /\ WeightsKept'
    BY <1>0, <2>2, <2>3 DEF LostLate, WeightsKept, vars
  <2>5. Prepared' /\ Insists' /\ TrainedOnStaged' /\ ExitHonest' /\ Raced'
    BY <1>0, <2>2 DEF Prepared, Insists, TrainedOnStaged, ExitHonest, Raced, vars, shipping
  <2> QED
    BY <1>0, <2>4, <2>5 DEF RunInv
<1>11. ASSUME NEW l \in Leases, LeaseCloses(l)
      PROVE  RunInv'
  <2>1. /\ pc[l] \in {"held", "failing"} /\ pc'[l] = "deleting" /\ live' = live
        /\ pc[l] = "held" => Finished(l) \/ why[l] # "none"
        /\ \A o \in Leases \ {l} : pc'[o] = pc[o] /\ expect'[o] = expect[o] /\ disk'[o] = disk[o]
        /\ UNCHANGED <<driver, at, unexported, why, code, raced>>
    BY <1>0, <1>11 DEF LeaseCloses, Lost, TeardownBegins, Goes, running, TypeOK, RunTyped, Processes
  <2>2. Finished(l) <=> at[l] > IF driver[l] = "phase1" THEN 11 ELSE 5
    BY <1>0, DoneSteps
  <2>3. Prepared'
    BY <1>0, <2>1 DEF Prepared, Begun, Unrecorded
  <2>4. Insists' /\ TrainedOnStaged'
    BY <1>0, <2>1 DEF Insists, TrainedOnStaged, Closing, Ended
  <2>5. ExitHonest' /\ LostLate'
    BY <1>0, <2>1 DEF ExitHonest, LostLate
  <2>6. WeightsKept'
    BY <1>0, <2>1, <2>2 DEF WeightsKept, LostLate, Prepared, Begun, RunTyped
  <2>7. Raced'
    BY <1>0, <2>1 DEF Raced, Ended
  <2> QED
    BY <1>0, <2>3, <2>4, <2>5, <2>6, <2>7 DEF RunInv
<1>12. ASSUME NEW l \in Leases, Exit(l)
      PROVE  RunInv'
  <2>1. /\ UNCHANGED <<vars, shipping, driver, at, unexported, why, raced>>
        /\ code[l] = "none" /\ pc[l] \in Ended
        /\ \A o \in Leases \ {l} : code'[o] = code[o]
        /\ code'[l] \in {"ok", "failed"}
        /\ code'[l] = "ok" => pc[l] = "done" /\ Finished(l) /\ l \notin unexported
    BY <1>0, <1>12 DEF Exit, RunTyped
  <2>2. Finished(l) <=> at[l] > IF driver[l] = "phase1" THEN 11 ELSE 5
    BY <1>0, DoneSteps
  <2>3. Prepared' /\ Insists' /\ TrainedOnStaged' /\ LostLate' /\ Raced'
    BY <1>0, <2>1 DEF Prepared, Insists, TrainedOnStaged, LostLate, Raced, vars, shipping
  <2>4. ExitHonest'
    BY <1>0, <2>1, <2>2 DEF ExitHonest, vars
  <2>5. WeightsKept'
    BY <1>0, <2>1 DEF WeightsKept, vars
  <2> QED
    BY <1>0, <2>3, <2>4, <2>5 DEF RunInv
\* The lease
<1>13. ASSUME NEW l \in Leases, Creates(l)
      PROVE  RunInv'
  <2>1. /\ \A o \in Leases : Quiet(o)
        /\ live' \subseteq live \union {l}
    BY <1>13, CreatesQuietly
  \* Every other lease past its preflight is on the list of the new pod.
  <2>2. ASSUME NEW o \in Leases, NEW p \in live', o # p, pc'[o] \notin {"new"} \union Ended
        PROVE  o \in raced'[p]
    <3>1. pc[o] \notin {"new"} \union Ended
      BY <2>1, <2>2 DEF Quiet, Begun, Unrecorded, Closing, Ended
    <3>2. CASE p \in live
      BY <1>0, <1>13, <2>2, <3>1, <3>2 DEF Creates, Raced, RunTyped
    <3>3. CASE p \notin live
      BY <1>0, <1>13, <2>1, <2>2, <3>1, <3>3 DEF Creates, RunTyped
    <3> QED
      BY <3>2, <3>3
  <2>3. Raced'
    BY <2>2 DEF Raced
  <2> QED
    BY <1>0, <1>13, <2>1, <2>3, RunInvQuiet DEF Creates
<1>14. ASSUME NEW l \in Leases, LeaseWorks(l)
      PROVE  RunInv'
  <2>1. (\A o \in Leases : Quiet(o)) /\ live' \subseteq live
    BY <1>14, WorksQuietly
  <2>2. Raced'
    BY <1>0, <1>14, <2>1, RacedOutlives DEF LeaseWorks
  <2> QED
    BY <1>0, <1>14, <2>1, <2>2, RunInvQuiet DEF LeaseWorks
<1>15. CASE Elsewhere
  <2>1. \A o \in Leases : Quiet(o) /\ live' \subseteq live
    BY <1>15, ElsewhereQuietly
  <2>2. Raced'
    <3>1. CASE Leases = {}
      BY <3>1 DEF Raced
    <3>2. CASE Leases # {}
      BY <1>0, <1>15, <2>1, <3>2, RacedOutlives DEF Elsewhere
    <3> QED
      BY <3>1, <3>2
  <2> QED
    BY <1>0, <1>15, <2>1, <2>2, RunInvQuiet DEF Elsewhere
<1>16. ASSUME NEW l \in Leases, Killed(l)
      PROVE  RunInv'
  <2>1. /\ pc[l] # "new" /\ pc'[l] = "failed" /\ live' = live
        /\ pc[l] # "done"
        /\ \A o \in Leases \ {l} : pc'[o] = pc[o] /\ code'[o] = code[o]
                                      /\ expect'[o] = expect[o] /\ disk'[o] = disk[o]
        /\ code'[l] = "killed"
        /\ UNCHANGED <<driver, at, unexported, why, raced>>
    BY <1>0, <1>16, LeaseAssumption
    DEF Killed, Kill, LeaseStates, Unrecorded, Closing, Ends, Goes, shipping, TypeOK, RunTyped, Processes
  <2>2. Prepared'
    BY <1>0, <2>1 DEF Prepared, Begun, Unrecorded
  <2>3. Insists' /\ TrainedOnStaged'
    BY <1>0, <2>1 DEF Insists, TrainedOnStaged, Closing, Ended
  <2>4. ExitHonest' /\ LostLate' /\ WeightsKept'
    BY <1>0, <2>1 DEF ExitHonest, LostLate, WeightsKept
  <2>5. Raced'
    BY <1>0, <2>1 DEF Raced, Ended
  <2> QED
    BY <1>0, <2>2, <2>3, <2>4, <2>5 DEF RunInv
<1>17. CASE RebuildCache \/ UNCHANGED runvars
  BY <1>0, <1>17 DEF RebuildCache, runvars, vars, shipping, running, RunInv, Prepared, Insists,
                     TrainedOnStaged, ExitHonest, LostLate, WeightsKept, Raced
<1>18. ASSUME NEW l \in Leases, FindNothingRunning(l)
      PROVE  RunInv'
  BY <1>0, <1>1, <1>18, RunInvDriver DEF FindNothingRunning, shipping
<1> QED
  BY <1>2, <1>3, <1>4, <1>5, <1>6, <1>7, <1>8, <1>9, <1>10, <1>11, <1>12, <1>13,
     <1>14, <1>15, <1>16, <1>17, <1>18 DEF RunNext

LEMMA RunInvariant == RunSpec => []RunInv
<1>1. RunInit => RunInv
  <2> SUFFICES ASSUME RunInit PROVE RunInv
    OBVIOUS
  <2>1. RunTyped
    BY RunAssumption DEF RunInit, RunTyped, Causes
  <2>2. /\ Prepared /\ Insists /\ TrainedOnStaged /\ ExitHonest
        /\ LostLate /\ WeightsKept /\ Raced
    BY <2>1 DEF RunInit, Init, RunTyped, Processes, Begun, Unrecorded, Prepared, Insists,
                TrainedOnStaged, ExitHonest, LostLate, WeightsKept, Raced
  <2> QED
    BY <2>1, <2>2 DEF RunInv
<1> QED
  BY <1>1, RunImplementsLease, TypeCorrect, RunInvStep, PTL DEF RunSpec

\* Weights come from the split a phase-1 run staged.
THEOREM TrainedAsStagedCorrect == RunSpec => []TrainedAsStaged
<1>1. RunInv => TrainedAsStaged
  BY DoneSteps DEF RunInv, TrainedOnStaged, TrainedAsStaged
<1> QED
  BY <1>1, RunInvariant, PTL

\* An exit code of 0 and a fine-tune's weights.
THEOREM RunKeptCorrect == RunSpec => []RunKept
<1>1. RunInv /\ DoneMeansGone => RunKept
  <2> SUFFICES ASSUME RunInv, DoneMeansGone, NEW l \in Leases
               PROVE  /\ code[l] = "ok" => /\ Did(l, "export") /\ Did(l, "fetch")
                                           /\ l \notin unexported \union live
                      /\ (driver[l] = "finetune" /\ Did(l, "train") /\ pc[l] # "held") =>
                            \/ Did(l, "fetch")
                            \/ why[l] \in {"fetch", "interrupt"}
                            \/ code[l] = "killed"
    BY DEF RunKept
  <2>1. /\ Did(l, "train") <=> at[l] > IF driver[l] = "phase1" THEN 8 ELSE 3
        /\ Did(l, "export") <=> at[l] > IF driver[l] = "phase1" THEN 9 ELSE 4
        /\ Did(l, "fetch") <=> at[l] > IF driver[l] = "phase1" THEN 11 ELSE 5
    BY DoneSteps DEF RunInv
  <2>2. at[l] \in Nat
    BY DEF RunInv, RunTyped
  <2> QED
    BY <2>1, <2>2 DEF RunInv, ExitHonest, WeightsKept, DoneMeansGone
<1> QED
  BY <1>1, RunInvariant, RunImplementsLease, DoneMeansGoneCorrect, PTL

\* A teardown deletes another run's pod only if that pod was created while
\* this lease was past its preflight already.
THEOREM OnlyRacersCorrect == RunSpec => OnlyRacers
<1>1. ASSUME IInv, RunInv, NEW l \in Leases, NEW p \in Leases, l # p, Deletes(l, p)
      PROVE  l \in raced[p]
  <2>1. p \in live /\ p \in todo[l]
    BY <1>1 DEF Deletes
  <2>2. pc[l] \in Closing
    BY <1>1, <2>1 DEF IInv, NothingPlanned
  <2> QED
    BY <1>1, <2>1, <2>2 DEF RunInv, Raced, Closing, Ended
<1>2. IInv /\ RunInv =>
        [\A l, p \in Leases : l # p /\ Deletes(l, p) => l \in raced[p]]_runvars
  BY <1>1
<1> QED
  BY <1>2, RunInvariant, RunImplementsLease, Invariant, PTL DEF OnlyRacers
=============================================================================
