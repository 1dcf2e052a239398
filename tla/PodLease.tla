------------------------------ MODULE PodLease ------------------------------
(***************************************************************************)
(* Rented GPU pods and the file that keeps them from being forgotten       *)
(* (infra/runpod/deploy_runpod.py, terminate_runpod.py, runpod_client.py). *)
(*                                                                         *)
(* A launcher checks that nothing is live, creates one pod, records it in  *)
(* the registry, waits until it is ready, uses it, and tears down: it      *)
(* deletes the pods that were registered since it began, asks the API      *)
(* whether they are gone, and removes them from the registry.  The reaper  *)
(* is a command a person runs: it deletes what is both registered and      *)
(* live, and removes it.  A pod that is live and not registered is an      *)
(* orphan: the reaper reports it and never deletes it.                     *)
(*                                                                         *)
(* The registry is replaced atomically, but every change of it reads the   *)
(* file, computes and replaces it, and nothing locks it in between.        *)
(* A launcher and the pod it creates have the same name here.              *)
(***************************************************************************)
EXTENDS Naturals

CONSTANTS
    Leases,    \* the runs of the launcher, and their pods
    Reapers,   \* terminals in which terminate_runpod is run
    Named,     \* the leases whose pod name has a prefix the reaper allows
    Faults     \* the faults of the environment this instance admits

FaultKinds ==
    { "api",       \* a call of the RunPod API raises, and did nothing
      "unheard",   \* a call of the RunPod API raises, and did its work
      "survivor",  \* DELETE answers 2xx and the pod stays
      "file",      \* reading or replacing the registry raises
      "interrupt", \* Ctrl-C
      "kill",      \* SIGKILL, a power loss
      "vanish" }   \* RunPod takes the pod back

ASSUME LeaseAssumption ==
    /\ Named \subseteq Leases
    /\ Leases \cap Reapers = {}
    /\ Faults \subseteq FaultKinds

Processes == Leases \union Reapers

VARIABLES
    live,      \* the pods the API lists
    registry,  \* the pods in runpod_pods.json
    pc,        \* where each process is
    before,    \* PodLease._before: what was registered when the lease began
    read,      \* the registry as the process last read it
    todo,      \* pods it has yet to delete
    done,      \* pods it will remove from the registry
    erring,    \* leases with an exception on its way out
    exposed    \* history: pods that lost, or never got, their record while live

vars == <<live, registry, pc, before, read, todo, done, erring, exposed>>
books == <<registry, exposed>>
plans == <<before, read, todo, done>>

Unrecorded == {"created", "appending", "unrecorded"}
Closing == {"deleting", "pruning", "removing"}
LeaseStates == {"new", "approved", "entered", "waiting", "held", "failing"}
               \union Unrecorded \union Closing
Ended == {"done",    \* returned from its with block, without an exception
          "failed"}  \* refused, raised or killed
ReaperStates == {"idle", "listing", "deleting", "removing"}

TypeOK ==
    /\ live \subseteq Leases
    /\ registry \subseteq Leases
    /\ pc \in [Processes -> LeaseStates \union Ended \union ReaperStates]
    /\ \A l \in Leases : pc[l] \in LeaseStates \union Ended
    /\ \A r \in Reapers : pc[r] \in ReaperStates
    /\ before \in [Leases -> SUBSET Leases]
    /\ read \in [Processes -> SUBSET Leases]
    /\ todo \in [Processes -> SUBSET Leases]
    /\ done \in [Processes -> SUBSET Leases]
    /\ erring \subseteq Leases
    /\ exposed \subseteq Leases

Init ==
    /\ live = {}
    /\ registry = {}
    /\ pc = [q \in Processes |-> IF q \in Leases THEN "new" ELSE "idle"]
    /\ before = [l \in Leases |-> {}]
    /\ read = [q \in Processes |-> {}]
    /\ todo = [q \in Processes |-> {}]
    /\ done = [q \in Processes |-> {}]
    /\ erring = {}
    /\ exposed = {}

Goes(q, state) == pc' = [pc EXCEPT ![q] = state]

-----------------------------------------------------------------------------
(* The registry                                                            *)

\* atomic_write_registry.  What others wrote since q read the file is lost.
Replace(q, entries) ==
    /\ registry' = entries
    /\ read' = [read EXCEPT ![q] = {}]
    /\ exposed' = exposed \union ((live \cap registry) \ (entries \union done[q]))

\* The read that begins append_registry and remove_from_registry.
ReadRegistry(q) == read' = [read EXCEPT ![q] = registry]

-----------------------------------------------------------------------------
(* Launch                                                                  *)

\* preflight, a dry-run reconcile: whatever is live is either registered or
\* an orphan, and both refuse.
Preflight(l) ==
    /\ pc[l] = "new"
    /\ Goes(l, IF live = {} THEN "approved" ELSE "failed")
    /\ UNCHANGED <<live, books, plans, erring>>

\* PodLease.__enter__ before the launch.  A file that cannot be read is empty.
Enter(l) ==
    /\ pc[l] = "approved"
    /\ \E seen \in {registry} \union (IF "file" \in Faults THEN {{}} ELSE {}) :
          before' = [before EXCEPT ![l] = seen]
    /\ Goes(l, "entered")
    /\ UNCHANGED <<live, books, read, todo, done, erring>>

\* Mutant: the launcher does not look at the name.
CanLaunchAny(l) == TRUE

\* launch_pod: the name must have a prefix that the reaper's guard allows.
CanLaunch(l) == l \in Named

CreatePod(l) ==
    /\ pc[l] = "entered"
    /\ CanLaunch(l)
    /\ live' = live \union {l}
    /\ Goes(l, "created")
    /\ UNCHANGED <<books, plans, erring>>

\* No pod is created: a bad name, or the API refuses.
CreateFails(l) ==
    /\ pc[l] = "entered"
    /\ ~CanLaunch(l) \/ "api" \in Faults
    /\ Goes(l, "failing")
    /\ UNCHANGED <<live, books, plans, erring>>

\* The pod exists and its id is lost: the answer to POST never came or has
\* no id, or Ctrl-C hits between the answer and the record.
PodWithoutId(l) ==
    /\ \/ /\ pc[l] = "entered" /\ CanLaunch(l) /\ "unheard" \in Faults
          /\ live' = live \union {l}
       \/ /\ pc[l] = "created" /\ "interrupt" \in Faults
          /\ UNCHANGED live
    /\ exposed' = exposed \union {l}
    /\ Goes(l, "failing")
    /\ UNCHANGED <<registry, plans, erring>>

AppendReads(l) ==
    /\ pc[l] = "created"
    /\ ReadRegistry(l)
    /\ Goes(l, "appending")
    /\ UNCHANGED <<live, books, before, todo, done, erring>>

AppendWrites(l) ==
    /\ pc[l] = "appending"
    /\ Replace(l, read[l] \union {l})
    /\ Goes(l, "waiting")
    /\ UNCHANGED <<live, before, todo, done, erring>>

AppendRaises(l) ==
    /\ pc[l] \in {"created", "appending"}
    /\ Faults \cap {"file", "interrupt"} # {}
    /\ Goes(l, "unrecorded")
    /\ UNCHANGED <<live, books, plans, erring>>

\* The pod that could not be recorded is deleted while its id is at hand.
DeleteUnrecorded(l) ==
    /\ pc[l] = "unrecorded"
    /\ \/ /\ live' = live \ {l}
          /\ UNCHANGED exposed
       \/ /\ Faults \cap {"api", "survivor", "interrupt"} # {}
          /\ exposed' = exposed \union (live \cap {l})
          /\ UNCHANGED live
    /\ Goes(l, "failing")
    /\ UNCHANGED <<registry, plans, erring>>

\* wait_until_ready.
Ready(l) ==
    /\ pc[l] = "waiting"
    /\ l \in live
    /\ Goes(l, "held")
    /\ UNCHANGED <<live, books, plans, erring>>

NotReady(l) ==
    /\ pc[l] = "waiting"
    /\ Goes(l, "failing")
    /\ UNCHANGED <<live, books, plans, erring>>

-----------------------------------------------------------------------------
(* Teardown, and the reaper                                                *)

\* A process ends, and what it knew with it; the reaper's terminal takes
\* another command.
Ends(q, state) ==
    /\ Goes(q, IF q \in Reapers THEN "idle" ELSE state)
    /\ before' = [l \in Leases |-> IF l = q THEN {} ELSE before[l]]
    /\ read' = [read EXCEPT ![q] = {}]
    /\ todo' = [todo EXCEPT ![q] = {}]
    /\ done' = [done EXCEPT ![q] = {}]
    /\ erring' = erring \ {q}

Outcome(q) == IF q \in erring THEN "failed" ELSE "done"

\* PodLease.teardown up to its loop: what was registered since the lease began,
\* and the pod the launch returned.  A file that cannot be read is empty.
TeardownBegins(l) ==
    /\ pc[l] \in {"held", "failing"}
    /\ \E seen \in {registry} \union (IF "file" \in Faults THEN {{}} ELSE {}) :
          todo' = [todo EXCEPT ![l] =
                      (seen \ before[l]) \union (IF pc[l] = "held" THEN {l} ELSE {})]
    /\ before' = [before EXCEPT ![l] = {}]
    /\ erring' = IF pc[l] = "failing" THEN erring \union {l} ELSE erring
    /\ Goes(l, "deleting")
    /\ UNCHANGED <<live, books, read, done>>

\* terminate_pod: deleted, or already gone.
Deleted(q, p) ==
    /\ pc[q] = "deleting"
    /\ p \in todo[q]
    /\ live' = live \ {p}
    /\ todo' = [todo EXCEPT ![q] = @ \ {p}]
    /\ done' = [done EXCEPT ![q] = @ \union {p}]
    /\ UNCHANGED <<books, pc, before, read, erring>>

\* DELETE claims success and the pod stays.  The reaper asks nobody whether it
\* is gone and will remove it from the registry.
DeletedInWord(q, p) ==
    /\ pc[q] = "deleting"
    /\ p \in todo[q] \cap live
    /\ "survivor" \in Faults
    /\ todo' = [todo EXCEPT ![q] = @ \ {p}]
    /\ done' = [done EXCEPT ![q] = @ \union {p}]
    /\ exposed' = IF q \in Reapers THEN exposed \union {p} ELSE exposed
    /\ UNCHANGED <<live, registry, pc, before, read, erring>>

\* Mutant: a pod whose DELETE failed is removed from the registry as well.
DeleteFailsAndPrunes(q, p) ==
    /\ pc[q] = "deleting"
    /\ p \in todo[q]
    /\ Faults \cap {"api", "unheard"} # {}
    /\ UNCHANGED live
    /\ todo' = [todo EXCEPT ![q] = @ \ {p}]
    /\ done' = [done EXCEPT ![q] = @ \union {p}]
    /\ erring' = erring \union ({q} \cap Leases)
    /\ UNCHANGED <<books, pc, before, read>>

\* DELETE raises: the pod stays in the registry and the loop goes on.
DeleteFails(q, p) ==
    /\ pc[q] = "deleting"
    /\ p \in todo[q]
    /\ \/ "api" \in Faults /\ UNCHANGED live
       \/ "unheard" \in Faults /\ live' = live \ {p}
    /\ todo' = [todo EXCEPT ![q] = @ \ {p}]
    /\ erring' = erring \union ({q} \cap Leases)
    /\ UNCHANGED <<books, pc, before, read, done>>

\* Mutant: nobody asks the API whether the pods are gone.
VerifyInWord(l) ==
    /\ pc[l] = "deleting"
    /\ todo[l] = {}
    /\ done[l] # {}
    /\ Goes(l, "pruning")
    /\ UNCHANGED <<live, books, plans, erring>>

\* assert_no_survivors.
Verify(l) ==
    /\ pc[l] = "deleting"
    /\ todo[l] = {}
    /\ done[l] # {}
    /\ done[l] \cap live = {}
    /\ Goes(l, "pruning")
    /\ UNCHANGED <<live, books, plans, erring>>

\* A survivor, an API that does not answer, a registry that cannot be read or
\* replaced, Ctrl-C: teardown is left, and never entered again.
TeardownRaises(l) ==
    /\ pc[l] \in Closing
    /\ \/ pc[l] = "deleting" /\ todo[l] = {} /\ done[l] \cap live # {}
       \/ pc[l] = "deleting" /\ todo[l] = {} /\ done[l] # {} /\ "api" \in Faults
       \/ pc[l] \in {"pruning", "removing"} /\ "file" \in Faults
       \/ "interrupt" \in Faults
    /\ Ends(l, "failed")
    /\ UNCHANGED <<live, books>>

\* Nothing to remove: remove_from_registry returns at once.
NothingToPrune(q) ==
    /\ pc[q] = "deleting"
    /\ todo[q] = {}
    /\ done[q] = {}
    /\ Ends(q, Outcome(q))
    /\ UNCHANGED <<live, books>>

PruneReads(q) ==
    /\ IF q \in Leases
       THEN pc[q] = "pruning"
       ELSE pc[q] = "deleting" /\ todo[q] = {} /\ done[q] # {}
    /\ ReadRegistry(q)
    /\ Goes(q, "removing")
    /\ UNCHANGED <<live, books, before, todo, done, erring>>

PruneWrites(q) ==
    /\ pc[q] = "removing"
    /\ Replace(q, read[q] \ done[q])
    /\ Ends(q, Outcome(q))
    /\ UNCHANGED live

\* reconcile(execute=True): the registry first, then the API.
ReaperReads(r) ==
    /\ pc[r] = "idle"
    /\ ReadRegistry(r)
    /\ Goes(r, "listing")
    /\ UNCHANGED <<live, books, before, todo, done, erring>>

\* live_and_ours is to be deleted if the name guard agrees; registered_gone is
\* to be removed.
ReaperLists(r) ==
    /\ pc[r] = "listing"
    /\ todo' = [todo EXCEPT ![r] = read[r] \cap live \cap Named]
    /\ done' = [done EXCEPT ![r] = read[r] \ live]
    /\ read' = [read EXCEPT ![r] = {}]
    /\ Goes(r, "deleting")
    /\ UNCHANGED <<live, books, before, erring>>

\* --pod-id, with --force for a pod that is not registered or not allowed.
ReaperTakesOne(r) ==
    /\ pc[r] = "idle"
    /\ \E p \in live \union registry : todo' = [todo EXCEPT ![r] = {p}]
    /\ Goes(r, "deleting")
    /\ UNCHANGED <<live, books, before, read, done, erring>>

\* A command that dies: killed, interrupted, or on an error it does not catch.
ReaperDies(r) ==
    /\ pc[r] # "idle"
    /\ Faults # {}
    /\ Ends(r, "idle")
    /\ UNCHANGED <<live, books>>

-----------------------------------------------------------------------------
(* The environment                                                         *)

\* The launcher is killed.  Its exit hook does not run.
Kill(l) ==
    /\ "kill" \in Faults
    /\ pc[l] \in LeaseStates \ {"new"}
    /\ exposed' = IF pc[l] \in Unrecorded THEN exposed \union (live \cap {l}) ELSE exposed
    /\ Ends(l, "failed")
    /\ UNCHANGED <<live, registry>>

\* A spot pod is taken back.
Vanish(p) ==
    /\ "vanish" \in Faults
    /\ p \in live
    /\ live' = live \ {p}
    /\ UNCHANGED <<books, pc, plans, erring>>

LeaseNext(l) ==
    \/ Preflight(l) \/ Enter(l)
    \/ CreatePod(l) \/ CreateFails(l) \/ PodWithoutId(l)
    \/ AppendReads(l) \/ AppendWrites(l) \/ AppendRaises(l) \/ DeleteUnrecorded(l)
    \/ Ready(l) \/ NotReady(l)
    \/ TeardownBegins(l) \/ Verify(l) \/ TeardownRaises(l)

ReaperNext(r) ==
    ReaperReads(r) \/ ReaperLists(r) \/ ReaperTakesOne(r) \/ ReaperDies(r)

DeleteNext(q) ==
    \/ \E p \in Leases : Deleted(q, p) \/ DeletedInWord(q, p) \/ DeleteFails(q, p)
    \/ NothingToPrune(q) \/ PruneReads(q) \/ PruneWrites(q)

Next ==
    \/ \E l \in Leases : LeaseNext(l)
    \/ \E r \in Reapers : ReaperNext(r)
    \/ \E q \in Processes : DeleteNext(q)
    \/ \E l \in Leases : Kill(l) \/ Vanish(l)

Spec == Init /\ [][Next]_vars

\* A person runs the reaper again and again, as the runbook says, and not every
\* command dies; a DELETE that is tried again and again is granted once.
Reaping(r) ==
    /\ SF_vars(ReaperReads(r)) /\ SF_vars(ReaperLists(r))
    /\ \A p \in Leases : SF_vars(Deleted(r, p))
    /\ WF_vars(DeleteNext(r))

FairSpec == Spec /\ \A r \in Reapers : Reaping(r)

-----------------------------------------------------------------------------
(* Properties                                                              *)

\* No pod is billed without a record: a live pod is in the registry, or its
\* launcher is about to put it there or to delete it.  The exceptions are the
\* ones `exposed` collects: a launcher killed, or a pod that could neither be
\* recorded nor deleted, in the window launch_pod documents; an answer to POST
\* that never came; a record overwritten by another process; and a DELETE the
\* reaper took at its word.
NoOrphan ==
    \A p \in live :
        \/ p \in registry
        \/ p \in exposed
        \/ pc[p] \in Unrecorded

\* A lease that returns without an exception has left no pod behind, whatever
\* DELETE claimed (PodLease: "guaranteed to be terminated, verified").
DoneMeansGone == \A l \in Leases : pc[l] = "done" => l \notin live

\* A pod that is recorded is deleted in the end, by its lease or the reaper,
\* unless it loses its record.
Reaped == \A p \in Leases : (p \in live \cap registry) ~> (p \notin live \/ p \in exposed)
=============================================================================
