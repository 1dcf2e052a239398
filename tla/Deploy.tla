-------------------------------- MODULE Deploy --------------------------------
(***************************************************************************)
(* Getting a commit onto the three instances: the deploy workflow          *)
(* (.github/workflows/deploy.yml) and the rollback command                 *)
(* (infra/aws/rollback.sh), the scripts both call, and what runs on an     *)
(* instance (infra/deploy/instance/).  Workflows queue behind one another; *)
(* a rollback is started from a laptop and waits for nobody.               *)
(*                                                                         *)
(* A command sent to an instance is not part of the program that sent it:  *)
(* it goes on when its sender stops polling, or is killed.                 *)
(***************************************************************************)
EXTENDS Naturals, Sequences, FiniteSets

CONSTANTS
    Commits,    \* git SHAs
    Order,      \* COMPONENTS, in the order they are rolled
    Needs,      \* the image tags a component's compose file names
    MaxLate,    \* bound on the commands that outlive their sender
    MaxRuns,    \* bound on the programs started
    Unset       \* no commit, no parameter, nothing running

Hosts == {Order[i] : i \in 1..Len(Order)}
Tags == UNION {Needs[h] : h \in Hosts}

ASSUME DeployAssumption ==
    /\ Order \in Seq(STRING) /\ Len(Order) > 0
    /\ \A h \in Hosts : Needs[h] # {}
    /\ MaxLate \in Nat /\ MaxRuns \in Nat
    /\ Unset \notin Commits

Programs == {"workflow", "rollback"}
Mixed == "mixed"

VARIABLES
    images,     \* by commit, the tags in the registry
    payload,    \* by commit, what is at deploy/<sha>/: none of it, a part, all
    current,    \* /toxic/deploy/current-sha
    previous,   \* /toxic/deploy/previous-sha
    installed,  \* by host, the commit whose payload is in /opt/toxic
    env,        \* by host, the commit whose images are in stack.env
    up,         \* by host, the commit whose containers are up
    step,       \* where each program is
    target,     \* the commit it rolls
    turn,       \* the place in Order it has come to
    job,        \* the command it has sent and polls
    seen,       \* what record_deploy.sh read as current
    runs,       \* how many programs were started
    late,       \* the commands whose sender no longer polls them
    disturbed,  \* history: another program or a late command was at work meanwhile
    gated       \* history: the commits that have passed verify_live.sh

pointers == <<current, previous>>
fleet == <<installed, env, up>>
programs == <<step, target, turn, job, seen, runs>>
deployVars == <<images, payload, pointers, fleet, programs, late, disturbed, gated>>

NoJob == [host |-> Unset, sha |-> Unset, at |-> "none"]

DeployInit ==
    /\ images = [c \in Commits |-> {}] /\ payload = [c \in Commits |-> "none"]
    /\ current = Unset /\ previous = Unset
    /\ installed = [h \in Hosts |-> Unset]
    /\ env = [h \in Hosts |-> Unset] /\ up = [h \in Hosts |-> Unset]
    /\ step = [p \in Programs |-> "idle"] /\ target = [p \in Programs |-> Unset]
    /\ turn = [p \in Programs |-> 1] /\ job = [p \in Programs |-> NoJob]
    /\ seen = [p \in Programs |-> Unset]
    /\ runs = 0 /\ late = {} /\ disturbed = [p \in Programs |-> FALSE]
    /\ gated = {}

Goes(p, where) == step' = [step EXCEPT ![p] = where]

\* The program ends; a command it was polling goes on without it.
Ends(p) ==
    /\ Goes(p, "idle")
    /\ target' = [target EXCEPT ![p] = Unset]
    /\ turn' = [turn EXCEPT ![p] = 1]
    /\ seen' = [seen EXCEPT ![p] = Unset]
    /\ job' = [job EXCEPT ![p] = NoJob]
    /\ disturbed' = [disturbed EXCEPT ![p] = FALSE]

Begins(p, c, where) ==
    /\ step[p] = "idle"
    /\ runs < MaxRuns /\ runs' = runs + 1
    /\ Goes(p, where)
    /\ target' = [target EXCEPT ![p] = c]
    /\ disturbed' = [q \in Programs |->
          IF q = p THEN late # {} \/ \E o \in Programs \ {p} : step[o] # "idle"
          ELSE disturbed[q] \/ step[q] # "idle"]
    /\ UNCHANGED <<images, payload, pointers, fleet, turn, job, seen, late, gated>>

-----------------------------------------------------------------------------
(* Starting                                                                *)

\* A push to main, or a dispatch that names a commit; the concurrency group lets one
\* workflow run at a time.
StartWorkflow(c) == Begins("workflow", c, "build")

\* The matrix: one image per tag, pushed by jobs of their own.  Any of them may fail,
\* and the rest of the matrix is cancelled.
Build ==
    /\ step["workflow"] = "build"
    /\ \E pushed \in SUBSET Tags :
          images' = [images EXCEPT ![target["workflow"]] = @ \cup pushed]
    /\ Goes("workflow", "built")
    /\ UNCHANGED <<payload, pointers, fleet, target, turn, job, seen, runs, late, disturbed, gated>>

\* The payload is uploaded file by file, once every image is there.
UploadPayload ==
    /\ step["workflow"] = "built"
    /\ images[target["workflow"]] = Tags
    /\ \E much \in {"part", "all"} :
          /\ payload' = [payload EXCEPT ![target["workflow"]] = IF @ = "all" THEN @ ELSE much]
          /\ Goes("workflow", IF much = "all" THEN "roll" ELSE "failed")
    /\ UNCHANGED <<images, pointers, fleet, target, turn, job, seen, runs, late, disturbed, gated>>

\* rollback.sh: a commit named by the operator, or the one in previous-sha; all its
\* images have to be in the registry before anything moves.
StartRollback(c) ==
    /\ images[c] = Tags
    /\ Begins("rollback", c, "roll")

-----------------------------------------------------------------------------
(* ssm_run.sh                                                              *)

\* The command is on its instance before anything is polled.
Send(p) ==
    /\ step[p] = "roll"
    /\ job' = [job EXCEPT ![p] = [host |-> Order[turn[p]], sha |-> target[p], at |-> "sent"]]
    /\ Goes(p, "poll")
    /\ UNCHANGED <<images, payload, pointers, fleet, target, turn, seen, runs, late, disturbed, gated>>

\* Mutation: a terminal state is enough.
SucceededOrNot(p) == job[p].at \in {"success", "failed"}

\* Every invocation reached a terminal state, and it is Success.
Succeeded(p) == job[p].at = "success"

\* The next component, or the gate.
Advance(p) ==
    /\ step[p] = "poll"
    /\ Succeeded(p)
    /\ job' = [job EXCEPT ![p] = NoJob]
    /\ IF turn[p] < Len(Order)
       THEN turn' = [turn EXCEPT ![p] = @ + 1] /\ Goes(p, "roll")
       ELSE turn' = turn /\ Goes(p, "gate")
    /\ UNCHANGED <<images, payload, pointers, fleet, target, seen, runs, late, disturbed, gated>>

\* It failed, the poll timed out, the number of instances was wrong, an image or a
\* parameter was missing, the gate failed, the runner or the laptop died.
Dies(p) ==
    /\ step[p] # "idle"
    /\ late' = IF job[p].at \in {"none", "success", "failed"} THEN late ELSE late \cup {job[p]}
    /\ Cardinality(late') <= MaxLate
    /\ Ends(p)
    /\ UNCHANGED <<images, payload, pointers, fleet, runs, gated>>

-----------------------------------------------------------------------------
(* On the instance: bootstrap.sh, roll.sh                                  *)

\* The copy of the payload replaces the files it finds, and a prefix that is not there
\* copies nothing.  Then there has to be a roll.sh, in a directory that is never cleared.
Copies(m, n) ==
    /\ m.at = "sent"
    /\ \E left \in CASE payload[m.sha] = "none" -> {installed[m.host]}
                     [] payload[m.sha] = "part" -> {Mixed}
                     [] OTHER -> {m.sha, Mixed} :
          /\ installed' = [installed EXCEPT ![m.host] = left]
          /\ n = [m EXCEPT !.at =
                IF left = Unset \/ (left = Mixed /\ payload[m.sha] = "all") THEN "failed"
                ELSE "copied"]
    /\ UNCHANGED <<env, up>>

\* stack.env: each image this host runs is resolved to a digest first, and the file is
\* replaced in one step.
WritesEnv(m, n) ==
    /\ m.at = "copied"
    /\ Needs[m.host] \subseteq images[m.sha]
    /\ env' = [env EXCEPT ![m.host] = m.sha]
    /\ n = [m EXCEPT !.at = "written"]
    /\ UNCHANGED <<installed, up>>

\* Containers that die after they started are Success as well.
Restarts(m, n) ==
    /\ m.at = "written"
    /\ \E now \in {env[m.host], Unset} : up' = [up EXCEPT ![m.host] = now]
    /\ n = [m EXCEPT !.at = "success"]
    /\ UNCHANGED <<installed, env>>

\* A parameter, a secret, an image, an artifact or a pull is not to be had.
Fails(m, n) ==
    /\ m.at \in {"sent", "copied", "written"}
    /\ n = [m EXCEPT !.at = "failed"]
    /\ UNCHANGED fleet

Runs(m, n) == Copies(m, n) \/ WritesEnv(m, n) \/ Restarts(m, n) \/ Fails(m, n)

Places == {"copied", "written", "success", "failed"}

JobRuns(p) ==
    /\ \E at \in Places :
          LET n == [job[p] EXCEPT !.at = at] IN Runs(job[p], n) /\ job' = [job EXCEPT ![p] = n]
    /\ UNCHANGED <<images, payload, pointers, step, target, turn, seen, runs, late, disturbed, gated>>

LateRuns(m) ==
    /\ \E at \in Places :
          LET n == [m EXCEPT !.at = at] IN
          /\ Runs(m, n)
          /\ late' = (late \ {m}) \cup (IF at \in {"success", "failed"} THEN {} ELSE {n})
    /\ UNCHANGED <<images, payload, pointers, programs, disturbed, gated>>

\* The unit or the daemon starts the containers again: after a stop of the instance,
\* after a crash.
HostRestarts(h) ==
    /\ \E now \in {env[h], Unset} : up' = [up EXCEPT ![h] = now]
    /\ UNCHANGED <<images, payload, pointers, installed, env, programs, late, disturbed, gated>>

-----------------------------------------------------------------------------
(* verify_live.sh, record_deploy.sh                                        *)

\* Every endpoint answers; which commit it answers from is not asked.
PassGate(p) ==
    /\ step[p] = "gate"
    /\ \A h \in Hosts : up[h] # Unset
    /\ gated' = gated \cup {target[p]}
    /\ Goes(p, IF p = "workflow" THEN "read" ELSE "put")
    /\ UNCHANGED <<images, payload, pointers, fleet, target, turn, job, seen, runs, late, disturbed>>

\* Without --keep-previous; a parameter that cannot be read counts as none.
ReadCurrent(p) ==
    /\ step[p] = "read"
    /\ \E value \in {current, Unset} : seen' = [seen EXCEPT ![p] = value]
    /\ Goes(p, "keep")
    /\ UNCHANGED <<images, payload, pointers, fleet, target, turn, job, runs, late, disturbed, gated>>

PutPrevious(p) ==
    /\ step[p] = "keep"
    /\ previous' = IF seen[p] \in {Unset, target[p]} THEN previous ELSE seen[p]
    /\ Goes(p, "put")
    /\ UNCHANGED <<images, payload, current, fleet, target, turn, job, seen, runs, late, disturbed,
                   gated>>

PutCurrent(p) ==
    /\ step[p] = "put"
    /\ current' = target[p]
    /\ Ends(p)
    /\ UNCHANGED <<images, payload, previous, fleet, runs, late, gated>>

DeployNext ==
    \/ \E c \in Commits : StartWorkflow(c) \/ StartRollback(c)
    \/ Build \/ UploadPayload
    \/ \E p \in Programs :
          \/ Send(p) \/ Advance(p) \/ Dies(p) \/ JobRuns(p)
          \/ PassGate(p) \/ ReadCurrent(p) \/ PutPrevious(p) \/ PutCurrent(p)
    \/ \E m \in late : LateRuns(m)
    \/ \E h \in Hosts : HostRestarts(h)

DeploySpec == DeployInit /\ [][DeployNext]_deployVars

-----------------------------------------------------------------------------
(* Properties                                                              *)

JobOf == [host : Hosts, sha : Commits, at : {"sent"} \cup Places]

\* Types.
DeployTypeOK ==
    /\ images \in [Commits -> SUBSET Tags] /\ payload \in [Commits -> {"none", "part", "all"}]
    /\ current \in Commits \cup {Unset} /\ previous \in Commits \cup {Unset}
    /\ installed \in [Hosts -> Commits \cup {Unset, Mixed}]
    /\ env \in [Hosts -> Commits \cup {Unset}] /\ up \in [Hosts -> Commits \cup {Unset}]
    /\ step \in [Programs -> {"idle", "build", "built", "failed", "roll", "poll", "gate",
                              "read", "keep", "put"}]
    /\ target \in [Programs -> Commits \cup {Unset}] /\ turn \in [Programs -> 1..Len(Order)]
    /\ job \in [Programs -> JobOf \cup {NoJob}] /\ seen \in [Programs -> Commits \cup {Unset}]
    /\ runs \in 0..MaxRuns /\ late \subseteq JobOf /\ disturbed \in [Programs -> BOOLEAN] /\ gated \subseteq Commits

Passed(p) == step[p] \in {"read", "keep", "put"}

\* A program that passes its gate has brought every host to its target, though the gate
\* asks no host what it runs: only another program at work at the same time, or a command
\* that outlived the program that sent it, can leave the fleet split across two commits.
FleetIsTarget ==
    \A p \in Programs :
        Passed(p) /\ ~disturbed[p] =>
            \A h \in Hosts : env[h] = target[p] /\ up[h] \in {target[p], Unset}

\* What is recorded as current, and what `make rollback` goes back to, has passed the
\* gate once, whoever recorded it and wherever a recording was cut short (deploy.yml:204:
\* "only a verified deploy becomes the rollback baseline").
BaselinesGated == {current, previous} \ {Unset} \subseteq gated

\* A deploy is what it was verified to be.
DeploySound == FleetIsTarget /\ BaselinesGated

\* A command that reports Success ran the payload of its own commit: bootstrap.sh:70-73
\* calls its test for roll.sh "the check that says the payload arrived".
PayloadArrived ==
    \A p \in Programs :
        job[p].at = "success" /\ ~disturbed[p] => installed[job[p].host] = job[p].sha

=============================================================================
