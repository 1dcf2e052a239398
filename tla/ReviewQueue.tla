---------------------------- MODULE ReviewQueue ----------------------------
(***************************************************************************)
(* The review queue in Postgres and the four programs that write to it:    *)
(* the backend, which queues a prediction with its row (backend/db.py) or  *)
(* on a visitor's report (backend/queue_guard.py); the re-scorer           *)
(* (rescorer/worker.py); the reviewer's submit (backend/review_api.py);    *)
(* and the retention purge (backend/retention.py).                         *)
(*                                                                         *)
(* Each runs one READ COMMITTED transaction at a time.  A step is one SQL  *)
(* statement, or the commit together with the statements before it that    *)
(* only touch rows the transaction has locked.  A statement that waits for *)
(* a row lock is an action that is not enabled.  What a transaction has    *)
(* written and not committed is visible to itself alone.                   *)
(*                                                                         *)
(* Time is counted in days, the unit of the retention settings.            *)
(***************************************************************************)
EXTENDS Naturals, FiniteSets

CONSTANTS
    Requests,      \* request ids
    Intent,        \* the review each prediction asks for, or "none"
    Reviewers,     \* submits the backend serves at once
    Rescorers,     \* re-scorer workers
    Purger,        \* the purge
    Nobody,        \* a lock that is free
    BatchSize,     \* RESCORER_BATCH_SIZE
    FeedbackDays,  \* user_feedback_window_seconds
    TextDays,      \* INPUT_TEXT_RETENTION_DAYS
    TtlDays,       \* PENDING_REVIEW_TTL_DAYS
    SnapshotDays,  \* SNAPSHOT_RETENTION_DAYS
    MaxDay         \* bound of the model: the last day

Strata == {"flagged", "random-audit", "user-report"}
Open == {"pending", "rescored"}
Workers == Reviewers \union Rescorers \union {Purger}

ASSUME QueueAssumption ==
    /\ Intent \in [Requests -> {"none", "flagged", "random-audit"}]
    /\ IsFiniteSet(Requests)
    /\ Reviewers \intersect Rescorers = {}
    /\ Purger \notin Reviewers \union Rescorers
    /\ Nobody \notin Workers
    /\ BatchSize \in Nat \ {0}
    /\ FeedbackDays \in Nat
    /\ TextDays \in Nat
    /\ TtlDays \in Nat
    /\ SnapshotDays \in Nat
    /\ MaxDay \in Nat

VARIABLES
    today,    \* the clock
    text,     \* predictions.input_text; "none" before the row exists
    born,     \* predictions.ts
    status,   \* review_queue.status; "none" before the row exists
    source,   \* review_queue.source
    snapshot, \* review_queue.input_text_snapshot
    queued,   \* review_queue.enqueued_ts
    scored,   \* distilbert_probs, and the text the challenger was given
    judged,   \* reviewer rows of the feedback table
    lock,     \* the transaction that has locked the review_queue row
    purge,    \* the statement the purge has executed last
    purgeDay, \* the `now` of the purge under way
    erasing,  \* the predictions it is about to null
    purged    \* history: `now` of the latest purge that committed

predictions == <<text, born>>
queue == <<status, source, snapshot, queued, scored>>
purging == <<purge, purgeDay, erasing, purged>>
vars == <<today, predictions, queue, judged, lock, purging>>

TypeOK ==
    /\ today \in 0..MaxDay
    /\ text \in [Requests -> {"none", "kept", "null"}]
    /\ born \in [Requests -> 0..MaxDay]
    /\ status \in [Requests -> {"none", "reviewed", "expired"} \union Open]
    /\ source \in [Requests -> {"none"} \union Strata]
    /\ snapshot \in [Requests -> {"none", "kept", "null"}]
    /\ queued \in [Requests -> 0..MaxDay]
    /\ scored \in [Requests -> {"no", "text", "blank"}]
    /\ judged \in [Requests -> Nat]
    /\ lock \in [Requests -> Workers \union {Nobody}]
    /\ purge \in {"idle", "expired", "nulled"}
    /\ purgeDay \in 0..MaxDay
    /\ erasing \subseteq Requests
    /\ purged \in 0..MaxDay

Init ==
    /\ today = 0
    /\ text = [r \in Requests |-> "none"]
    /\ born = [r \in Requests |-> 0]
    /\ status = [r \in Requests |-> "none"]
    /\ source = [r \in Requests |-> "none"]
    /\ snapshot = [r \in Requests |-> "none"]
    /\ queued = [r \in Requests |-> 0]
    /\ scored = [r \in Requests |-> "no"]
    /\ judged = [r \in Requests |-> 0]
    /\ lock = [r \in Requests |-> Nobody]
    /\ purge = "idle"
    /\ purgeDay = 0
    /\ erasing = {}
    /\ purged = 0

\* The rows a transaction has locked.
Held(w) == { r \in Requests : lock[r] = w }

Release(w) == lock' = [r \in Requests |-> IF lock[r] = w THEN Nobody ELSE lock[r]]

\* older than `days` days, as the purge compares (strictly)
Older(day, now, days) == day + days < now

-----------------------------------------------------------------------------
(* The backend                                                             *)

\* A row of the queue in the stratum s, with the text it was queued with.
NewItem(r, s) ==
    /\ status' = [status EXCEPT ![r] = "pending"]
    /\ source' = [source EXCEPT ![r] = s]
    /\ snapshot' = [snapshot EXCEPT ![r] = "kept"]
    /\ queued' = [queued EXCEPT ![r] = today]
    /\ UNCHANGED scored

\* Mutant: the insert into the queue is an upsert.
EnqueueOver(r) ==
    IF Intent[r] # "none" THEN NewItem(r, Intent[r]) ELSE UNCHANGED queue

\* Mutant: a stratum the CHECK constraint on source does not know.
EnqueueUnknown(r) ==
    IF Intent[r] # "none" /\ status[r] = "none"
    THEN NewItem(r, "audit")
    ELSE UNCHANGED queue

\* Mutant: the review is opened after the commit of the prediction, by a write
\* of its own, and when that fails by the next replay.
EnqueueLater(r) ==
    IF Intent[r] # "none" /\ status[r] = "none" /\ text[r] # "none"
    THEN NewItem(r, Intent[r])
    ELSE UNCHANGED queue

\* enqueue_review: ON CONFLICT DO NOTHING.
Enqueue(r) ==
    IF Intent[r] # "none" /\ status[r] = "none"
    THEN NewItem(r, Intent[r])
    ELSE UNCHANGED queue

\* write_pending: of a new prediction, of a retry whose commit went unheard,
\* or of a spooled row, which keeps the ts of the day it was spooled.
WritePending(r, day) ==
    /\ day <= today
    /\ IF text[r] = "none"
       THEN /\ text' = [text EXCEPT ![r] = "kept"]
            /\ born' = [born EXCEPT ![r] = day]
       ELSE UNCHANGED predictions
    /\ Enqueue(r)
    /\ UNCHANGED <<today, judged, lock, purging>>

\* Mutant: an existing row does not end the admission.
AdmissibleAgain(r) == text[r] = "kept"

\* admit_review's own conditions: no row yet, and a text to copy.
Admissible(r) == status[r] = "none" /\ text[r] = "kept"

\* A visitor's report opens a review.  admit_user_feedback asked for the age
\* of the prediction before, so the day may have changed since.  The caps that
\* may refuse it are in UserFeedback.
Report(r) ==
    /\ Admissible(r)
    /\ today <= born[r] + FeedbackDays + 1
    /\ NewItem(r, "user-report")
    /\ UNCHANGED <<today, predictions, judged, lock, purging>>

-----------------------------------------------------------------------------
(* submit: SELECT ... FOR UPDATE OF q, then the UPDATE that claims the row *)

SubmitLocks(p, r) ==
    /\ Held(p) = {}
    /\ status[r] # "none"
    /\ lock[r] = Nobody
    /\ lock' = [lock EXCEPT ![r] = p]
    /\ UNCHANGED <<today, predictions, queue, judged, purging>>

\* Mutant: the UPDATE does not ask whether the row is reviewed already.
SubmitClaimsAgain(p, r) ==
    /\ lock[r] = p
    /\ status' = [status EXCEPT ![r] = "reviewed"]
    /\ judged' = [judged EXCEPT ![r] = @ + 1]
    /\ Release(p)
    /\ UNCHANGED <<today, predictions, source, snapshot, queued, scored, purging>>

\* The claim, insert_feedback and the commit.
SubmitClaims(p, r) ==
    /\ lock[r] = p
    /\ status[r] # "reviewed"
    /\ status' = [status EXCEPT ![r] = "reviewed"]
    /\ judged' = [judged EXCEPT ![r] = @ + 1]
    /\ Release(p)
    /\ UNCHANGED <<today, predictions, source, snapshot, queued, scored, purging>>

\* 409 when the row was reviewed, or an error between the lock and the commit
\* (a connection lost, an insert that failed): rolled back.
SubmitRollsBack(p) ==
    /\ Held(p) # {}
    /\ Release(p)
    /\ UNCHANGED <<today, predictions, queue, judged, purging>>

-----------------------------------------------------------------------------
(* drain_once                                                              *)

Claimable == { r \in Requests :
                 status[r] = "pending" /\ scored[r] = "no" /\ lock[r] = Nobody }

\* ORDER BY enqueued_ts LIMIT n
IsBatch(rows, from) ==
    /\ rows \subseteq from
    /\ Cardinality(rows) = IF Cardinality(from) < BatchSize
                           THEN Cardinality(from) ELSE BatchSize
    /\ \A r \in rows, other \in from \ rows : queued[r] <= queued[other]

\* SELECT ... FOR UPDATE SKIP LOCKED
RescorerClaims(w) ==
    /\ Held(w) = {}
    /\ Claimable # {}
    /\ \E rows \in SUBSET Claimable :
         /\ IsBatch(rows, Claimable)
         /\ lock' = [r \in Requests |-> IF r \in rows THEN w ELSE lock[r]]
    /\ UNCHANGED <<today, predictions, queue, judged, purging>>

\* Mutant: the UPDATE stores the probabilities and not the status.
RescorerCommitsUnmarked(w) ==
    /\ Held(w) # {}
    /\ scored' = [r \in Requests |-> IF r \in Held(w) THEN "text" ELSE scored[r]]
    /\ Release(w)
    /\ UNCHANGED <<today, predictions, status, source, snapshot, queued, judged, purging>>

\* The challenger scores the snapshots, "" where there is none; the UPDATEs
\* are guarded on `pending`; commit.
RescorerCommits(w) ==
    /\ Held(w) # {}
    /\ LET done == { r \in Held(w) : status[r] = "pending" }
       IN /\ status' = [r \in Requests |-> IF r \in done THEN "rescored" ELSE status[r]]
          /\ scored' = [r \in Requests |->
                          IF r \notin done THEN scored[r]
                          ELSE IF snapshot[r] = "kept" THEN "text" ELSE "blank"]
    /\ Release(w)
    /\ UNCHANGED <<today, predictions, source, snapshot, queued, judged, purging>>

\* The challenger raises, or the worker is killed: nothing was written.
RescorerDies(w) ==
    /\ Held(w) # {}
    /\ Release(w)
    /\ UNCHANGED <<today, predictions, queue, judged, purging>>

-----------------------------------------------------------------------------
(* purge: three UPDATEs of one transaction                                 *)

\* Mutant: only the reviews the challenger has scored expire.
ExpiringScored == { r \in Requests :
                      status[r] = "rescored" /\ Older(queued[r], today, TtlDays) }

Expiring == { r \in Requests : status[r] \in Open /\ Older(queued[r], today, TtlDays) }

PurgeExpires ==
    /\ purge = "idle"
    /\ \A r \in Expiring : lock[r] = Nobody
    /\ lock' = [r \in Requests |-> IF r \in Expiring THEN Purger ELSE lock[r]]
    /\ purge' = "expired"
    /\ purgeDay' = today
    /\ UNCHANGED <<today, predictions, queue, judged, erasing, purged>>

\* Mutant: the text of a prediction goes by its age alone.
StillOpenIgnored == {}

\* The reviews the purge itself has just expired are not open any more.
StillOpen == { r \in Requests : status[r] \in Open } \ Held(Purger)

PurgeNulls ==
    /\ purge = "expired"
    /\ erasing' = { r \in Requests : /\ text[r] = "kept"
                                     /\ Older(born[r], purgeDay, TextDays)
                                     /\ r \notin StillOpen }
    /\ purge' = "nulled"
    /\ UNCHANGED <<today, predictions, queue, judged, lock, purgeDay, purged>>

\* Mutant: a snapshot is spared while its review is open or was judged.
StaleSnapshotsExpired ==
    { r \in Requests : /\ snapshot[r] = "kept"
                       /\ Older(queued[r], purgeDay, SnapshotDays)
                       /\ status[r] = "expired" }

StaleSnapshots == { r \in Requests : /\ snapshot[r] = "kept"
                                     /\ Older(queued[r], purgeDay, SnapshotDays) }

PurgeCommits ==
    /\ purge = "nulled"
    /\ \A r \in StaleSnapshots : lock[r] \in {Nobody, Purger}
    /\ status' = [r \in Requests |-> IF lock[r] = Purger THEN "expired" ELSE status[r]]
    /\ text' = [r \in Requests |-> IF r \in erasing THEN "null" ELSE text[r]]
    /\ snapshot' = [r \in Requests |-> IF r \in StaleSnapshots THEN "null" ELSE snapshot[r]]
    /\ Release(Purger)
    /\ purge' = "idle"
    /\ erasing' = {}
    /\ purged' = purgeDay
    /\ UNCHANGED <<today, born, source, queued, scored, judged, purgeDay>>

\* The purge is an operator's command; it may be interrupted.
PurgeDies ==
    /\ purge # "idle"
    /\ purge' = "idle"
    /\ erasing' = {}
    /\ Release(Purger)
    /\ UNCHANGED <<today, predictions, queue, judged, purgeDay, purged>>

-----------------------------------------------------------------------------
DayPasses ==
    /\ today < MaxDay
    /\ today' = today + 1
    /\ UNCHANGED <<predictions, queue, judged, lock, purging>>

Backend == \E r \in Requests :
             \/ \E day \in 0..MaxDay : WritePending(r, day)
             \/ Report(r)

Submit(p) ==
    \/ \E r \in Requests : SubmitLocks(p, r) \/ SubmitClaims(p, r)
    \/ SubmitRollsBack(p)

DrainOnce(w) == RescorerClaims(w) \/ RescorerCommits(w) \/ RescorerDies(w)

Purge == PurgeExpires \/ PurgeNulls \/ PurgeCommits \/ PurgeDies

Next ==
    \/ Backend
    \/ \E p \in Reviewers : Submit(p)
    \/ \E w \in Rescorers : DrainOnce(w)
    \/ Purge
    \/ DayPasses

Spec == Init /\ [][Next]_vars

\* Postgres ends every transaction; a worker that died is started again and
\* claims the oldest free rows; one pass in a while is not interrupted.
Fairness ==
    /\ \A p \in Reviewers :
         WF_vars((\E r \in Requests : SubmitClaims(p, r)) \/ SubmitRollsBack(p))
    /\ WF_vars(PurgeNulls)
    /\ WF_vars(PurgeCommits \/ PurgeDies)
    /\ \A w \in Rescorers : SF_vars(RescorerClaims(w)) /\ SF_vars(RescorerCommits(w))

FairSpec == Spec /\ Fairness

-----------------------------------------------------------------------------
(* Properties                                                              *)

\* A review is finished if and only if exactly one reviewer row of feedback
\* records it: two submits of one item, a submit beside the re-scorer or the
\* purge, a replayed enqueue or a submit of an expired item never leave a
\* judgement without its row or with two (backend/review_api.py:256-275).
OneJudgement ==
    \A r \in Requests : judged[r] = IF status[r] = "reviewed" THEN 1 ELSE 0

\* While a person still owes an item a decision, the text to decide on is
\* there, in the queue and in the prediction, however purge, enqueue and
\* re-scorer interleave (backend/retention.py:5-14).
OpenReadable ==
    \A r \in Requests :
        status[r] \in Open => snapshot[r] = "kept" /\ text[r] = "kept"

\* The challenger never scores the empty string in place of a comment the
\* purge has taken away (rescorer/worker.py:3-5, :49).
ScoredOnText == \A r \in Requests : scored[r] # "blank"

\* After a purge no snapshot is left that was older than the policy when it
\* began, whatever its review's status (backend/retention.py:70-77).
SnapshotsPurged ==
    \A r \in Requests :
        snapshot[r] = "kept" => ~Older(queued[r], purged, SnapshotDays)

\* The stratum an item was drawn in, and so its inclusion probability, is
\* never rewritten: not by a report of a drawn item, not by a replayed write
\* (backend/queue_guard.py:13-15, backend/review_api.py:303-307).
StratumFixed ==
    [][\A r \in Requests : source[r] # "none" => source'[r] = source[r]]_vars

\* An item is in the stratum its prediction was drawn in, and a user-report only if
\* it was drawn in none: the estimator divides by the inclusion probability of the
\* stratum.  A report may come at any moment after the prediction is there, between a
\* commit nobody heard and its replay as well, and must never get in first
\* (backend/db.py:273-291, backend/queue_guard.py:13-15).
StrataAsDrawn ==
    \A r \in Requests :
        status[r] # "none" =>
            source[r] = IF Intent[r] = "none" THEN "user-report" ELSE Intent[r]

\* Every pending item is eventually re-scored, judged or expired.
Rescored == \A r \in Requests : status[r] = "pending" ~> status[r] # "pending"

Lifecycle == INSTANCE ReviewLifecycle WITH judgements <- judged

\* The four programs implement the life of an item.
LifecycleSpec == Lifecycle!Spec
=============================================================================
