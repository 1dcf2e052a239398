------------------------- MODULE ReviewQueue_proofs -------------------------
(***************************************************************************)
(* Proofs about ReviewQueue: type correctness, one feedback row for each   *)
(* finished review, the implementation of ReviewLifecycle, the strata of   *)
(* the items, what a purge leaves behind, and, for retention settings in   *)
(* the order of the defaults, that the purge never takes the text of an    *)
(* open review.                                                            *)
(***************************************************************************)
EXTENDS ReviewQueue, TLAPS

\* A locked row exists, and what the purge holds is what it will expire.
Locks ==
    \A r \in Requests :
        /\ lock[r] # Nobody => status[r] # "none"
        /\ lock[r] = Purger => status[r] \in Open

Core == TypeOK /\ OneJudgement /\ Locks

-----------------------------------------------------------------------------
(* The parts of steps                                                      *)

LEMMA ReleaseEffect ==
    ASSUME TypeOK, NEW w \in Workers, Release(w)
    PROVE  /\ lock' \in [Requests -> Workers \union {Nobody}]
           /\ \A r \in Requests :
                 /\ lock'[r] # Nobody => lock'[r] = lock[r] /\ lock[r] # w
                 /\ lock[r] # w => lock'[r] = lock[r]
BY DEF Release, TypeOK

LEMMA NewItemEffect ==
    ASSUME TypeOK, NEW q \in Requests, NEW s \in Strata, NewItem(q, s)
    PROVE  /\ status' \in [Requests -> {"none", "reviewed", "expired"} \union Open]
           /\ source' \in [Requests -> {"none"} \union Strata]
           /\ snapshot' \in [Requests -> {"none", "kept", "null"}]
           /\ queued' \in [Requests -> 0..MaxDay]
           /\ UNCHANGED scored
           /\ status'[q] = "pending"
           /\ snapshot'[q] = "kept"
           /\ queued'[q] = today
           /\ \A r \in Requests : r # q => /\ status'[r] = status[r]
                                           /\ source'[r] = source[r]
                                           /\ snapshot'[r] = snapshot[r]
                                           /\ queued'[r] = queued[r]
BY DEF NewItem, TypeOK, Open

\* A write of a prediction leaves the queue alone or queues an item that was
\* not there.
LEMMA WritePendingQueues ==
    ASSUME TypeOK, NEW q \in Requests, NEW day \in 0..MaxDay, WritePending(q, day)
    PROVE  \/ UNCHANGED queue
           \/ /\ status[q] = "none"
              /\ Intent[q] # "none"
              /\ Intent[q] \in Strata
              /\ NewItem(q, Intent[q])
BY QueueAssumption DEF WritePending, Enqueue, Strata

LEMMA WritePendingWrites ==
    ASSUME TypeOK, NEW q \in Requests, NEW day \in 0..MaxDay, WritePending(q, day)
    PROVE  /\ text' \in [Requests -> {"none", "kept", "null"}]
           /\ born' \in [Requests -> 0..MaxDay]
           /\ text'[q] # "none"
           /\ text[q] = "none" => text'[q] = "kept"
           /\ \A r \in Requests :
                 text[r] # "none" \/ r # q => text'[r] = text[r] /\ born'[r] = born[r]
BY DEF WritePending, predictions, TypeOK

-----------------------------------------------------------------------------
(* The core invariant                                                      *)

LEMMA CoreInit == Init => Core
<1> SUFFICES ASSUME Init PROVE Core
  OBVIOUS
<1>1. TypeOK
  BY QueueAssumption DEF Init, TypeOK, Workers
<1>2. OneJudgement
  BY DEF Init, OneJudgement
<1>3. Locks
  BY QueueAssumption DEF Init, Locks, Workers
<1> QED
  BY <1>1, <1>2, <1>3 DEF Core

\* An item that was not queued is queued; nothing is locked or judged.
LEMMA CoreQueues ==
    ASSUME Core, NEW q \in Requests, NEW s \in Strata, status[q] = "none",
           NewItem(q, s), UNCHANGED <<judged, lock>>
    PROVE  OneJudgement' /\ Locks'
<1>1. TypeOK /\ OneJudgement /\ Locks
  BY DEF Core
<1>2. /\ status'[q] = "pending"
      /\ \A r \in Requests : r # q => status'[r] = status[r]
  BY <1>1, NewItemEffect
<1>3. OneJudgement'
  BY <1>1, <1>2 DEF OneJudgement
<1>4. Locks'
  BY <1>1, <1>2 DEF Locks, Open
<1> QED
  BY <1>3, <1>4

LEMMA CoreBackend == Core /\ Backend => Core'
<1> SUFFICES ASSUME Core, Backend PROVE Core'
  OBVIOUS
<1>0. TypeOK /\ OneJudgement /\ Locks
  BY DEF Core
<1>1. CASE \E q \in Requests, day \in 0..MaxDay : WritePending(q, day)
  <2>1. PICK q \in Requests, day \in 0..MaxDay : WritePending(q, day)
    BY <1>1
  <2>2. UNCHANGED <<today, judged, lock, purging>>
    BY <2>1 DEF WritePending
  <2>3. /\ text' \in [Requests -> {"none", "kept", "null"}]
        /\ born' \in [Requests -> 0..MaxDay]
    BY <1>0, <2>1, WritePendingWrites
  <2>4. CASE UNCHANGED queue
    BY <1>0, <2>2, <2>3, <2>4
    DEF Core, TypeOK, OneJudgement, Locks, queue, purging
  <2>5. CASE status[q] = "none" /\ Intent[q] \in Strata /\ NewItem(q, Intent[q])
    <3>1. OneJudgement' /\ Locks'
      BY <2>2, <2>5, CoreQueues
    <3>2. TypeOK'
      BY <1>0, <2>2, <2>3, <2>5, NewItemEffect DEF TypeOK, purging
    <3> QED
      BY <3>1, <3>2 DEF Core
  <2> QED
    BY <1>0, <2>1, <2>4, <2>5, WritePendingQueues
<1>2. CASE \E q \in Requests : Report(q)
  <2>1. PICK q \in Requests : Report(q)
    BY <1>2
  <2>2. /\ UNCHANGED <<today, predictions, judged, lock, purging>>
        /\ status[q] = "none"
        /\ "user-report" \in Strata
        /\ NewItem(q, "user-report")
    BY <2>1 DEF Report, Admissible, Strata
  <2>3. OneJudgement' /\ Locks'
    BY <2>2, CoreQueues
  <2>4. TypeOK'
    BY <1>0, <2>2, NewItemEffect DEF TypeOK, purging, predictions
  <2> QED
    BY <2>3, <2>4 DEF Core
<1> QED
  BY <1>1, <1>2 DEF Backend

\* A transaction that writes nothing and ends.
LEMMA CoreReleases ==
    ASSUME Core, NEW w \in Workers, Release(w),
           UNCHANGED <<today, predictions, queue, judged, purging>>
    PROVE  Core'
<1>1. TypeOK /\ OneJudgement /\ Locks
  BY DEF Core
<1>2. /\ lock' \in [Requests -> Workers \union {Nobody}]
      /\ \A r \in Requests : lock'[r] # Nobody => lock'[r] = lock[r]
  BY <1>1, ReleaseEffect
<1>3. Locks'
  BY <1>1, <1>2, QueueAssumption DEF Locks, queue, Workers
<1> QED
  BY <1>1, <1>2, <1>3 DEF Core, TypeOK, OneJudgement, predictions, queue, purging

LEMMA CoreSubmit == ASSUME Core, NEW p \in Reviewers, Submit(p) PROVE Core'
<1>0. TypeOK /\ OneJudgement /\ Locks /\ p \in Workers /\ p # Purger
  BY QueueAssumption DEF Core, Workers
<1>1. CASE \E q \in Requests : SubmitLocks(p, q)
  BY <1>0, <1>1 DEF SubmitLocks, Core, TypeOK, OneJudgement, Locks,
                    predictions, queue, purging
<1>2. CASE \E q \in Requests : SubmitClaims(p, q)
  <2>1. PICK q \in Requests : SubmitClaims(p, q)
    BY <1>2
  <2>2. /\ lock[q] = p
        /\ status[q] # "reviewed"
        /\ status' = [status EXCEPT ![q] = "reviewed"]
        /\ judged' = [judged EXCEPT ![q] = @ + 1]
        /\ Release(p)
        /\ UNCHANGED <<today, predictions, source, snapshot, queued, scored, purging>>
    BY <2>1 DEF SubmitClaims
  <2>3. /\ lock' \in [Requests -> Workers \union {Nobody}]
        /\ \A r \in Requests :
              lock'[r] # Nobody => lock'[r] = lock[r] /\ lock[r] # p
    BY <1>0, <2>2, ReleaseEffect
  <2>4. OneJudgement'
    BY <1>0, <2>2 DEF OneJudgement, TypeOK
  <2>5. Locks'
    BY <1>0, <2>2, <2>3, QueueAssumption DEF Locks, TypeOK, Workers
  <2>6. TypeOK'
    <3>1. status' \in [Requests -> {"none", "reviewed", "expired"} \union Open]
      BY <1>0, <2>2 DEF TypeOK
    <3>2. judged' \in [Requests -> Nat]
      BY <1>0, <2>2 DEF TypeOK
    <3> QED
      BY <1>0, <2>2, <2>3, <3>1, <3>2 DEF TypeOK, predictions, purging
  <2> QED
    BY <2>4, <2>5, <2>6 DEF Core
<1>3. CASE SubmitRollsBack(p)
  BY <1>0, <1>3, CoreReleases DEF SubmitRollsBack
<1> QED
  BY <1>1, <1>2, <1>3 DEF Submit

LEMMA CoreDrainOnce == ASSUME Core, NEW w \in Rescorers, DrainOnce(w) PROVE Core'
<1>0. TypeOK /\ OneJudgement /\ Locks /\ w \in Workers /\ w # Purger /\ w # Nobody
  BY QueueAssumption DEF Core, Workers
<1>1. CASE RescorerClaims(w)
  <2>1. PICK rows \in SUBSET Claimable :
            lock' = [r \in Requests |-> IF r \in rows THEN w ELSE lock[r]]
    BY <1>1 DEF RescorerClaims
  <2>2. UNCHANGED <<today, predictions, queue, judged, purging>>
    BY <1>1 DEF RescorerClaims
  <2>3. Locks'
    BY <1>0, <2>1, <2>2 DEF Locks, Claimable, queue
  <2> QED
    BY <1>0, <2>1, <2>2, <2>3 DEF Core, TypeOK, OneJudgement, predictions, queue, purging
<1>2. CASE RescorerCommits(w)
  <2> DEFINE done == { r \in Held(w) : status[r] = "pending" }
  <2>1. /\ status' = [r \in Requests |-> IF r \in done THEN "rescored" ELSE status[r]]
        /\ scored' = [r \in Requests |->
                        IF r \notin done THEN scored[r]
                        ELSE IF snapshot[r] = "kept" THEN "text" ELSE "blank"]
        /\ Release(w)
        /\ UNCHANGED <<today, predictions, source, snapshot, queued, judged, purging>>
    BY <1>2 DEF RescorerCommits
  <2>2. /\ lock' \in [Requests -> Workers \union {Nobody}]
        /\ \A r \in Requests : lock'[r] # Nobody => lock'[r] = lock[r]
    BY <1>0, <2>1, ReleaseEffect
  <2>3. \A r \in Requests : \/ status'[r] = status[r]
                            \/ status[r] = "pending" /\ status'[r] = "rescored"
    BY <2>1
  <2>4. OneJudgement'
    BY <1>0, <2>1, <2>3 DEF OneJudgement
  <2>5. Locks'
    BY <1>0, <2>2, <2>3, QueueAssumption DEF Locks, Open, Workers
  <2>6. TypeOK'
    <3>1. status' \in [Requests -> {"none", "reviewed", "expired"} \union Open]
      BY <1>0, <2>1 DEF TypeOK, Open
    <3>2. scored' \in [Requests -> {"no", "text", "blank"}]
      BY <1>0, <2>1 DEF TypeOK
    <3> QED
      BY <1>0, <2>1, <2>2, <3>1, <3>2 DEF TypeOK, predictions, purging
  <2> QED
    BY <2>4, <2>5, <2>6 DEF Core
<1>3. CASE RescorerDies(w)
  BY <1>0, <1>3, CoreReleases DEF RescorerDies
<1> QED
  BY <1>1, <1>2, <1>3 DEF DrainOnce

LEMMA CorePurge == Core /\ Purge => Core'
<1> SUFFICES ASSUME Core, Purge PROVE Core'
  OBVIOUS
<1>0. TypeOK /\ OneJudgement /\ Locks /\ Purger \in Workers /\ Purger # Nobody
  BY QueueAssumption DEF Core, Workers
<1>1. CASE PurgeExpires
  <2>1. Locks'
    BY <1>0, <1>1 DEF PurgeExpires, Locks, Expiring, Open, queue
  <2>2. TypeOK'
    BY <1>0, <1>1 DEF PurgeExpires, TypeOK, predictions, queue
  <2> QED
    BY <1>0, <1>1, <2>1, <2>2 DEF PurgeExpires, Core, OneJudgement, queue
<1>2. CASE PurgeNulls
  BY <1>0, <1>2 DEF PurgeNulls, Core, TypeOK, OneJudgement, Locks, predictions, queue
<1>3. CASE PurgeCommits
  <2>1. /\ status' = [r \in Requests |-> IF lock[r] = Purger THEN "expired" ELSE status[r]]
        /\ text' = [r \in Requests |-> IF r \in erasing THEN "null" ELSE text[r]]
        /\ snapshot' = [r \in Requests |->
                          IF r \in StaleSnapshots THEN "null" ELSE snapshot[r]]
        /\ Release(Purger)
        /\ purge' = "idle" /\ erasing' = {} /\ purged' = purgeDay
        /\ UNCHANGED <<today, born, source, queued, scored, judged, purgeDay>>
    BY <1>3 DEF PurgeCommits
  <2>2. /\ lock' \in [Requests -> Workers \union {Nobody}]
        /\ \A r \in Requests :
              lock'[r] # Nobody => lock'[r] = lock[r] /\ lock[r] # Purger
    BY <1>0, <2>1, ReleaseEffect
  <2>3. OneJudgement'
    BY <1>0, <2>1 DEF OneJudgement, Locks, Open
  <2>4. Locks'
    BY <1>0, <2>1, <2>2 DEF Locks, Open
  <2>5. TypeOK'
    BY <1>0, <2>1, <2>2 DEF TypeOK
  <2> QED
    BY <2>3, <2>4, <2>5 DEF Core
<1>4. CASE PurgeDies
  <2>1. /\ lock' \in [Requests -> Workers \union {Nobody}]
        /\ \A r \in Requests : lock'[r] # Nobody => lock'[r] = lock[r]
    BY <1>0, <1>4, ReleaseEffect DEF PurgeDies
  <2>2. Locks'
    BY <1>0, <1>4, <2>1 DEF PurgeDies, Locks, queue
  <2> QED
    BY <1>0, <1>4, <2>1, <2>2
    DEF PurgeDies, Core, TypeOK, OneJudgement, predictions, queue
<1> QED
  BY <1>1, <1>2, <1>3, <1>4 DEF Purge

LEMMA CoreDayPasses == Core /\ DayPasses => Core'
BY QueueAssumption
DEF Core, DayPasses, TypeOK, OneJudgement, Locks, predictions, queue, purging

LEMMA CoreNext == Core /\ [Next]_vars => Core'
<1> SUFFICES ASSUME Core, [Next]_vars PROVE Core'
  OBVIOUS
<1>1. CASE UNCHANGED vars
  BY <1>1 DEF vars, Core, TypeOK, OneJudgement, Locks, predictions, queue, purging
<1> QED
  BY <1>1, CoreBackend, CoreSubmit, CoreDrainOnce, CorePurge, CoreDayPasses DEF Next

\* Every variable keeps the values the tables and the programs give it.
THEOREM QueueTypeCorrect == Spec => []TypeOK
<1>1. Core => TypeOK
  BY DEF Core
<1> QED
  BY CoreInit, CoreNext, <1>1, PTL DEF Spec

\* For any number of submits, re-scorers and items: a review is finished if
\* and only if exactly one reviewer row of feedback records it.
THEOREM OneJudgementCorrect == Spec => []OneJudgement
<1>1. Core => OneJudgement
  BY DEF Core
<1> QED
  BY CoreInit, CoreNext, <1>1, PTL DEF Spec

-----------------------------------------------------------------------------
(* The life of an item                                                     *)

LEMMA LifecycleInit == Init => Lifecycle!Init
BY DEF Init, Lifecycle!Init

LEMMA LifecycleBackend ==
    Core /\ Backend => \/ \E q \in Requests : Lifecycle!Queue(q)
                       \/ UNCHANGED <<status, judged>>
<1> SUFFICES ASSUME Core, Backend
             PROVE  \/ \E q \in Requests : Lifecycle!Queue(q)
                    \/ UNCHANGED <<status, judged>>
  OBVIOUS
<1>0. TypeOK
  BY DEF Core
<1>1. UNCHANGED judged
  BY DEF Backend, WritePending, Report
<1>2. ASSUME NEW q \in Requests, NEW s \in Strata, status[q] = "none", NewItem(q, s)
      PROVE  Lifecycle!Queue(q)
  <2>1. status' = [r \in Requests |-> IF r \in {q} THEN "pending" ELSE status[r]]
    BY <1>0, <1>2 DEF NewItem, TypeOK
  <2> QED
    BY <1>1, <1>2, <2>1 DEF Lifecycle!Queue, Lifecycle!Move
<1>3. CASE \E q \in Requests, day \in 0..MaxDay : WritePending(q, day)
  <2>1. PICK q \in Requests, day \in 0..MaxDay : WritePending(q, day)
    BY <1>3
  <2>2. CASE UNCHANGED queue
    BY <1>1, <2>2 DEF queue
  <2> QED
    BY <1>0, <1>2, <2>1, <2>2, WritePendingQueues
<1>4. CASE \E q \in Requests : Report(q)
  BY <1>2, <1>4 DEF Report, Admissible, Strata
<1> QED
  BY <1>3, <1>4 DEF Backend

\* Every step of the four programs is a step of an item's life or none.
LEMMA LifecycleNext ==
    Core /\ [Next]_vars => [Lifecycle!Next]_<<status, judged>>
<1> SUFFICES ASSUME Core, [Next]_vars
             PROVE  [Lifecycle!Next]_<<status, judged>>
  OBVIOUS
<1>0. TypeOK /\ Locks
  BY DEF Core
<1>1. CASE Backend
  BY <1>1, LifecycleBackend DEF Lifecycle!Next
<1>2. ASSUME NEW p \in Reviewers, Submit(p)
      PROVE  [Lifecycle!Next]_<<status, judged>>
  <2>1. CASE \E q \in Requests : SubmitClaims(p, q)
    <3>1. PICK q \in Requests : SubmitClaims(p, q)
      BY <2>1
    <3>2. status[q] \in Open \union {"expired"}
      BY <1>0, <1>2, <3>1, QueueAssumption DEF SubmitClaims, Locks, TypeOK, Workers
    <3>3. status' = [r \in Requests |-> IF r \in {q} THEN "reviewed" ELSE status[r]]
      BY <1>0, <3>1 DEF SubmitClaims, TypeOK
    <3>4. judged' = [judged EXCEPT ![q] = @ + 1]
      BY <3>1 DEF SubmitClaims
    <3>5. Lifecycle!Judge(q)
      BY <3>2, <3>3, <3>4 DEF Lifecycle!Judge, Lifecycle!Move, Lifecycle!Open, Open
    <3> QED
      BY <3>5 DEF Lifecycle!Next
  <2>2. CASE (\E q \in Requests : SubmitLocks(p, q)) \/ SubmitRollsBack(p)
    BY <2>2 DEF SubmitLocks, SubmitRollsBack, queue
  <2> QED
    BY <1>2, <2>1, <2>2 DEF Submit
<1>3. ASSUME NEW w \in Rescorers, DrainOnce(w)
      PROVE  [Lifecycle!Next]_<<status, judged>>
  <2>1. CASE RescorerCommits(w)
    <3> DEFINE done == { r \in Held(w) : status[r] = "pending" }
    <3>1. /\ status' = [r \in Requests |-> IF r \in done THEN "rescored" ELSE status[r]]
          /\ UNCHANGED judged
      BY <2>1 DEF RescorerCommits
    <3>2. done \in SUBSET Requests /\ \A r \in done : status[r] = "pending"
      BY DEF Held
    <3>3. Lifecycle!Rescore(done)
      BY <3>1, <3>2 DEF Lifecycle!Rescore, Lifecycle!Move
    <3> QED
      BY <3>2, <3>3 DEF Lifecycle!Next
  <2>2. CASE RescorerClaims(w) \/ RescorerDies(w)
    BY <2>2 DEF RescorerClaims, RescorerDies, queue
  <2> QED
    BY <1>3, <2>1, <2>2 DEF DrainOnce
<1>4. CASE Purge
  <2>1. CASE PurgeCommits
    <3>1. /\ status' = [r \in Requests |->
                          IF r \in Held(Purger) THEN "expired" ELSE status[r]]
          /\ UNCHANGED judged
      BY <2>1 DEF PurgeCommits, Held
    <3>2. Held(Purger) \in SUBSET Requests /\ \A r \in Held(Purger) : status[r] \in Open
      BY <1>0 DEF Held, Locks
    <3>3. Lifecycle!Expire(Held(Purger))
      BY <3>1, <3>2 DEF Lifecycle!Expire, Lifecycle!Move, Lifecycle!Open, Open
    <3> QED
      BY <3>2, <3>3 DEF Lifecycle!Next
  <2>2. CASE PurgeExpires \/ PurgeNulls \/ PurgeDies
    BY <2>2 DEF PurgeExpires, PurgeNulls, PurgeDies, queue
  <2> QED
    BY <1>4, <2>1, <2>2 DEF Purge
<1>5. CASE DayPasses
  BY <1>5 DEF DayPasses, queue
<1>6. CASE UNCHANGED vars
  BY <1>6 DEF vars, queue
<1> QED
  BY <1>1, <1>2, <1>3, <1>4, <1>5, <1>6 DEF Next

\* The backend, the re-scorers, the submits and the purge implement the life
\* of an item: judged at most once and never open again once closed.
THEOREM LifecycleImplemented == Spec => LifecycleSpec
<1>1. Init => Lifecycle!Init
  BY LifecycleInit
<1>2. Core /\ [Next]_vars => [Lifecycle!Next]_<<status, judged>>
  BY LifecycleNext
<1> QED
  BY <1>1, <1>2, CoreInit, CoreNext, PTL DEF Spec, LifecycleSpec, Lifecycle!Spec

-----------------------------------------------------------------------------
(* The purge and the text of open reviews                                  *)

\* The settings are in the order of their defaults: 7 <= 30 days for a review
\* and its snapshot, 1 < 30 days for a visitor's verdict and the text
\* (backend/config.py:56-58, backend/queue_guard.py:40).
RetentionOrdered == TtlDays <= SnapshotDays /\ FeedbackDays < TextDays

\* An item has its prediction; a prediction that asks for a review has one.
Rows ==
    \A r \in Requests :
        /\ status[r] # "none" => text[r] # "none"
        /\ Intent[r] # "none" /\ text[r] # "none" => status[r] # "none"

Clock == purgeDay <= today /\ purged <= today

\* Between its statements the purge holds every open review that is too old,
\* and it is going to erase no text of an open review it does not hold.
PurgeCovers ==
    \A r \in Requests :
        /\ purge = "idle" => lock[r] # Purger
        /\ purge # "idle" /\ status[r] \in Open /\ lock[r] # Purger
              => ~Older(queued[r], purgeDay, TtlDays)
        /\ r \in erasing =>
              /\ purge = "nulled"
              /\ text[r] = "kept"
              /\ Older(born[r], purgeDay, TextDays)
              /\ status[r] \in Open => lock[r] = Purger

Kept == Rows /\ Clock /\ PurgeCovers /\ OpenReadable /\ ScoredOnText /\ SnapshotsPurged

LEMMA KeptInit == Init => Kept
<1> SUFFICES ASSUME Init PROVE Kept
  OBVIOUS
<1>1. Rows /\ Clock /\ OpenReadable /\ ScoredOnText /\ SnapshotsPurged
  BY DEF Init, Rows, Clock, OpenReadable, ScoredOnText, SnapshotsPurged, Open
<1>2. PurgeCovers
  BY QueueAssumption DEF Init, PurgeCovers, Workers
<1> QED
  BY <1>1, <1>2 DEF Kept

\* A new item, whose text is there, that is not about to be erased.
LEMMA KeptQueues ==
    ASSUME Core, Kept, NEW q \in Requests, NEW s \in Strata,
           status[q] = "none", text'[q] = "kept", q \notin erasing,
           \A r \in Requests : r # q => text'[r] = text[r] /\ born'[r] = born[r],
           NewItem(q, s), UNCHANGED <<today, judged, lock, purging>>
    PROVE  Kept'
<1>1. /\ TypeOK /\ Locks
      /\ Rows /\ Clock /\ PurgeCovers /\ OpenReadable /\ ScoredOnText /\ SnapshotsPurged
  BY DEF Core, Kept
<1>2. /\ UNCHANGED scored
      /\ status'[q] = "pending" /\ snapshot'[q] = "kept" /\ queued'[q] = today
      /\ \A r \in Requests : r # q => /\ status'[r] = status[r]
                                      /\ snapshot'[r] = snapshot[r]
                                      /\ queued'[r] = queued[r]
  BY <1>1, NewItemEffect
<1>3. today \in Nat /\ purgeDay \in Nat /\ purged \in Nat
      /\ TtlDays \in Nat /\ SnapshotDays \in Nat
  BY <1>1, QueueAssumption DEF TypeOK
<1>4. UNCHANGED <<today, lock, purge, purgeDay, erasing, purged>>
  BY DEF purging
<1>5. ~Older(today, purgeDay, TtlDays) /\ ~Older(today, purged, SnapshotDays)
  BY <1>1, <1>3 DEF Clock, Older
<1>6. Rows' /\ Clock'
  BY <1>1, <1>2, <1>4 DEF Rows, Clock
<1>7. PurgeCovers'
  BY <1>1, <1>2, <1>4, <1>5 DEF PurgeCovers, Older
<1>8. OpenReadable' /\ ScoredOnText'
  BY <1>1, <1>2 DEF OpenReadable, ScoredOnText
<1>9. SnapshotsPurged'
  BY <1>1, <1>2, <1>4, <1>5 DEF SnapshotsPurged, Older
<1> QED
  BY <1>6, <1>7, <1>8, <1>9 DEF Kept

LEMMA KeptBackend == Core /\ Kept /\ RetentionOrdered /\ Backend => Kept'
<1> SUFFICES ASSUME Core, Kept, RetentionOrdered, Backend PROVE Kept'
  OBVIOUS
<1>0. /\ TypeOK /\ Locks
      /\ Rows /\ Clock /\ PurgeCovers /\ OpenReadable /\ ScoredOnText /\ SnapshotsPurged
  BY DEF Core, Kept
<1>1. CASE \E q \in Requests, day \in 0..MaxDay : WritePending(q, day)
  <2>1. PICK q \in Requests, day \in 0..MaxDay : WritePending(q, day)
    BY <1>1
  <2>2. /\ text'[q] # "none"
        /\ text[q] = "none" => text'[q] = "kept"
        /\ \A r \in Requests :
              text[r] # "none" \/ r # q => text'[r] = text[r] /\ born'[r] = born[r]
    BY <1>0, <2>1, WritePendingWrites
  <2>3. UNCHANGED <<today, judged, lock, purging>>
    BY <2>1 DEF WritePending
  <2>4. CASE status[q] = "none" /\ Intent[q] # "none" /\ Intent[q] \in Strata
             /\ NewItem(q, Intent[q])
    <3>1. text[q] = "none"
      BY <1>0, <2>4 DEF Rows
    <3>2. q \notin erasing
      BY <1>0, <3>1 DEF PurgeCovers
    <3> QED
      BY <2>2, <2>3, <2>4, <3>1, <3>2, KeptQueues
  <2>5. CASE UNCHANGED queue /\ (Intent[q] = "none" \/ status[q] # "none")
    <3>1. Rows'
      BY <1>0, <2>2, <2>5 DEF Rows, queue
    <3>2. OpenReadable'
      BY <1>0, <2>2, <2>5 DEF OpenReadable, queue
    <3>3. PurgeCovers'
      BY <1>0, <2>2, <2>3, <2>5 DEF PurgeCovers, queue, purging, Older
    <3> QED
      BY <1>0, <2>3, <2>5, <3>1, <3>2, <3>3
      DEF Kept, Clock, ScoredOnText, SnapshotsPurged, Older, queue, purging
  <2>6. \/ UNCHANGED queue /\ (Intent[q] = "none" \/ status[q] # "none")
        \/ status[q] = "none" /\ Intent[q] # "none" /\ NewItem(q, Intent[q])
    BY <2>1 DEF WritePending, Enqueue
  <2>7. Intent[q] # "none" => Intent[q] \in Strata
    BY QueueAssumption DEF Strata
  <2> QED
    BY <2>4, <2>5, <2>6, <2>7
<1>2. CASE \E q \in Requests : Report(q)
  <2>1. PICK q \in Requests : Report(q)
    BY <1>2
  <2>2. /\ UNCHANGED <<today, predictions, judged, lock, purging>>
        /\ status[q] = "none"
        /\ text[q] = "kept"
        /\ today <= born[q] + FeedbackDays + 1
        /\ "user-report" \in Strata
        /\ NewItem(q, "user-report")
    BY <2>1 DEF Report, Admissible, Strata
  <2>3. q \notin erasing
    <3>1. today \in Nat /\ purgeDay \in Nat /\ born[q] \in Nat
          /\ FeedbackDays \in Nat /\ TextDays \in Nat
      BY <1>0, QueueAssumption DEF TypeOK
    <3>2. purgeDay <= born[q] + TextDays
      BY <1>0, <2>2, <3>1 DEF Clock, RetentionOrdered
    <3>3. ~Older(born[q], purgeDay, TextDays)
      BY <3>1, <3>2 DEF Older
    <3> QED
      BY <1>0, <3>3 DEF PurgeCovers
  <2>4. \A r \in Requests : text'[r] = text[r] /\ born'[r] = born[r]
    BY <2>2 DEF predictions
  <2> QED
    BY <2>2, <2>3, <2>4, KeptQueues
<1> QED
  BY <1>1, <1>2 DEF Backend

\* Who neither opens a review nor is the purge cannot disturb it.
LEMMA KeptByOthers ==
    ASSUME Core, Kept, Locks',
           UNCHANGED <<today, predictions, snapshot, queued, purging>>,
           \A r \in Requests :
               /\ status'[r] = "none" <=> status[r] = "none"
               /\ status'[r] \in Open => status[r] \in Open
               /\ lock'[r] = Purger <=> lock[r] = Purger,
           \A r \in Requests : scored'[r] # "blank"
    PROVE  Kept'
<1>0. Rows /\ Clock /\ PurgeCovers /\ OpenReadable /\ SnapshotsPurged
  BY DEF Kept
<1>1. Rows' /\ Clock' /\ OpenReadable' /\ ScoredOnText' /\ SnapshotsPurged'
  BY <1>0 DEF Rows, Clock, OpenReadable, ScoredOnText, SnapshotsPurged, Older,
              predictions, purging
<1>2. PurgeCovers'
  BY <1>0 DEF PurgeCovers, Older, predictions, purging
<1> QED
  BY <1>1, <1>2 DEF Kept

LEMMA KeptSubmit ==
    ASSUME Core, Kept, NEW p \in Reviewers, Submit(p) PROVE Kept'
<1>0. TypeOK /\ Locks /\ PurgeCovers /\ ScoredOnText /\ Locks'
      /\ p \in Workers /\ p # Purger /\ Nobody # Purger
  BY CoreSubmit, QueueAssumption DEF Core, Kept, Workers
<1>1. UNCHANGED <<today, predictions, snapshot, queued, scored, purging>>
  BY DEF Submit, SubmitLocks, SubmitClaims, SubmitRollsBack, queue
<1>2. \A r \in Requests :
          /\ status'[r] = "none" <=> status[r] = "none"
          /\ status'[r] \in Open => status[r] \in Open
          /\ lock'[r] = Purger <=> lock[r] = Purger
  <2>1. CASE \E q \in Requests : SubmitLocks(p, q)
    BY <1>0, <2>1 DEF SubmitLocks, queue, TypeOK
  <2>2. CASE \E q \in Requests : SubmitClaims(p, q)
    <3>1. PICK q \in Requests : SubmitClaims(p, q)
      BY <2>2
    <3>2. lock[q] = p /\ status' = [status EXCEPT ![q] = "reviewed"] /\ Release(p)
      BY <3>1 DEF SubmitClaims
    <3>3. status[q] # "none"
      BY <1>0, <3>2, QueueAssumption DEF Locks, Workers
    <3>4. \A r \in Requests : lock'[r] = Purger <=> lock[r] = Purger
      BY <1>0, <3>2 DEF Release
    <3>5. \A r \in Requests : status'[r] = IF r = q THEN "reviewed" ELSE status[r]
      BY <1>0, <3>2 DEF TypeOK
    <3> QED
      BY <3>3, <3>4, <3>5 DEF Open
  <2>3. CASE SubmitRollsBack(p)
    BY <1>0, <2>3 DEF SubmitRollsBack, Release, queue
  <2> QED
    BY <2>1, <2>2, <2>3 DEF Submit
<1> QED
  BY <1>0, <1>1, <1>2, KeptByOthers DEF ScoredOnText

LEMMA KeptDrainOnce ==
    ASSUME Core, Kept, NEW w \in Rescorers, DrainOnce(w) PROVE Kept'
<1>0. TypeOK /\ Locks /\ OpenReadable /\ ScoredOnText /\ Locks'
      /\ w \in Workers /\ w # Purger /\ Nobody # Purger
  BY CoreDrainOnce, QueueAssumption DEF Core, Kept, Workers
<1>1. UNCHANGED <<today, predictions, snapshot, queued, purging>>
  BY DEF DrainOnce, RescorerClaims, RescorerCommits, RescorerDies, queue
<1>2. CASE RescorerClaims(w)
  <2>1. PICK rows \in SUBSET Claimable :
            lock' = [r \in Requests |-> IF r \in rows THEN w ELSE lock[r]]
    BY <1>2 DEF RescorerClaims
  <2>2. UNCHANGED queue
    BY <1>2 DEF RescorerClaims
  <2>3. \A r \in Requests : lock'[r] = Purger <=> lock[r] = Purger
    BY <1>0, <2>1 DEF Claimable
  <2> QED
    BY <1>0, <1>1, <2>2, <2>3, KeptByOthers DEF ScoredOnText, queue
<1>3. CASE RescorerCommits(w)
  <2> DEFINE done == { r \in Held(w) : status[r] = "pending" }
  <2>1. /\ status' = [r \in Requests |-> IF r \in done THEN "rescored" ELSE status[r]]
        /\ scored' = [r \in Requests |->
                        IF r \notin done THEN scored[r]
                        ELSE IF snapshot[r] = "kept" THEN "text" ELSE "blank"]
        /\ Release(w)
    BY <1>3 DEF RescorerCommits
  <2>2. \A r \in Requests : scored'[r] # "blank"
    BY <1>0, <2>1 DEF OpenReadable, ScoredOnText, Open
  <2>3. \A r \in Requests :
            /\ status'[r] = "none" <=> status[r] = "none"
            /\ status'[r] \in Open => status[r] \in Open
    BY <2>1 DEF Open
  <2>4. \A r \in Requests : lock'[r] = Purger <=> lock[r] = Purger
    BY <1>0, <2>1 DEF Release
  <2> QED
    BY <1>0, <1>1, <2>2, <2>3, <2>4, KeptByOthers
<1>4. CASE RescorerDies(w)
  <2>1. UNCHANGED queue /\ \A r \in Requests : lock'[r] = Purger <=> lock[r] = Purger
    BY <1>0, <1>4 DEF RescorerDies, Release
  <2> QED
    BY <1>0, <1>1, <2>1, KeptByOthers DEF ScoredOnText, queue
<1> QED
  BY <1>2, <1>3, <1>4 DEF DrainOnce

LEMMA KeptPurge == Core /\ Kept /\ RetentionOrdered /\ Purge => Kept'
<1> SUFFICES ASSUME Core, Kept, RetentionOrdered, Purge PROVE Kept'
  OBVIOUS
<1>0. /\ TypeOK /\ Locks /\ Purger # Nobody
      /\ Rows /\ Clock /\ PurgeCovers /\ OpenReadable /\ ScoredOnText /\ SnapshotsPurged
  BY QueueAssumption DEF Core, Kept, Workers
<1>1. CASE PurgeExpires
  <2>1. /\ UNCHANGED <<today, predictions, queue, erasing, purged>>
        /\ purge = "idle" /\ purge' = "expired" /\ purgeDay' = today
        /\ lock' = [r \in Requests |-> IF r \in Expiring THEN Purger ELSE lock[r]]
    BY <1>1 DEF PurgeExpires
  <2>2. erasing = {}
    BY <1>0, <2>1 DEF PurgeCovers, TypeOK
  <2>3. PurgeCovers'
    BY <1>0, <2>1, <2>2 DEF PurgeCovers, Expiring, Older, queue
  <2>4. Clock'
    BY <1>0, <2>1 DEF Clock, TypeOK
  <2> QED
    BY <1>0, <2>1, <2>3, <2>4
    DEF Kept, Rows, OpenReadable, ScoredOnText, SnapshotsPurged, Older, queue, predictions
<1>2. CASE PurgeNulls
  <2>1. /\ UNCHANGED <<today, predictions, queue, lock, purgeDay, purged>>
        /\ purge = "expired" /\ purge' = "nulled"
        /\ \A r \in erasing' : /\ text[r] = "kept"
                               /\ Older(born[r], purgeDay, TextDays)
                               /\ r \in Requests
                               /\ status[r] \in Open => lock[r] = Purger
    BY <1>2 DEF PurgeNulls, StillOpen, Held
  <2>2. PurgeCovers'
    BY <1>0, <2>1 DEF PurgeCovers, Older, queue, predictions
  <2> QED
    BY <1>0, <2>1, <2>2
    DEF Kept, Rows, Clock, OpenReadable, ScoredOnText, SnapshotsPurged, Older,
        queue, predictions
<1>3. CASE PurgeCommits
  <2>1. /\ purge = "nulled"
        /\ status' = [r \in Requests |-> IF lock[r] = Purger THEN "expired" ELSE status[r]]
        /\ text' = [r \in Requests |-> IF r \in erasing THEN "null" ELSE text[r]]
        /\ snapshot' = [r \in Requests |->
                          IF r \in StaleSnapshots THEN "null" ELSE snapshot[r]]
        /\ Release(Purger)
        /\ purge' = "idle" /\ erasing' = {} /\ purged' = purgeDay
        /\ UNCHANGED <<today, born, source, queued, scored, judged, purgeDay>>
    BY <1>3 DEF PurgeCommits
  <2>2. Rows'
    BY <1>0, <2>1 DEF Rows, Locks, PurgeCovers, Open
  <2>3. Clock' /\ ScoredOnText'
    BY <1>0, <2>1 DEF Clock, ScoredOnText
  <2>4. PurgeCovers'
    BY <1>0, <2>1 DEF PurgeCovers, Release
  <2>5. OpenReadable'
    <3> SUFFICES ASSUME NEW r \in Requests, status'[r] \in Open
                 PROVE  snapshot'[r] = "kept" /\ text'[r] = "kept"
      BY DEF OpenReadable
    <3>1. lock[r] # Purger /\ status[r] \in Open
      BY <2>1 DEF Open
    <3>2. r \notin erasing
      BY <1>0, <3>1 DEF PurgeCovers
    <3>3. ~Older(queued[r], purgeDay, TtlDays)
      BY <1>0, <2>1, <3>1 DEF PurgeCovers
    <3>4. queued[r] \in Nat /\ purgeDay \in Nat /\ TtlDays \in Nat /\ SnapshotDays \in Nat
      BY <1>0, QueueAssumption DEF TypeOK
    <3>5. ~Older(queued[r], purgeDay, SnapshotDays)
      BY <3>3, <3>4 DEF RetentionOrdered, Older
    <3>6. r \notin StaleSnapshots
      BY <3>5 DEF StaleSnapshots
    <3> QED
      BY <1>0, <2>1, <3>1, <3>2, <3>6 DEF OpenReadable
  <2>6. SnapshotsPurged'
    BY <1>0, <2>1 DEF SnapshotsPurged, StaleSnapshots, Older, TypeOK
  <2> QED
    BY <2>2, <2>3, <2>4, <2>5, <2>6 DEF Kept
<1>4. CASE PurgeDies
  <2>1. /\ UNCHANGED <<today, predictions, queue, purgeDay, purged>>
        /\ purge' = "idle" /\ erasing' = {} /\ Release(Purger)
    BY <1>4 DEF PurgeDies
  <2>2. PurgeCovers'
    BY <1>0, <2>1 DEF PurgeCovers, Release
  <2> QED
    BY <1>0, <2>1, <2>2
    DEF Kept, Rows, Clock, OpenReadable, ScoredOnText, SnapshotsPurged, Older,
        queue, predictions
<1> QED
  BY <1>1, <1>2, <1>3, <1>4 DEF Purge

LEMMA KeptDayPasses == Core /\ Kept /\ DayPasses => Kept'
<1> SUFFICES ASSUME Core, Kept, DayPasses PROVE Kept'
  OBVIOUS
<1>1. Clock'
  BY DEF Core, TypeOK, Kept, Clock, DayPasses, purging
<1> QED
  BY <1>1 DEF Kept, DayPasses, Rows, PurgeCovers, OpenReadable, ScoredOnText,
              SnapshotsPurged, Older, predictions, queue, purging

LEMMA KeptNext ==
    ASSUME RetentionOrdered
    PROVE  Core /\ Kept /\ [Next]_vars => Kept'
<1> SUFFICES ASSUME Core, Kept, [Next]_vars PROVE Kept'
  OBVIOUS
<1>1. CASE UNCHANGED vars
  BY <1>1 DEF vars, Kept, Rows, Clock, PurgeCovers, OpenReadable, ScoredOnText,
              SnapshotsPurged, Older, predictions, queue, purging
<1> QED
  BY <1>1, KeptBackend, KeptSubmit, KeptDrainOnce, KeptPurge, KeptDayPasses DEF Next

\* However purge, enqueue, report and re-scorer interleave, an open review
\* keeps its text, when the settings are in the order of their defaults.
THEOREM OpenReadableCorrect ==
    ASSUME RetentionOrdered
    PROVE  Spec => []OpenReadable
<1>1. Core /\ Kept /\ [Next]_vars => Core' /\ Kept'
  BY CoreNext, KeptNext
<1>2. Kept => OpenReadable
  BY DEF Kept
<1> QED
  BY CoreInit, KeptInit, <1>1, <1>2, PTL DEF Spec

\* Under the same settings the challenger is never given an empty text.
THEOREM ScoredOnTextCorrect ==
    ASSUME RetentionOrdered
    PROVE  Spec => []ScoredOnText
<1>1. Core /\ Kept /\ [Next]_vars => Core' /\ Kept'
  BY CoreNext, KeptNext
<1>2. Kept => ScoredOnText
  BY DEF Kept
<1> QED
  BY CoreInit, KeptInit, <1>1, <1>2, PTL DEF Spec

-----------------------------------------------------------------------------
(* The purge and the snapshots                                             *)

LEMMA ClockNext == Core /\ Clock /\ [Next]_vars => Clock'
<1> SUFFICES ASSUME Core, Clock, [Next]_vars PROVE Clock'
  OBVIOUS
<1>0. today \in Nat /\ purgeDay \in Nat /\ purged \in Nat
  BY QueueAssumption DEF Core, TypeOK
<1>1. CASE PurgeExpires \/ PurgeNulls \/ PurgeCommits \/ PurgeDies
  BY <1>0, <1>1 DEF Clock, PurgeExpires, PurgeNulls, PurgeCommits, PurgeDies
<1>2. CASE DayPasses
  BY <1>0, <1>2 DEF Clock, DayPasses, purging
<1>3. CASE UNCHANGED <<today, purging>>
  BY <1>3 DEF Clock, purging
<1>4. Backend => UNCHANGED <<today, purging>>
  BY DEF Backend, WritePending, Report
<1>5. \A p \in Reviewers : Submit(p) => UNCHANGED <<today, purging>>
  BY DEF Submit, SubmitLocks, SubmitClaims, SubmitRollsBack
<1>6. \A w \in Rescorers : DrainOnce(w) => UNCHANGED <<today, purging>>
  BY DEF DrainOnce, RescorerClaims, RescorerCommits, RescorerDies
<1> QED
  BY <1>1, <1>2, <1>3, <1>4, <1>5, <1>6 DEF Next, Purge, vars

\* A snapshot that was taken is taken today, and the purge takes the old ones.
LEMMA SnapshotsNext ==
    Core /\ Clock /\ SnapshotsPurged /\ [Next]_vars => SnapshotsPurged'
<1> SUFFICES ASSUME Core, Clock, SnapshotsPurged, [Next]_vars PROVE SnapshotsPurged'
  OBVIOUS
<1>0. /\ TypeOK
      /\ today \in Nat /\ purgeDay \in Nat /\ purged \in Nat /\ SnapshotDays \in Nat
  BY QueueAssumption DEF Core, TypeOK
<1>1. CASE UNCHANGED <<snapshot, queued, purged>>
  BY <1>1 DEF SnapshotsPurged, Older
<1>2. ASSUME NEW q \in Requests, NEW s \in Strata, NewItem(q, s), UNCHANGED purging
      PROVE  SnapshotsPurged'
  <2>1. \A r \in Requests :
            \/ queued'[r] = today
            \/ snapshot'[r] = snapshot[r] /\ queued'[r] = queued[r]
    BY <1>0, <1>2, NewItemEffect
  <2>2. ~Older(today, purged, SnapshotDays)
    BY <1>0 DEF Clock, Older
  <2> QED
    BY <1>2, <2>1, <2>2 DEF SnapshotsPurged, Older, purging
<1>3. CASE Backend
  <2>1. CASE \E q \in Requests, day \in 0..MaxDay : WritePending(q, day)
    <3>1. PICK q \in Requests, day \in 0..MaxDay : WritePending(q, day)
      BY <2>1
    <3>2. UNCHANGED purging
      BY <3>1 DEF WritePending
    <3>3. CASE UNCHANGED queue
      BY <1>1, <3>2, <3>3 DEF queue, purging
    <3> QED
      BY <1>0, <1>2, <3>1, <3>2, <3>3, WritePendingQueues
  <2>2. CASE \E q \in Requests : Report(q)
    BY <1>2, <2>2 DEF Report, Strata
  <2> QED
    BY <1>3, <2>1, <2>2 DEF Backend
<1>4. ASSUME NEW p \in Reviewers, Submit(p) PROVE UNCHANGED <<snapshot, queued, purged>>
  BY <1>4 DEF Submit, SubmitLocks, SubmitClaims, SubmitRollsBack, queue, purging
<1>5. ASSUME NEW w \in Rescorers, DrainOnce(w) PROVE UNCHANGED <<snapshot, queued, purged>>
  BY <1>5 DEF DrainOnce, RescorerClaims, RescorerCommits, RescorerDies, queue, purging
<1>6. CASE Purge
  <2>1. CASE PurgeCommits
    <3>1. \A r \in Requests :
              snapshot'[r] = IF r \in StaleSnapshots THEN "null" ELSE snapshot[r]
      BY <2>1 DEF PurgeCommits
    <3>2. UNCHANGED queued /\ purged' = purgeDay
      BY <2>1 DEF PurgeCommits
    <3> QED
      BY <3>1, <3>2 DEF SnapshotsPurged, StaleSnapshots, Older
  <2>2. CASE PurgeExpires \/ PurgeNulls \/ PurgeDies
    BY <1>1, <2>2 DEF PurgeExpires, PurgeNulls, PurgeDies, queue
  <2> QED
    BY <1>6, <2>1, <2>2 DEF Purge
<1>7. CASE DayPasses
  BY <1>1, <1>7 DEF DayPasses, queue, purging
<1>8. CASE UNCHANGED vars
  BY <1>1, <1>8 DEF vars, queue, purging
<1> QED
  BY <1>1, <1>3, <1>4, <1>5, <1>6, <1>7, <1>8 DEF Next

\* For any settings: after a purge no snapshot is left that was older than
\* the policy when it began, whatever is queued, judged or scored beside it.
THEOREM SnapshotsPurgedCorrect == Spec => []SnapshotsPurged
<1>1. Init => Clock /\ SnapshotsPurged
  BY DEF Init, Clock, SnapshotsPurged
<1> QED
  BY <1>1, CoreInit, CoreNext, ClockNext, SnapshotsNext, PTL DEF Spec

-----------------------------------------------------------------------------
(* The strata                                                              *)

\* What is not queued was drawn in no stratum.
Undrawn == \A r \in Requests : status[r] = "none" => source[r] = "none"

LEMMA UndrawnNext ==
    ASSUME Core, Undrawn, [Next]_vars
    PROVE  /\ Undrawn'
           /\ \A r \in Requests : source[r] # "none" => source'[r] = source[r]
<1>0. TypeOK /\ Locks
  BY DEF Core
<1>1. ASSUME NEW q \in Requests, NEW s \in Strata, status[q] = "none", NewItem(q, s)
      PROVE  /\ Undrawn'
             /\ \A r \in Requests : source[r] # "none" => source'[r] = source[r]
  BY <1>0, <1>1, NewItemEffect DEF Undrawn
<1>2. ASSUME UNCHANGED source,
             \A r \in Requests : status'[r] = "none" => status[r] = "none"
      PROVE  /\ Undrawn'
             /\ \A r \in Requests : source[r] # "none" => source'[r] = source[r]
  BY <1>2 DEF Undrawn
<1>3. CASE \E q \in Requests, day \in 0..MaxDay : WritePending(q, day)
  <2>1. PICK q \in Requests, day \in 0..MaxDay : WritePending(q, day)
    BY <1>3
  <2>2. CASE UNCHANGED queue
    BY <1>2, <2>2 DEF queue
  <2> QED
    BY <1>0, <1>1, <2>1, <2>2, WritePendingQueues
<1>4. CASE \E q \in Requests : Report(q)
  BY <1>1, <1>4 DEF Report, Admissible, Strata
<1>5. ASSUME NEW p \in Reviewers, Submit(p)
      PROVE  UNCHANGED source /\ \A r \in Requests : status'[r] = "none" => status[r] = "none"
  BY <1>0, <1>5 DEF Submit, SubmitLocks, SubmitClaims, SubmitRollsBack, queue, TypeOK
<1>6. ASSUME NEW w \in Rescorers, DrainOnce(w)
      PROVE  UNCHANGED source /\ \A r \in Requests : status'[r] = "none" => status[r] = "none"
  BY <1>6 DEF DrainOnce, RescorerClaims, RescorerCommits, RescorerDies, queue
<1>7. CASE Purge
  BY <1>2, <1>7 DEF Purge, PurgeExpires, PurgeNulls, PurgeCommits, PurgeDies, queue
<1>8. CASE DayPasses \/ UNCHANGED vars
  BY <1>2, <1>8 DEF DayPasses, vars, queue
<1> QED
  BY <1>2, <1>3, <1>4, <1>5, <1>6, <1>7, <1>8 DEF Next, Backend

\* For any programs and settings: the stratum an item was drawn in is never
\* rewritten, by a replayed write, a report of a drawn item or anything else.
THEOREM StratumFixedCorrect == Spec => StratumFixed
<1>1. Init => Undrawn
  BY DEF Init, Undrawn
<1>2. Core /\ Undrawn /\ [Next]_vars => Undrawn'
  BY UndrawnNext
<1>3. Core /\ Undrawn /\ [Next]_vars
          => [\A r \in Requests : source[r] # "none" => source'[r] = source[r]]_vars
  BY UndrawnNext
<1> QED
  BY <1>1, <1>2, <1>3, CoreInit, CoreNext, PTL DEF Spec, StratumFixed

\* A prediction that was drawn and is there has its item already, so that a report
\* of it finds one; the purge erases no text that is not there.
DrawnQueued ==
    \A r \in Requests :
        /\ text[r] # "none" /\ Intent[r] # "none" => status[r] # "none"
        /\ r \in erasing => text[r] # "none"

LEMMA DrawnBackend ==
    ASSUME Core, DrawnQueued, StrataAsDrawn, Backend
    PROVE  DrawnQueued' /\ StrataAsDrawn'
<1>0. TypeOK
  BY DEF Core
<1>1. ASSUME NEW q \in Requests, NEW s \in Strata, NewItem(q, s),
             s = IF Intent[q] = "none" THEN "user-report" ELSE Intent[q],
             \A r \in Requests : /\ r # q => (text'[r] = "none" <=> text[r] = "none")
                                 /\ text[r] # "none" => text'[r] # "none",
             UNCHANGED erasing
      PROVE  DrawnQueued' /\ StrataAsDrawn'
  <2>1. /\ status'[q] = "pending"
        /\ source'[q] = s
        /\ \A r \in Requests : r # q => status'[r] = status[r] /\ source'[r] = source[r]
    BY <1>0, <1>1 DEF NewItem, TypeOK
  <2>2. DrawnQueued'
    BY <1>1, <2>1 DEF DrawnQueued
  <2>3. StrataAsDrawn'
    BY <1>1, <2>1 DEF StrataAsDrawn
  <2> QED
    BY <2>2, <2>3
<1>2. CASE \E q \in Requests, day \in 0..MaxDay : WritePending(q, day)
  <2>1. PICK q \in Requests, day \in 0..MaxDay : WritePending(q, day)
    BY <1>2
  <2>2. /\ \A r \in Requests : /\ r # q => (text'[r] = "none" <=> text[r] = "none")
                               /\ text[r] # "none" => text'[r] # "none"
        /\ UNCHANGED erasing
    BY <1>0, <2>1, WritePendingWrites DEF WritePending, purging
  <2>3. CASE Intent[q] # "none" /\ status[q] = "none"
    <3>1. NewItem(q, Intent[q])
      BY <2>1, <2>3 DEF WritePending, Enqueue
    <3>2. Intent[q] \in Strata
      BY <2>3, QueueAssumption DEF Strata
    <3> QED
      BY <1>1, <2>2, <2>3, <3>1, <3>2
  <2>4. CASE ~(Intent[q] # "none" /\ status[q] = "none")
    <3>1. UNCHANGED queue
      BY <2>1, <2>4 DEF WritePending, Enqueue
    <3>2. UNCHANGED <<status, source>>
      BY <3>1 DEF queue
    <3>3. DrawnQueued'
      BY <2>2, <2>4, <3>2 DEF DrawnQueued
    <3>4. StrataAsDrawn'
      BY <3>2 DEF StrataAsDrawn
    <3> QED
      BY <3>3, <3>4
  <2> QED
    BY <2>3, <2>4
<1>3. CASE \E q \in Requests : Report(q)
  <2>1. PICK q \in Requests : Report(q)
    BY <1>3
  <2>2. /\ status[q] = "none" /\ text[q] = "kept" /\ NewItem(q, "user-report")
        /\ UNCHANGED <<text, erasing>>
    BY <2>1 DEF Report, Admissible, predictions, purging
  <2>3. Intent[q] = "none"
    BY <2>2 DEF DrawnQueued
  <2>4. "user-report" \in Strata
    BY DEF Strata
  <2> QED
    BY <1>1, <2>2, <2>3, <2>4
<1> QED
  BY <1>2, <1>3 DEF Backend

LEMMA DrawnNext ==
    ASSUME Core, DrawnQueued, StrataAsDrawn, [Next]_vars
    PROVE  DrawnQueued' /\ StrataAsDrawn'
<1>0. TypeOK /\ Locks /\ Nobody \notin Workers
  BY QueueAssumption DEF Core
<1>1. ASSUME UNCHANGED source,
             \A r \in Requests : /\ status'[r] = "none" <=> status[r] = "none"
                                 /\ text'[r] = "none" <=> text[r] = "none"
                                 /\ r \in erasing' => text[r] # "none"
      PROVE  DrawnQueued' /\ StrataAsDrawn'
  <2>1. DrawnQueued'
    BY <1>1 DEF DrawnQueued
  <2>2. StrataAsDrawn'
    BY <1>1 DEF StrataAsDrawn
  <2> QED
    BY <2>1, <2>2
<1>2. \A r \in Requests : r \in erasing => text[r] # "none"
  BY DEF DrawnQueued
<1>3. ASSUME NEW p \in Reviewers, Submit(p)
      PROVE  DrawnQueued' /\ StrataAsDrawn'
  <2>1. UNCHANGED <<text, source, erasing>>
    BY <1>3 DEF Submit, SubmitLocks, SubmitClaims, SubmitRollsBack,
                predictions, queue, purging
  <2>2. \A r \in Requests : status'[r] = "none" <=> status[r] = "none"
    <3>1. CASE \E q \in Requests : SubmitClaims(p, q)
      <4>1. PICK q \in Requests : SubmitClaims(p, q)
        BY <3>1
      <4>2. lock[q] = p /\ status' = [status EXCEPT ![q] = "reviewed"]
        BY <4>1 DEF SubmitClaims
      <4>3. status[q] # "none"
        BY <1>0, <4>2 DEF Locks, Workers
      <4> QED
        BY <1>0, <4>2, <4>3 DEF TypeOK
    <3>2. CASE (\E q \in Requests : SubmitLocks(p, q)) \/ SubmitRollsBack(p)
      BY <3>2 DEF SubmitLocks, SubmitRollsBack, queue
    <3> QED
      BY <1>3, <3>1, <3>2 DEF Submit
  <2> QED
    BY <1>1, <1>2, <2>1, <2>2
<1>4. ASSUME NEW w \in Rescorers, DrainOnce(w)
      PROVE  DrawnQueued' /\ StrataAsDrawn'
  <2>1. UNCHANGED <<text, source, erasing>>
    BY <1>4 DEF DrainOnce, RescorerClaims, RescorerCommits, RescorerDies,
                predictions, queue, purging
  <2>2. \A r \in Requests : status'[r] = "none" <=> status[r] = "none"
    BY <1>4 DEF DrainOnce, RescorerClaims, RescorerCommits, RescorerDies, queue
  <2> QED
    BY <1>1, <1>2, <2>1, <2>2
<1>5. CASE PurgeCommits
  <2>1. /\ status' = [r \in Requests |-> IF lock[r] = Purger THEN "expired" ELSE status[r]]
        /\ text' = [r \in Requests |-> IF r \in erasing THEN "null" ELSE text[r]]
        /\ erasing' = {}
        /\ UNCHANGED source
    BY <1>5 DEF PurgeCommits
  <2>2. \A r \in Requests : status'[r] = "none" <=> status[r] = "none"
    BY <1>0, <2>1 DEF Locks, Workers
  <2>3. \A r \in Requests : text'[r] = "none" <=> text[r] = "none"
    BY <1>2, <2>1
  <2> QED
    BY <1>1, <2>1, <2>2, <2>3
<1>6. CASE PurgeExpires \/ PurgeNulls \/ PurgeDies
  <2>1. UNCHANGED <<text, status, source>>
    BY <1>6 DEF PurgeExpires, PurgeNulls, PurgeDies, predictions, queue
  <2>2. \A r \in Requests : r \in erasing' => text[r] # "none"
    BY <1>2, <1>6 DEF PurgeExpires, PurgeNulls, PurgeDies
  <2> QED
    BY <1>1, <2>1, <2>2
<1>7. CASE DayPasses \/ UNCHANGED vars
  BY <1>1, <1>2, <1>7 DEF DayPasses, vars, predictions, queue, purging
<1> QED
  BY <1>3, <1>4, <1>5, <1>6, <1>7, DrawnBackend DEF Next, Purge

\* For any programs and settings: an item is in the stratum its prediction was
\* drawn in, and a report never gets in before the draw is on record.
THEOREM StrataAsDrawnCorrect == Spec => []StrataAsDrawn
<1>1. Init => DrawnQueued /\ StrataAsDrawn
  BY DEF Init, DrawnQueued, StrataAsDrawn
<1>2. Core /\ DrawnQueued /\ StrataAsDrawn /\ [Next]_vars => DrawnQueued' /\ StrataAsDrawn'
  BY DrawnNext
<1> QED
  BY <1>1, <1>2, CoreInit, CoreNext, PTL DEF Spec
=============================================================================
