---------------------------- MODULE UserFeedback ----------------------------
(***************************************************************************)
(* A visitor's verdict on a prediction (backend/review_api.py:279-316 over *)
(* backend/queue_guard.py), beside the review queue it may refer to.       *)
(*                                                                         *)
(* A verdict is two transactions: the first counts, inserts the feedback   *)
(* row and commits; the second, for a disagreement, counts again and       *)
(* inserts the review.  Neither takes a lock before it inserts, so any     *)
(* number of clicks may have read the same counts.  The two inserts are    *)
(* decided by unique indexes: feedback_one_user_row and the primary key    *)
(* of review_queue.                                                        *)
(*                                                                         *)
(* Every cap counts rows inside a window; the windows of an hour and of a  *)
(* day are both "the same day" on ReviewQueue's clock.                     *)
(***************************************************************************)
EXTENDS ReviewQueue

CONSTANTS
    Clicks,        \* requests to /feedback/user the backend serves at once
    Senders,       \* submitter fingerprints
    Anonymous,     \* a prediction without one
    Sender,        \* whose prediction each request is
    MaxVotes,      \* max_user_feedback_per_source_per_window
    MaxPending,    \* max_pending
    MaxPerSource,  \* max_pending_per_source
    MaxPerWindow   \* max_enqueues_per_source_per_window

Verdicts == {"agree", "disagree"}

ASSUME FeedbackAssumption ==
    /\ IsFiniteSet(Clicks) /\ Clicks # {}
    /\ Anonymous \notin Senders
    /\ Nobody \notin Requests
    /\ Sender \in [Requests -> Senders \union {Anonymous}]
    /\ {MaxVotes, MaxPending, MaxPerSource, MaxPerWindow} \subseteq Nat

VARIABLES
    verdict,   \* of the user row of the feedback table, "none" without one
    votedOn,   \* its ts
    click,     \* where each served request is
    about      \* the request id it names, Nobody when idle

voting == <<verdict, votedOn>>
clicking == <<click, about>>
fvars == <<vars, voting, clicking>>

FTypeOK ==
    /\ TypeOK
    /\ verdict \in [Requests -> {"none"} \union Verdicts]
    /\ votedOn \in [Requests -> 0..MaxDay]
    /\ click \in [Clicks -> {"idle", "insert", "insert and refer", "refer", "enqueue"}]
    /\ about \in [Clicks -> Requests \union {Nobody}]

FInit ==
    /\ Init
    /\ verdict = [r \in Requests |-> "none"]
    /\ votedOn = [r \in Requests |-> 0]
    /\ click = [c \in Clicks |-> "idle"]
    /\ about = [c \in Clicks |-> Nobody]

-----------------------------------------------------------------------------
(* The counts                                                              *)

Inside(day, days) == day + days >= today

VotesOf(s) == { r \in Requests : /\ verdict[r] # "none"
                                 /\ Sender[r] = s
                                 /\ Inside(votedOn[r], FeedbackDays) }

Pending == { r \in Requests : status[r] = "pending" }

PendingOf(s) == { r \in Pending : Sender[r] = s }

QueuedOf(s) == { r \in Requests : /\ status[r] # "none"
                                  /\ Sender[r] = s
                                  /\ Inside(queued[r], 0) }

-----------------------------------------------------------------------------
(* submit_user_feedback                                                    *)

Go(c, where) ==
    /\ click' = [click EXCEPT ![c] = where]
    /\ about' = [about EXCEPT ![c] = IF where = "idle" THEN Nobody ELSE @]

\* Mutant: the quota of verdicts is not asked for.
MayVoteUncounted(r) ==
    /\ text[r] # "none"
    /\ today <= born[r] + FeedbackDays
    /\ verdict[r] = "none"

\* admit_user_feedback: 404, 410, 409, 429 are its four conditions.
MayVote(r) ==
    /\ text[r] # "none"
    /\ today <= born[r] + FeedbackDays
    /\ verdict[r] = "none"
    /\ Sender[r] # Anonymous => Cardinality(VotesOf(Sender[r])) < MaxVotes

Admit(c, r, v) ==
    /\ click[c] = "idle"
    /\ MayVote(r)
    /\ about' = [about EXCEPT ![c] = r]
    /\ click' = [click EXCEPT ![c] = IF v = "disagree" THEN "insert and refer"
                                                            ELSE "insert"]
    /\ UNCHANGED <<vars, voting>>

\* The verdict a click that has been let in is about to insert.
Says(c) == IF click[c] = "insert" THEN "agree" ELSE "disagree"

\* Mutant: ON CONFLICT DO NOTHING, as in the other inserts, and on to the referral.
InsertFeedbackOrNothing(c) ==
    LET r == about[c] IN
    /\ click[c] \in {"insert", "insert and refer"}
    /\ IF verdict[r] = "none"
       THEN /\ verdict' = [verdict EXCEPT ![r] = Says(c)]
            /\ votedOn' = [votedOn EXCEPT ![r] = today]
       ELSE UNCHANGED voting
    /\ Go(c, IF click[c] = "insert" THEN "idle" ELSE "refer")
    /\ UNCHANGED vars

\* insert_feedback and the commit; an agreement is answered here.  The unique
\* index lets the first verdict of a request through, and the others raise.
InsertFeedback(c) ==
    LET r == about[c] IN
    /\ click[c] \in {"insert", "insert and refer"}
    /\ verdict[r] = "none"
    /\ verdict' = [verdict EXCEPT ![r] = Says(c)]
    /\ votedOn' = [votedOn EXCEPT ![r] = today]
    /\ Go(c, IF click[c] = "insert" THEN "idle" ELSE "refer")
    /\ UNCHANGED vars

\* The three caps of admit_review.
HasRoom(r) ==
    /\ Cardinality(Pending) < MaxPending
    /\ Sender[r] # Anonymous =>
        /\ Cardinality(PendingOf(Sender[r])) < MaxPerSource
        /\ Cardinality(QueuedOf(Sender[r])) < MaxPerWindow

Refer(c) ==
    /\ click[c] = "refer"
    /\ Admissible(about[c])
    /\ HasRoom(about[c])
    /\ Go(c, "enqueue")
    /\ UNCHANGED <<vars, voting>>

\* admit_review says "duplicate", "unknown_request", "queue_full" or
\* "source_quota"; submit_user_feedback does not look and answers 200.
ReferralRefused(c) ==
    /\ click[c] = "refer"
    /\ ~(Admissible(about[c]) /\ HasRoom(about[c]))
    /\ Go(c, "idle")
    /\ UNCHANGED <<vars, voting>>

\* Mutant: the source is named as in the feedback table.
InsertReferralMisnamed(c) ==
    LET r == about[c] IN
    /\ click[c] = "enqueue"
    /\ status[r] = "none"
    /\ NewItem(r, "user")
    /\ Go(c, "idle")
    /\ UNCHANGED <<today, predictions, judged, lock, purging, voting>>

InsertReferral(c) ==
    LET r == about[c] IN
    /\ click[c] = "enqueue"
    /\ status[r] = "none"
    /\ NewItem(r, "user-report")
    /\ Go(c, "idle")
    /\ UNCHANGED <<today, predictions, judged, lock, purging, voting>>

\* The unique index refuses the row, the connection is lost, the process is
\* killed: HTTP 500 or no answer; a committed verdict stays.
ClickFails(c) ==
    /\ click[c] # "idle"
    /\ Go(c, "idle")
    /\ UNCHANGED <<vars, voting>>

Click(c) ==
    \/ \E r \in Requests, v \in Verdicts : Admit(c, r, v)
    \/ InsertFeedback(c)
    \/ Refer(c) \/ ReferralRefused(c) \/ InsertReferral(c)
    \/ ClickFails(c)

\* The bound on time: a click is answered before the day after the next.
NoClickIsOld ==
    \A c \in Clicks : click[c] # "idle" => today <= born[about[c]] + FeedbackDays

\* Everything else that writes to the queue.
Others ==
    /\ \/ \E r \in Requests, day \in 0..MaxDay : WritePending(r, day)
       \/ \E p \in Reviewers : Submit(p)
       \/ \E w \in Rescorers : DrainOnce(w)
       \/ Purge
       \/ NoClickIsOld /\ DayPasses
    /\ UNCHANGED <<voting, clicking>>

FNext == (\E c \in Clicks : Click(c)) \/ Others

FSpec == FInit /\ [][FNext]_fvars

-----------------------------------------------------------------------------
(* Properties                                                              *)

\* A visitor's report in the queue stands for a disagreement on record.  Of two
\* clicks on one prediction that both found no verdict, one that agrees and one
\* that does not, a single row is stored: when it is the agreement, the other click
\* must end there, and not refer what it failed to store (backend/review_api.py:
\* 298-315, backend/schema_phase3.py:79-81).
ReferredOnDisagreement ==
    \A r \in Requests :
        status[r] # "none" /\ source[r] = "user-report" => verdict[r] = "disagree"

\* What visitors have reported.
Reports == { r \in Requests : status[r] # "none" /\ source[r] = "user-report" }

\* Clicks that read the same counts exceed a sender's quota of verdicts, and the three
\* caps of the queue in reported items, by less than their number
\* (backend/queue_guard.py:17-20): between a count and its insert other clicks insert,
\* the re-scorer and the purge take items out of the count, and the day ends.
QuotasBounded ==
    LET Respects(S, quota) == Cardinality(S) < quota + Cardinality(Clicks) IN
    /\ Respects(Reports \intersect Pending, MaxPending)
    /\ \A s \in Senders :
        /\ Respects(VotesOf(s), MaxVotes)
        /\ Respects(Reports \intersect PendingOf(s), MaxPerSource)
        /\ Respects(Reports \intersect QueuedOf(s), MaxPerWindow)

\* The composition is still a review queue: what UserFeedback does to the
\* queue is what ReviewQueue allows the backend to do.
QueueSpec == Spec
=============================================================================
