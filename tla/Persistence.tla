---------------------------- MODULE Persistence ----------------------------
(***************************************************************************)
(* How the backend makes one prediction durable (backend/persistence.py,   *)
(* backend/spool.py, the writes of backend/db.py).                         *)
(*                                                                         *)
(* Every request of /predict runs in a thread of the one backend process.  *)
(* It tries the database MaxAttempts times; each attempt is one            *)
(* transaction that inserts the prediction row and, for a flagged or       *)
(* audited request, the review row.  A transaction may fail, and a COMMIT  *)
(* may succeed in the database while the client sees an error.  When every *)
(* attempt failed, the row is appended to a spool file, bounded by         *)
(* MaxRows lines of an in-memory count, and the request is still           *)
(* answered; a full spool answers 503 and logs nothing.                    *)
(*                                                                         *)
(* drain_spool reads the file, writes every row in one transaction and     *)
(* then truncates the file.  Nothing in the repository but its tests calls *)
(* it, so who calls it, and when, is the constant DrainMode; that anybody  *)
(* does is assumed nowhere, and so nothing is said of rows arriving.       *)
(***************************************************************************)
EXTENDS Naturals, Sequences, FiniteSets

CONSTANTS
    Requests,      \* the request ids (uuid4, one per call of /predict)
    Flagged,       \* the requests whose prediction also opens a review
    Poison,        \* requests whose row the database always refuses
    Torn,          \* a line of the spool that does not decode
    Absent,        \* no row in the predictions table
    MaxAttempts,   \* retries + 1 (backend/persistence.py:35, :39)
    MaxRows,       \* SPOOL_MAX_ROWS
    Threads,       \* requests the server runs at once
    Faults,        \* the faults of the environment this instance admits
    DrainMode      \* "never" | "quiesced" | "live"

FaultKinds ==
    { "db",        \* a transaction fails and nothing is written
      "ambiguous", \* COMMIT succeeded, the client sees an error
      "crash",     \* the backend process is killed, and started again
      "tear",      \* a kill in the middle of the spool write
      "io" }       \* the spool write or its fsync raises OSError

\* A row of predictions.  latency numbers the measurement that was stored:
\* attempt k stamps k, the spooled row stamps MaxAttempts + 1.
Rows == [latency : 0..(MaxAttempts + 1), persist : {"direct", "spooled"}]

ASSUME PersistenceAssumption ==
    /\ Flagged \subseteq Requests
    /\ Poison \subseteq Requests
    /\ Torn \notin Requests
    /\ Absent \notin Rows
    /\ MaxAttempts \in Nat \ {0}
    /\ MaxRows \in Nat
    /\ Threads \in Nat \ {0}
    /\ Faults \subseteq FaultKinds
    /\ DrainMode \in {"never", "quiesced", "live"}

VARIABLES
    up,        \* the backend process is running
    pc,        \* where each request is
    attempt,   \* transactions it has begun; also its latency measurement
    db,        \* the predictions table
    review,    \* status of its review_queue row
    file,      \* the lines of the spool file
    open,      \* the last line lacks its newline
    count,     \* Spool._count
    drain,     \* where drain_spool is
    batch,     \* the rows it read
    exposed    \* history: rows appended where they could be lost (see Append)

vars == <<up, pc, attempt, db, review, file, open, count, drain, batch, exposed>>
serving == <<up, pc, attempt>>
spool == <<file, open, count>>
draining == <<drain, batch>>

InFlight == {"try", "full?", "write", "counted?"}
Answered == {"direct", "spooled"}
Ended == Answered \union {"refused", "failed", "dropped"}

TypeOK ==
    /\ up \in BOOLEAN
    /\ pc \in [Requests -> {"new"} \union InFlight \union Ended]
    /\ attempt \in [Requests -> 0..MaxAttempts]
    /\ db \in [Requests -> Rows \union {Absent}]
    /\ review \in [Requests -> {"none", "pending", "reviewed"}]
    /\ file \in Seq(Requests \union {Torn})
    /\ open \in BOOLEAN
    /\ count \in Nat
    /\ drain \in {"idle", "read", "committed", "emptied"}
    /\ batch \subseteq Requests
    /\ exposed \subseteq Requests

Init ==
    /\ up = TRUE
    /\ pc = [r \in Requests |-> "new"]
    /\ attempt = [r \in Requests |-> 0]
    /\ db = [r \in Requests |-> Absent]
    /\ review = [r \in Requests |-> "none"]
    /\ file = <<>>
    /\ open = FALSE
    /\ count = 0
    /\ drain = "idle"
    /\ batch = {}
    /\ exposed = {}

-----------------------------------------------------------------------------
(* The rows                                                                *)

\* Spool.read_all: the lines that decode.
Readable(f) == { f[i] : i \in DOMAIN f } \ {Torn}

\* Mutant: the insert overwrites the row it conflicts with.
InsertedOver(row, latency, persist) == [latency |-> latency, persist |-> persist]

\* Mutant: latency_ms goes in with the insert and is not stamped again.
InsertedUnstamped(row, latency, persist) ==
    IF row = Absent THEN [latency |-> latency, persist |-> persist] ELSE row

\* insert_prediction, ON CONFLICT DO NOTHING, then the UPDATE of latency_ms.
Inserted(row, latency, persist) ==
    IF row = Absent
    THEN [latency |-> latency, persist |-> persist]
    ELSE [row EXCEPT !.latency = latency]

\* Mutant: an upsert, which reopens a review that is already done.
EnqueuedOver(status, r) == IF r \in Flagged THEN "pending" ELSE status

\* enqueue_review, ON CONFLICT DO NOTHING, only when the write carries an intent.
Enqueued(status, r) ==
    IF r \in Flagged /\ status = "none" THEN "pending" ELSE status

\* write_pending for every request of the set rs, in one transaction.
WritePending(rs, latency, persist) ==
    /\ db' = [r \in Requests |->
                IF r \in rs THEN Inserted(db[r], latency, persist) ELSE db[r]]
    /\ review' = [r \in Requests |->
                IF r \in rs THEN Enqueued(review[r], r) ELSE review[r]]

-----------------------------------------------------------------------------
(* persist_prediction: one thread per request                              *)

Running == { r \in Requests : pc[r] \in InFlight }

GoTo(r, where) == pc' = [pc EXCEPT ![r] = where]

Begin(r) ==
    /\ up
    /\ pc[r] = "new"
    /\ Cardinality(Running) < Threads
    /\ GoTo(r, "try")
    /\ attempt' = [attempt EXCEPT ![r] = 1]
    /\ UNCHANGED <<up, db, review, spool, draining, exposed>>

\* The session commits and the caller is answered: persist_status = "direct".
CommitDirect(r) ==
    /\ pc[r] = "try"
    /\ r \notin Poison
    /\ WritePending({r}, attempt[r], "direct")
    /\ GoTo(r, "direct")
    /\ UNCHANGED <<up, attempt, spool, draining, exposed>>

\* Mutant: one transaction more than retries + 1.
RetryOrSpoolOnceMore(r) ==
    IF attempt[r] <= MaxAttempts
    THEN /\ attempt' = [attempt EXCEPT ![r] = @ + 1]
         /\ UNCHANGED pc
    ELSE /\ GoTo(r, "full?")
         /\ UNCHANGED attempt

\* except SQLAlchemyError: the loop goes round, or falls through to the spool.
RetryOrSpool(r) ==
    IF attempt[r] < MaxAttempts
    THEN /\ attempt' = [attempt EXCEPT ![r] = @ + 1]
         /\ UNCHANGED pc
    ELSE /\ GoTo(r, "full?")
         /\ UNCHANGED attempt

AttemptFails(r) ==
    /\ pc[r] = "try"
    /\ "db" \in Faults \/ r \in Poison
    /\ RetryOrSpool(r)
    /\ UNCHANGED <<up, db, review, spool, draining, exposed>>

AttemptCommitsUnheard(r) ==
    /\ pc[r] = "try"
    /\ "ambiguous" \in Faults
    /\ r \notin Poison
    /\ WritePending({r}, attempt[r], "direct")
    /\ RetryOrSpool(r)
    /\ UNCHANGED <<up, spool, draining, exposed>>

-----------------------------------------------------------------------------
(* Spool.append: the check, the write and the count are three steps, with  *)
(* no lock between them and the other threads.                             *)

SpoolIsFull(r) ==
    /\ pc[r] = "full?"
    /\ count >= MaxRows
    /\ GoTo(r, "refused")
    /\ UNCHANGED <<up, attempt, db, review, spool, draining, exposed>>

\* Mutant: the bound is off by one.
SpoolHasRoomAndOne(r) ==
    /\ pc[r] = "full?"
    /\ count <= MaxRows
    /\ GoTo(r, "write")
    /\ UNCHANGED <<up, attempt, db, review, spool, draining, exposed>>

SpoolHasRoom(r) ==
    /\ pc[r] = "full?"
    /\ count < MaxRows
    /\ GoTo(r, "write")
    /\ UNCHANGED <<up, attempt, db, review, spool, draining, exposed>>

\* One line goes to the end of the file.  After a line without a newline it
\* continues that line, and the two decode as neither.
AddLine(line, closed) ==
    /\ file' = IF open THEN [file EXCEPT ![Len(file)] = Torn] ELSE Append(file, line)
    /\ open' = ~closed

AppendLine(r) ==
    /\ pc[r] = "write"
    /\ AddLine(r, TRUE)
    /\ GoTo(r, "counted?")
    /\ exposed' = IF open \/ drain \in {"read", "committed"}
                  THEN exposed \union {r} ELSE exposed
    /\ UNCHANGED <<up, attempt, db, review, count, draining>>

\* What a write that did not finish leaves: a piece of the line, or the line
\* without its newline, or all of it.
AddPiece(r) ==
    \E line \in {r, Torn}, closed \in BOOLEAN :
        /\ closed => line = r
        /\ AddLine(line, closed)

\* OSError from the write, the flush or the fsync: not caught, answered 500.
AppendRaises(r) ==
    /\ pc[r] = "write"
    /\ "io" \in Faults
    /\ AddPiece(r) \/ UNCHANGED <<file, open>>
    /\ GoTo(r, "failed")
    /\ UNCHANGED <<up, attempt, db, review, count, draining, exposed>>

\* self._count += 1, then the caller is answered: persist_status = "spooled".
CountLine(r) ==
    /\ pc[r] = "counted?"
    /\ count' = count + 1
    /\ GoTo(r, "spooled")
    /\ UNCHANGED <<up, attempt, db, review, file, open, draining, exposed>>

-----------------------------------------------------------------------------
(* drain_spool                                                             *)

MayDrain ==
    \/ DrainMode = "live" /\ up
    \/ DrainMode = "quiesced" /\ ~up

\* read_all; with no readable row it returns at once and truncates nothing.
DrainReads ==
    /\ drain = "idle"
    /\ MayDrain
    /\ Readable(file) # {}
    /\ batch' = Readable(file)
    /\ drain' = "read"
    /\ UNCHANGED <<serving, db, review, spool, exposed>>

DrainCommits ==
    /\ drain = "read"
    /\ batch \intersect Poison = {}
    /\ WritePending(batch, MaxAttempts + 1, "spooled")
    /\ drain' = "committed"
    /\ UNCHANGED <<serving, spool, batch, exposed>>

\* The transaction fails as a whole, or commits and the drain does not hear it.
DrainFails ==
    /\ drain = "read"
    /\ \/ /\ "db" \in Faults \/ batch \intersect Poison # {}
          /\ UNCHANGED <<db, review>>
       \/ /\ "ambiguous" \in Faults
          /\ batch \intersect Poison = {}
          /\ WritePending(batch, MaxAttempts + 1, "spooled")
    /\ drain' = "idle"
    /\ batch' = {}
    /\ UNCHANGED <<serving, spool, exposed>>

\* Mutant: the file is truncated as soon as it was read.
TruncateFileEarly ==
    /\ drain = "read"
    /\ file' = <<>>
    /\ open' = FALSE
    /\ UNCHANGED <<serving, db, review, count, drain, batch, exposed>>

\* Spool.truncate: the file first, the count after it.
TruncateFile ==
    /\ drain = "committed"
    /\ file' = <<>>
    /\ open' = FALSE
    /\ drain' = "emptied"
    /\ UNCHANGED <<serving, db, review, count, batch, exposed>>

\* A drain beside the server shares its Spool object; a drain of its own
\* process resets a count nobody else reads.
ResetCount ==
    /\ drain = "emptied"
    /\ count' = IF DrainMode = "live" THEN 0 ELSE count
    /\ drain' = "idle"
    /\ batch' = {}
    /\ UNCHANGED <<serving, db, review, file, open, exposed>>

-----------------------------------------------------------------------------
(* The environment                                                         *)

\* A reviewer finishes the review: what a replay must not undo.
Review(r) ==
    /\ review[r] = "pending"
    /\ review' = [review EXCEPT ![r] = "reviewed"]
    /\ UNCHANGED <<serving, db, spool, draining, exposed>>

\* The process is killed.  Its requests are never answered; a drain it was
\* running dies with it; a write in progress may leave a piece of its line.
Crash ==
    /\ up
    /\ "crash" \in Faults
    /\ up' = FALSE
    /\ pc' = [r \in Requests |-> IF r \in Running THEN "dropped" ELSE pc[r]]
    /\ \/ UNCHANGED <<file, open>>
       \/ /\ "tear" \in Faults
          /\ \E r \in Requests : pc[r] = "write" /\ AddPiece(r)
    /\ drain' = "idle"
    /\ batch' = {}
    /\ UNCHANGED <<attempt, db, review, count, exposed>>

\* A drain of its own process dies.
DrainCrash ==
    /\ ~up
    /\ "crash" \in Faults
    /\ drain # "idle"
    /\ drain' = "idle"
    /\ batch' = {}
    /\ UNCHANGED <<serving, db, review, spool, exposed>>

\* Mutant: a new process starts from an empty count.
RestartUncounted ==
    /\ ~up
    /\ drain = "idle"
    /\ up' = TRUE
    /\ count' = 0
    /\ UNCHANGED <<pc, attempt, db, review, file, open, draining, exposed>>

\* Spool.__init__ counts the lines of the file it finds.
Restart ==
    /\ ~up
    /\ drain = "idle"
    /\ up' = TRUE
    /\ count' = Len(file)
    /\ UNCHANGED <<pc, attempt, db, review, file, open, draining, exposed>>

-----------------------------------------------------------------------------
Serve(r) ==
    \/ Begin(r) \/ CommitDirect(r) \/ AttemptFails(r) \/ AttemptCommitsUnheard(r)
    \/ SpoolIsFull(r) \/ SpoolHasRoom(r) \/ AppendLine(r) \/ AppendRaises(r)
    \/ CountLine(r)

Drain == DrainReads \/ DrainCommits \/ DrainFails \/ TruncateFile \/ ResetCount

Next ==
    \/ \E r \in Requests : Serve(r) \/ Review(r)
    \/ Drain
    \/ Crash \/ DrainCrash \/ Restart

Spec == Init /\ [][Next]_vars

-----------------------------------------------------------------------------
(* Properties                                                              *)

\* A request that was answered has its row in the database or in a line of
\* the spool that decodes, through failed and unheard transactions, kills and
\* restarts of the process and of the drain.  The only rows that can be lost
\* are those appended to an unfinished line, or between a drain's read of the
\* file and its truncation (backend/persistence.py:39-87, backend/spool.py:75-97).
AckedRecoverable ==
    \A r \in Requests :
        pc[r] \in Answered => \/ db[r] # Absent
                              \/ r \in Readable(file)
                              \/ r \in exposed

\* The same with no exception: every answered request is in the database or
\* will be read back by the next drain.
AckedDurable ==
    \A r \in Requests :
        pc[r] \in Answered => db[r] # Absent \/ r \in Readable(file)

\* What an answer says of a row is what the database holds, whichever of the attempts was
\* the one that inserted it (backend/db.py:273-291, persistence.py:47, :59-68): the latency
\* is the one the caller was told, once no spool line is left that would still correct it,
\* and the review the prediction asks for is there if and only if the prediction is.
RowsComplete ==
    \A r \in Requests :
        /\ pc[r] = "direct" => db[r] # Absent /\ db[r].latency = attempt[r]
        /\ pc[r] = "spooled" /\ db[r] # Absent /\ r \notin Readable(file) \union exposed
              => db[r].latency = MaxAttempts + 1
        /\ review[r] # "none" <=> db[r] # Absent /\ r \in Flagged

\* Threads that passed the check of the bound together overshoot it, by no
\* more than their number (backend/spool.py:76-82).
SpoolOvershoot == Len(file) < MaxRows + Threads

\* When /health reports an empty spool there is no row waiting in the file,
\* up to a request that is about to count its own (backend/app.py:378-385).
HealthHonest ==
    /\ up
    /\ count = 0
    /\ \A r \in Requests : pc[r] # "counted?"
    => Readable(file) = {}

\* Neither a retry nor a replay reopens a review a person has finished, and
\* neither rewrites how a row was persisted (ON CONFLICT DO NOTHING).
ReplayChangesNothing ==
    [][\A r \in Requests :
          /\ review[r] = "reviewed" => review'[r] = "reviewed"
          /\ db[r] # Absent => db'[r] # Absent /\ db'[r].persist = db[r].persist]_vars

\* The rows that survive: those in the database and those a drain reads back.
Logged == { r \in Requests : db[r] # Absent } \union Readable(file)

Acked == { r \in Requests : pc[r] \in Answered }

Log == INSTANCE PredictionLog WITH logged <- Logged, acked <- Acked

\* The path implements PredictionLog: what was logged stays logged, and only
\* what is logged is acknowledged (backend/persistence.py:3-8).
LogSpec == Log!Spec
=============================================================================
