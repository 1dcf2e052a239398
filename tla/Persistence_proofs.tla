------------------------ MODULE Persistence_proofs ------------------------
(***************************************************************************)
(* Proofs about Persistence: type correctness, that an answered request is *)
(* recoverable, that a replay changes no recorded row and every stored row *)
(* says what it has to, that the path implements PredictionLog when no     *)
(* write is torn and no drain runs beside the server, and that the spool's *)
(* bound and /health mean what they say while the count is kept.           *)
(***************************************************************************)
EXTENDS Persistence, FiniteSetTheorems, TLAPS

\* An unfinished last line is never that of a request that was, or is about
\* to be, answered: its writer died or got an OSError.
OpenLine ==
    open => /\ file # <<>>
            /\ file[Len(file)] # Torn =>
                  pc[file[Len(file)]] \in {"failed", "dropped"}

\* A request past its append: its line was written and synced.
Appended(r) == pc[r] \in {"counted?", "spooled"}

\* What the drain read, and then committed, covers every appended line it is
\* about to truncate, but for the lines appended since it read.
DrainCovers ==
    \A r \in Requests :
        Appended(r) /\ r \in Readable(file) =>
            /\ drain = "read" => r \in batch \/ r \in exposed
            /\ drain = "committed" => db[r] # Absent \/ r \in exposed

Recoverable ==
    \A r \in Requests :
        /\ pc[r] = "direct" => db[r] # Absent
        /\ Appended(r) => db[r] # Absent \/ r \in Readable(file) \/ r \in exposed

IInv == TypeOK /\ OpenLine /\ DrainCovers /\ Recoverable

Lines == Requests \union {Torn}

-----------------------------------------------------------------------------
(* The spool file                                                          *)

\* Readable only holds requests, and appending a line adds at most that line.
LEMMA ReadableType ==
    ASSUME NEW f \in Seq(Lines)
    PROVE  Readable(f) \subseteq Requests
BY DEF Readable, Lines

LEMMA ReadableAppend ==
    ASSUME NEW f \in Seq(Lines), NEW line \in Lines
    PROVE  Readable(Append(f, line)) = Readable(f) \union ({line} \ {Torn})
<1>1. DOMAIN Append(f, line) = 1..(Len(f) + 1)
  OBVIOUS
<1>2. \A i \in 1..Len(f) : Append(f, line)[i] = f[i]
  OBVIOUS
<1>3. Append(f, line)[Len(f) + 1] = line
  OBVIOUS
<1>4. DOMAIN f = 1..Len(f) /\ Len(f) \in Nat
  OBVIOUS
<1>5. 1..(Len(f) + 1) = 1..Len(f) \union {Len(f) + 1}
  BY <1>4
<1> QED
  BY <1>1, <1>2, <1>3, <1>4, <1>5 DEF Readable

\* What adding a line, or a piece of one, does to the file: at most the line
\* becomes readable, and at most an unfinished last line stops being so.
LEMMA AddLineEffect ==
    ASSUME file \in Seq(Lines), open \in BOOLEAN, open => file # <<>>,
           NEW line \in Lines, NEW closed \in BOOLEAN, AddLine(line, closed)
    PROVE  /\ file' \in Seq(Lines)
           /\ open' \in BOOLEAN
           /\ file' # <<>>
           /\ open' => file'[Len(file')] \in {line, Torn}
           /\ \A q \in Readable(file') : q \in Readable(file) \/ q = line
           /\ \A q \in Readable(file) :
                 q \in Readable(file') \/ (open /\ q = file[Len(file)])
           /\ ~open /\ line # Torn => line \in Readable(file')
           /\ open' = ~closed
<1>0. open' = ~closed
  BY DEF AddLine
<1>1. CASE ~open
  <2>1. file' = Append(file, line)
    BY <1>1 DEF AddLine
  <2>2. Readable(file') = Readable(file) \union ({line} \ {Torn})
    BY <2>1, ReadableAppend
  <2>3. file' \in Seq(Lines) /\ file' # <<>> /\ file'[Len(file')] = line
    BY <2>1
  <2> QED
    BY <1>0, <1>1, <2>2, <2>3
<1>2. CASE open
  <2>1. file' = [file EXCEPT ![Len(file)] = Torn]
    BY <1>2 DEF AddLine
  <2>2. Len(file) \in DOMAIN file /\ DOMAIN file = 1..Len(file) /\ Torn \in Lines
    BY <1>2 DEF Lines
  <2>3. /\ file' \in Seq(Lines)
        /\ DOMAIN file' = DOMAIN file
        /\ Len(file') = Len(file)
        /\ file'[Len(file)] = Torn
        /\ \A i \in DOMAIN file : i # Len(file) => file'[i] = file[i]
    BY <2>1, <2>2
  <2>4. \A q \in Readable(file') : q \in Readable(file)
    BY <2>3 DEF Readable
  <2>5. \A q \in Readable(file) : q \in Readable(file') \/ q = file[Len(file)]
    BY <2>3 DEF Readable
  <2>6. file' # <<>>
    BY <2>2, <2>3
  <2> QED
    BY <1>0, <1>2, <2>3, <2>4, <2>5, <2>6
<1> QED
  BY <1>1, <1>2

-----------------------------------------------------------------------------
(* The rows                                                                *)

\* A transaction of write_pending keeps the tables well typed and takes no
\* row away.
LEMMA WritePendingEffect ==
    ASSUME TypeOK, NEW rs \in SUBSET Requests,
           NEW latency \in 0..(MaxAttempts + 1), NEW persist \in {"direct", "spooled"},
           WritePending(rs, latency, persist)
    PROVE  /\ db' \in [Requests -> Rows \union {Absent}]
           /\ review' \in [Requests -> {"none", "pending", "reviewed"}]
           /\ \A q \in Requests : db[q] # Absent => db'[q] # Absent
           /\ \A q \in rs : db'[q] # Absent
<1>1. \A q \in Requests : Inserted(db[q], latency, persist) \in Rows
  BY DEF TypeOK, Inserted, Rows
<1>2. db' \in [Requests -> Rows \union {Absent}]
  BY <1>1 DEF WritePending, TypeOK
<1>3. review' \in [Requests -> {"none", "pending", "reviewed"}]
  BY DEF WritePending, TypeOK, Enqueued
<1>4. \A q \in Requests : db'[q] = db[q] \/ db'[q] \in Rows
  BY <1>1 DEF WritePending, TypeOK
<1>5. \A q \in rs : db'[q] \in Rows
  BY <1>1 DEF WritePending, TypeOK
<1> QED
  BY <1>2, <1>3, <1>4, <1>5, PersistenceAssumption

-----------------------------------------------------------------------------
(* The inductive invariant                                                 *)

USE PersistenceAssumption

LEMMA InitIInv == Init => IInv
<1> SUFFICES ASSUME Init PROVE IInv
  OBVIOUS
<1>1. TypeOK
  <2>1. <<>> \in Seq(Requests \union {Torn})
    OBVIOUS
  <2>2. 0 \in 0..MaxAttempts
    OBVIOUS
  <2> QED
    BY <2>1, <2>2 DEF Init, TypeOK
<1>2. OpenLine
  BY DEF Init, OpenLine
<1>3. DrainCovers /\ Recoverable
  BY DEF Init, DrainCovers, Recoverable, Appended
<1> QED
  BY <1>1, <1>2, <1>3 DEF IInv

\* The steps of a request that touch neither the file nor the tables.
LEMMA QuietSteps ==
    ASSUME IInv, NEW r \in Requests,
           \/ Begin(r) \/ AttemptFails(r) \/ SpoolIsFull(r) \/ SpoolHasRoom(r)
    PROVE  IInv'
<1> USE DEF IInv
<1>1. /\ UNCHANGED <<up, db, review, file, open, count, drain, batch, exposed>>
      /\ pc[r] \in {"new", "try", "full?"}
      /\ \/ pc' = pc
         \/ \E where \in {"try", "full?", "refused", "write"} : GoTo(r, where)
  BY DEF Begin, AttemptFails, RetryOrSpool, SpoolIsFull, SpoolHasRoom, spool, draining
<1>2. attempt' \in [Requests -> 0..MaxAttempts]
  BY DEF Begin, AttemptFails, RetryOrSpool, SpoolIsFull, SpoolHasRoom, TypeOK
<1>3. /\ pc' \in [Requests -> {"new"} \union InFlight \union Ended]
      /\ \A q \in Requests : q # r => pc'[q] = pc[q]
      /\ pc'[r] \in {"new", "try", "full?", "refused", "write"}
  BY <1>1 DEF TypeOK, GoTo, InFlight, Ended
<1>4. TypeOK'
  BY <1>1, <1>2, <1>3 DEF TypeOK
<1>5. OpenLine'
  <2> SUFFICES ASSUME open, file # <<>>, file[Len(file)] # Torn
               PROVE  pc'[file[Len(file)]] \in {"failed", "dropped"}
    BY <1>1 DEF OpenLine
  <2>1. file[Len(file)] \in Requests
    BY DEF TypeOK
  <2> QED
    BY <1>1, <1>3, <2>1 DEF OpenLine
<1>6. DrainCovers' /\ Recoverable'
  BY <1>1, <1>3 DEF DrainCovers, Recoverable, Appended, Readable
<1> QED
  BY <1>4, <1>5, <1>6

\* A transaction of a request that reaches the database, heard of or not.
LEMMA CommitSteps ==
    ASSUME IInv, NEW r \in Requests, CommitDirect(r) \/ AttemptCommitsUnheard(r)
    PROVE  IInv'
<1> USE DEF IInv
<1>1. /\ UNCHANGED <<up, file, open, count, drain, batch, exposed>>
      /\ pc[r] = "try"
      /\ pc' = pc \/ \E where \in {"direct", "full?"} : GoTo(r, where)
      /\ WritePending({r}, attempt[r], "direct")
  BY DEF CommitDirect, AttemptCommitsUnheard, RetryOrSpool, spool, draining
<1>2. attempt' \in [Requests -> 0..MaxAttempts]
  <2>1. attempt \in [Requests -> 0..MaxAttempts] /\ MaxAttempts \in Nat
    BY DEF TypeOK
  <2>2. CASE attempt' = attempt
    BY <2>1, <2>2
  <2>3. CASE attempt[r] < MaxAttempts /\ attempt' = [attempt EXCEPT ![r] = @ + 1]
    BY <2>1, <2>3
  <2> QED
    BY <2>2, <2>3 DEF CommitDirect, AttemptCommitsUnheard, RetryOrSpool
<1>3. /\ pc' \in [Requests -> {"new"} \union InFlight \union Ended]
      /\ \A q \in Requests : q # r => pc'[q] = pc[q]
      /\ pc'[r] \in {"try", "direct", "full?"}
  BY <1>1 DEF TypeOK, GoTo, InFlight, Ended, Answered
<1>4. /\ db' \in [Requests -> Rows \union {Absent}]
      /\ review' \in [Requests -> {"none", "pending", "reviewed"}]
      /\ \A q \in Requests : db[q] # Absent => db'[q] # Absent
      /\ db'[r] # Absent
  <2>1. attempt[r] \in 0..(MaxAttempts + 1) /\ {r} \in SUBSET Requests
    BY DEF TypeOK
  <2> QED
    BY <1>1, <2>1, WritePendingEffect DEF IInv
<1>5. TypeOK'
  BY <1>1, <1>2, <1>3, <1>4 DEF TypeOK
<1>6. OpenLine'
  <2> SUFFICES ASSUME open, file # <<>>, file[Len(file)] # Torn
               PROVE  pc'[file[Len(file)]] \in {"failed", "dropped"}
    BY <1>1 DEF OpenLine
  <2>1. file[Len(file)] \in Requests
    BY DEF TypeOK
  <2> QED
    BY <1>1, <1>3, <2>1 DEF OpenLine
<1>7. DrainCovers' /\ Recoverable'
  BY <1>1, <1>3, <1>4 DEF DrainCovers, Recoverable, Appended, Readable
<1> QED
  BY <1>5, <1>6, <1>7

\* The line of r, whole or in part, is added by a request that leaves "write".
LEMMA WriteSteps ==
    ASSUME IInv, NEW r \in Requests, pc[r] = "write",
           NEW line \in {r, Torn}, NEW closed \in BOOLEAN, AddLine(line, closed),
           UNCHANGED <<attempt, db, review, count>>,
           up' \in BOOLEAN,
           pc' \in [Requests -> {"new"} \union InFlight \union Ended],
           \A q \in Requests : q # r => pc'[q] = pc[q] \/ pc'[q] = "dropped",
           \/ /\ pc'[r] \in {"failed", "dropped"}
              /\ exposed' = exposed
           \/ /\ pc'[r] = "counted?"
              /\ line = r /\ closed
              /\ exposed' = IF open \/ drain \in {"read", "committed"}
                            THEN exposed \union {r} ELSE exposed,
           \/ UNCHANGED <<drain, batch>>
           \/ drain' = "idle" /\ batch' = {}
    PROVE  IInv'
<1> USE DEF IInv
<1>1. line \in Lines /\ file \in Seq(Lines) /\ Torn \notin Requests
  BY DEF Lines, TypeOK
<1>2. /\ file' \in Seq(Lines)
      /\ open' \in BOOLEAN
      /\ file' # <<>>
      /\ open' => file'[Len(file')] \in {line, Torn}
      /\ \A q \in Readable(file') : q \in Readable(file) \/ q = line
      /\ \A q \in Readable(file) :
            q \in Readable(file') \/ (open /\ q = file[Len(file)])
      /\ ~open /\ line # Torn => line \in Readable(file')
      /\ open' = ~closed
  <2>1. open \in BOOLEAN /\ (open => file # <<>>)
    BY DEF TypeOK, OpenLine
  <2> QED
    BY <1>1, <2>1, AddLineEffect
<1>3. TypeOK'
  BY <1>2 DEF TypeOK, Lines
<1>4. OpenLine'
  BY <1>2 DEF OpenLine
<1>5. ASSUME NEW q \in Requests, q # r, Appended(q), q \in Readable(file)
      PROVE  q \in Readable(file')
  BY <1>2, <1>5 DEF OpenLine, Appended
<1>6. \A q \in Requests : q # r /\ Appended(q)' => Appended(q)
  BY DEF Appended
<1>7. DrainCovers'
  <2> SUFFICES ASSUME NEW q \in Requests, Appended(q)', q \in Readable(file')
               PROVE  /\ drain' = "read" => q \in batch' \/ q \in exposed'
                      /\ drain' = "committed" => db'[q] # Absent \/ q \in exposed'
    BY DEF DrainCovers
  <2>1. CASE q = r
    BY <2>1 DEF Appended
  <2>2. CASE q # r
    <3>1. Appended(q) /\ q \in Readable(file)
      BY <1>2, <1>6, <2>2
    <3> QED
      BY <3>1 DEF DrainCovers
  <2> QED
    BY <2>1, <2>2
<1>8. Recoverable'
  <2> SUFFICES ASSUME NEW q \in Requests
               PROVE  /\ pc'[q] = "direct" => db'[q] # Absent
                      /\ Appended(q)' => \/ db'[q] # Absent
                                         \/ q \in Readable(file')
                                         \/ q \in exposed'
    BY DEF Recoverable
  <2>1. CASE q = r
    BY <1>1, <1>2, <2>1 DEF Appended
  <2>2. CASE q # r
    BY <1>5, <1>6, <2>2 DEF Recoverable
  <2> QED
    BY <2>1, <2>2
<1> QED
  BY <1>3, <1>4, <1>7, <1>8

LEMMA AppendSteps ==
    ASSUME IInv, NEW r \in Requests, AppendLine(r) \/ AppendRaises(r)
    PROVE  IInv'
<1>1. CASE AppendLine(r)
  BY <1>1, WriteSteps DEF AppendLine, GoTo, InFlight, Ended, IInv, TypeOK, draining
<1>2. CASE AppendRaises(r) /\ AddPiece(r)
  <2>1. PICK line \in {r, Torn}, closed \in BOOLEAN : AddLine(line, closed)
    BY <1>2 DEF AddPiece
  <2>2. /\ pc[r] = "write"
        /\ pc' = [pc EXCEPT ![r] = "failed"]
        /\ UNCHANGED <<up, attempt, db, review, count, drain, batch, exposed>>
    BY <1>2 DEF AppendRaises, GoTo, draining
  <2> QED
    BY <2>1, <2>2, WriteSteps DEF InFlight, Ended, IInv, TypeOK
<1>3. CASE AppendRaises(r) /\ UNCHANGED <<file, open>>
  <2>1. /\ pc[r] = "write"
        /\ pc' = [pc EXCEPT ![r] = "failed"]
        /\ UNCHANGED <<up, attempt, db, review, file, open, count, drain, batch, exposed>>
    BY <1>3 DEF AppendRaises, GoTo, draining
  <2>2. /\ pc' \in [Requests -> {"new"} \union InFlight \union Ended]
        /\ \A q \in Requests : q # r => pc'[q] = pc[q]
        /\ pc'[r] = "failed"
    BY <2>1 DEF IInv, TypeOK, InFlight, Ended
  <2>3. TypeOK'
    BY <2>1, <2>2 DEF IInv, TypeOK
  <2>4. OpenLine'
    BY <2>1, <2>2 DEF IInv, OpenLine, TypeOK
  <2>5. DrainCovers' /\ Recoverable'
    BY <2>1, <2>2 DEF IInv, DrainCovers, Recoverable, Appended, Readable
  <2> QED
    BY <2>3, <2>4, <2>5 DEF IInv
<1> QED
  BY <1>1, <1>2, <1>3 DEF AppendRaises

LEMMA CountStep ==
    ASSUME IInv, NEW r \in Requests, CountLine(r)
    PROVE  IInv'
<1> USE DEF IInv
<1>1. /\ pc[r] = "counted?"
      /\ pc' = [pc EXCEPT ![r] = "spooled"]
      /\ count' = count + 1
      /\ UNCHANGED <<up, attempt, db, review, file, open, drain, batch, exposed>>
  BY DEF CountLine, GoTo, draining
<1>2. /\ pc' \in [Requests -> {"new"} \union InFlight \union Ended]
      /\ \A q \in Requests : q # r => pc'[q] = pc[q]
      /\ pc'[r] = "spooled"
  BY <1>1 DEF TypeOK, InFlight, Ended, Answered
<1>3. TypeOK'
  BY <1>1, <1>2 DEF TypeOK
<1>4. OpenLine'
  <2> SUFFICES ASSUME open, file # <<>>, file[Len(file)] # Torn
               PROVE  pc'[file[Len(file)]] \in {"failed", "dropped"}
    BY <1>1 DEF OpenLine
  <2>1. file[Len(file)] \in Requests
    BY DEF TypeOK
  <2> QED
    BY <1>1, <1>2, <2>1 DEF OpenLine
<1>5. DrainCovers' /\ Recoverable'
  BY <1>1, <1>2 DEF DrainCovers, Recoverable, Appended, Readable
<1> QED
  BY <1>3, <1>4, <1>5

\* The steps of drain_spool.  The rows it is about to truncate are those it
\* committed, but for the exposed ones.
LEMMA DrainSteps ==
    ASSUME IInv, Drain
    PROVE  IInv'
<1> USE DEF IInv
<1>1. UNCHANGED <<up, pc, attempt, exposed>>
  BY DEF Drain, DrainReads, DrainCommits, DrainFails, TruncateFile, ResetCount, serving
<1>2. CASE DrainReads
  <2>1. /\ UNCHANGED <<db, review, file, open, count>>
        /\ drain' = "read" /\ batch' = Readable(file)
    BY <1>2 DEF DrainReads, spool
  <2>2. Readable(file) \subseteq Requests
    BY ReadableType DEF TypeOK, Lines
  <2>3. TypeOK' /\ OpenLine'
    BY <1>1, <2>1, <2>2 DEF TypeOK, OpenLine
  <2>4. DrainCovers' /\ Recoverable'
    BY <1>1, <2>1 DEF DrainCovers, Recoverable, Appended, Readable
  <2> QED
    BY <2>3, <2>4
<1>3. CASE DrainCommits \/ DrainFails
  <2>1. /\ UNCHANGED <<file, open, count>>
        /\ \/ WritePending(batch, MaxAttempts + 1, "spooled")
           \/ UNCHANGED <<db, review>> /\ drain' = "idle"
        /\ drain = "read"
        /\ \/ drain' = "committed" /\ batch' = batch
           \/ drain' = "idle" /\ batch' = {}
    BY <1>3 DEF DrainCommits, DrainFails, spool
  <2>2. /\ db' \in [Requests -> Rows \union {Absent}]
        /\ review' \in [Requests -> {"none", "pending", "reviewed"}]
        /\ \A q \in Requests : db[q] # Absent => db'[q] # Absent
        /\ drain' = "idle" \/ \A q \in batch : db'[q] # Absent
    <3>1. MaxAttempts + 1 \in 0..(MaxAttempts + 1) /\ batch \in SUBSET Requests
      BY DEF TypeOK
    <3>2. CASE WritePending(batch, MaxAttempts + 1, "spooled")
      BY <3>1, <3>2, WritePendingEffect
    <3> QED
      BY <2>1, <3>2 DEF TypeOK
  <2>3. TypeOK' /\ OpenLine'
    BY <1>1, <2>1, <2>2 DEF TypeOK, OpenLine
  <2>4. DrainCovers' /\ Recoverable'
    BY <1>1, <2>1, <2>2 DEF DrainCovers, Recoverable, Appended, Readable
  <2> QED
    BY <2>3, <2>4
<1>4. CASE TruncateFile
  <2>1. /\ UNCHANGED <<db, review, count, batch>>
        /\ drain = "committed" /\ drain' = "emptied"
        /\ file' = <<>> /\ open' = FALSE
    BY <1>4 DEF TruncateFile
  <2>0. <<>> \in Seq(Requests \union {Torn})
    OBVIOUS
  <2>2. TypeOK' /\ OpenLine'
    BY <1>1, <2>0, <2>1 DEF TypeOK, OpenLine
  <2>3. DrainCovers' /\ Recoverable'
    BY <1>1, <2>1 DEF DrainCovers, Recoverable, Appended
  <2> QED
    BY <2>2, <2>3
<1>5. CASE ResetCount
  <2>1. /\ UNCHANGED <<db, review, file, open>>
        /\ count' \in Nat
        /\ drain' = "idle" /\ batch' = {}
    BY <1>5 DEF ResetCount, TypeOK
  <2>2. TypeOK' /\ OpenLine'
    BY <1>1, <2>1 DEF TypeOK, OpenLine
  <2>3. DrainCovers' /\ Recoverable'
    BY <1>1, <2>1 DEF DrainCovers, Recoverable, Appended, Readable
  <2> QED
    BY <2>2, <2>3
<1> QED
  BY <1>2, <1>3, <1>4, <1>5 DEF Drain

LEMMA CrashStep ==
    ASSUME IInv, Crash
    PROVE  IInv'
<1> USE DEF IInv
<1>1. /\ up' = FALSE
      /\ pc' = [r \in Requests |-> IF r \in Running THEN "dropped" ELSE pc[r]]
      /\ drain' = "idle" /\ batch' = {}
      /\ UNCHANGED <<attempt, db, review, count, exposed>>
      /\ \/ UNCHANGED <<file, open>>
         \/ \E r \in Requests : pc[r] = "write" /\ AddPiece(r)
  BY DEF Crash
<1>2. /\ pc' \in [Requests -> {"new"} \union InFlight \union Ended]
      /\ \A q \in Requests : pc'[q] = pc[q] \/ pc'[q] = "dropped"
      /\ \A q \in Requests : pc[q] = "write" => pc'[q] = "dropped"
  BY <1>1 DEF TypeOK, Ended, Running, InFlight
<1>3. CASE UNCHANGED <<file, open>>
  <2>1. TypeOK'
    BY <1>1, <1>2, <1>3 DEF TypeOK
  <2>2. OpenLine'
    BY <1>2, <1>3 DEF OpenLine, TypeOK
  <2>3. DrainCovers' /\ Recoverable'
    BY <1>1, <1>2, <1>3 DEF DrainCovers, Recoverable, Appended, Readable
  <2> QED
    BY <2>1, <2>2, <2>3
<1>4. CASE \E r \in Requests : pc[r] = "write" /\ AddPiece(r)
  <2>1. PICK r \in Requests : pc[r] = "write" /\ AddPiece(r)
    BY <1>4
  <2>2. PICK line \in {r, Torn}, closed \in BOOLEAN : AddLine(line, closed)
    BY <2>1 DEF AddPiece
  <2> QED
    BY <1>1, <1>2, <2>1, <2>2, WriteSteps
<1> QED
  BY <1>1, <1>3, <1>4

LEMMA EnvironmentSteps ==
    ASSUME IInv, DrainCrash \/ Restart \/ \E r \in Requests : Review(r)
    PROVE  IInv'
<1> USE DEF IInv
<1>1. /\ UNCHANGED <<pc, attempt, db, file, open, exposed>>
      /\ up' \in BOOLEAN
      /\ count' \in Nat
      /\ review' \in [Requests -> {"none", "pending", "reviewed"}]
      /\ UNCHANGED <<drain, batch>> \/ (drain' = "idle" /\ batch' = {})
  <2>1. CASE DrainCrash
    BY <2>1 DEF DrainCrash, TypeOK, serving, spool
  <2>2. CASE Restart
    <3>1. Len(file) \in Nat
      BY DEF TypeOK
    <3> QED
      BY <2>2, <3>1 DEF Restart, TypeOK, draining
  <2>3. CASE \E r \in Requests : Review(r)
    BY <2>3 DEF Review, TypeOK, serving, spool, draining
  <2> QED
    BY <2>1, <2>2, <2>3
<1>2. TypeOK' /\ OpenLine'
  BY <1>1 DEF TypeOK, OpenLine
<1>3. DrainCovers' /\ Recoverable'
  BY <1>1 DEF DrainCovers, Recoverable, Appended, Readable
<1> QED
  BY <1>2, <1>3

LEMMA NextIInv == IInv /\ [Next]_vars => IInv'
<1> SUFFICES ASSUME IInv, [Next]_vars PROVE IInv'
  OBVIOUS
<1>1. CASE \E r \in Requests : Serve(r)
  BY <1>1, QuietSteps, CommitSteps, AppendSteps, CountStep DEF Serve
<1>2. CASE Drain
  BY <1>2, DrainSteps
<1>3. CASE Crash
  BY <1>3, CrashStep
<1>4. CASE DrainCrash \/ Restart \/ \E r \in Requests : Review(r)
  BY <1>4, EnvironmentSteps
<1>5. CASE UNCHANGED vars
  BY <1>5 DEF vars, IInv, TypeOK, OpenLine, DrainCovers, Recoverable, Appended, Readable
<1> QED
  BY <1>1, <1>2, <1>3, <1>4, <1>5 DEF Next

\* Every variable of the persistence path keeps its type.
THEOREM TypeCorrect == Spec => []TypeOK
<1>1. IInv => TypeOK
  BY DEF IInv
<1> QED
  BY <1>1, InitIInv, NextIInv, PTL DEF Spec

\* An answered request is in the database, in a readable line of the spool,
\* or was appended in one of the two windows in which a line can be lost; for
\* every number of requests, threads and attempts, every spool bound, every
\* combination of faults and every way of calling drain_spool.
THEOREM AckedRecoverableCorrect == Spec => []AckedRecoverable
<1>1. IInv => AckedRecoverable
  BY DEF IInv, AckedRecoverable, Recoverable, Appended, Answered
<1> QED
  BY <1>1, InitIInv, NextIInv, PTL DEF Spec

-----------------------------------------------------------------------------
(* The refinement of PredictionLog, where writes are not torn and a drain  *)
(* only runs while the server is down                                      *)

\* No line is left unfinished, a drain and a request exclude each other, and
\* the lines a drain truncates are the ones it committed.
Quiet ==
    /\ open = FALSE
    /\ drain # "idle" => up = FALSE
    /\ \A r \in Requests : pc[r] \in InFlight => up = TRUE
    /\ \A r \in Requests : pc[r] = "counted?" => r \in Logged
    /\ drain = "read" => batch = Readable(file)
    /\ drain = "committed" => \A r \in Readable(file) : db[r] # Absent

LInv == IInv /\ Quiet

Undisturbed == "tear" \notin Faults /\ "io" \notin Faults /\ DrainMode # "live"

LEMMA InitQuiet == Init => Quiet
BY DEF Init, Quiet, InFlight, Readable

LEMMA NextQuiet ==
    ASSUME Undisturbed, LInv, [Next]_vars
    PROVE  Quiet' /\ Logged \subseteq Logged'
<1> USE DEF LInv
<1>0. Readable(file) \subseteq Requests /\ TypeOK
  BY ReadableType DEF TypeOK, IInv, Lines
<1>1. ASSUME NEW r \in Requests, Serve(r)
      PROVE  Quiet' /\ Logged \subseteq Logged'
  <2>1. CASE \/ Begin(r) \/ AttemptFails(r) \/ SpoolIsFull(r) \/ SpoolHasRoom(r)
    <3>1. /\ UNCHANGED <<up, db, file, open, drain, batch>>
          /\ pc' = pc \/ \E w \in {"try", "full?", "refused", "write"} : GoTo(r, w)
          /\ up = TRUE
      BY <2>1 DEF Begin, AttemptFails, RetryOrSpool, SpoolIsFull, SpoolHasRoom,
                  spool, draining, Quiet, InFlight
    <3>2. \A q \in Requests : pc'[q] = "counted?" => pc[q] = "counted?"
      BY <1>0, <3>1 DEF GoTo, TypeOK
    <3> QED
      BY <3>1, <3>2 DEF Quiet, Logged, Readable
  <2>2. CASE CommitDirect(r) \/ AttemptCommitsUnheard(r)
    <3>1. /\ UNCHANGED <<up, file, open, drain, batch>>
          /\ pc' = pc \/ \E w \in {"direct", "full?"} : GoTo(r, w)
          /\ WritePending({r}, attempt[r], "direct")
          /\ up = TRUE
      BY <2>2 DEF CommitDirect, AttemptCommitsUnheard, RetryOrSpool,
                  spool, draining, Quiet, InFlight
    <3>2. \A q \in Requests : pc'[q] = "counted?" => pc[q] = "counted?"
      BY <1>0, <3>1 DEF GoTo, TypeOK
    <3>3. attempt[r] \in 0..(MaxAttempts + 1) /\ {r} \in SUBSET Requests
      BY <1>0 DEF TypeOK
    <3>4. \A q \in Requests : db[q] # Absent => db'[q] # Absent
      BY <1>0, <3>1, <3>3, WritePendingEffect
    <3> QED
      BY <3>1, <3>2, <3>4, <1>0 DEF Quiet, Logged, Readable
  <2>3. CASE AppendLine(r)
    <3>1. /\ up' = up /\ up = TRUE
          /\ UNCHANGED <<db, drain, batch>>
          /\ drain = "idle"
          /\ pc' = [pc EXCEPT ![r] = "counted?"]
          /\ open' = FALSE
          /\ file' = Append(file, r)
      BY <2>3, <1>0 DEF AppendLine, AddLine, GoTo, draining, Quiet, InFlight, TypeOK
    <3>2. Readable(file') = Readable(file) \union {r}
      BY <1>0, <3>1, ReadableAppend DEF TypeOK, Lines
    <3>3. \A q \in Requests : q # r => pc'[q] = pc[q]
      BY <3>1, <1>0 DEF TypeOK
    <3> QED
      BY <3>1, <3>2, <3>3 DEF Quiet, Logged
  <2>4. CASE CountLine(r)
    <3>1. /\ UNCHANGED <<up, db, file, open, drain, batch>>
          /\ pc' = [pc EXCEPT ![r] = "spooled"]
          /\ pc[r] = "counted?"
      BY <2>4 DEF CountLine, GoTo, draining
    <3>2. /\ \A q \in Requests : q # r => pc'[q] = pc[q]
          /\ pc'[r] = "spooled"
      BY <3>1, <1>0 DEF TypeOK
    <3> QED
      BY <3>1, <3>2 DEF Quiet, Logged, InFlight, Readable
  <2>5. ~AppendRaises(r)
    BY DEF AppendRaises, Undisturbed
  <2> QED
    BY <1>1, <2>1, <2>2, <2>3, <2>4, <2>5 DEF Serve
<1>2. CASE Drain
  <2>1. UNCHANGED <<up, pc>>
    BY <1>2 DEF Drain, DrainReads, DrainCommits, DrainFails, TruncateFile, ResetCount,
               serving
  <2>2. CASE DrainReads
    <3>1. /\ UNCHANGED <<db, file, open>>
          /\ drain' = "read" /\ batch' = Readable(file)
          /\ up = FALSE
      BY <1>0, <2>2 DEF DrainReads, spool, MayDrain, Undisturbed, TypeOK
    <3> QED
      BY <2>1, <3>1 DEF Quiet, Logged, Readable
  <2>3. CASE DrainCommits \/ DrainFails
    <3>1. /\ UNCHANGED <<file, open>>
          /\ drain = "read" /\ drain' \in {"idle", "committed"}
          /\ \/ WritePending(batch, MaxAttempts + 1, "spooled")
             \/ UNCHANGED db /\ drain' = "idle"
      BY <2>3 DEF DrainCommits, DrainFails, spool
    <3>2. /\ \A q \in Requests : db[q] # Absent => db'[q] # Absent
          /\ drain' = "idle" \/ \A q \in batch : db'[q] # Absent
      <4>1. MaxAttempts + 1 \in 0..(MaxAttempts + 1) /\ batch \in SUBSET Requests
        BY <1>0 DEF TypeOK
      <4>2. CASE WritePending(batch, MaxAttempts + 1, "spooled")
        BY <1>0, <4>1, <4>2, WritePendingEffect
      <4> QED
        BY <3>1, <4>2
    <3>3. Readable(file') = Readable(file) /\ batch = Readable(file)
      BY <3>1 DEF Quiet, Readable
    <3> QED
      BY <2>1, <3>1, <3>2, <3>3 DEF Quiet, Logged
  <2>4. CASE TruncateFile
    <3>1. /\ UNCHANGED db /\ open' = FALSE
          /\ drain = "committed" /\ drain' = "emptied"
      BY <2>4 DEF TruncateFile
    <3>2. \A q \in Readable(file) : db[q] # Absent
      BY <3>1 DEF Quiet
    <3>3. Logged \subseteq Logged'
      BY <1>0, <3>1, <3>2 DEF Logged
    <3> QED
      BY <2>1, <3>1, <3>3 DEF Quiet
  <2>5. CASE ResetCount
    BY <2>1, <2>5 DEF ResetCount, Quiet, Logged, Readable
  <2> QED
    BY <1>2, <2>2, <2>3, <2>4, <2>5 DEF Drain
<1>3. CASE Crash
  <2>1. /\ UNCHANGED <<db, file, open>>
        /\ up' = FALSE /\ drain' = "idle"
        /\ pc' = [r \in Requests |-> IF r \in Running THEN "dropped" ELSE pc[r]]
    BY <1>3 DEF Crash, Undisturbed
  <2>2. \A q \in Requests : pc'[q] \notin InFlight
    BY <2>1 DEF Running, InFlight
  <2> QED
    BY <2>1, <2>2 DEF Quiet, Logged, InFlight, Readable
<1>4. CASE DrainCrash
  BY <1>4 DEF DrainCrash, serving, spool, Quiet, Logged, Readable
<1>5. CASE Restart
  BY <1>5 DEF Restart, draining, Quiet, Logged, Readable
<1>6. CASE \E r \in Requests : Review(r)
  BY <1>6 DEF Review, serving, spool, draining, Quiet, Logged, Readable
<1>7. CASE UNCHANGED vars
  BY <1>7 DEF vars, Quiet, Logged, Readable
<1> QED
  BY <1>1, <1>2, <1>3, <1>4, <1>5, <1>6, <1>7 DEF Next

\* A step acknowledges or records at most one request, and never forgets one.
LEMMA NextLog ==
    ASSUME Undisturbed, LInv, [Next]_vars
    PROVE  [Log!Next]_<<Logged, Acked>>
<1> USE DEF LInv
<1>0. TypeOK /\ Readable(file) \subseteq Requests
  BY ReadableType DEF IInv, TypeOK, Lines
<1>1. Logged \subseteq Logged'
  BY NextQuiet
<1>2. CASE \E r \in Requests : CommitDirect(r)
  <2>1. PICK r \in Requests : CommitDirect(r)
    BY <1>2
  <2>2. /\ pc' = [pc EXCEPT ![r] = "direct"]
        /\ WritePending({r}, attempt[r], "direct")
        /\ UNCHANGED file
    BY <2>1 DEF CommitDirect, GoTo, spool
  <2>3. Acked' = Acked \union {r}
    BY <1>0, <2>2 DEF Acked, TypeOK, Answered
  <2>4. Logged' = Logged \union {r}
    <3>1. attempt[r] \in 0..(MaxAttempts + 1) /\ {r} \in SUBSET Requests
      BY <1>0 DEF TypeOK
    <3>2. db'[r] # Absent
      BY <1>0, <2>2, <3>1, WritePendingEffect
    <3>3. \A q \in Requests : q # r => db'[q] = db[q]
      BY <2>2 DEF WritePending
    <3> QED
      BY <2>2, <3>2, <3>3 DEF Logged, Readable
  <2> QED
    BY <2>3, <2>4 DEF Log!Next, Log!RecordAndAcknowledge
<1>3. CASE \E r \in Requests : CountLine(r)
  <2>1. PICK r \in Requests : CountLine(r)
    BY <1>3
  <2>2. /\ pc[r] = "counted?"
        /\ pc' = [pc EXCEPT ![r] = "spooled"]
        /\ UNCHANGED <<db, file>>
    BY <2>1 DEF CountLine, GoTo
  <2>3. Acked' = Acked \union {r}
    BY <1>0, <2>2 DEF Acked, TypeOK, Answered
  <2>4. Logged' = Logged /\ r \in Logged
    BY <2>2 DEF Logged, Readable, Quiet
  <2> QED
    BY <2>3, <2>4 DEF Log!Next, Log!Acknowledge
<1>4. CASE \E r \in Requests : AttemptCommitsUnheard(r)
  <2>1. PICK r \in Requests : AttemptCommitsUnheard(r)
    BY <1>4
  <2>2. /\ pc[r] = "try"
        /\ pc' = pc \/ pc' = [pc EXCEPT ![r] = "full?"]
        /\ WritePending({r}, attempt[r], "direct")
        /\ UNCHANGED file
    BY <2>1 DEF AttemptCommitsUnheard, RetryOrSpool, GoTo, spool
  <2>3. Acked' = Acked
    BY <1>0, <2>2 DEF Acked, TypeOK, Answered
  <2>4. Logged' = Logged \union {r}
    <3>1. attempt[r] \in 0..(MaxAttempts + 1) /\ {r} \in SUBSET Requests
      BY <1>0 DEF TypeOK
    <3>2. db'[r] # Absent
      BY <1>0, <2>2, <3>1, WritePendingEffect
    <3>3. \A q \in Requests : q # r => db'[q] = db[q]
      BY <2>2 DEF WritePending
    <3> QED
      BY <2>2, <3>2, <3>3 DEF Logged, Readable
  <2> QED
    BY <2>3, <2>4 DEF Log!Next, Log!Record
<1>5. CASE \E r \in Requests : AppendLine(r)
  <2>1. PICK r \in Requests : AppendLine(r)
    BY <1>5
  <2>2. /\ pc[r] = "write"
        /\ pc' = [pc EXCEPT ![r] = "counted?"]
        /\ UNCHANGED db
        /\ file' = Append(file, r)
    BY <2>1 DEF AppendLine, AddLine, GoTo, Quiet
  <2>3. Acked' = Acked
    BY <1>0, <2>2 DEF Acked, TypeOK, Answered
  <2>4. Logged' = Logged \union {r}
    <3>1. file \in Seq(Lines) /\ r \in Lines /\ r # Torn
      BY <1>0, PersistenceAssumption DEF TypeOK, Lines
    <3>2. Readable(Append(file, r)) = Readable(file) \union {r}
      BY <3>1, ReadableAppend
    <3> QED
      BY <2>2, <3>2 DEF Logged
  <2> QED
    BY <2>3, <2>4 DEF Log!Next, Log!Record
<1>6. CASE \E r \in Requests :
             \/ Begin(r) \/ AttemptFails(r) \/ SpoolIsFull(r) \/ SpoolHasRoom(r)
  <2>1. PICK r \in Requests :
             \/ Begin(r) \/ AttemptFails(r) \/ SpoolIsFull(r) \/ SpoolHasRoom(r)
    BY <1>6
  <2>2. /\ pc[r] \in {"new", "try", "full?"}
        /\ pc' = pc \/ \E w \in {"try", "full?", "refused", "write"} : GoTo(r, w)
        /\ UNCHANGED <<db, file>>
    BY <2>1 DEF Begin, AttemptFails, RetryOrSpool, SpoolIsFull, SpoolHasRoom, spool
  <2>3. Acked' = Acked
    BY <1>0, <2>2 DEF Acked, TypeOK, Answered, GoTo
  <2> QED
    BY <2>2, <2>3 DEF Logged, Readable
<1>7. CASE Drain
  <2>1. pc' = pc /\ Acked' = Acked
    BY <1>7 DEF Drain, DrainReads, DrainCommits, DrainFails, TruncateFile, ResetCount,
               serving, Acked
  <2>2. Logged' \subseteq Logged
    <3>1. CASE DrainCommits \/ DrainFails
      <4>1. /\ UNCHANGED file
            /\ batch = Readable(file)
            /\ WritePending(batch, MaxAttempts + 1, "spooled") \/ UNCHANGED db
        BY <3>1 DEF DrainCommits, DrainFails, spool, Quiet
      <4>2. \A q \in Requests : q \notin Readable(file) => db'[q] = db[q]
        BY <4>1 DEF WritePending
      <4> QED
        BY <4>1, <4>2 DEF Logged, Readable
    <3>2. CASE TruncateFile
      <4>1. file' = <<>> /\ UNCHANGED db
        BY <3>2 DEF TruncateFile
      <4>2. Readable(<<>>) = {}
        BY DEF Readable
      <4> QED
        BY <4>1, <4>2 DEF Logged
    <3>3. CASE DrainReads \/ ResetCount
      BY <3>3 DEF DrainReads, ResetCount, spool, Logged, Readable
    <3> QED
      BY <1>7, <3>1, <3>2, <3>3 DEF Drain
  <2> QED
    BY <1>1, <2>1, <2>2
<1>8. CASE Crash
  <2>1. /\ UNCHANGED <<db, file>>
        /\ pc' = [r \in Requests |-> IF r \in Running THEN "dropped" ELSE pc[r]]
    BY <1>8 DEF Crash, Undisturbed
  <2>2. Acked' = Acked
    BY <2>1 DEF Acked, Answered, Running, InFlight
  <2> QED
    BY <2>1, <2>2 DEF Logged, Readable
<1>9. CASE \/ DrainCrash \/ Restart \/ UNCHANGED vars
           \/ \E r \in Requests : Review(r)
  BY <1>9 DEF DrainCrash, Restart, Review, vars, serving, spool, Logged, Acked, Readable
<1>10. \A r \in Requests : ~AppendRaises(r)
  BY DEF AppendRaises, Undisturbed
<1> QED
  BY <1>2, <1>3, <1>4, <1>5, <1>6, <1>7, <1>8, <1>9, <1>10 DEF Next, Serve

\* The persistence path implements PredictionLog, through database outages,
\* unheard commits, kills, restarts and drains, provided that no write of the
\* spool is torn or fails and that a drain never runs beside the server.
THEOREM LogImplemented ==
    ASSUME Undisturbed
    PROVE  Spec => LogSpec
<1>1. Init => LInv /\ Log!Init
  BY InitIInv, InitQuiet DEF Init, LInv, Log!Init, Logged, Acked, Readable, Answered
<1>2. LInv /\ [Next]_vars => LInv'
  BY NextIInv, NextQuiet DEF LInv
<1>3. LInv /\ [Next]_vars => [Log!Next]_<<Logged, Acked>>
  BY NextLog
<1> QED
  BY <1>1, <1>2, <1>3, PTL DEF Spec, LogSpec, Log!Spec

-----------------------------------------------------------------------------
(* What a retry or a replay writes                                         *)

\* Only a transaction of write_pending, or a reviewer, touches the tables.
LEMMA TableSteps ==
    ASSUME [Next]_vars
    PROVE  \/ UNCHANGED <<db, review>>
           \/ \E r \in Requests :
                 WritePending({r}, attempt[r], "direct") /\ pc[r] = "try"
           \/ WritePending(batch, MaxAttempts + 1, "spooled") /\ drain = "read"
           \/ \E r \in Requests : Review(r)
<1>1. CASE \E r \in Requests : Serve(r)
  BY <1>1 DEF Serve, Begin, CommitDirect, AttemptFails, AttemptCommitsUnheard,
              SpoolIsFull, SpoolHasRoom, AppendLine, AppendRaises, CountLine
<1>2. CASE Drain
  BY <1>2 DEF Drain, DrainReads, DrainCommits, DrainFails, TruncateFile, ResetCount
<1>3. CASE Crash \/ DrainCrash \/ Restart \/ UNCHANGED vars
  BY <1>3 DEF Crash, DrainCrash, Restart, vars
<1> QED
  BY <1>1, <1>2, <1>3 DEF Next

\* A transaction over rows that are there keeps how they were persisted, and
\* the reviews that are finished.
LEMMA WritePendingKeeps ==
    ASSUME TypeOK, NEW rs \in SUBSET Requests,
           NEW latency \in 0..(MaxAttempts + 1), NEW persist \in {"direct", "spooled"},
           WritePending(rs, latency, persist), NEW r \in Requests
    PROVE  /\ review[r] = "reviewed" => review'[r] = "reviewed"
           /\ db[r] # Absent => db'[r] # Absent /\ db'[r].persist = db[r].persist
<1>1. review[r] = "reviewed" => review'[r] = "reviewed"
  BY DEF WritePending, Enqueued
<1>2. ASSUME db[r] # Absent
      PROVE  db'[r].persist = db[r].persist
  <2>1. db[r] \in Rows
    BY <1>2 DEF TypeOK
  <2>2. [db[r] EXCEPT !.latency = latency].persist = db[r].persist
    BY <2>1 DEF Rows
  <2>3. db'[r] \in {db[r], [db[r] EXCEPT !.latency = latency]}
    BY <1>2 DEF WritePending, Inserted
  <2> QED
    BY <2>2, <2>3
<1> QED
  BY <1>1, <1>2, WritePendingEffect

\* Neither a retry nor a replay reopens a finished review or rewrites how a row
\* was persisted, for every combination of faults and every way of draining.
THEOREM ReplayChangesNothingCorrect == Spec => ReplayChangesNothing
<1>1. ASSUME TypeOK, [Next]_vars, NEW r \in Requests
      PROVE  /\ review[r] = "reviewed" => review'[r] = "reviewed"
             /\ db[r] # Absent => db'[r] # Absent /\ db'[r].persist = db[r].persist
  <2>1. CASE UNCHANGED <<db, review>>
    BY <2>1
  <2>2. CASE \E q \in Requests : WritePending({q}, attempt[q], "direct")
    <3>1. PICK q \in Requests : WritePending({q}, attempt[q], "direct")
      BY <2>2
    <3>2. attempt[q] \in 0..(MaxAttempts + 1) /\ {q} \in SUBSET Requests
      BY <1>1 DEF TypeOK
    <3> QED
      BY <1>1, <3>1, <3>2, WritePendingKeeps
  <2>3. CASE WritePending(batch, MaxAttempts + 1, "spooled")
    <3>1. MaxAttempts + 1 \in 0..(MaxAttempts + 1) /\ batch \in SUBSET Requests
      BY <1>1 DEF TypeOK
    <3> QED
      BY <1>1, <2>3, <3>1, WritePendingKeeps
  <2>4. CASE \E q \in Requests : Review(q)
    BY <1>1, <2>4 DEF Review, TypeOK
  <2> QED
    BY <1>1, <2>1, <2>2, <2>3, <2>4, TableSteps
<1>2. TypeOK /\ [Next]_vars =>
        [\A r \in Requests :
            /\ review[r] = "reviewed" => review'[r] = "reviewed"
            /\ db[r] # Absent => db'[r] # Absent /\ db'[r].persist = db[r].persist]_vars
  BY <1>1
<1> QED
  BY <1>2, TypeCorrect, PTL DEF Spec, ReplayChangesNothing

-----------------------------------------------------------------------------
(* What the rows say                                                       *)

\* A line that a drain can read, or has read, is that of a request that wrote it.
WrittenBy ==
    \A r \in Readable(file) \union batch :
        pc[r] \in {"counted?", "spooled", "failed", "dropped"}

Stamped(r, latency) == db[r] # Absent /\ db[r].latency = latency

\* Nothing is written over the row of a request answered "direct".
DirectStamped ==
    \A r \in Requests : pc[r] = "direct" => Stamped(r, attempt[r])

\* A line that was truncated, or is about to be, was committed by the drain.
SpooledStamped ==
    \A r \in Requests :
        Appended(r) /\ r \notin exposed =>
            /\ drain = "committed" /\ r \in Readable(file) => Stamped(r, MaxAttempts + 1)
            /\ db[r] # Absent /\ r \notin Readable(file) => Stamped(r, MaxAttempts + 1)

ReviewedWithRow ==
    \A r \in Requests : review[r] # "none" <=> db[r] # Absent /\ r \in Flagged

RowsInv == WrittenBy /\ DirectStamped /\ SpooledStamped /\ ReviewedWithRow

\* A transaction stamps the rows it was given, leaves the others alone and opens
\* a review with each row it inserts.
LEMMA WritePendingRows ==
    ASSUME TypeOK, NEW rs \in SUBSET Requests,
           NEW latency \in 0..(MaxAttempts + 1), NEW persist \in {"direct", "spooled"},
           WritePending(rs, latency, persist)
    PROVE  /\ \A q \in rs : db'[q] # Absent /\ db'[q].latency = latency
           /\ \A q \in Requests : q \notin rs => db'[q] = db[q]
           /\ ReviewedWithRow => ReviewedWithRow'
<1>1. ASSUME NEW q \in rs
      PROVE  db'[q] # Absent /\ db'[q].latency = latency
  <2>1. db'[q] = Inserted(db[q], latency, persist)
    BY DEF WritePending
  <2>2. db[q] \in Rows \union {Absent}
    BY DEF TypeOK
  <2>3. Inserted(db[q], latency, persist) \in Rows
    BY <2>2 DEF Inserted, Rows
  <2>4. Inserted(db[q], latency, persist).latency = latency
    BY <2>2 DEF Inserted, Rows
  <2> QED
    BY <2>1, <2>3, <2>4
<1>2. \A q \in Requests : q \notin rs => db'[q] = db[q]
  BY DEF WritePending
<1>3. ASSUME ReviewedWithRow, NEW q \in Requests
      PROVE  review'[q] # "none" <=> db'[q] # Absent /\ q \in Flagged
  <2>1. CASE q \in rs
    BY <1>1, <1>3, <2>1 DEF WritePending, Enqueued, ReviewedWithRow
  <2>2. CASE q \notin rs
    BY <1>2, <1>3, <2>2 DEF WritePending, ReviewedWithRow
  <2> QED
    BY <2>1, <2>2
<1> QED
  BY <1>1, <1>2, <1>3 DEF ReviewedWithRow

LEMMA InitRows == Init => RowsInv
BY DEF Init, RowsInv, WrittenBy, DirectStamped, SpooledStamped, ReviewedWithRow,
       Appended, Readable

\* The steps of a request that touch neither the file nor the tables.
LEMMA QuietRows ==
    ASSUME TypeOK, RowsInv, NEW r \in Requests,
           \/ Begin(r) \/ AttemptFails(r) \/ SpoolIsFull(r) \/ SpoolHasRoom(r)
    PROVE  RowsInv'
<1> USE DEF RowsInv
<1>1. /\ UNCHANGED <<db, review, file, drain, batch, exposed>>
      /\ pc[r] \in {"new", "try", "full?"}
      /\ \/ pc' = pc
         \/ \E where \in {"try", "full?", "refused", "write"} : GoTo(r, where)
      /\ attempt' = attempt \/ \E n \in Nat : attempt' = [attempt EXCEPT ![r] = n]
  BY DEF Begin, AttemptFails, RetryOrSpool, SpoolIsFull, SpoolHasRoom, spool, draining,
         TypeOK
<1>2. /\ \A q \in Requests : q # r => pc'[q] = pc[q] /\ attempt'[q] = attempt[q]
      /\ pc'[r] \in {"new", "try", "full?", "refused", "write"}
  BY <1>1 DEF TypeOK, GoTo
<1>3. WrittenBy'
  <2> SUFFICES ASSUME NEW q \in Readable(file) \union batch
               PROVE  pc'[q] \in {"counted?", "spooled", "failed", "dropped"}
    BY <1>1 DEF WrittenBy, Readable
  <2>1. q \in Requests
    BY ReadableType DEF TypeOK, Lines
  <2> QED
    BY <1>1, <1>2, <2>1 DEF WrittenBy
<1>4. DirectStamped'
  BY <1>1, <1>2 DEF DirectStamped, Stamped
<1>5. SpooledStamped'
  BY <1>1, <1>2 DEF SpooledStamped, Stamped, Appended, Readable
<1>6. ReviewedWithRow'
  BY <1>1 DEF ReviewedWithRow
<1> QED
  BY <1>3, <1>4, <1>5, <1>6

LEMMA CommitRows ==
    ASSUME TypeOK, RowsInv, NEW r \in Requests, CommitDirect(r) \/ AttemptCommitsUnheard(r)
    PROVE  RowsInv'
<1> USE DEF RowsInv
<1>1. /\ UNCHANGED <<file, drain, batch, exposed>>
      /\ pc[r] = "try"
      /\ \/ GoTo(r, "direct") /\ attempt' = attempt
         \/ pc' = pc /\ attempt' = [attempt EXCEPT ![r] = @ + 1]
         \/ GoTo(r, "full?")
      /\ \A q \in Requests : q # r => attempt'[q] = attempt[q]
      /\ WritePending({r}, attempt[r], "direct")
  BY DEF CommitDirect, AttemptCommitsUnheard, RetryOrSpool, spool, draining, TypeOK
<1>2. /\ \A q \in Requests : q # r => pc'[q] = pc[q]
      /\ pc'[r] \in {"try", "full?", "direct"}
      /\ pc'[r] = "direct" => attempt' = attempt
  BY <1>1 DEF TypeOK, GoTo
<1>3. /\ db'[r] # Absent /\ db'[r].latency = attempt[r]
      /\ \A q \in Requests : q # r => db'[q] = db[q]
      /\ ReviewedWithRow'
  <2>1. attempt[r] \in 0..(MaxAttempts + 1) /\ {r} \in SUBSET Requests
    BY DEF TypeOK
  <2> QED
    BY <1>1, <2>1, WritePendingRows
<1>4. WrittenBy'
  <2> SUFFICES ASSUME NEW q \in Readable(file) \union batch
               PROVE  pc'[q] \in {"counted?", "spooled", "failed", "dropped"}
    BY <1>1 DEF WrittenBy, Readable
  <2>1. q \in Requests
    BY ReadableType DEF TypeOK, Lines
  <2> QED
    BY <1>1, <1>2, <2>1 DEF WrittenBy
<1>5. DirectStamped'
  BY <1>1, <1>2, <1>3 DEF DirectStamped, Stamped
<1>6. SpooledStamped'
  BY <1>1, <1>2, <1>3 DEF SpooledStamped, Stamped, Appended, Readable
<1> QED
  BY <1>3, <1>4, <1>5, <1>6

\* A line, or a piece of one, under the hypotheses of WriteSteps.
LEMMA WriteRows ==
    ASSUME IInv, RowsInv, NEW r \in Requests, pc[r] = "write",
           NEW line \in {r, Torn}, NEW closed \in BOOLEAN, AddLine(line, closed),
           UNCHANGED <<attempt, db, review>>,
           \A q \in Requests : q # r => pc'[q] = pc[q] \/ pc'[q] = "dropped",
           \/ /\ pc'[r] \in {"failed", "dropped"}
              /\ exposed' = exposed
           \/ /\ pc'[r] = "counted?"
              /\ line = r /\ closed
              /\ exposed' = IF open \/ drain \in {"read", "committed"}
                            THEN exposed \union {r} ELSE exposed,
           \/ UNCHANGED <<drain, batch>>
           \/ drain' = "idle" /\ batch' = {}
    PROVE  RowsInv'
<1> USE DEF IInv, RowsInv
<1>1. line \in Lines /\ file \in Seq(Lines) /\ Torn \notin Requests
  BY DEF Lines, TypeOK
<1>2. /\ \A q \in Readable(file') : q \in Readable(file) \/ q = line
      /\ \A q \in Readable(file) :
            q \in Readable(file') \/ (open /\ q = file[Len(file)])
      /\ ~open /\ line # Torn => line \in Readable(file')
      /\ file' \in Seq(Lines)
  <2>1. open \in BOOLEAN /\ (open => file # <<>>)
    BY DEF TypeOK, OpenLine
  <2> QED
    BY <1>1, <2>1, AddLineEffect
<1>3. \A q \in Requests : q # r /\ Appended(q)' => Appended(q)
  BY DEF Appended
<1>4. ASSUME NEW q \in Requests, q # r, Appended(q), q \in Readable(file)
      PROVE  q \in Readable(file')
  BY <1>2, <1>4 DEF OpenLine, Appended
<1>5. WrittenBy'
  <2> SUFFICES ASSUME NEW q \in Readable(file') \union batch'
               PROVE  pc'[q] \in {"counted?", "spooled", "failed", "dropped"}
    BY DEF WrittenBy
  <2>1. q \in Requests /\ (q # r => q \in Readable(file) \union batch)
    BY <1>1, <1>2, ReadableType DEF TypeOK, Lines
  <2> QED
    BY <2>1 DEF WrittenBy
<1>6. DirectStamped'
  BY DEF DirectStamped, Stamped
<1>7. SpooledStamped'
  <2> SUFFICES ASSUME NEW q \in Requests, Appended(q)', q \notin exposed'
               PROVE  /\ drain' = "committed" /\ q \in Readable(file')
                            => Stamped(q, MaxAttempts + 1)
                      /\ db[q] # Absent /\ q \notin Readable(file')
                            => Stamped(q, MaxAttempts + 1)
    BY DEF SpooledStamped, Stamped
  <2>1. CASE q = r
    BY <1>1, <1>2, <2>1 DEF Appended
  <2>2. CASE q # r
    <3>1. Appended(q) /\ q \notin exposed
      BY <1>3, <2>2
    <3>2. q \in Readable(file') <=> q \in Readable(file)
      BY <1>1, <1>2, <1>4, <2>2, <3>1
    <3>3. drain' = "committed" => drain = "committed"
      OBVIOUS
    <3> QED
      BY <3>1, <3>2, <3>3 DEF SpooledStamped
  <2> QED
    BY <2>1, <2>2
<1>8. ReviewedWithRow'
  BY DEF ReviewedWithRow
<1> QED
  BY <1>5, <1>6, <1>7, <1>8

LEMMA AppendRows ==
    ASSUME IInv, RowsInv, NEW r \in Requests,
           AppendLine(r) \/ AppendRaises(r) \/ CountLine(r)
    PROVE  RowsInv'
<1>1. CASE AppendLine(r)
  BY <1>1, WriteRows DEF AppendLine, GoTo, IInv, TypeOK, draining
<1>2. CASE AppendRaises(r) /\ AddPiece(r)
  <2>1. PICK line \in {r, Torn}, closed \in BOOLEAN : AddLine(line, closed)
    BY <1>2 DEF AddPiece
  <2>2. /\ pc[r] = "write"
        /\ pc' = [pc EXCEPT ![r] = "failed"]
        /\ UNCHANGED <<attempt, db, review, drain, batch, exposed>>
    BY <1>2 DEF AppendRaises, GoTo, draining
  <2> QED
    BY <2>1, <2>2, WriteRows DEF IInv, TypeOK
<1>3. CASE \/ AppendRaises(r) /\ UNCHANGED <<file, open>>
           \/ CountLine(r)
  <2>1. /\ \/ pc[r] = "write" /\ pc' = [pc EXCEPT ![r] = "failed"]
           \/ pc[r] = "counted?" /\ pc' = [pc EXCEPT ![r] = "spooled"]
        /\ UNCHANGED <<attempt, db, review, file, drain, batch, exposed>>
    BY <1>3 DEF AppendRaises, CountLine, GoTo, draining
  <2>2. /\ \A q \in Requests : q # r => pc'[q] = pc[q]
        /\ pc'[r] \in {"failed", "spooled"}
        /\ pc'[r] = "spooled" => Appended(r)
    BY <2>1 DEF IInv, TypeOK, Appended
  <2>3. WrittenBy'
    <3>1. Readable(file) \union batch \subseteq Requests
      BY ReadableType DEF IInv, TypeOK, Lines
    <3> QED
      BY <2>1, <2>2, <3>1 DEF RowsInv, WrittenBy, Readable
  <2>4. DirectStamped' /\ ReviewedWithRow'
    BY <2>1, <2>2 DEF RowsInv, DirectStamped, ReviewedWithRow, Stamped
  <2>5. SpooledStamped'
    BY <2>1, <2>2 DEF RowsInv, SpooledStamped, Stamped, Appended, Readable
  <2> QED
    BY <2>3, <2>4, <2>5 DEF RowsInv
<1> QED
  BY <1>1, <1>2, <1>3 DEF AppendRaises

\* The steps of drain_spool.
LEMMA DrainRows ==
    ASSUME IInv, RowsInv, Drain
    PROVE  RowsInv'
<1> USE DEF IInv, RowsInv
<1>0. Readable(file) \subseteq Requests
  BY ReadableType DEF TypeOK, Lines
<1>1. UNCHANGED <<pc, attempt, exposed>>
  BY DEF Drain, DrainReads, DrainCommits, DrainFails, TruncateFile, ResetCount, serving
<1>2. CASE DrainReads
  <2>1. /\ UNCHANGED <<db, review, file>>
        /\ drain' = "read" /\ batch' = Readable(file)
    BY <1>2 DEF DrainReads, spool
  <2> QED
    BY <1>1, <2>1 DEF WrittenBy, DirectStamped, SpooledStamped, ReviewedWithRow, Stamped,
                      Appended, Readable
<1>3. CASE WritePending(batch, MaxAttempts + 1, "spooled") /\ (DrainCommits \/ DrainFails)
  <2>1. /\ UNCHANGED file
        /\ drain = "read"
        /\ batch' \subseteq batch
        /\ drain' \in {"idle", "committed"}
    BY <1>3 DEF DrainCommits, DrainFails, spool
  <2>2. /\ \A q \in batch : db'[q] # Absent /\ db'[q].latency = MaxAttempts + 1
        /\ \A q \in Requests : q \notin batch => db'[q] = db[q]
        /\ ReviewedWithRow'
    <3>1. MaxAttempts + 1 \in 0..(MaxAttempts + 1) /\ batch \in SUBSET Requests
      BY DEF TypeOK
    <3> QED
      BY <1>3, <3>1, WritePendingRows
  <2>3. WrittenBy'
    BY <1>1, <2>1 DEF WrittenBy, Readable
  <2>4. DirectStamped'
    BY <1>1, <2>2 DEF WrittenBy, DirectStamped, Stamped
  <2>5. SpooledStamped'
    <3> SUFFICES ASSUME NEW q \in Requests, Appended(q), q \notin exposed
                 PROVE  /\ q \in Readable(file) => Stamped(q, MaxAttempts + 1)'
                        /\ db'[q] # Absent /\ q \notin Readable(file)
                              => Stamped(q, MaxAttempts + 1)'
      BY <1>1, <2>1 DEF SpooledStamped, Appended, Readable
    <3>1. q \in Readable(file) => q \in batch
      BY <2>1 DEF DrainCovers
    <3>2. CASE q \in batch
      BY <2>2, <3>2 DEF Stamped
    <3>3. CASE q \notin batch
      BY <2>2, <3>1, <3>3 DEF SpooledStamped, Stamped
    <3> QED
      BY <3>2, <3>3
  <2> QED
    BY <2>2, <2>3, <2>4, <2>5
<1>4. CASE DrainFails /\ UNCHANGED <<db, review>>
  <2>1. UNCHANGED file /\ drain' = "idle" /\ batch' = {}
    BY <1>4 DEF DrainFails, spool
  <2> QED
    BY <1>1, <1>4, <2>1 DEF WrittenBy, DirectStamped, SpooledStamped, ReviewedWithRow,
                            Stamped, Appended, Readable
<1>5. CASE TruncateFile
  <2>1. /\ UNCHANGED <<db, review, batch>>
        /\ drain = "committed" /\ drain' = "emptied"
        /\ file' = <<>>
    BY <1>5 DEF TruncateFile
  <2>2. Readable(file') = {}
    BY <2>1 DEF Readable
  <2> QED
    BY <1>1, <2>1, <2>2 DEF WrittenBy, DirectStamped, SpooledStamped, ReviewedWithRow,
                            Stamped, Appended
<1>6. CASE ResetCount
  <2>1. UNCHANGED <<db, review, file>> /\ drain' = "idle" /\ batch' = {}
    BY <1>6 DEF ResetCount
  <2> QED
    BY <1>1, <2>1 DEF WrittenBy, DirectStamped, SpooledStamped, ReviewedWithRow,
                      Stamped, Appended, Readable
<1> QED
  BY <1>2, <1>3, <1>4, <1>5, <1>6 DEF Drain, DrainCommits, DrainFails

LEMMA EnvironmentRows ==
    ASSUME IInv, RowsInv, Crash \/ DrainCrash \/ Restart \/ \E r \in Requests : Review(r)
    PROVE  RowsInv'
<1> USE DEF IInv, RowsInv
<1>0. Readable(file) \union batch \subseteq Requests
  BY ReadableType DEF TypeOK, Lines
<1>1. CASE Crash
  <2>1. /\ drain' = "idle" /\ batch' = {}
        /\ UNCHANGED <<attempt, db, review, exposed>>
        /\ \A q \in Requests : pc'[q] = pc[q] \/ pc'[q] = "dropped"
        /\ \A q \in Requests : pc[q] = "write" => pc'[q] = "dropped"
    BY <1>1 DEF Crash, Running, InFlight
  <2>2. CASE UNCHANGED <<file, open>>
    <3>1. WrittenBy' /\ DirectStamped' /\ ReviewedWithRow'
      BY <1>0, <2>1, <2>2 DEF WrittenBy, DirectStamped, ReviewedWithRow, Stamped, Readable
    <3>2. SpooledStamped'
      BY <2>1, <2>2 DEF SpooledStamped, Stamped, Appended, Readable
    <3> QED
      BY <3>1, <3>2
  <2>3. CASE \E r \in Requests : pc[r] = "write" /\ AddPiece(r)
    <3>1. PICK r \in Requests : pc[r] = "write" /\ AddPiece(r)
      BY <2>3
    <3>2. PICK line \in {r, Torn}, closed \in BOOLEAN : AddLine(line, closed)
      BY <3>1 DEF AddPiece
    <3> QED
      BY <2>1, <3>1, <3>2, WriteRows
  <2> QED
    BY <1>1, <2>2, <2>3 DEF Crash
<1>2. CASE DrainCrash \/ Restart
  <2>1. /\ UNCHANGED <<pc, attempt, db, review, file, exposed>>
        /\ UNCHANGED <<drain, batch>> \/ (drain' = "idle" /\ batch' = {})
    BY <1>2 DEF DrainCrash, Restart, serving, spool, draining
  <2> QED
    BY <2>1 DEF WrittenBy, DirectStamped, SpooledStamped, ReviewedWithRow, Stamped,
                Appended, Readable
<1>3. CASE \E r \in Requests : Review(r)
  <2>1. /\ UNCHANGED <<pc, attempt, db, file, drain, batch, exposed>>
        /\ \A q \in Requests : review'[q] # "none" <=> review[q] # "none"
    BY <1>3 DEF Review, serving, spool, draining, TypeOK
  <2> QED
    BY <2>1 DEF WrittenBy, DirectStamped, SpooledStamped, ReviewedWithRow, Stamped,
                Appended, Readable
<1> QED
  BY <1>1, <1>2, <1>3

LEMMA NextRows == IInv /\ RowsInv /\ [Next]_vars => RowsInv'
<1> SUFFICES ASSUME IInv, RowsInv, [Next]_vars PROVE RowsInv'
  OBVIOUS
<1>1. CASE \E r \in Requests : Serve(r)
  BY <1>1, QuietRows, CommitRows, AppendRows DEF Serve, IInv
<1>2. CASE Drain
  BY <1>2, DrainRows
<1>3. CASE Crash \/ DrainCrash \/ Restart \/ \E r \in Requests : Review(r)
  BY <1>3, EnvironmentRows
<1>4. CASE UNCHANGED vars
  BY <1>4 DEF vars, RowsInv, WrittenBy, DirectStamped, SpooledStamped, ReviewedWithRow,
              Stamped, Appended, Readable
<1> QED
  BY <1>1, <1>2, <1>3, <1>4 DEF Next

\* What an answer says of a row is what the database holds, and a review is there
\* exactly when its prediction is; for every combination of faults and every way
\* of calling drain_spool, a drain beside the server included.
THEOREM RowsCompleteCorrect == Spec => []RowsComplete
<1>1. IInv /\ RowsInv => RowsComplete
  BY DEF IInv, RowsInv, RowsComplete, DirectStamped, SpooledStamped, ReviewedWithRow,
         Stamped, Appended
<1> QED
  BY <1>1, InitIInv, InitRows, NextIInv, NextRows, PTL DEF Spec

-----------------------------------------------------------------------------
(* The bound of the spool and the count /health reports, where a write does *)
(* not raise and a drain only runs while the server is down                *)

Uncounted == { r \in Requests : pc[r] = "counted?" }

\* The requests that passed the check of the bound and are not counted yet.
PastCheck == { r \in Requests : pc[r] \in {"write", "counted?"} }

\* A process that serves counts every line but those just appended, and no more
\* than Threads requests were past the check together when the last one passed.
BoundInv ==
    /\ IsFiniteSet(Running) /\ Cardinality(Running) <= Threads
    /\ ~up => Running = {}
    /\ drain # "idle" => ~up
    /\ up => Len(file) <= count + Cardinality(Uncounted)
    /\ up => count + Cardinality(PastCheck) < MaxRows + Threads
    /\ Len(file) < MaxRows + Threads

Counting == "io" \notin Faults /\ DrainMode # "live"

\* Every set of requests in flight is finite and no larger than the threads.
LEMMA PastCheckSize ==
    ASSUME IsFiniteSet(Running)
    PROVE  /\ IsFiniteSet(Uncounted) /\ IsFiniteSet(PastCheck)
           /\ Cardinality(Running) \in Nat
           /\ Cardinality(Uncounted) \in Nat /\ Cardinality(PastCheck) \in Nat
           /\ Cardinality(Uncounted) <= Cardinality(PastCheck)
<1>1. PastCheck \in SUBSET Running /\ Uncounted \in SUBSET PastCheck
  BY DEF PastCheck, Uncounted, Running, InFlight
<1>2. IsFiniteSet(PastCheck)
  BY <1>1, FS_Subset
<1> QED
  BY <1>1, <1>2, FS_Subset, FS_CardinalityType

\* How a move of one request changes the three sets: it enters, leaves or stays.
LEMMA MoveEffect ==
    ASSUME TypeOK, NEW r \in Requests, NEW where, GoTo(r, where)
    PROVE  /\ (r \in Running <=> where \in InFlight) => Running' = Running
           /\ where \in InFlight => Running' = Running \union {r}
           /\ where \notin InFlight => Running' = Running \ {r}
           /\ (r \in Uncounted <=> where = "counted?") => Uncounted' = Uncounted
           /\ where = "counted?" => Uncounted' = Uncounted \union {r}
           /\ where # "counted?" => Uncounted' = Uncounted \ {r}
           /\ (r \in PastCheck <=> where \in {"write", "counted?"}) => PastCheck' = PastCheck
           /\ where \in {"write", "counted?"} => PastCheck' = PastCheck \union {r}
           /\ where \notin {"write", "counted?"} => PastCheck' = PastCheck \ {r}
<1>1. pc'[r] = where /\ \A q \in Requests : q # r => pc'[q] = pc[q]
  BY DEF GoTo, TypeOK
<1>2. /\ (r \in Running <=> where \in InFlight) => Running' = Running
      /\ where \in InFlight => Running' = Running \union {r}
      /\ where \notin InFlight => Running' = Running \ {r}
  BY <1>1 DEF Running
<1>3. /\ (r \in Uncounted <=> where = "counted?") => Uncounted' = Uncounted
      /\ where = "counted?" => Uncounted' = Uncounted \union {r}
      /\ where # "counted?" => Uncounted' = Uncounted \ {r}
  BY <1>1 DEF Uncounted
<1>4. /\ (r \in PastCheck <=> where \in {"write", "counted?"}) => PastCheck' = PastCheck
      /\ where \in {"write", "counted?"} => PastCheck' = PastCheck \union {r}
      /\ where \notin {"write", "counted?"} => PastCheck' = PastCheck \ {r}
  BY <1>1 DEF PastCheck
<1> QED
  BY <1>2, <1>3, <1>4

\* A line, or a piece of one, makes the file at most one line longer.
LEMMA AddLineLength ==
    ASSUME TypeOK, NEW line \in Lines, NEW closed \in BOOLEAN, AddLine(line, closed)
    PROVE  Len(file') \in Nat /\ Len(file') <= Len(file) + 1
<1>1. file \in Seq(Lines) /\ Torn \in Lines
  BY DEF TypeOK, Lines
<1>2. CASE open
  <2>1. file' = [file EXCEPT ![Len(file)] = Torn]
    BY <1>2 DEF AddLine
  <2>2. Len(file') = Len(file) /\ Len(file) \in Nat
    BY <1>1, <2>1
  <2> QED
    BY <2>2
<1>3. CASE ~open
  <2>1. file' = Append(file, line)
    BY <1>3 DEF AddLine
  <2>2. Len(file') = Len(file) + 1 /\ Len(file) \in Nat
    BY <1>1, <2>1
  <2> QED
    BY <2>2
<1> QED
  BY <1>2, <1>3 DEF TypeOK

LEMMA InitBound == Init => BoundInv
<1> SUFFICES ASSUME Init PROVE BoundInv
  OBVIOUS
<1>1. Running = {} /\ Uncounted = {} /\ PastCheck = {}
  BY DEF Init, Running, Uncounted, PastCheck, InFlight
<1>2. IsFiniteSet({}) /\ Cardinality({}) = 0
  BY FS_EmptySet
<1>3. Len(file) = 0 /\ count = 0 /\ up = TRUE /\ drain = "idle"
  BY DEF Init
<1> QED
  BY <1>1, <1>2, <1>3 DEF BoundInv

\* The steps of a request before the check, and the check.
LEMMA ServeBound ==
    ASSUME Counting, TypeOK, BoundInv, NEW r \in Requests, Serve(r)
    PROVE  BoundInv'
<1> USE DEF BoundInv
<1>0. /\ IsFiniteSet(Uncounted) /\ IsFiniteSet(PastCheck)
      /\ Cardinality(Running) \in Nat
      /\ Cardinality(Uncounted) \in Nat /\ Cardinality(PastCheck) \in Nat
      /\ Cardinality(Uncounted) <= Cardinality(PastCheck)
      /\ Len(file) \in Nat /\ count \in Nat /\ MaxRows \in Nat /\ Threads \in Nat
      /\ up \in BOOLEAN
  BY PastCheckSize DEF TypeOK
<1>1. up' = up /\ drain' = drain /\ up
  BY <1>0 DEF Serve, Begin, CommitDirect, AttemptFails, AttemptCommitsUnheard, SpoolIsFull,
         SpoolHasRoom, AppendLine, AppendRaises, CountLine, draining, Running, InFlight
<1>2. CASE Begin(r)
  <2>1. GoTo(r, "try") /\ UNCHANGED <<file, count>>
    BY <1>2 DEF Begin, spool
  <2>2. r \notin Running /\ r \notin Uncounted /\ r \notin PastCheck
        /\ Cardinality(Running) < Threads
    BY <1>2 DEF Begin, Running, Uncounted, PastCheck, InFlight
  <2>3. Running' = Running \union {r} /\ Uncounted' = Uncounted /\ PastCheck' = PastCheck
    BY <2>1, <2>2, MoveEffect DEF InFlight
  <2>4. IsFiniteSet(Running') /\ Cardinality(Running') = Cardinality(Running) + 1
    BY <2>2, <2>3, FS_AddElement
  <2> QED
    BY <1>0, <1>1, <2>1, <2>2, <2>3, <2>4
<1>3. CASE CommitDirect(r) \/ AttemptFails(r) \/ AttemptCommitsUnheard(r) \/ SpoolIsFull(r)
  <2>1. /\ pc[r] \in {"try", "full?"}
        /\ pc' = pc \/ \E where \in {"direct", "full?", "refused"} : GoTo(r, where)
        /\ UNCHANGED <<file, count>>
    BY <1>3 DEF CommitDirect, AttemptFails, AttemptCommitsUnheard, SpoolIsFull,
                RetryOrSpool, spool
  <2>2. r \in Running /\ r \notin Uncounted /\ r \notin PastCheck
    BY <2>1 DEF Running, Uncounted, PastCheck, InFlight
  <2>3. /\ Running' = Running \/ Running' = Running \ {r}
        /\ Uncounted' = Uncounted /\ PastCheck' = PastCheck
    <3>1. CASE pc' = pc
      BY <3>1 DEF Running, Uncounted, PastCheck
    <3>2. CASE \E where \in {"direct", "full?", "refused"} : GoTo(r, where)
      BY <2>2, <3>2, MoveEffect
    <3> QED
      BY <2>1, <3>1, <3>2
  <2>4. IsFiniteSet(Running') /\ Cardinality(Running') <= Cardinality(Running)
    <3>1. Running' \in SUBSET Running
      BY <2>3
    <3> QED
      BY <3>1, FS_Subset
  <2>5. Cardinality(Running') \in Nat
    BY <2>4, FS_CardinalityType
  <2> QED
    BY <1>0, <1>1, <2>1, <2>3, <2>4, <2>5
<1>4. CASE SpoolHasRoom(r)
  <2>1. /\ pc[r] = "full?" /\ count < MaxRows
        /\ GoTo(r, "write") /\ UNCHANGED <<file, count>>
    BY <1>4 DEF SpoolHasRoom, spool
  <2>2. r \in Running /\ r \notin Uncounted /\ r \notin PastCheck
    BY <2>1 DEF Running, Uncounted, PastCheck, InFlight
  <2>3. Running' = Running /\ Uncounted' = Uncounted /\ PastCheck' = PastCheck \union {r}
    BY <2>1, <2>2, MoveEffect DEF InFlight
  <2>4. Cardinality(PastCheck') = Cardinality(PastCheck) + 1
    BY <1>0, <2>2, <2>3, FS_AddElement
  <2>5. Cardinality(PastCheck') <= Cardinality(Running)
    <3>1. PastCheck' \in SUBSET Running
      BY <2>2, <2>3 DEF PastCheck, Running, InFlight
    <3> QED
      BY <3>1, FS_Subset
  <2> QED
    BY <1>0, <1>1, <2>1, <2>3, <2>4, <2>5
<1>5. CASE AppendLine(r)
  <2>1. pc[r] = "write" /\ GoTo(r, "counted?") /\ count' = count /\ AddLine(r, TRUE)
    BY <1>5 DEF AppendLine
  <2>2. r \in Running /\ r \notin Uncounted /\ r \in PastCheck
    BY <2>1 DEF Running, Uncounted, PastCheck, InFlight
  <2>3. Running' = Running /\ Uncounted' = Uncounted \union {r} /\ PastCheck' = PastCheck
    BY <2>1, <2>2, MoveEffect DEF InFlight
  <2>4. Cardinality(Uncounted') = Cardinality(Uncounted) + 1
    BY <1>0, <2>2, <2>3, FS_AddElement
  <2>5. Cardinality(Uncounted') <= Cardinality(PastCheck)
    <3>1. Uncounted' \in SUBSET PastCheck
      BY <2>2, <2>3 DEF PastCheck, Uncounted
    <3> QED
      BY <1>0, <3>1, FS_Subset
  <2>6. Len(file') \in Nat /\ Len(file') <= Len(file) + 1
    BY <2>1, AddLineLength DEF Lines
  <2> QED
    BY <1>0, <1>1, <2>1, <2>3, <2>4, <2>5, <2>6
<1>6. CASE CountLine(r)
  <2>1. pc[r] = "counted?" /\ GoTo(r, "spooled") /\ count' = count + 1 /\ file' = file
    BY <1>6 DEF CountLine
  <2>2. r \in Running /\ r \in Uncounted /\ r \in PastCheck
    BY <2>1 DEF Running, Uncounted, PastCheck, InFlight
  <2>3. /\ Running' = Running \ {r}
        /\ Uncounted' = Uncounted \ {r} /\ PastCheck' = PastCheck \ {r}
    BY <2>1, MoveEffect DEF InFlight
  <2>4. /\ IsFiniteSet(Running') /\ Cardinality(Running') = Cardinality(Running) - 1
        /\ Cardinality(Uncounted') = Cardinality(Uncounted) - 1
        /\ Cardinality(PastCheck') = Cardinality(PastCheck) - 1
    BY <1>0, <2>2, <2>3, FS_RemoveElement
  <2> QED
    BY <1>0, <1>1, <2>1, <2>3, <2>4
<1>7. ~AppendRaises(r)
  BY DEF AppendRaises, Counting
<1> QED
  BY <1>2, <1>3, <1>4, <1>5, <1>6, <1>7 DEF Serve

LEMMA DrainBound ==
    ASSUME Counting, TypeOK, BoundInv, Drain
    PROVE  BoundInv'
<1> USE DEF BoundInv
<1>1. UNCHANGED <<up, pc>> /\ ~up
  <2>1. CASE DrainReads
    BY <2>1 DEF DrainReads, serving, MayDrain, Counting
  <2>2. CASE DrainCommits \/ DrainFails \/ TruncateFile \/ ResetCount
    BY <2>2 DEF DrainCommits, DrainFails, TruncateFile, ResetCount, serving
  <2> QED
    BY <2>1, <2>2 DEF Drain
<1>2. Running' = Running
  BY <1>1 DEF Running
<1>3. file' = file \/ file' = <<>>
  BY DEF Drain, DrainReads, DrainCommits, DrainFails, TruncateFile, ResetCount, spool
<1>4. Len(file') < MaxRows + Threads
  BY <1>3
<1> QED
  BY <1>1, <1>2, <1>4

LEMMA CrashBound ==
    ASSUME TypeOK, BoundInv, Crash
    PROVE  BoundInv'
<1> USE DEF BoundInv
<1>1. /\ up /\ up' = FALSE /\ drain' = "idle"
      /\ \A q \in Requests : pc'[q] \notin InFlight
      /\ file' = file \/ \E r \in Requests : pc[r] = "write" /\ AddPiece(r)
  BY DEF Crash, Running, InFlight
<1>2. Running' = {} /\ IsFiniteSet({}) /\ Cardinality({}) = 0
  BY <1>1, FS_EmptySet DEF Running
<1>3. Len(file') < MaxRows + Threads
  <2>1. CASE file' = file
    BY <2>1
  <2>2. CASE \E r \in Requests : pc[r] = "write" /\ AddPiece(r)
    <3>1. PICK r \in Requests : pc[r] = "write" /\ AddPiece(r)
      BY <2>2
    <3>2. PICK line \in {r, Torn}, closed \in BOOLEAN : AddLine(line, closed)
      BY <3>1 DEF AddPiece
    <3>3. Len(file') \in Nat /\ Len(file') <= Len(file) + 1
      BY <3>2, AddLineLength DEF Lines
    <3>4. /\ IsFiniteSet(Uncounted) /\ IsFiniteSet(PastCheck)
          /\ Cardinality(Uncounted) \in Nat /\ Cardinality(PastCheck) \in Nat
      BY PastCheckSize
    <3>5. /\ Uncounted \union {r} \in SUBSET PastCheck
          /\ r \notin Uncounted
      BY <3>1 DEF Uncounted, PastCheck
    <3>6. Cardinality(Uncounted) + 1 <= Cardinality(PastCheck)
      BY <3>4, <3>5, FS_AddElement, FS_Subset
    <3>7. Len(file) \in Nat /\ count \in Nat
      BY DEF TypeOK
    <3> QED
      BY <1>1, <3>3, <3>4, <3>6, <3>7
  <2> QED
    BY <1>1, <2>1, <2>2
<1> QED
  BY <1>1, <1>2, <1>3

LEMMA NextBound == Counting /\ TypeOK /\ BoundInv /\ [Next]_vars => BoundInv'
<1> SUFFICES ASSUME Counting, TypeOK, BoundInv, [Next]_vars PROVE BoundInv'
  OBVIOUS
<1>1. CASE \E r \in Requests : Serve(r)
  BY <1>1, ServeBound
<1>2. CASE Drain
  BY <1>2, DrainBound
<1>3. CASE Crash
  BY <1>3, CrashBound
<1>4. CASE Restart
  <2>1. /\ ~up /\ up' = TRUE /\ drain = "idle" /\ count' = Len(file)
        /\ UNCHANGED <<pc, file, drain>>
    BY <1>4 DEF Restart, draining
  <2>2. Running = {} /\ Running' = Running
    BY <2>1 DEF BoundInv, Running
  <2>3. Uncounted' = {} /\ PastCheck' = {}
    BY <2>1, <2>2 DEF Uncounted, PastCheck, Running, InFlight
  <2>4. Cardinality({}) = 0 /\ Len(file) \in Nat
    BY FS_EmptySet DEF TypeOK
  <2> QED
    BY <2>1, <2>2, <2>3, <2>4 DEF BoundInv
<1>5. CASE DrainCrash
  BY <1>5 DEF DrainCrash, serving, spool, BoundInv, Running, Uncounted, PastCheck
<1>6. CASE \E r \in Requests : Review(r)
  BY <1>6 DEF Review, serving, spool, draining, BoundInv, Running, Uncounted, PastCheck
<1>7. CASE UNCHANGED vars
  BY <1>7 DEF vars, BoundInv, Running, Uncounted, PastCheck
<1> QED
  BY <1>1, <1>2, <1>3, <1>4, <1>5, <1>6, <1>7 DEF Next

\* The check, the write and the count are three unlocked steps, and still the
\* spool grows beyond its bound by less than the number of threads, whatever the
\* bound: through kills that tear a line, restarts and drains of a stopped server.
THEOREM SpoolOvershootCorrect ==
    ASSUME Counting
    PROVE  Spec => []SpoolOvershoot
<1>1. BoundInv => SpoolOvershoot
  BY DEF BoundInv, SpoolOvershoot
<1> QED
  BY <1>1, InitBound, NextBound, TypeCorrect, PTL DEF Spec

\* A count of zero on /health means an empty spool file, under the same hypotheses.
THEOREM HealthHonestCorrect ==
    ASSUME Counting
    PROVE  Spec => []HealthHonest
<1>1. TypeOK /\ BoundInv => HealthHonest
  <2> SUFFICES ASSUME TypeOK, BoundInv, up, count = 0,
                      \A r \in Requests : pc[r] # "counted?"
               PROVE  Readable(file) = {}
    BY DEF HealthHonest
  <2>1. Uncounted = {} /\ Cardinality({}) = 0
    BY FS_EmptySet DEF Uncounted
  <2>2. Len(file) = 0
    BY <2>1 DEF BoundInv, TypeOK
  <2>3. DOMAIN file = {}
    BY <2>2 DEF TypeOK
  <2> QED
    BY <2>3 DEF Readable
<1> QED
  BY <1>1, InitBound, NextBound, TypeCorrect, PTL DEF Spec
=============================================================================
