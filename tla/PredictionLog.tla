--------------------------- MODULE PredictionLog ---------------------------
(***************************************************************************)
(* What the persistence path of /predict promises, without saying how: a   *)
(* prediction that was acknowledged with HTTP 200 is in the log, and the   *)
(* log only grows.  The rubric the backend cites calls this "complete      *)
(* logging" (backend/spool.py:3-8); backend/persistence.py:3-8 is the      *)
(* order of fallbacks that is meant to achieve it.                         *)
(***************************************************************************)
CONSTANT Requests

VARIABLES logged,   \* requests whose row survives a crash of the backend
          acked     \* requests whose caller was answered with the prediction

TypeOK ==
    /\ logged \subseteq Requests
    /\ acked \subseteq Requests

Init ==
    /\ logged = {}
    /\ acked = {}

\* The row becomes durable; its caller may never hear of it.
Record(r) ==
    /\ r \notin logged
    /\ logged' = logged \union {r}
    /\ UNCHANGED acked

\* The caller is answered, which needs the row to be durable already.
Acknowledge(r) ==
    /\ r \in logged
    /\ acked' = acked \union {r}
    /\ UNCHANGED logged

\* A commit makes the row durable and its return is the answer.
RecordAndAcknowledge(r) ==
    /\ logged' = logged \union {r}
    /\ acked' = acked \union {r}

Next ==
    \E r \in Requests : Record(r) \/ Acknowledge(r) \/ RecordAndAcknowledge(r)

Spec == Init /\ [][Next]_<<logged, acked>>
=============================================================================
