-------------------------- MODULE ReviewLifecycle --------------------------
(***************************************************************************)
(* The life of the items of the review queue, as the statuses of           *)
(* review_queue intend it (backend/db.py:119-121): opened once, scored by  *)
(* the challenger at most once, judged by a person at most once, and       *)
(* nothing that was closed is open again.  A judgement and the reviewer's  *)
(* feedback row it leaves are one step.                                    *)
(***************************************************************************)
EXTENDS Naturals

CONSTANT Requests

VARIABLES status,     \* of each item; "none" before it is queued
          judgements  \* reviewer rows of the feedback table, per item

Open == {"pending", "rescored"}

Init ==
    /\ status = [r \in Requests |-> "none"]
    /\ judgements = [r \in Requests |-> 0]

Move(items, from, to) ==
    /\ \A r \in items : status[r] \in from
    /\ status' = [r \in Requests |-> IF r \in items THEN to ELSE status[r]]

Queue(r) == Move({r}, {"none"}, "pending") /\ UNCHANGED judgements

Rescore(items) == Move(items, {"pending"}, "rescored") /\ UNCHANGED judgements

Expire(items) == Move(items, Open, "expired") /\ UNCHANGED judgements

\* A person may still judge what has expired.
Judge(r) ==
    /\ Move({r}, Open \union {"expired"}, "reviewed")
    /\ judgements' = [judgements EXCEPT ![r] = @ + 1]

Next ==
    \/ \E r \in Requests : Queue(r) \/ Judge(r)
    \/ \E items \in SUBSET Requests : Rescore(items) \/ Expire(items)

Spec == Init /\ [][Next]_<<status, judgements>>
=============================================================================
