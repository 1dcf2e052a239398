-------------------------- MODULE MCReviewerConsole --------------------------
(***************************************************************************)
(* One console, two workers of the backend (a submit that was given up may *)
(* still run when the next one starts), one re-scorer, the purge, and two  *)
(* requests that are drawn for review.                                     *)
(***************************************************************************)
EXTENDS ReviewerConsole, TLC

CONSTANTS r1, r2, p1, p2, w1, w2, c1

MCRequests == {r1, r2}
MCDrawn == (r1 :> "flagged") @@ (r2 :> "random-audit")
OneReviewer == {p1}
TwoReviewers == {p1, p2}
OneRescorer == {w1}
TwoRescorers == {w1, w2}
OneConsole == {c1}
MCWorkers == Permutations(TwoReviewers)
=============================================================================
