--------------------------- MODULE MCReviewQueue ---------------------------
(***************************************************************************)
(* Two requests, one that asks for a review by itself and one a visitor    *)
(* may report, so that a batch, an age order and a row that is not the     *)
(* other's neighbour in it exist.  A day stands for the unit of every      *)
(* retention setting; the settings are as close together as the code's     *)
(* defaults allow (7, 30, 30), which is where the order of the purge's     *)
(* statements matters.                                                     *)
(***************************************************************************)
EXTENDS ReviewQueue, TLC

CONSTANTS r1, r2, p1, p2, w1, w2

MCRequests == {r1, r2}
MCIntent == (r1 :> "flagged") @@ (r2 :> "none")
MCDrawn == (r1 :> "flagged") @@ (r2 :> "random-audit")
OneReviewer == {p1}
TwoReviewers == {p1, p2}
OneRescorer == {w1}
TwoRescorers == {w1, w2}
MCWorkers == Permutations({p1, p2}) \union Permutations({w1, w2})
=============================================================================
