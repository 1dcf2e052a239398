--------------------------- MODULE MCUserFeedback ---------------------------
(***************************************************************************)
(* Three predictions of one sender and two clicks at once: two clicks can  *)
(* name one request and can read one count together, and the third         *)
(* prediction is one more than a quota of one and those two clicks allow.  *)
(***************************************************************************)
EXTENDS UserFeedback, TLC

CONSTANTS r1, r2, r3, c1, c2, w1, s1

MCRequests == {r1, r2, r3}
MCTwo == {r1, r2}
NoneDrawn == [r \in Requests |-> "none"]
OneClick == {c1}
MCClicks == {c1, c2}
OneRescorer == {w1}
Absentees == {}
MCSenders == {s1}
OneSender == [r \in Requests |-> s1]
MCSymmetry == Permutations(MCClicks)
=============================================================================
