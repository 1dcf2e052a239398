------------------------------ MODULE Decision ------------------------------
(***************************************************************************)
(* From a comment's scores to the response that is served and to the flags *)
(* that monitoring reads out of the stored row: backend/policy.py,         *)
(* model/contract.py and the decision rule of monitoring/queries.py.       *)
(*                                                                         *)
(* A probability is an integer number of One-ths.                          *)
(***************************************************************************)
EXTENDS Integers, FiniteSets, LabelSet

CONSTANTS
    One,            \* the probability 1
    BlockLabels,    \* BLOCK_LABELS
    BlockMargin,    \* BLOCK_MARGIN
    ReviewMargin,   \* REVIEW_MARGIN
    Scores,         \* the probabilities a model may give
    Thresholds      \* the thresholds load_thresholds accepts: strictly between 0 and 1

ASSUME DecisionAssumption ==
    /\ One \in Nat /\ BlockMargin \in Nat /\ ReviewMargin \in Nat
    /\ BlockLabels \subseteq Labels
    /\ Scores \subseteq 0..One /\ 0 \in Scores
    /\ Thresholds \subseteq 1..(One - 1)

VARIABLES
    thresholds, \* the thresholds the backend loaded
    scores,     \* what the model says of a comment
    response    \* what is served: the scores, flags and decision of a PredictionResponse

decisionVars == <<thresholds, scores, response>>

Pending == [decision |-> "pending"]
Raised == [decision |-> "raised"]  \* no response: a 500

DecisionInit ==
    /\ thresholds \in [Labels -> Thresholds]
    /\ scores \in [Labels -> Scores]
    /\ response = Pending

-----------------------------------------------------------------------------
\* enforce_hierarchy: severe_toxic can never exceed toxic.
EnforceHierarchy(p) ==
    [p EXCEPT !["severe_toxic"] = IF @ <= p["toxic"] THEN @ ELSE p["toxic"]]

\* Mutation: monitoring compares strictly.
FlaggedAbove(p, t) == [l \in Labels |-> p[l] > t[l]]

\* The recomputation from scores: `prob_<label> >= thresholds[<label>]`, label by label.
Flagged(p, t) == [l \in Labels |-> p[l] >= t[l]]

\* The flags the reference rates of monitoring count, over the model's held-out scores.
BaselineFlagged(p, t) == [l \in Labels |-> p[l] >= t[l]]

\* decide: a severe flag brings the toxic flag with it.
Flags(p, t) ==
    [l \in Labels |-> p[l] >= t[l] \/ (l = "toxic" /\ p["severe_toxic"] >= t["severe_toxic"])]

\* Mutation: the absolute margin alone.
InReviewBandAbsolute(p, t) == p >= t - ReviewMargin

\* review_floor: the margin below the threshold, but never below half of it; stated of
\* the doubled score, for half a threshold need not be an integer.
InReviewBand(p, t) == 2 * p >= 2 * (t - ReviewMargin) /\ 2 * p >= t

Verdict(p, t) ==
    IF \E l \in BlockLabels : p[l] >= t[l] + BlockMargin THEN "block"
    ELSE IF (\E l \in Labels : Flags(p, t)[l]) \/ (\E l \in Labels : InReviewBand(p[l], t[l]))
         THEN "review" ELSE "allow"

Response(p, t) == [scores |-> p, flags |-> Flags(p, t), decision |-> Verdict(p, t)]

\* PredictionResponse: what its validators refuse.
WellFormed(r) ==
    /\ \A l \in Labels : r.scores[l] \in 0..One
    /\ r.scores["severe_toxic"] <= r.scores["toxic"]
    /\ r.flags["severe_toxic"] => r.flags["toxic"]

\* /predict: the scores are made coherent first and decided on next; a response its
\* own contract refuses is a 500.
Predict ==
    /\ response = Pending
    /\ LET r == Response(EnforceHierarchy(scores), thresholds) IN
       response' = IF WellFormed(r) THEN r ELSE Raised
    /\ UNCHANGED <<thresholds, scores>>

DecisionSpec == DecisionInit /\ [][Predict]_decisionVars

-----------------------------------------------------------------------------
\* Types.
DecisionTypeOK ==
    /\ thresholds \in [Labels -> Thresholds] /\ scores \in [Labels -> Scores]
    /\ response \in {Pending, Raised} \cup
         [scores : [Labels -> 0..One], flags : [Labels -> BOOLEAN],
          decision : {"allow", "review", "block"}]

\* No comment is refused by the response contract, whatever the model says of it and
\* whatever thresholds were tuned (policy.py:5-6: the validator is a backstop).
ResponseValid == response # Raised

Severity == [d \in {"allow", "review", "block"} |->
                IF d = "allow" THEN 0 ELSE IF d = "review" THEN 1 ELSE 2]

Decided(p) == Severity[Verdict(EnforceHierarchy(p), thresholds)]

\* A comment the model scores higher on any label is never treated more leniently, through
\* the hierarchy, the block margin, the flags and the review band together.
NeverMoreLenient ==
    response # Pending =>
        \A l \in Labels, v \in Scores :
            v >= scores[l] => Decided(scores) <= Decided([scores EXCEPT ![l] = v])

\* The allow branch can be reached under every threshold that load_thresholds accepts: a
\* comment with no score at all is allowed.  With an absolute margin it was not, for
\* thresholds below the margin, and the audit stratum stayed empty (policy.py:24-30).
AllowReachable ==
    response # Pending => Verdict([l \in Labels |-> 0], thresholds) = "allow"

\* The decision is sound: no request fails on its own contract, no higher score earns a
\* milder decision, and no threshold makes a branch of the policy unreachable.
DecisionSound == ResponseValid /\ NeverMoreLenient /\ AllowReachable

\* The three places that flag a comment -- the response, monitoring's recomputation from
\* the stored scores, the Phase 1 baseline from the model's own -- disagree on nothing but
\* the two labels of the hierarchy, and there in one direction each: the response may
\* add toxic, the baseline may add severe_toxic (queries.py:10-13).
OneRule ==
    response \notin {Pending, Raised} =>
        LET series == Flagged(response.scores, thresholds)
            baseline == BaselineFlagged(scores, thresholds)
        IN  /\ \A l \in Labels \ {"toxic", "severe_toxic"} :
                   response.flags[l] = series[l] /\ series[l] = baseline[l]
            /\ series["toxic"] = baseline["toxic"]
            /\ series["toxic"] => response.flags["toxic"]
            /\ response.flags["severe_toxic"] = series["severe_toxic"]
            /\ series["severe_toxic"] => baseline["severe_toxic"]

=============================================================================
