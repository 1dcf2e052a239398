------------------------------- MODULE Corpus -------------------------------
(***************************************************************************)
(* From the raw Jigsaw file to the split that everything is measured on:   *)
(* load.py, dedup.py, split.py, firewall_check.py and the cache builder of *)
(* train_distilbert.py.                                                    *)
(*                                                                         *)
(* MinHash LSH only nominates pairs of texts and may miss a similar pair.  *)
(* Whether dedup's bands collide for a pair is chosen when dedup asks, and *)
(* it asks once for each pair; whether the gate's bands do is fixed from   *)
(* the start, for it is a property of the two texts alone.                 *)
(***************************************************************************)
EXTENDS Naturals, FiniteSets, LabelSet

CONSTANTS
    Rows,       \* rows of the raw file; their ids are 1..Rows, in the order of the ids
    Texts,      \* normalized comment texts
    Folds,      \* number of outer folds
    PairBudget  \* EXACT_PAIR_BUDGET

ASSUME CorpusAssumption ==
    Rows \in Nat /\ Folds \in Nat \ {0} /\ PairBudget \in Nat

Ids == 1..Rows
Fold == 1..Folds
Pairs == SUBSET Texts

VARIABLES
    stage,      \* what has been done to the corpus
    text,       \* raw: the normalized text of a row
    labels,     \* raw: the labels of a row
    similar,    \* the pairs of texts of shingle Jaccard at or above the threshold
    gateSees,   \* the pairs of texts that collide in a band of the gate's LSH
    todo,       \* rows dedup has not considered yet
    kept,       \* rows that survived
    merged,     \* the labels of a surviving row, reconciled
    keeper,     \* history: the row that stands for a raw row
    missed,     \* history: the pairs of texts dedup's LSH did not nominate
    side,       \* "train" or "test"
    fold        \* the validation fold of a training row

raw == <<text, labels, similar, gateSees>>
corpusVars == <<stage, raw, todo, kept, merged, keeper, missed, side, fold>>

NoRow == [r \in {} |-> 0]

\* normalize() maps equal texts to equal shingle sets, of Jaccard 1.
Alike(a, b) == a = b \/ {a, b} \in similar

CorpusInit ==
    /\ stage = "raw"
    /\ text \in [Ids -> Texts] /\ labels \in [Ids -> SUBSET Annotated]
    /\ similar \in SUBSET {p \in Pairs : Cardinality(p) = 2}
    /\ gateSees \in SUBSET {p \in Pairs : Cardinality(p) = 2}
    /\ todo = {} /\ kept = {} /\ merged = labels /\ keeper = [r \in Ids |-> r]
    /\ missed = {} /\ side = NoRow /\ fold = NoRow

-----------------------------------------------------------------------------
\* load_raw, then the exact stage of dedup: of the rows of one normalized text the
\* lowest id stays, with the union of their labels.

SameText(r) == {q \in Ids : text[q] = text[r]}
Lowest(S) == CHOOSE q \in S : \A p \in S : q <= p

CollapseExact ==
    /\ stage = "raw"
    /\ stage' = "collapsed"
    /\ keeper' = [r \in Ids |-> Lowest(SameText(r))]
    /\ merged' = [r \in Ids |-> UNION {labels[q] : q \in SameText(r)}]
    /\ todo' = {Lowest(SameText(r)) : r \in Ids}
    /\ UNCHANGED <<raw, kept, missed, side, fold>>

\* load_raw refuses a file with missing columns, null texts or labels that are not 0 or 1.
LoadRaises ==
    /\ stage = "raw"
    /\ stage' = "refused"
    /\ UNCHANGED <<raw, todo, kept, merged, keeper, missed, side, fold>>

\* Mutation: a near-duplicate is dropped with its labels.
ConsiderWithoutOr(r, nominated) ==
    LET verified == {c \in nominated : Alike(text[c], text[r])} IN
    /\ stage = "collapsed"
    /\ r \in todo /\ \A q \in todo : r <= q
    /\ nominated \subseteq kept
    /\ todo' = todo \ {r}
    /\ missed' = missed \cup {{text[c], text[r]} : c \in kept \ nominated}
    /\ merged' = merged
    /\ IF verified = {}
       THEN /\ kept' = kept \cup {r}
            /\ UNCHANGED keeper
       ELSE \E rep \in verified :
            /\ \A c \in verified : rep <= c
            /\ keeper' = [q \in Ids |-> IF keeper[q] = r THEN rep ELSE keeper[q]]
            /\ kept' = kept
    /\ UNCHANGED <<stage, raw, side, fold>>

\* The near-duplicate stage takes the rows by ascending id.  LSH nominates some of
\* the rows already kept; the exact Jaccard confirms some of those.  With none
\* confirmed the row is kept and indexed; otherwise its labels are or-ed into the
\* lowest confirmed row and the row itself is dropped.
Consider(r, nominated) ==
    LET verified == {c \in nominated : Alike(text[c], text[r])} IN
    /\ stage = "collapsed"
    /\ r \in todo /\ \A q \in todo : r <= q
    /\ nominated \subseteq kept
    /\ todo' = todo \ {r}
    /\ missed' = missed \cup {{text[c], text[r]} : c \in kept \ nominated}
    /\ IF verified = {}
       THEN /\ kept' = kept \cup {r}
            /\ UNCHANGED <<merged, keeper>>
       ELSE \E rep \in verified :
            /\ \A c \in verified : rep <= c
            /\ merged' = [merged EXCEPT ![rep] = @ \cup merged[r]]
            /\ keeper' = [q \in Ids |-> IF keeper[q] = r THEN rep ELSE keeper[q]]
            /\ kept' = kept
    /\ UNCHANGED <<stage, raw, side, fold>>

-----------------------------------------------------------------------------
\* make_splits: the stratified splitters place every surviving row in training or in
\* the held-out set, and every training row in one validation fold.  How they
\* balance the labels is the library's business and left open.
Split ==
    /\ stage = "collapsed" /\ todo = {}
    /\ stage' = "split"
    /\ side' \in {s \in [kept -> {"train", "test"}] :
                    {"train", "test"} \subseteq {s[r] : r \in kept}}
    /\ fold' \in [{r \in kept : side'[r] = "train"} -> Fold]
    /\ UNCHANGED <<raw, todo, kept, merged, keeper, missed>>

Train == {r \in kept : side[r] = "train"}
Test == {r \in kept : side[r] = "test"}

\* Mutation: the gate blocks with dedup's own bands.
ComparedLikeDedup(a, b) ==
    \/ Cardinality(Train) * Cardinality(Test) <= PairBudget
    \/ text[a] = text[b] \/ {text[a], text[b]} \notin missed

\* leakage_report: below the pair budget every cross pair is compared, above it those
\* the gate's own LSH nominates; either way the exact Jaccard decides.
Compared(a, b) ==
    \/ Cardinality(Train) * Cardinality(Test) <= PairBudget
    \/ text[a] = text[b] \/ {text[a], text[b]} \in gateSees
Hits == {p \in Train \X Test :
            Compared(p[1], p[2]) /\ Alike(text[p[1]], text[p[2]])}
ExactLeak == {text[r] : r \in Train} \cap {text[r] : r \in Test}

\* assert_no_leakage, before write_bundle_cache moves the bundle in.
GateAccepts ==
    /\ stage = "split"
    /\ ExactLeak = {} /\ Hits = {}
    /\ stage' = "accepted"
    /\ UNCHANGED <<raw, todo, kept, merged, keeper, missed, side, fold>>
GateRefuses ==
    /\ stage = "split"
    /\ ExactLeak # {} \/ Hits # {}
    /\ stage' = "refused"
    /\ UNCHANGED <<raw, todo, kept, merged, keeper, missed, side, fold>>

\* write_profile publishes the counts of an accepted corpus, unless a row is severely
\* toxic and not toxic.
Profile ==
    /\ stage = "accepted"
    /\ \A r \in kept : "severe_toxic" \in merged[r] => "toxic" \in merged[r]
    /\ stage' = "profiled"
    /\ UNCHANGED <<raw, todo, kept, merged, keeper, missed, side, fold>>

CorpusNext ==
    \/ LoadRaises \/ CollapseExact
    \/ \E r \in Ids, nominated \in SUBSET kept : Consider(r, nominated)
    \/ Split \/ GateAccepts \/ GateRefuses \/ Profile

CorpusSpec == CorpusInit /\ [][CorpusNext]_corpusVars

-----------------------------------------------------------------------------
\* Types and ranges.
CorpusTypeOK ==
    /\ stage \in {"raw", "collapsed", "split", "accepted", "profiled", "refused"}
    /\ text \in [Ids -> Texts] /\ labels \in [Ids -> SUBSET Annotated]
    /\ similar \subseteq Pairs /\ gateSees \subseteq Pairs
    /\ todo \subseteq Ids /\ kept \subseteq Ids /\ kept \cap todo = {}
    /\ merged \in [Ids -> SUBSET Annotated] /\ keeper \in [Ids -> Ids]
    /\ missed \subseteq Pairs

\* No positive is discarded with a duplicate copy: once dedup has begun, every raw row
\* is stood for by a row that is kept or yet to be considered, whose text is the
\* row's own or verified as similar, and which carries each of the row's labels --
\* however the bands collided and whichever rows were merged before (dedup.py:25).
LabelsKept ==
    stage \in {"collapsed", "split", "accepted", "profiled"} =>
        \A r \in Ids :
            /\ keeper[r] \in kept \cup todo
            /\ labels[r] \subseteq merged[keeper[r]]
            /\ Alike(text[r], text[keeper[r]])

\* Train and test share nothing the gate could have seen: in a corpus that was let
\* through, a similar pair across the split is one dedup's bands missed, the gate's
\* bands missed too, in a corpus too large to compare pair by pair.  A gate that
\* looks with dedup's eyes would pass whatever dedup overlooked
\* (firewall_check.py:3-6).
NoLeak ==
    stage \in {"accepted", "profiled"} =>
        \A a \in Train, b \in Test :
            Alike(text[a], text[b]) =>
                /\ {text[a], text[b]} \in missed \ gateSees
                /\ Cardinality(Train) * Cardinality(Test) > PairBudget

=============================================================================
