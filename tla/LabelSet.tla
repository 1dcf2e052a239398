------------------------------ MODULE LabelSet ------------------------------
(***************************************************************************)
(* model/labels.py: the toxicity labels every other part is indexed by.    *)
(* Two of the six are named by the code's rules, the others are alike.     *)
(***************************************************************************)
CONSTANTS
    Labels,
    Annotated   \* those the annotated rows of an instance carry: a bound, all of them in life

ASSUME LabelsAssumption ==
    {"toxic", "severe_toxic"} \subseteq Labels /\ Annotated \subseteq Labels

=============================================================================
