------------------------------ MODULE MCGpuRun ------------------------------
(***************************************************************************)
(* Two training runs on one machine, each by either driver of a DistilBERT *)
(* run, and a cache that changes between two splits.  The classical        *)
(* command goes through the steps of a fine-tune without surviving any     *)
(* failure, and would add none.                                            *)
(***************************************************************************)
EXTENDS GpuRun, TLC

CONSTANTS l1, l2, s1, s2, torn

MCLeases == {l1, l2}
MCSplits == {s1, s2}
NoReapers == {}
MCCommands == {"phase1", "finetune"}
RunFaults == {"interrupt", "kill"}
RunSymmetry == Permutations(MCLeases) \union Permutations(MCSplits)
=============================================================================
