----------------------------- MODULE MCPodLease -----------------------------
(***************************************************************************)
(* Two launchers and one reaper: the pairs in which one replaces the       *)
(* registry between the read and the replacement of another.               *)
(***************************************************************************)
EXTENDS PodLease, TLC

CONSTANTS l1, l2, t1

MCLeases == {l1, l2}
MCReapers == {t1}
MCOne == {l1}
MCSymmetry == Permutations(MCLeases)

NoFaults == {}
=============================================================================
