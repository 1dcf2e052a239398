-------------------------- MODULE PodLease_proofs --------------------------
(***************************************************************************)
(* Proofs about PodLease, for any number of launchers and reapers and any  *)
(* faults: types, that no pod is without a record but for the exposed      *)
(* ones, and that a lease that returns has left no pod.                    *)
(***************************************************************************)
EXTENDS PodLease, TLAPS

\* The leases that have come as far as to create their pod.
Created == { l \in Leases : pc[l] \notin {"new", "approved", "entered"} }

\* Nobody knows of a pod before it exists.
KnownCreated ==
    /\ live \subseteq Created
    /\ registry \subseteq Created
    /\ \A q \in Processes : read[q] \union todo[q] \union done[q] \subseteq Created

\* What a lease is about to remove from the registry was seen to be gone.
LeasePrunesGone ==
    \A l \in Leases :
        pc[l] \in {"pruning", "removing"} => todo[l] = {} /\ done[l] \cap live = {}

\* What a reaper is about to remove is gone, or was taken at its word.
ReaperPrunesGone == \A r \in Reapers : done[r] \cap live \subseteq exposed

\* A lease that is closing without an exception has its own pod on its list.
OwnPodListed ==
    \A l \in Leases :
        pc[l] \in Closing /\ l \notin erring => l \in todo[l] \union done[l]

\* A lease that is not tearing down has nothing to delete or to remove.
NothingPlanned ==
    \A l \in Leases : pc[l] \notin Closing => todo[l] = {} /\ done[l] = {}

IInv ==
    /\ TypeOK
    /\ NothingPlanned
    /\ KnownCreated
    /\ LeasePrunesGone
    /\ ReaperPrunesGone
    /\ OwnPodListed
    /\ NoOrphan
    /\ DoneMeansGone





-----------------------------------------------------------------------------
(* Types                                                                   *)

LEMMA TypeStep == TypeOK /\ [Next]_vars => TypeOK'
<1> SUFFICES ASSUME TypeOK, [Next]_vars PROVE TypeOK'
  OBVIOUS
<1> USE LeaseAssumption
    DEF TypeOK, Processes, LeaseStates, ReaperStates, Ended, Unrecorded, Closing
<1>1. ASSUME NEW l \in Leases, Preflight(l)
      PROVE  TypeOK'
  BY <1>1 DEF Preflight, Goes, books, plans
<1>2. ASSUME NEW l \in Leases, Enter(l)
      PROVE  TypeOK'
  BY <1>2 DEF Enter, Goes, books
<1>3. ASSUME NEW l \in Leases, CreatePod(l)
      PROVE  TypeOK'
  BY <1>3 DEF CreatePod, Goes, books, plans
<1>4. ASSUME NEW l \in Leases, CreateFails(l)
      PROVE  TypeOK'
  BY <1>4 DEF CreateFails, Goes, books, plans
<1>5. ASSUME NEW l \in Leases, PodWithoutId(l)
      PROVE  TypeOK'
  BY <1>5 DEF PodWithoutId, Goes, plans
<1>6. ASSUME NEW l \in Leases, AppendReads(l)
      PROVE  TypeOK'
  BY <1>6 DEF AppendReads, ReadRegistry, Goes, books
<1>7. ASSUME NEW l \in Leases, AppendWrites(l)
      PROVE  TypeOK'
  BY <1>7 DEF AppendWrites, Replace, Goes
<1>8. ASSUME NEW l \in Leases, AppendRaises(l)
      PROVE  TypeOK'
  BY <1>8 DEF AppendRaises, Goes, books, plans
<1>9. ASSUME NEW l \in Leases, DeleteUnrecorded(l)
      PROVE  TypeOK'
  BY <1>9 DEF DeleteUnrecorded, Goes, plans
<1>10. ASSUME NEW l \in Leases, Ready(l)
      PROVE  TypeOK'
  BY <1>10 DEF Ready, Goes, books, plans
<1>11. ASSUME NEW l \in Leases, NotReady(l)
      PROVE  TypeOK'
  BY <1>11 DEF NotReady, Goes, books, plans
<1>12. ASSUME NEW l \in Leases, TeardownBegins(l)
      PROVE  TypeOK'
  BY <1>12 DEF TeardownBegins, Goes, books
<1>13. ASSUME NEW l \in Leases, Verify(l)
      PROVE  TypeOK'
  BY <1>13 DEF Verify, Goes, books, plans
<1>14. ASSUME NEW l \in Leases, TeardownRaises(l)
      PROVE  TypeOK'
  BY <1>14 DEF TeardownRaises, Ends, Goes, books
<1>15. ASSUME NEW r \in Reapers, ReaperReads(r)
      PROVE  TypeOK'
  BY <1>15 DEF ReaperReads, ReadRegistry, Goes, books
<1>16. ASSUME NEW r \in Reapers, ReaperLists(r)
      PROVE  TypeOK'
  BY <1>16 DEF ReaperLists, Goes, books
<1>17. ASSUME NEW r \in Reapers, ReaperTakesOne(r)
      PROVE  TypeOK'
  BY <1>17 DEF ReaperTakesOne, Goes, books
<1>18. ASSUME NEW r \in Reapers, ReaperDies(r)
      PROVE  TypeOK'
  BY <1>18 DEF ReaperDies, Ends, Goes, books
<1>19. ASSUME NEW q \in Processes, NEW p \in Leases, Deleted(q, p)
      PROVE  TypeOK'
  BY <1>19 DEF Deleted, books
<1>20. ASSUME NEW q \in Processes, NEW p \in Leases, DeletedInWord(q, p)
      PROVE  TypeOK'
  BY <1>20 DEF DeletedInWord
<1>21. ASSUME NEW q \in Processes, NEW p \in Leases, DeleteFails(q, p)
      PROVE  TypeOK'
  BY <1>21 DEF DeleteFails, books
<1>22. ASSUME NEW q \in Processes, NothingToPrune(q)
      PROVE  TypeOK'
  BY <1>22 DEF NothingToPrune, Ends, Outcome, Goes, books
<1>23. ASSUME NEW q \in Processes, PruneReads(q)
      PROVE  TypeOK'
  BY <1>23 DEF PruneReads, ReadRegistry, Goes, books
<1>24. ASSUME NEW q \in Processes, PruneWrites(q)
      PROVE  TypeOK'
  BY <1>24 DEF PruneWrites, Replace, Ends, Outcome, Goes
<1>25. ASSUME NEW l \in Leases, Kill(l)
      PROVE  TypeOK'
  BY <1>25 DEF Kill, Ends, Goes
<1>26. ASSUME NEW l \in Leases, Vanish(l)
      PROVE  TypeOK'
  BY <1>26 DEF Vanish, books, plans
<1>27. CASE UNCHANGED vars
  BY <1>27 DEF vars
<1> QED
  BY <1>1, <1>2, <1>3, <1>4, <1>5, <1>6, <1>7, <1>8, <1>9, <1>10, <1>11, <1>12, <1>13, <1>14, <1>15, <1>16, <1>17, <1>18, <1>19, <1>20, <1>21, <1>22, <1>23, <1>24, <1>25, <1>26, <1>27
  DEF Next, LeaseNext, ReaperNext, DeleteNext

\* Every variable keeps its type.
THEOREM TypeCorrect == Spec => []TypeOK
<1>1. Init => TypeOK
  BY LeaseAssumption
  DEF Init, TypeOK, Processes, LeaseStates, ReaperStates, Ended, Unrecorded, Closing
<1> QED
  BY <1>1, TypeStep, PTL DEF Spec

-----------------------------------------------------------------------------
(* Records                                                                 *)

LEMMA RecordStep == IInv /\ [Next]_vars => IInv'
<1> SUFFICES ASSUME IInv, [Next]_vars PROVE IInv'
  OBVIOUS
<1> TypeOK /\ TypeOK'
  BY TypeStep DEF IInv
<1> DEFINE Rest == /\ NothingPlanned /\ KnownCreated /\ LeasePrunesGone
                   /\ ReaperPrunesGone /\ OwnPodListed /\ NoOrphan /\ DoneMeansGone
<1> SUFFICES Rest'
  BY DEF IInv
<1> USE LeaseAssumption
    DEF IInv, TypeOK, NothingPlanned, KnownCreated, Created, LeasePrunesGone, ReaperPrunesGone,
        OwnPodListed, NoOrphan, DoneMeansGone, Processes, Unrecorded, Closing
<1>1. ASSUME NEW l \in Leases, Preflight(l)
      PROVE  Rest'
  BY <1>1 DEF Preflight, Goes, books, plans
<1>2. ASSUME NEW l \in Leases, Enter(l)
      PROVE  Rest'
  BY <1>2 DEF Enter, Goes, books
<1>3. ASSUME NEW l \in Leases, CreatePod(l)
      PROVE  Rest'
  \* The new pod is in nobody's list, and its launcher answers for it.
  <2>1. l \notin Created /\ Created' = Created \union {l}
    BY <1>3 DEF CreatePod, Goes
  <2>2. /\ NothingPlanned' /\ OwnPodListed'
        /\ registry' \subseteq Created' /\ live' \subseteq Created'
    BY <2>1, <1>3 DEF CreatePod, Goes, books, plans
  <2>3. \A q \in Processes : l \notin done[q]
    BY <2>1
  <2>4. LeasePrunesGone' /\ ReaperPrunesGone'
    BY <2>3, <1>3 DEF CreatePod, Goes, books, plans
  <2>5. NoOrphan' /\ DoneMeansGone' /\ KnownCreated'
    BY <2>1, <1>3 DEF CreatePod, Goes, books, plans
  <2> QED
    BY <2>2, <2>4, <2>5
<1>4. ASSUME NEW l \in Leases, CreateFails(l)
      PROVE  Rest'
  BY <1>4 DEF CreateFails, Goes, books, plans
<1>5. ASSUME NEW l \in Leases, PodWithoutId(l)
      PROVE  Rest'
  BY <1>5 DEF PodWithoutId, Goes, plans
<1>6. ASSUME NEW l \in Leases, AppendReads(l)
      PROVE  Rest'
  BY <1>6 DEF AppendReads, ReadRegistry, Goes, books
<1>7. ASSUME NEW l \in Leases, AppendWrites(l)
      PROVE  Rest'
  \* What was registered since the read is exposed; l itself is recorded.
  <2>1. done[l] = {} /\ registry' = read[l] \union {l}
    BY <1>7 DEF AppendWrites, Replace
  <2>2. \A p \in live \cap registry : p \in registry' \/ p \in exposed'
    BY <2>1, <1>7 DEF AppendWrites, Replace
  <2>3. NoOrphan'
    BY <2>1, <2>2, <1>7 DEF AppendWrites, Replace, Goes
  <2>4. /\ NothingPlanned' /\ KnownCreated' /\ LeasePrunesGone'
        /\ ReaperPrunesGone' /\ OwnPodListed' /\ DoneMeansGone'
    BY <2>1, <1>7 DEF AppendWrites, Replace, Goes
  <2> QED
    BY <2>3, <2>4
<1>8. ASSUME NEW l \in Leases, AppendRaises(l)
      PROVE  Rest'
  BY <1>8 DEF AppendRaises, Goes, books, plans
<1>9. ASSUME NEW l \in Leases, DeleteUnrecorded(l)
      PROVE  Rest'
  BY <1>9 DEF DeleteUnrecorded, Goes, plans
<1>10. ASSUME NEW l \in Leases, Ready(l)
      PROVE  Rest'
  BY <1>10 DEF Ready, Goes, books, plans
<1>11. ASSUME NEW l \in Leases, NotReady(l)
      PROVE  Rest'
  BY <1>11 DEF NotReady, Goes, books, plans
<1>12. ASSUME NEW l \in Leases, TeardownBegins(l)
      PROVE  Rest'
  BY <1>12 DEF TeardownBegins, Goes, books
<1>13. ASSUME NEW l \in Leases, Verify(l)
      PROVE  Rest'
  <2>1. /\ NothingPlanned' /\ KnownCreated' /\ ReaperPrunesGone'
        /\ OwnPodListed' /\ NoOrphan' /\ DoneMeansGone'
    BY <1>13 DEF Verify, Goes, books, plans
  \* What the API no longer lists is gone for good.
  <2>2. LeasePrunesGone'
    BY <1>13 DEF Verify, Goes, books, plans
  <2> QED
    BY <2>1, <2>2
<1>14. ASSUME NEW l \in Leases, TeardownRaises(l)
      PROVE  Rest'
  BY <1>14 DEF TeardownRaises, Ends, Goes, books
<1>15. ASSUME NEW r \in Reapers, ReaperReads(r)
      PROVE  Rest'
  BY <1>15 DEF ReaperReads, ReadRegistry, Goes, books
<1>16. ASSUME NEW r \in Reapers, ReaperLists(r)
      PROVE  Rest'
  BY <1>16 DEF ReaperLists, Goes, books
<1>17. ASSUME NEW r \in Reapers, ReaperTakesOne(r)
      PROVE  Rest'
  BY <1>17 DEF ReaperTakesOne, Goes, books
<1>18. ASSUME NEW r \in Reapers, ReaperDies(r)
      PROVE  Rest'
  BY <1>18 DEF ReaperDies, Ends, Goes, books
<1>19. ASSUME NEW q \in Processes, NEW p \in Leases, Deleted(q, p)
      PROVE  Rest'
  BY <1>19 DEF Deleted, books
<1>20. ASSUME NEW q \in Processes, NEW p \in Leases, DeletedInWord(q, p)
      PROVE  Rest'
  BY <1>20 DEF DeletedInWord
<1>21. ASSUME NEW q \in Processes, NEW p \in Leases, DeleteFails(q, p)
      PROVE  Rest'
  BY <1>21 DEF DeleteFails, books
<1>22. ASSUME NEW q \in Processes, NothingToPrune(q)
      PROVE  Rest'
  BY <1>22 DEF NothingToPrune, Ends, Outcome, Goes, books
<1>23. ASSUME NEW q \in Processes, PruneReads(q)
      PROVE  Rest'
  BY <1>23 DEF PruneReads, ReadRegistry, Goes, books
<1>24. ASSUME NEW q \in Processes, PruneWrites(q)
      PROVE  Rest'
  <2>1. registry' = read[q] \ done[q] /\ live' = live
    BY <1>24 DEF PruneWrites, Replace
  <2>2. \A p \in live \cap registry : p \in registry' \/ p \in exposed' \/ p \in done[q]
    BY <2>1, <1>24 DEF PruneWrites, Replace
  \* A lease removes pods it saw to be gone, a reaper those or exposed ones.
  <2>3. \A p \in live \cap done[q] : p \in exposed'
    BY <2>1, <1>24 DEF PruneWrites, Replace
  <2>4. NoOrphan'
    BY <2>1, <2>2, <2>3, <1>24 DEF PruneWrites, Replace, Ends, Outcome, Goes
  \* Without an exception the lease's own pod is among the removed.
  <2>5. q \in Leases /\ q \notin erring => q \notin live
    BY <1>24 DEF PruneWrites
  <2>6. DoneMeansGone'
    BY <2>1, <2>5, <1>24 DEF PruneWrites, Ends, Outcome, Goes
  <2>7. /\ NothingPlanned' /\ KnownCreated' /\ LeasePrunesGone'
        /\ ReaperPrunesGone' /\ OwnPodListed'
    BY <2>1, <1>24 DEF PruneWrites, Replace, Ends, Outcome, Goes
  <2> QED
    BY <2>4, <2>6, <2>7
<1>25. ASSUME NEW l \in Leases, Kill(l)
      PROVE  Rest'
  BY <1>25 DEF Kill, Ends, Goes
<1>26. ASSUME NEW l \in Leases, Vanish(l)
      PROVE  Rest'
  BY <1>26 DEF Vanish, books, plans
<1>27. CASE UNCHANGED vars
  BY <1>27 DEF vars
<1> QED
  BY <1>1, <1>2, <1>3, <1>4, <1>5, <1>6, <1>7, <1>8, <1>9, <1>10, <1>11, <1>12, <1>13, <1>14, <1>15, <1>16, <1>17, <1>18, <1>19, <1>20, <1>21, <1>22, <1>23, <1>24, <1>25, <1>26, <1>27
  DEF Next, LeaseNext, ReaperNext, DeleteNext

\* IInv is an invariant: what the two theorems below rest on.
THEOREM Invariant == Spec => []IInv
<1>1. Init => IInv
  BY LeaseAssumption
  DEF Init, IInv, TypeOK, NothingPlanned, KnownCreated, Created, LeasePrunesGone,
      ReaperPrunesGone, OwnPodListed, NoOrphan, DoneMeansGone, Processes,
      LeaseStates, ReaperStates, Ended, Unrecorded, Closing
<1> QED
  BY <1>1, RecordStep, PTL DEF Spec

\* A live pod is recorded, or its launcher still answers for it, or it is one
\* of the exposed.
THEOREM NoOrphanCorrect == Spec => []NoOrphan
<1>1. IInv => NoOrphan
  BY DEF IInv
<1> QED
  BY <1>1, Invariant, PTL

\* A lease that returned without an exception has no live pod.
THEOREM DoneMeansGoneCorrect == Spec => []DoneMeansGone
<1>1. IInv => DoneMeansGone
  BY DEF IInv
<1> QED
  BY <1>1, Invariant, PTL
=============================================================================
