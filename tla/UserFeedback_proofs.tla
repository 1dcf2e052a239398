------------------------ MODULE UserFeedback_proofs ------------------------
(***************************************************************************)
(* Proofs about UserFeedback: reports that stand for a disagreement on     *)
(* record, quotas that are exceeded by less than the number of clicks at   *)
(* once, and, for retention settings in the order of the defaults, that    *)
(* what a click does to the queue is a step of ReviewQueue.                *)
(***************************************************************************)
EXTENDS UserFeedback, ReviewQueue_proofs, FiniteSetTheorems

\* A click under way names a request.
Named == \A c \in Clicks : click[c] # "idle" => about[c] \in Requests

FCore == Core /\ FTypeOK /\ Named

-----------------------------------------------------------------------------
(* The parts of steps                                                      *)

LEMMA GoEffect ==
    ASSUME FTypeOK, NEW c \in Clicks, NEW where \in {"idle", "refer", "enqueue"},
           Go(c, where)
    PROVE  /\ click' \in [Clicks -> {"idle", "insert", "insert and refer",
                                     "refer", "enqueue"}]
           /\ about' \in [Clicks -> Requests \union {Nobody}]
           /\ click'[c] = where
           /\ where # "idle" => about'[c] = about[c]
           /\ \A d \in Clicks : d # c => click'[d] = click[d] /\ about'[d] = about[d]
BY DEF Go, FTypeOK

LEMMA AdmitEffect ==
    ASSUME FTypeOK, NEW c \in Clicks, NEW r \in Requests, NEW v \in Verdicts,
           Admit(c, r, v)
    PROVE  /\ click' \in [Clicks -> {"idle", "insert", "insert and refer",
                                     "refer", "enqueue"}]
           /\ about' \in [Clicks -> Requests \union {Nobody}]
           /\ click[c] = "idle"
           /\ click'[c] \in {"insert", "insert and refer"}
           /\ about'[c] = r
           /\ \A d \in Clicks : d # c => click'[d] = click[d] /\ about'[d] = about[d]
           /\ UNCHANGED <<vars, voting>>
BY DEF Admit, FTypeOK

LEMMA InsertEffect ==
    ASSUME FTypeOK, Named, NEW c \in Clicks, InsertFeedback(c)
    PROVE  /\ click[c] \in {"insert", "insert and refer"}
           /\ about[c] \in Requests
           /\ verdict[about[c]] = "none"
           /\ verdict' = [verdict EXCEPT ![about[c]] = Says(c)]
           /\ votedOn' = [votedOn EXCEPT ![about[c]] = today]
           /\ \E where \in {"idle", "refer"} : Go(c, where)
           /\ UNCHANGED vars
<1>1. /\ click[c] \in {"insert", "insert and refer"}
      /\ verdict[about[c]] = "none"
      /\ verdict' = [verdict EXCEPT ![about[c]] = Says(c)]
      /\ votedOn' = [votedOn EXCEPT ![about[c]] = today]
      /\ UNCHANGED vars
  BY DEF InsertFeedback
<1>2. Go(c, IF click[c] = "insert" THEN "idle" ELSE "refer")
  BY DEF InsertFeedback
<1>3. \E where \in {"idle", "refer"} : Go(c, where)
  <2>1. CASE click[c] = "insert"
    BY <1>2, <2>1
  <2>2. CASE click[c] # "insert"
    BY <1>2, <2>2
  <2> QED
    BY <2>1, <2>2
<1>4. about[c] \in Requests
  BY <1>1 DEF Named
<1> QED
  BY <1>1, <1>3, <1>4

\* What the other steps of a click do.
LEMMA OtherClickEffect ==
    ASSUME FTypeOK, Named, NEW c \in Clicks,
           Refer(c) \/ ReferralRefused(c) \/ ClickFails(c)
    PROVE  /\ click[c] # "idle"
           /\ \E where \in {"idle", "enqueue"} : Go(c, where)
           /\ UNCHANGED <<vars, voting>>
BY DEF Refer, ReferralRefused, ClickFails

LEMMA ReferralEffect ==
    ASSUME FTypeOK, Named, NEW c \in Clicks, InsertReferral(c)
    PROVE  /\ click[c] = "enqueue"
           /\ about[c] \in Requests
           /\ status[about[c]] = "none"
           /\ "user-report" \in Strata
           /\ NewItem(about[c], "user-report")
           /\ Go(c, "idle")
           /\ UNCHANGED <<today, predictions, judged, lock, purging, voting>>
BY DEF InsertReferral, Named, Strata

LEMMA OthersAreSteps == Others => Next /\ UNCHANGED <<voting, clicking>>
BY DEF Others, Next, Backend

-----------------------------------------------------------------------------
(* Types                                                                   *)

LEMMA FCoreInit == FInit => FCore
<1> SUFFICES ASSUME FInit PROVE FCore
  OBVIOUS
<1>1. Core
  BY CoreInit DEF FInit
<1>2. 0 \in 0..MaxDay
  BY QueueAssumption
<1> QED
  BY <1>1, <1>2 DEF FInit, FCore, Core, FTypeOK, Named

LEMMA FCoreNext == FCore /\ [FNext]_fvars => FCore'
<1> SUFFICES ASSUME FCore, [FNext]_fvars PROVE FCore'
  OBVIOUS
<1>0. Core /\ TypeOK /\ FTypeOK /\ Named
  BY DEF FCore, Core
<1>1. ASSUME NEW c \in Clicks, Click(c) PROVE FCore'
  <2>1. CASE \E r \in Requests, v \in Verdicts : Admit(c, r, v)
    <3>1. PICK r \in Requests, v \in Verdicts : Admit(c, r, v)
      BY <2>1
    <3>2. /\ click' \in [Clicks -> {"idle", "insert", "insert and refer",
                                    "refer", "enqueue"}]
          /\ about' \in [Clicks -> Requests \union {Nobody}]
          /\ about'[c] = r
          /\ \A d \in Clicks : d # c => click'[d] = click[d] /\ about'[d] = about[d]
          /\ UNCHANGED <<vars, voting>>
      BY <1>0, <3>1, AdmitEffect
    <3>3. Core'
      BY <1>0, <3>2, CoreNext
    <3> QED
      BY <1>0, <3>2, <3>3 DEF FCore, Core, FTypeOK, Named, voting
  <2>2. CASE InsertFeedback(c)
    <3>1. /\ about[c] \in Requests
          /\ verdict[about[c]] = "none"
          /\ verdict' = [verdict EXCEPT ![about[c]] = Says(c)]
          /\ votedOn' = [votedOn EXCEPT ![about[c]] = today]
          /\ UNCHANGED vars
          /\ \E where \in {"idle", "refer"} : Go(c, where)
      BY <1>0, <2>2, InsertEffect
    <3>2. Core'
      BY <1>0, <3>1, CoreNext
    <3>3. PICK where \in {"idle", "refer"} : Go(c, where)
      BY <3>1
    <3>4. /\ click' \in [Clicks -> {"idle", "insert", "insert and refer",
                                    "refer", "enqueue"}]
          /\ about' \in [Clicks -> Requests \union {Nobody}]
          /\ click'[c] = where
          /\ where # "idle" => about'[c] = about[c]
          /\ \A d \in Clicks : d # c => click'[d] = click[d] /\ about'[d] = about[d]
      BY <1>0, <3>3, GoEffect
    <3>5. /\ verdict' \in [Requests -> {"none"} \union Verdicts]
          /\ votedOn' \in [Requests -> 0..MaxDay]
      <4>1. PICK r \in Requests : r = about[c]
        BY <3>1
      <4>2. today \in 0..MaxDay /\ Says(c) \in Verdicts
        BY <1>0 DEF TypeOK, Says, Verdicts
      <4> QED
        BY <1>0, <3>1, <4>1, <4>2 DEF FTypeOK
    <3>7. Named'
      BY <1>0, <3>1, <3>4 DEF Named
    <3> QED
      BY <3>2, <3>4, <3>5, <3>7 DEF FCore, Core, FTypeOK
  <2>3. CASE Refer(c) \/ ReferralRefused(c) \/ ClickFails(c)
    <3>1. /\ click[c] # "idle"
          /\ UNCHANGED <<vars, voting>>
          /\ \E where \in {"idle", "enqueue"} : Go(c, where)
      BY <1>0, <2>3, OtherClickEffect
    <3>2. Core'
      BY <1>0, <3>1, CoreNext
    <3>3. PICK where \in {"idle", "enqueue"} : Go(c, where)
      BY <3>1
    <3>4. /\ click' \in [Clicks -> {"idle", "insert", "insert and refer",
                                    "refer", "enqueue"}]
          /\ about' \in [Clicks -> Requests \union {Nobody}]
          /\ click'[c] = where
          /\ where # "idle" => about'[c] = about[c]
          /\ \A d \in Clicks : d # c => click'[d] = click[d] /\ about'[d] = about[d]
      BY <1>0, <3>3, GoEffect
    <3>5. Named'
      BY <1>0, <3>1, <3>4 DEF Named
    <3> QED
      BY <1>0, <3>1, <3>2, <3>4, <3>5 DEF FCore, Core, FTypeOK, voting
  <2>4. CASE InsertReferral(c)
    <3> DEFINE r == about[c]
    <3>1. /\ r \in Requests
          /\ status[r] = "none"
          /\ "user-report" \in Strata
          /\ NewItem(r, "user-report")
          /\ Go(c, "idle")
          /\ UNCHANGED <<today, predictions, judged, lock, purging, voting>>
      BY <1>0, <2>4, ReferralEffect
    <3>2. /\ click' \in [Clicks -> {"idle", "insert", "insert and refer",
                                    "refer", "enqueue"}]
          /\ about' \in [Clicks -> Requests \union {Nobody}]
          /\ click'[c] = "idle"
          /\ \A d \in Clicks : d # c => click'[d] = click[d] /\ about'[d] = about[d]
      BY <1>0, <3>1, GoEffect
    <3>3. PICK q \in Requests : q = r
      BY <3>1
    <3>4. OneJudgement' /\ Locks'
      BY <1>0, <3>1, <3>3, CoreQueues
    <3>5. TypeOK'
      BY <1>0, <3>1, <3>3, NewItemEffect DEF TypeOK, purging, predictions
    <3>6. Core'
      BY <3>4, <3>5 DEF Core
    <3>7. Named'
      BY <1>0, <3>2 DEF Named
    <3> QED
      BY <1>0, <3>1, <3>2, <3>5, <3>6, <3>7 DEF FCore, FTypeOK, voting
  <2> QED
    BY <1>1, <2>1, <2>2, <2>3, <2>4 DEF Click
<1>2. CASE Others
  <2>1. Next /\ UNCHANGED <<voting, clicking>>
    BY <1>2, OthersAreSteps
  <2>2. Core'
    BY <1>0, <2>1, CoreNext
  <2> QED
    BY <1>0, <2>1, <2>2 DEF FCore, Core, FTypeOK, Named, voting, clicking
<1>3. CASE UNCHANGED fvars
  <2>1. Core'
    BY <1>0, <1>3, CoreNext DEF fvars
  <2> QED
    BY <1>0, <1>3, <2>1 DEF fvars, FCore, Core, FTypeOK, Named, voting, clicking
<1> QED
  BY <1>1, <1>2, <1>3 DEF FNext

\* Every variable keeps the values the tables and the clicks give it.
THEOREM FeedbackTypeCorrect == FSpec => []FTypeOK
<1>1. FCore => FTypeOK
  BY DEF FCore
<1> QED
  BY FCoreInit, FCoreNext, <1>1, PTL DEF FSpec

-----------------------------------------------------------------------------
(* Reports                                                                 *)

\* A click that has come to the referral has stored a disagreement.
Stored ==
    \A c \in Clicks : click[c] \in {"refer", "enqueue"} => verdict[about[c]] = "disagree"

RCore == FCore /\ Undrawn /\ Stored /\ ReferredOnDisagreement

\* The other programs report nothing, and what is reported keeps its day.
LEMMA OthersDoNotReport ==
    ASSUME TypeOK, Undrawn, Others, NEW r \in Requests, r \in Reports'
    PROVE  /\ r \in Reports
           /\ queued'[r] = queued[r]
           /\ status'[r] = "pending" => status[r] = "pending"
<1>0. status'[r] # "none" /\ source'[r] = "user-report"
  BY DEF Reports
<1>1. ASSUME NEW q \in Requests, NEW day \in 0..MaxDay, WritePending(q, day),
             Intent[q] # "none", NewItem(q, Intent[q])
      PROVE  status'[r] = status[r] /\ source'[r] = source[r] /\ queued'[r] = queued[r]
  <2>1. Intent[q] \in Strata /\ Intent[q] # "user-report"
    BY <1>1, QueueAssumption DEF Strata
  <2>2. source'[q] = Intent[q]
    BY <1>1 DEF NewItem, TypeOK
  <2>3. r # q
    BY <1>0, <2>1, <2>2
  <2> QED
    BY <1>1, <2>1, <2>3, NewItemEffect
<1>2. \/ /\ status'[r] = status[r] /\ source'[r] = source[r]
         /\ queued'[r] = queued[r]
      \/ /\ UNCHANGED <<source, queued>>
         /\ status'[r] = "pending" => status[r] = "pending"
  <2>1. CASE \E q \in Requests, day \in 0..MaxDay : WritePending(q, day)
    BY <1>1, <2>1, WritePendingQueues DEF queue
  <2>2. ASSUME NEW p \in Reviewers, Submit(p)
        PROVE  UNCHANGED <<source, queued>>
               /\ (status'[r] = "pending" => status[r] = "pending")
    BY <2>2 DEF Submit, SubmitLocks, SubmitClaims, SubmitRollsBack, queue, TypeOK
  <2>3. ASSUME NEW w \in Rescorers, DrainOnce(w)
        PROVE  UNCHANGED <<source, queued>>
               /\ (status'[r] = "pending" => status[r] = "pending")
    BY <2>3 DEF DrainOnce, RescorerClaims, RescorerCommits, RescorerDies, queue
  <2>4. CASE Purge
    BY <2>4 DEF Purge, PurgeExpires, PurgeNulls, PurgeCommits, PurgeDies, queue
  <2>5. CASE DayPasses
    BY <2>5 DEF DayPasses, queue
  <2> QED
    BY <2>1, <2>2, <2>3, <2>4, <2>5 DEF Others
<1> QED
  BY <1>0, <1>2 DEF Reports, Undrawn

\* What the insert of a referral adds to the reports.
LEMMA ReferralReported ==
    ASSUME TypeOK, NEW q \in Requests, NewItem(q, "user-report")
    PROVE  /\ source'[q] = "user-report" /\ status'[q] = "pending"
           /\ \A r \in Requests : r # q => /\ status'[r] = status[r]
                                           /\ source'[r] = source[r]
                                           /\ queued'[r] = queued[r]
<1>1. "user-report" \in Strata
  BY DEF Strata
<1>2. source'[q] = "user-report"
  BY DEF NewItem, TypeOK
<1> QED
  BY <1>1, <1>2, NewItemEffect

LEMMA RCoreInit == FInit => RCore
<1> SUFFICES ASSUME FInit PROVE RCore
  OBVIOUS
<1>1. FCore
  BY FCoreInit
<1> QED
  BY <1>1 DEF RCore, FInit, Init, Undrawn, Stored, ReferredOnDisagreement

LEMMA RCoreNext == RCore /\ [FNext]_fvars => RCore'
<1> SUFFICES ASSUME RCore, [FNext]_fvars PROVE RCore'
  OBVIOUS
<1>0. /\ FCore /\ Core /\ TypeOK /\ FTypeOK /\ Named
      /\ Undrawn /\ Stored /\ ReferredOnDisagreement
  BY DEF RCore, FCore, Core
<1>1. FCore'
  BY <1>0, FCoreNext
<1> SUFFICES Undrawn' /\ Stored' /\ ReferredOnDisagreement'
  BY <1>1 DEF RCore
<1>2. ASSUME UNCHANGED vars, UNCHANGED verdict
      PROVE  Undrawn' /\ ReferredOnDisagreement'
  BY <1>0, <1>2 DEF Undrawn, ReferredOnDisagreement, vars, queue
<1>3. ASSUME NEW c \in Clicks, Click(c)
      PROVE  Undrawn' /\ Stored' /\ ReferredOnDisagreement'
  <2>1. CASE \E r \in Requests, v \in Verdicts : Admit(c, r, v)
    <3>1. PICK r \in Requests, v \in Verdicts : Admit(c, r, v)
      BY <2>1
    <3>2. /\ click'[c] \in {"insert", "insert and refer"}
          /\ \A d \in Clicks : d # c => click'[d] = click[d] /\ about'[d] = about[d]
          /\ UNCHANGED vars /\ UNCHANGED verdict
      BY <1>0, <3>1, AdmitEffect DEF voting
    <3>3. Stored'
      BY <1>0, <3>2 DEF Stored
    <3> QED
      BY <1>2, <3>2, <3>3
  <2>2. CASE InsertFeedback(c)
    <3>1. PICK r \in Requests : r = about[c]
      BY <1>0, <2>2, InsertEffect
    <3>2. /\ click[c] \in {"insert", "insert and refer"}
          /\ verdict[r] = "none"
          /\ verdict' = [verdict EXCEPT ![r] = Says(c)]
          /\ UNCHANGED vars
      BY <1>0, <2>2, <3>1, InsertEffect
    <3>3. Go(c, IF click[c] = "insert" THEN "idle" ELSE "refer")
      BY <2>2 DEF InsertFeedback
    <3>4. /\ click'[c] = IF click[c] = "insert" THEN "idle" ELSE "refer"
          /\ click'[c] # "idle" => about'[c] = r
          /\ \A d \in Clicks : d # c => click'[d] = click[d] /\ about'[d] = about[d]
      BY <1>0, <3>1, <3>3 DEF Go, FTypeOK
    <3>5. verdict'[r] = Says(c) /\ \A q \in Requests : q # r => verdict'[q] = verdict[q]
      BY <1>0, <3>2 DEF FTypeOK
    <3>6. Stored'
      <4> SUFFICES ASSUME NEW d \in Clicks, click'[d] \in {"refer", "enqueue"}
                   PROVE  verdict'[about'[d]] = "disagree"
        BY DEF Stored
      <4>1. CASE d = c
        <5>1. click[c] = "insert and refer" /\ about'[c] = r
          BY <3>2, <3>4, <4>1
        <5> QED
          BY <3>5, <4>1, <5>1 DEF Says
      <4>2. CASE d # c
        <5>1. click[d] \in {"refer", "enqueue"} /\ about'[d] = about[d]
          BY <3>4, <4>2
        <5>2. about[d] \in Requests /\ verdict[about[d]] = "disagree"
          BY <1>0, <5>1 DEF Named, Stored
        <5>3. about[d] # r
          BY <3>2, <5>2
        <5> QED
          BY <3>5, <5>1, <5>2, <5>3
      <4> QED
        BY <4>1, <4>2
    <3>7. ReferredOnDisagreement'
      <4> SUFFICES ASSUME NEW q \in Requests, status'[q] # "none",
                          source'[q] = "user-report"
                   PROVE  verdict'[q] = "disagree"
        BY DEF ReferredOnDisagreement
      <4>1. status[q] # "none" /\ source[q] = "user-report"
        BY <3>2 DEF vars, queue
      <4>2. verdict[q] = "disagree"
        BY <1>0, <4>1 DEF ReferredOnDisagreement
      <4> QED
        BY <3>2, <3>5, <4>2
    <3>8. Undrawn'
      BY <1>0, <3>2 DEF Undrawn, vars, queue
    <3> QED
      BY <3>6, <3>7, <3>8
  <2>3. CASE Refer(c) \/ ReferralRefused(c) \/ ClickFails(c)
    <3>1. UNCHANGED vars /\ UNCHANGED verdict
      BY <1>0, <2>3, OtherClickEffect DEF voting
    <3>2. \/ click[c] = "refer" /\ Go(c, "enqueue")
          \/ Go(c, "idle")
      BY <2>3 DEF Refer, ReferralRefused, ClickFails
    <3>3. /\ click'[c] # "idle" => click[c] = "refer" /\ about'[c] = about[c]
          /\ \A d \in Clicks : d # c => click'[d] = click[d] /\ about'[d] = about[d]
      BY <1>0, <3>2, GoEffect
    <3>4. Stored'
      BY <1>0, <3>1, <3>3 DEF Stored
    <3> QED
      BY <1>2, <3>1, <3>4
  <2>4. CASE InsertReferral(c)
    <3>1. PICK q \in Requests : q = about[c]
      BY <1>0, <2>4, ReferralEffect
    <3>2. /\ click[c] = "enqueue" /\ NewItem(q, "user-report") /\ Go(c, "idle")
          /\ UNCHANGED verdict
      BY <1>0, <2>4, <3>1, ReferralEffect DEF voting
    <3>3. /\ status'[q] = "pending"
          /\ \A r \in Requests : r # q => status'[r] = status[r] /\ source'[r] = source[r]
      BY <1>0, <3>2, ReferralReported
    <3>4. verdict[q] = "disagree"
      BY <1>0, <3>1, <3>2 DEF Stored
    <3>5. Undrawn'
      BY <1>0, <3>3 DEF Undrawn
    <3>6. ReferredOnDisagreement'
      BY <1>0, <3>2, <3>3, <3>4 DEF ReferredOnDisagreement
    <3>7. /\ click'[c] = "idle"
          /\ \A d \in Clicks : d # c => click'[d] = click[d] /\ about'[d] = about[d]
      BY <1>0, <3>2, GoEffect
    <3>8. Stored'
      BY <1>0, <3>2, <3>7 DEF Stored
    <3> QED
      BY <3>5, <3>6, <3>8
  <2> QED
    BY <1>3, <2>1, <2>2, <2>3, <2>4 DEF Click
<1>4. CASE Others
  <2>1. Next /\ UNCHANGED <<voting, clicking>>
    BY <1>4, OthersAreSteps
  <2>2. Undrawn'
    BY <1>0, <2>1, UndrawnNext
  <2>3. Stored'
    BY <1>0, <2>1 DEF Stored, voting, clicking
  <2>4. ReferredOnDisagreement'
    <3> SUFFICES ASSUME NEW r \in Requests, status'[r] # "none", source'[r] = "user-report"
                 PROVE  verdict'[r] = "disagree"
      BY DEF ReferredOnDisagreement
    <3>1. r \in Reports
      BY <1>0, <1>4, OthersDoNotReport DEF Reports
    <3> QED
      BY <1>0, <2>1, <3>1 DEF Reports, ReferredOnDisagreement, voting
  <2> QED
    BY <2>2, <2>3, <2>4
<1>5. CASE UNCHANGED fvars
  <2>1. UNCHANGED vars /\ UNCHANGED verdict /\ Stored'
    BY <1>0, <1>5 DEF fvars, voting, clicking, Stored
  <2> QED
    BY <1>2, <2>1
<1> QED
  BY <1>3, <1>4, <1>5 DEF FNext

\* For any number of clicks, requests and days: what visitors have put in the
\* queue stands for a disagreement on record, whichever of the clicks that
\* found no verdict was the one whose row was stored.
THEOREM ReferredOnDisagreementCorrect == FSpec => []ReferredOnDisagreement
<1>1. RCore => ReferredOnDisagreement
  BY DEF RCore
<1> QED
  BY RCoreInit, RCoreNext, <1>1, PTL DEF FSpec

-----------------------------------------------------------------------------
(* The quotas                                                              *)

\* The clicks that have been counted in and have not inserted yet.
Inserting(s) == { c \in Clicks : /\ click[c] \in {"insert", "insert and refer"}
                                 /\ Sender[about[c]] = s }

\* The clicks that have been counted in and have not opened their review yet.
Referring == { c \in Clicks : click[c] = "enqueue" }

ReferringOf(s) == { c \in Referring : Sender[about[c]] = s }

\* What is counted, and what is about to be, together respect each quota.
VoteBudget ==
    \A s \in Senders :
        Cardinality(VotesOf(s)) + Cardinality(Inserting(s))
            < MaxVotes + Cardinality(Clicks)

DepthBudget ==
    Cardinality(Reports \intersect Pending) + Cardinality(Referring)
        < MaxPending + Cardinality(Clicks)

SourceBudget ==
    \A s \in Senders :
        Cardinality(Reports \intersect PendingOf(s)) + Cardinality(ReferringOf(s))
            < MaxPerSource + Cardinality(Clicks)

WindowBudget ==
    \A s \in Senders :
        Cardinality(Reports \intersect QueuedOf(s)) + Cardinality(ReferringOf(s))
            < MaxPerWindow + Cardinality(Clicks)

Budgets == VoteBudget /\ DepthBudget /\ SourceBudget /\ WindowBudget

LEMMA Sizes ==
    ASSUME NEW S, IsFiniteSet(S), NEW T, T \subseteq S
    PROVE  /\ IsFiniteSet(T)
           /\ Cardinality(T) \in Nat /\ Cardinality(S) \in Nat
           /\ Cardinality(T) <= Cardinality(S)
BY FS_Subset, FS_CardinalityType

LEMMA Grows ==
    ASSUME NEW S, IsFiniteSet(S), NEW x, NEW T, T \subseteq S \union {x}
    PROVE  /\ Cardinality(T) \in Nat /\ Cardinality(S) \in Nat
           /\ Cardinality(T) <= Cardinality(S) + 1
<1>1. /\ IsFiniteSet(S \union {x})
      /\ Cardinality(S \union {x}) = IF x \in S THEN Cardinality(S) ELSE Cardinality(S) + 1
  BY FS_AddElement
<1>2. Cardinality(S) \in Nat
  BY FS_CardinalityType
<1> QED
  BY <1>1, <1>2, Sizes

LEMMA Loses ==
    ASSUME NEW S, IsFiniteSet(S), NEW x \in S, NEW T, T \subseteq S \ {x}
    PROVE  /\ Cardinality(T) \in Nat /\ Cardinality(S) \in Nat
           /\ Cardinality(T) + 1 <= Cardinality(S)
<1>1. /\ IsFiniteSet(S \ {x})
      /\ Cardinality(S \ {x}) = IF x \in S THEN Cardinality(S) - 1 ELSE Cardinality(S)
  BY FS_RemoveElement
<1>2. Cardinality(S) \in Nat
  BY FS_CardinalityType
<1>3. Cardinality(T) \in Nat /\ Cardinality(T) <= Cardinality(S \ {x})
  BY <1>1, Sizes
<1> QED
  BY <1>1, <1>2, <1>3

LEMMA CountedAreFinite ==
    /\ \A s \in Senders :
         /\ IsFiniteSet(VotesOf(s)) /\ IsFiniteSet(Inserting(s))
         /\ IsFiniteSet(Reports \intersect PendingOf(s))
         /\ IsFiniteSet(Reports \intersect QueuedOf(s))
         /\ IsFiniteSet(PendingOf(s)) /\ IsFiniteSet(QueuedOf(s))
         /\ IsFiniteSet(ReferringOf(s))
    /\ IsFiniteSet(Pending) /\ IsFiniteSet(Reports \intersect Pending)
    /\ IsFiniteSet(Referring)
<1>1. IsFiniteSet(Requests) /\ IsFiniteSet(Clicks)
  BY QueueAssumption, FeedbackAssumption
<1>2. /\ \A s \in Senders :
           /\ VotesOf(s) \subseteq Requests /\ Inserting(s) \subseteq Clicks
           /\ PendingOf(s) \subseteq Requests /\ QueuedOf(s) \subseteq Requests
           /\ ReferringOf(s) \subseteq Clicks
      /\ Pending \subseteq Requests /\ Referring \subseteq Clicks
  BY DEF VotesOf, Inserting, PendingOf, QueuedOf, Pending, Referring, ReferringOf
<1>3. \A s \in Senders : /\ Reports \intersect PendingOf(s) \subseteq Requests
                         /\ Reports \intersect QueuedOf(s) \subseteq Requests
  BY <1>2
<1>4. Reports \intersect Pending \subseteq Requests
  BY <1>2
<1> QED
  BY <1>1, <1>2, <1>3, <1>4, Sizes

LEMMA Limits == /\ MaxVotes \in Nat /\ MaxPending \in Nat
                /\ MaxPerSource \in Nat /\ MaxPerWindow \in Nat
                /\ Cardinality(Clicks) \in Nat /\ Cardinality(Clicks) > 0
<1>1. /\ IsFiniteSet(Clicks) /\ Clicks # {} /\ MaxVotes \in Nat /\ MaxPending \in Nat
      /\ MaxPerSource \in Nat /\ MaxPerWindow \in Nat
  BY FeedbackAssumption
<1>2. Cardinality(Clicks) \in Nat /\ Cardinality(Clicks) # 0
  BY <1>1, FS_EmptySet, FS_CardinalityType
<1> QED
  BY <1>1, <1>2

\* A budget is kept by a step that counts nobody in, by one that counts a
\* click in below the quota, and by one that turns a click into a row.
LEMMA BudgetKept ==
    ASSUME NEW S, IsFiniteSet(S), NEW C, IsFiniteSet(C), NEW T, NEW D,
           NEW quota \in Nat,
           \/ /\ T \subseteq S /\ D \subseteq C
              /\ Cardinality(S) + Cardinality(C) < quota + Cardinality(Clicks)
           \/ /\ T \subseteq S /\ D \subseteq Clicks
              /\ Cardinality(S) < quota
           \/ /\ \E r : T \subseteq S \union {r}
              /\ \E c \in C : D \subseteq C \ {c}
              /\ Cardinality(S) + Cardinality(C) < quota + Cardinality(Clicks)
    PROVE  Cardinality(T) + Cardinality(D) < quota + Cardinality(Clicks)
<1>0. Cardinality(S) \in Nat /\ Cardinality(C) \in Nat
  BY FS_CardinalityType
<1>1. CASE /\ T \subseteq S /\ D \subseteq C
           /\ Cardinality(S) + Cardinality(C) < quota + Cardinality(Clicks)
  <2>1. Cardinality(T) \in Nat /\ Cardinality(T) <= Cardinality(S)
    BY <1>1, Sizes
  <2>2. Cardinality(D) \in Nat /\ Cardinality(D) <= Cardinality(C)
    BY <1>1, Sizes
  <2> QED
    BY <1>0, <1>1, <2>1, <2>2, Limits
<1>2. CASE T \subseteq S /\ D \subseteq Clicks /\ Cardinality(S) < quota
  <2>1. Cardinality(T) \in Nat /\ Cardinality(T) <= Cardinality(S)
    BY <1>2, Sizes
  <2>2. Cardinality(D) \in Nat /\ Cardinality(D) <= Cardinality(Clicks)
    BY <1>2, Sizes, FeedbackAssumption
  <2> QED
    BY <1>0, <1>2, <2>1, <2>2, Limits
<1>3. CASE /\ \E r : T \subseteq S \union {r}
           /\ \E c \in C : D \subseteq C \ {c}
           /\ Cardinality(S) + Cardinality(C) < quota + Cardinality(Clicks)
  <2>1. Cardinality(T) \in Nat /\ Cardinality(T) <= Cardinality(S) + 1
    <3>1. PICK r : T \subseteq S \union {r}
      BY <1>3
    <3> QED
      BY <3>1, Grows
  <2>2. Cardinality(D) \in Nat /\ Cardinality(D) + 1 <= Cardinality(C)
    <3>1. PICK c \in C : D \subseteq C \ {c}
      BY <1>3
    <3> QED
      BY <3>1, Loses
  <2> QED
    BY <1>0, <1>3, <2>1, <2>2, Limits
<1> QED
  BY <1>1, <1>2, <1>3

LEMMA BudgetInit == FInit => Budgets
<1> SUFFICES ASSUME FInit PROVE Budgets
  OBVIOUS
<1>1. /\ \A r \in Requests : verdict[r] = "none" /\ status[r] = "none"
      /\ \A c \in Clicks : click[c] = "idle"
  BY DEF FInit, Init
<1>2. Reports = {} /\ Referring = {}
  BY <1>1 DEF Reports, Referring
<1>3. \A s \in Senders : VotesOf(s) = {} /\ Inserting(s) = {} /\ ReferringOf(s) = {}
  BY <1>1, <1>2 DEF VotesOf, Inserting, ReferringOf
<1>4. Cardinality({}) = 0
  BY FS_EmptySet
<1>5. Reports \intersect Pending = {}
  BY <1>2
<1>6. ASSUME NEW s \in Senders
      PROVE  /\ Cardinality(Reports \intersect PendingOf(s)) = 0
             /\ Cardinality(Reports \intersect QueuedOf(s)) = 0
             /\ Cardinality(ReferringOf(s)) = 0
  <2>1. /\ Reports \intersect PendingOf(s) = {}
        /\ Reports \intersect QueuedOf(s) = {}
        /\ ReferringOf(s) = {}
    BY <1>2, <1>3
  <2> QED
    BY <1>4, <2>1
<1>7. VoteBudget
  BY <1>3, <1>4, Limits DEF VoteBudget
<1>8. DepthBudget
  BY <1>2, <1>5, <1>4, Limits DEF DepthBudget
<1>9. ASSUME NEW s \in Senders
      PROVE  /\ Cardinality(Reports \intersect PendingOf(s)) + Cardinality(ReferringOf(s))
                    < MaxPerSource + Cardinality(Clicks)
             /\ Cardinality(Reports \intersect QueuedOf(s)) + Cardinality(ReferringOf(s))
                    < MaxPerWindow + Cardinality(Clicks)
  BY <1>6, Limits
<1>10. SourceBudget /\ WindowBudget
  BY <1>9 DEF SourceBudget, WindowBudget
<1> QED
  BY <1>7, <1>8, <1>9, <1>10 DEF Budgets

LEMMA TodayRises ==
    ASSUME Core, [Next]_vars
    PROVE  today \in Nat /\ today' \in Nat /\ today <= today'
<1>1. today \in Nat /\ today' \in Nat
  BY CoreNext, QueueAssumption DEF Core, TypeOK
<1>2. today' = today \/ today' = today + 1
  BY DEF Next, Backend, WritePending, Report, Submit, SubmitLocks, SubmitClaims,
         SubmitRollsBack, DrainOnce, RescorerClaims, RescorerCommits, RescorerDies,
         Purge, PurgeExpires, PurgeNulls, PurgeCommits, PurgeDies, DayPasses, vars
<1> QED
  BY <1>1, <1>2

\* A step that counts no verdict in.
LEMMA VotesShrink ==
    ASSUME VoteBudget, NEW s \in Senders,
           VotesOf(s)' \subseteq VotesOf(s), Inserting(s)' \subseteq Inserting(s)
    PROVE  Cardinality(VotesOf(s)') + Cardinality(Inserting(s)')
               < MaxVotes + Cardinality(Clicks)
<1>1. Cardinality(VotesOf(s)) + Cardinality(Inserting(s)) < MaxVotes + Cardinality(Clicks)
  BY DEF VoteBudget
<1> QED
  BY <1>1, CountedAreFinite, BudgetKept, Limits

\* Time and the other programs only take verdicts out of the window.
LEMMA WindowMoves ==
    ASSUME FTypeOK, NEW s \in Senders, UNCHANGED voting,
           today \in Nat, today' \in Nat, today <= today'
    PROVE  VotesOf(s)' \subseteq VotesOf(s)
<1>1. \A r \in Requests : votedOn[r] \in 0..MaxDay
  BY DEF FTypeOK
<1>2. MaxDay \in Nat /\ FeedbackDays \in Nat
  BY QueueAssumption
<1>3. \A r \in Requests : votedOn[r] \in Nat
  BY <1>1, <1>2
<1> QED
  BY <1>2, <1>3 DEF VotesOf, Inside, voting

LEMMA VoteBudgetNext ==
    FCore /\ VoteBudget /\ [FNext]_fvars => VoteBudget'
<1> SUFFICES ASSUME FCore, VoteBudget, [FNext]_fvars, NEW s \in Senders
             PROVE  Cardinality(VotesOf(s)') + Cardinality(Inserting(s)')
                        < MaxVotes + Cardinality(Clicks)
  BY DEF VoteBudget
<1>0. Core /\ TypeOK /\ FTypeOK /\ Named /\ today \in Nat
  BY QueueAssumption DEF FCore, Core, TypeOK
<1>1. ASSUME NEW c \in Clicks, Click(c)
      PROVE  Cardinality(VotesOf(s)') + Cardinality(Inserting(s)')
                 < MaxVotes + Cardinality(Clicks)
  <2>1. CASE \E r \in Requests, v \in Verdicts : Admit(c, r, v)
    <3>1. PICK r \in Requests, v \in Verdicts : Admit(c, r, v)
      BY <2>1
    <3>2. /\ about'[c] = r
          /\ \A d \in Clicks : d # c => click'[d] = click[d] /\ about'[d] = about[d]
          /\ UNCHANGED <<vars, voting>>
      BY <1>0, <3>1, AdmitEffect
    <3>3. VotesOf(s)' = VotesOf(s)
      BY <3>2 DEF VotesOf, Inside, vars, voting
    <3>4. CASE Sender[r] = s
      <4>1. Cardinality(VotesOf(s)) < MaxVotes
        BY <3>1, <3>4, FeedbackAssumption DEF Admit, MayVote
      <4>2. Inserting(s)' \subseteq Clicks
        BY DEF Inserting
      <4> QED
        BY <3>3, <4>1, <4>2, CountedAreFinite, BudgetKept, Limits
    <3>5. CASE Sender[r] # s
      <4>1. Inserting(s)' \subseteq Inserting(s)
        BY <3>2, <3>5 DEF Inserting
      <4> QED
        BY <3>3, <4>1, VotesShrink
    <3> QED
      BY <3>4, <3>5
  <2>2. CASE InsertFeedback(c)
    <3>1. PICK r \in Requests : r = about[c]
      BY <1>0, <2>2, InsertEffect
    <3>2. /\ click[c] \in {"insert", "insert and refer"}
          /\ verdict' = [verdict EXCEPT ![r] = Says(c)]
          /\ votedOn' = [votedOn EXCEPT ![r] = today]
          /\ \E where \in {"idle", "refer"} : Go(c, where)
          /\ UNCHANGED vars
      BY <1>0, <2>2, <3>1, InsertEffect
    <3>3. /\ click'[c] \in {"idle", "refer"}
          /\ \A d \in Clicks : d # c => click'[d] = click[d] /\ about'[d] = about[d]
      BY <1>0, <3>2, GoEffect
    <3>4. \A q \in Requests : q # r => verdict'[q] = verdict[q] /\ votedOn'[q] = votedOn[q]
      BY <1>0, <3>2 DEF FTypeOK
    <3>5. UNCHANGED today
      BY <3>2 DEF vars
    <3>6. VotesOf(s)' \subseteq VotesOf(s) \union {r}
      BY <3>4, <3>5 DEF VotesOf, Inside
    <3>7. Inserting(s)' \subseteq Inserting(s) \ {c}
      BY <3>3 DEF Inserting
    <3>8. CASE Sender[r] = s
      <4>1. c \in Inserting(s)
        BY <3>1, <3>2, <3>8 DEF Inserting
      <4>2. Cardinality(VotesOf(s)) + Cardinality(Inserting(s))
                < MaxVotes + Cardinality(Clicks)
        BY DEF VoteBudget
      <4> QED
        BY <3>6, <3>7, <4>1, <4>2, CountedAreFinite, BudgetKept, Limits
    <3>9. CASE Sender[r] # s
      <4>1. r \notin VotesOf(s)'
        BY <3>9 DEF VotesOf
      <4> QED
        BY <3>6, <3>7, <4>1, VotesShrink
    <3> QED
      BY <3>8, <3>9
  <2>3. ASSUME UNCHANGED <<today, voting>>, NEW where \in {"idle", "enqueue"}, Go(c, where)
        PROVE  Cardinality(VotesOf(s)') + Cardinality(Inserting(s)')
                   < MaxVotes + Cardinality(Clicks)
    <3>1. /\ click'[c] = where
          /\ \A d \in Clicks : d # c => click'[d] = click[d] /\ about'[d] = about[d]
      BY <1>0, <2>3, GoEffect
    <3>2. Inserting(s)' \subseteq Inserting(s)
      BY <3>1 DEF Inserting
    <3>3. VotesOf(s)' \subseteq VotesOf(s)
      BY <1>0, <2>3, WindowMoves
    <3> QED
      BY <3>2, <3>3, VotesShrink
  <2>4. CASE Refer(c) \/ ReferralRefused(c) \/ ClickFails(c)
    BY <1>0, <2>3, <2>4, OtherClickEffect DEF vars
  <2>5. CASE InsertReferral(c)
    BY <1>0, <2>3, <2>5, ReferralEffect
  <2> QED
    BY <1>1, <2>1, <2>2, <2>4, <2>5 DEF Click
<1>2. CASE Others
  <2>1. Next /\ UNCHANGED <<voting, clicking>>
    BY <1>2, OthersAreSteps
  <2>2. VotesOf(s)' \subseteq VotesOf(s)
    BY <1>0, <2>1, TodayRises, WindowMoves
  <2>3. Inserting(s)' \subseteq Inserting(s)
    BY <2>1 DEF Inserting, clicking
  <2> QED
    BY <2>2, <2>3, VotesShrink
<1>3. CASE UNCHANGED fvars
  <2>1. VotesOf(s)' \subseteq VotesOf(s) /\ Inserting(s)' \subseteq Inserting(s)
    BY <1>3 DEF VotesOf, Inside, Inserting, fvars, vars, voting, clicking
  <2> QED
    BY <2>1, VotesShrink
<1> QED
  BY <1>1, <1>2, <1>3 DEF FNext

\* A step that reports nothing new, puts nothing back and counts nobody in.
LEMMA ReportsShrink ==
    ASSUME FTypeOK, Budgets, today \in Nat, today' \in Nat, today <= today',
           \A r \in Reports' : /\ r \in Reports
                               /\ queued'[r] = queued[r]
                               /\ status'[r] = "pending" => status[r] = "pending",
           \A c \in Clicks : click'[c] = "enqueue" => /\ click[c] = "enqueue"
                                                      /\ about'[c] = about[c]
    PROVE  DepthBudget' /\ SourceBudget' /\ WindowBudget'
<1>1. Referring' \subseteq Referring
  BY DEF Referring
<1>2. (Reports \intersect Pending)' \subseteq Reports \intersect Pending
  BY DEF Reports, Pending
<1>3. DepthBudget'
  <2>1. Cardinality(Reports \intersect Pending) + Cardinality(Referring)
            < MaxPending + Cardinality(Clicks)
    BY DEF Budgets, DepthBudget
  <2>2. Cardinality((Reports \intersect Pending)') + Cardinality(Referring')
            < MaxPending + Cardinality(Clicks)
    BY <1>1, <1>2, <2>1, CountedAreFinite, BudgetKept, Limits
  <2> QED
    BY <2>2 DEF DepthBudget
<1>4. ASSUME NEW s \in Senders
      PROVE  /\ Cardinality((Reports \intersect PendingOf(s))') + Cardinality(ReferringOf(s)')
                    < MaxPerSource + Cardinality(Clicks)
             /\ Cardinality((Reports \intersect QueuedOf(s))') + Cardinality(ReferringOf(s)')
                    < MaxPerWindow + Cardinality(Clicks)
  <2>1. ReferringOf(s)' \subseteq ReferringOf(s)
    BY DEF Referring, ReferringOf
  <2>2. (Reports \intersect PendingOf(s))' \subseteq Reports \intersect PendingOf(s)
    BY DEF Reports, Pending, PendingOf
  <2>3. (Reports \intersect QueuedOf(s))' \subseteq Reports \intersect QueuedOf(s)
    <3>1. \A r \in Requests : queued[r] \in 0..MaxDay
      BY DEF FTypeOK, TypeOK
    <3>2. \A r \in Requests : queued[r] \in Nat
      BY <3>1, QueueAssumption
    <3> QED
      BY <3>2 DEF Reports, QueuedOf, Inside
  <2>4. /\ Cardinality(Reports \intersect PendingOf(s)) + Cardinality(ReferringOf(s))
               < MaxPerSource + Cardinality(Clicks)
        /\ Cardinality(Reports \intersect QueuedOf(s)) + Cardinality(ReferringOf(s))
               < MaxPerWindow + Cardinality(Clicks)
    BY DEF Budgets, SourceBudget, WindowBudget
  <2>5. Cardinality((Reports \intersect PendingOf(s))') + Cardinality(ReferringOf(s)')
            < MaxPerSource + Cardinality(Clicks)
    BY <2>1, <2>2, <2>4, CountedAreFinite, BudgetKept, Limits
  <2>6. Cardinality((Reports \intersect QueuedOf(s))') + Cardinality(ReferringOf(s)')
            < MaxPerWindow + Cardinality(Clicks)
    BY <2>1, <2>3, <2>4, CountedAreFinite, BudgetKept, Limits
  <2> QED
    BY <2>5, <2>6
<1> QED
  BY <1>3, <1>4 DEF SourceBudget, WindowBudget

\* A click is let in below every quota its prediction has.
LEMMA ReferBudgets ==
    ASSUME FCore, Budgets, NEW c \in Clicks, Refer(c)
    PROVE  DepthBudget' /\ SourceBudget' /\ WindowBudget'
<1>0. FTypeOK /\ Named
  BY DEF FCore
<1>1. PICK r \in Requests : r = about[c]
  BY <1>0 DEF Refer, Named
<1>2. HasRoom(r) /\ Go(c, "enqueue") /\ UNCHANGED <<vars, voting>>
  BY <1>1 DEF Refer
<1>3. /\ about'[c] = r
      /\ \A d \in Clicks : d # c => click'[d] = click[d] /\ about'[d] = about[d]
  BY <1>0, <1>1, <1>2, GoEffect
<1>4. UNCHANGED <<Reports, Pending>>
  BY <1>2 DEF Reports, Pending, vars, queue
<1>5. DepthBudget'
  <2>1. (Reports \intersect Pending)' \subseteq Pending /\ Referring' \subseteq Clicks
    BY <1>4 DEF Referring
  <2>2. Cardinality(Pending) < MaxPending
    BY <1>2 DEF HasRoom
  <2>3. Cardinality((Reports \intersect Pending)') + Cardinality(Referring')
            < MaxPending + Cardinality(Clicks)
    BY <2>1, <2>2, CountedAreFinite, BudgetKept, Limits
  <2> QED
    BY <2>3 DEF DepthBudget
<1>6. ASSUME NEW s \in Senders
      PROVE  /\ Cardinality((Reports \intersect PendingOf(s))') + Cardinality(ReferringOf(s)')
                    < MaxPerSource + Cardinality(Clicks)
             /\ Cardinality((Reports \intersect QueuedOf(s))') + Cardinality(ReferringOf(s)')
                    < MaxPerWindow + Cardinality(Clicks)
  <2>1. UNCHANGED PendingOf(s) /\ UNCHANGED QueuedOf(s)
    BY <1>2 DEF PendingOf, QueuedOf, Pending, Inside, vars, queue
  <2>2. CASE Sender[r] = s
    <3>1. /\ Cardinality(PendingOf(s)) < MaxPerSource
          /\ Cardinality(QueuedOf(s)) < MaxPerWindow
      BY <1>2, <2>2, FeedbackAssumption DEF HasRoom
    <3>2. /\ (Reports \intersect PendingOf(s))' \subseteq PendingOf(s)
          /\ (Reports \intersect QueuedOf(s))' \subseteq QueuedOf(s)
          /\ ReferringOf(s)' \subseteq Clicks
      BY <2>1 DEF ReferringOf, Referring
    <3>3. Cardinality((Reports \intersect PendingOf(s))') + Cardinality(ReferringOf(s)')
              < MaxPerSource + Cardinality(Clicks)
      BY <3>1, <3>2, CountedAreFinite, BudgetKept, Limits
    <3>4. Cardinality((Reports \intersect QueuedOf(s))') + Cardinality(ReferringOf(s)')
              < MaxPerWindow + Cardinality(Clicks)
      BY <3>1, <3>2, CountedAreFinite, BudgetKept, Limits
    <3> QED
      BY <3>3, <3>4
  <2>3. CASE Sender[r] # s
    <3>1. ReferringOf(s)' \subseteq ReferringOf(s)
      BY <1>3, <2>3 DEF ReferringOf, Referring
    <3>2. /\ (Reports \intersect PendingOf(s))' \subseteq Reports \intersect PendingOf(s)
          /\ (Reports \intersect QueuedOf(s))' \subseteq Reports \intersect QueuedOf(s)
      BY <1>4, <2>1
    <3>3. /\ Cardinality(Reports \intersect PendingOf(s)) + Cardinality(ReferringOf(s))
                 < MaxPerSource + Cardinality(Clicks)
          /\ Cardinality(Reports \intersect QueuedOf(s)) + Cardinality(ReferringOf(s))
                 < MaxPerWindow + Cardinality(Clicks)
      BY DEF Budgets, SourceBudget, WindowBudget
    <3>4. Cardinality((Reports \intersect PendingOf(s))') + Cardinality(ReferringOf(s)')
              < MaxPerSource + Cardinality(Clicks)
      BY <3>1, <3>2, <3>3, CountedAreFinite, BudgetKept, Limits
    <3>5. Cardinality((Reports \intersect QueuedOf(s))') + Cardinality(ReferringOf(s)')
              < MaxPerWindow + Cardinality(Clicks)
      BY <3>1, <3>2, <3>3, CountedAreFinite, BudgetKept, Limits
    <3> QED
      BY <3>4, <3>5
  <2> QED
    BY <2>2, <2>3
<1> QED
  BY <1>5, <1>6 DEF SourceBudget, WindowBudget

\* A referral takes its own click out of the account it is entered in.
LEMMA ReferralBudgets ==
    ASSUME FCore, Budgets, NEW c \in Clicks, InsertReferral(c)
    PROVE  DepthBudget' /\ SourceBudget' /\ WindowBudget'
<1>0. FTypeOK /\ TypeOK /\ Named
  BY DEF FCore, Core
<1>1. PICK r \in Requests : r = about[c]
  BY <1>0, ReferralEffect
<1>2. /\ click[c] = "enqueue" /\ NewItem(r, "user-report") /\ Go(c, "idle")
      /\ UNCHANGED today
  BY <1>0, <1>1, ReferralEffect
<1>3. /\ click'[c] = "idle"
      /\ \A d \in Clicks : d # c => click'[d] = click[d] /\ about'[d] = about[d]
  BY <1>0, <1>2, GoEffect
<1>4. \A q \in Requests : q # r => /\ status'[q] = status[q]
                                   /\ source'[q] = source[q]
                                   /\ queued'[q] = queued[q]
  BY <1>0, <1>2, ReferralReported
<1>5. DepthBudget'
  <2>1. (Reports \intersect Pending)' \subseteq (Reports \intersect Pending) \union {r}
    BY <1>4 DEF Reports, Pending
  <2>2. c \in Referring /\ Referring' \subseteq Referring \ {c}
    BY <1>2, <1>3 DEF Referring
  <2>3. Cardinality(Reports \intersect Pending) + Cardinality(Referring)
            < MaxPending + Cardinality(Clicks)
    BY DEF Budgets, DepthBudget
  <2>4. Cardinality((Reports \intersect Pending)') + Cardinality(Referring')
            < MaxPending + Cardinality(Clicks)
    BY <2>1, <2>2, <2>3, CountedAreFinite, BudgetKept, Limits
  <2> QED
    BY <2>4 DEF DepthBudget
<1>6. ASSUME NEW s \in Senders
      PROVE  /\ Cardinality((Reports \intersect PendingOf(s))') + Cardinality(ReferringOf(s)')
                    < MaxPerSource + Cardinality(Clicks)
             /\ Cardinality((Reports \intersect QueuedOf(s))') + Cardinality(ReferringOf(s)')
                    < MaxPerWindow + Cardinality(Clicks)
  <2>1. /\ Cardinality(Reports \intersect PendingOf(s)) + Cardinality(ReferringOf(s))
               < MaxPerSource + Cardinality(Clicks)
        /\ Cardinality(Reports \intersect QueuedOf(s)) + Cardinality(ReferringOf(s))
               < MaxPerWindow + Cardinality(Clicks)
    BY DEF Budgets, SourceBudget, WindowBudget
  <2>2. /\ (Reports \intersect PendingOf(s))' \subseteq (Reports \intersect PendingOf(s)) \union {r}
        /\ (Reports \intersect QueuedOf(s))' \subseteq (Reports \intersect QueuedOf(s)) \union {r}
    BY <1>2, <1>4 DEF Reports, Pending, PendingOf, QueuedOf, Inside
  <2>3. CASE Sender[r] = s
    <3>1. c \in ReferringOf(s) /\ ReferringOf(s)' \subseteq ReferringOf(s) \ {c}
      BY <1>1, <1>2, <1>3, <2>3 DEF ReferringOf, Referring
    <3>2. Cardinality((Reports \intersect PendingOf(s))') + Cardinality(ReferringOf(s)')
              < MaxPerSource + Cardinality(Clicks)
      BY <2>1, <2>2, <3>1, CountedAreFinite, BudgetKept, Limits
    <3>3. Cardinality((Reports \intersect QueuedOf(s))') + Cardinality(ReferringOf(s)')
              < MaxPerWindow + Cardinality(Clicks)
      BY <2>1, <2>2, <3>1, CountedAreFinite, BudgetKept, Limits
    <3> QED
      BY <3>2, <3>3
  <2>4. CASE Sender[r] # s
    <3>1. ReferringOf(s)' \subseteq ReferringOf(s)
      BY <1>3 DEF ReferringOf, Referring
    <3>2. r \notin PendingOf(s)' /\ r \notin QueuedOf(s)'
      BY <2>4 DEF PendingOf, QueuedOf
    <3>3. /\ (Reports \intersect PendingOf(s))' \subseteq Reports \intersect PendingOf(s)
          /\ (Reports \intersect QueuedOf(s))' \subseteq Reports \intersect QueuedOf(s)
      BY <2>2, <3>2
    <3>4. Cardinality((Reports \intersect PendingOf(s))') + Cardinality(ReferringOf(s)')
              < MaxPerSource + Cardinality(Clicks)
      BY <2>1, <3>1, <3>3, CountedAreFinite, BudgetKept, Limits
    <3>5. Cardinality((Reports \intersect QueuedOf(s))') + Cardinality(ReferringOf(s)')
              < MaxPerWindow + Cardinality(Clicks)
      BY <2>1, <3>1, <3>3, CountedAreFinite, BudgetKept, Limits
    <3> QED
      BY <3>4, <3>5
  <2> QED
    BY <2>3, <2>4
<1> QED
  BY <1>5, <1>6 DEF SourceBudget, WindowBudget

LEMMA ReportBudgetsNext ==
    RCore /\ Budgets /\ [FNext]_fvars => DepthBudget' /\ SourceBudget' /\ WindowBudget'
<1> SUFFICES ASSUME RCore, Budgets, [FNext]_fvars
             PROVE  DepthBudget' /\ SourceBudget' /\ WindowBudget'
  OBVIOUS
<1>0. FCore /\ Core /\ TypeOK /\ FTypeOK /\ Named /\ Undrawn /\ today \in Nat
  BY QueueAssumption DEF RCore, FCore, Core, TypeOK
<1>1. ASSUME UNCHANGED vars,
             \A c \in Clicks : click'[c] = "enqueue" => /\ click[c] = "enqueue"
                                                        /\ about'[c] = about[c]
      PROVE  DepthBudget' /\ SourceBudget' /\ WindowBudget'
  <2>1. today' = today /\ \A r \in Reports' : /\ r \in Reports
                                              /\ queued'[r] = queued[r]
                                              /\ status'[r] = status[r]
    BY <1>1 DEF Reports, vars, queue
  <2> QED
    BY <1>0, <1>1, <2>1, ReportsShrink
<1>2. ASSUME NEW c \in Clicks, Click(c)
      PROVE  DepthBudget' /\ SourceBudget' /\ WindowBudget'
  <2>1. CASE \E r \in Requests, v \in Verdicts : Admit(c, r, v)
    <3>1. PICK r \in Requests, v \in Verdicts : Admit(c, r, v)
      BY <2>1
    <3>2. /\ click'[c] \in {"insert", "insert and refer"}
          /\ \A d \in Clicks : d # c => click'[d] = click[d] /\ about'[d] = about[d]
          /\ UNCHANGED vars
      BY <1>0, <3>1, AdmitEffect
    <3> QED
      BY <1>1, <3>2
  <2>2. ASSUME UNCHANGED vars, NEW where \in {"idle", "refer"}, Go(c, where)
        PROVE  DepthBudget' /\ SourceBudget' /\ WindowBudget'
    <3>1. /\ click'[c] = where
          /\ \A d \in Clicks : d # c => click'[d] = click[d] /\ about'[d] = about[d]
      BY <1>0, <2>2, GoEffect
    <3> QED
      BY <1>1, <2>2, <3>1
  <2>3. CASE InsertFeedback(c)
    BY <1>0, <2>2, <2>3, InsertEffect
  <2>4. CASE ReferralRefused(c) \/ ClickFails(c)
    BY <2>2, <2>4 DEF ReferralRefused, ClickFails
  <2>5. CASE Refer(c)
    BY <1>0, <2>5, ReferBudgets
  <2>6. CASE InsertReferral(c)
    BY <1>0, <2>6, ReferralBudgets
  <2> QED
    BY <1>2, <2>1, <2>3, <2>4, <2>5, <2>6 DEF Click
<1>3. CASE Others
  <2>1. Next /\ UNCHANGED <<voting, clicking>>
    BY <1>3, OthersAreSteps
  <2>2. today' \in Nat /\ today <= today'
    BY <1>0, <2>1, TodayRises
  <2>3. \A r \in Reports' : /\ r \in Reports
                            /\ queued'[r] = queued[r]
                            /\ status'[r] = "pending" => status[r] = "pending"
    <3> SUFFICES ASSUME NEW r \in Requests, r \in Reports'
                 PROVE  /\ r \in Reports
                        /\ queued'[r] = queued[r]
                        /\ status'[r] = "pending" => status[r] = "pending"
      BY DEF Reports
    <3> QED
      BY <1>0, <1>3, OthersDoNotReport
  <2> QED
    BY <1>0, <2>1, <2>2, <2>3, ReportsShrink DEF clicking
<1>4. CASE UNCHANGED fvars
  BY <1>1, <1>4 DEF fvars, clicking
<1> QED
  BY <1>2, <1>3, <1>4 DEF FNext

LEMMA BudgetsBound == Budgets => QuotasBounded
<1> SUFFICES ASSUME Budgets PROVE QuotasBounded
  OBVIOUS
<1>1. ASSUME NEW S, IsFiniteSet(S), NEW C, IsFiniteSet(C), NEW quota \in Nat,
             Cardinality(S) + Cardinality(C) < quota + Cardinality(Clicks)
      PROVE  Cardinality(S) < quota + Cardinality(Clicks)
  <2>1. Cardinality(S) \in Nat /\ Cardinality(C) \in Nat
    BY <1>1, FS_CardinalityType
  <2> QED
    BY <1>1, <2>1, Limits
<1>2. Cardinality(Reports \intersect Pending) < MaxPending + Cardinality(Clicks)
  BY <1>1, CountedAreFinite, Limits DEF Budgets, DepthBudget
<1>3. ASSUME NEW s \in Senders
      PROVE  Cardinality(VotesOf(s)) < MaxVotes + Cardinality(Clicks)
  BY <1>1, CountedAreFinite, Limits DEF Budgets, VoteBudget
<1>4. ASSUME NEW s \in Senders
      PROVE  Cardinality(Reports \intersect PendingOf(s)) < MaxPerSource + Cardinality(Clicks)
  BY <1>1, CountedAreFinite, Limits DEF Budgets, SourceBudget
<1>5. ASSUME NEW s \in Senders
      PROVE  Cardinality(Reports \intersect QueuedOf(s)) < MaxPerWindow + Cardinality(Clicks)
  BY <1>1, CountedAreFinite, Limits DEF Budgets, WindowBudget
<1> QED
  BY <1>2, <1>3, <1>4, <1>5 DEF QuotasBounded

\* For any number of clicks, senders and requests: the quota of verdicts and
\* the three caps on reported items are exceeded by less than the clicks at once.
THEOREM QuotasBoundedCorrect == FSpec => []QuotasBounded
<1>1. FInit => RCore /\ Budgets
  BY RCoreInit, BudgetInit
<1>2. RCore /\ Budgets /\ [FNext]_fvars => RCore' /\ Budgets'
  <2> SUFFICES ASSUME RCore, Budgets, [FNext]_fvars PROVE RCore' /\ Budgets'
    OBVIOUS
  <2>1. VoteBudget'
    BY VoteBudgetNext DEF RCore, Budgets
  <2> QED
    BY <2>1, RCoreNext, ReportBudgetsNext DEF Budgets
<1> QED
  BY <1>1, <1>2, BudgetsBound, PTL DEF FSpec

-----------------------------------------------------------------------------
(* What a click does to the queue                                          *)

\* The day a click was let in is not long past: its prediction is there.
ClickFresh ==
    \A c \in Clicks : click[c] # "idle" =>
        /\ text[about[c]] # "none"
        /\ today <= born[about[c]] + FeedbackDays + 1

\* A text that is gone was too old to be voted on.
NulledOld == \A r \in Requests : text[r] = "null" => Older(born[r], today, TextDays)

\* A prediction, once written, keeps its day.
LEMMA PredictionStays ==
    ASSUME Core, [Next]_vars, NEW r \in Requests, text[r] # "none"
    PROVE  text'[r] # "none" /\ born'[r] = born[r]
<1>0. TypeOK
  BY DEF Core
<1>1. CASE \E q \in Requests, day \in 0..MaxDay : WritePending(q, day)
  BY <1>0, <1>1, WritePendingWrites
<1>2. CASE PurgeCommits
  BY <1>0, <1>2 DEF PurgeCommits, TypeOK
<1>3. CASE UNCHANGED predictions
  BY <1>3 DEF predictions
<1>4. \/ \E q \in Requests, day \in 0..MaxDay : WritePending(q, day)
      \/ PurgeCommits
      \/ UNCHANGED predictions
  BY DEF Next, Backend, Report, Submit, SubmitLocks, SubmitClaims,
         SubmitRollsBack, DrainOnce, RescorerClaims, RescorerCommits, RescorerDies,
         Purge, PurgeExpires, PurgeNulls, PurgeDies, DayPasses, vars
<1> QED
  BY <1>1, <1>2, <1>3, <1>4

LEMMA NulledOldNext == Core /\ Kept /\ NulledOld /\ [Next]_vars => NulledOld'
<1> SUFFICES ASSUME Core, Kept, NulledOld, [Next]_vars,
                    NEW r \in Requests, text'[r] = "null"
             PROVE  Older(born'[r], today', TextDays)
  BY DEF NulledOld, Older
<1>0. /\ TypeOK /\ today \in Nat /\ today' \in Nat /\ today <= today'
      /\ TextDays \in Nat /\ MaxDay \in Nat
  BY TodayRises, QueueAssumption DEF Core
<1>1. born[r] \in Nat /\ purgeDay \in Nat
  BY <1>0 DEF TypeOK
<1>2. CASE text[r] = "null"
  BY <1>0, <1>1, <1>2, PredictionStays DEF NulledOld, Older
<1>3. CASE text[r] # "null"
  <2>1. PurgeCommits
    <3>1. \A q \in Requests, day \in 0..MaxDay : ~WritePending(q, day)
      BY <1>0, <1>3, WritePendingWrites DEF TypeOK
    <3>2. text' # text
      BY <1>3
    <3> QED
      BY <3>1, <3>2
      DEF Next, Backend, Report, Submit, SubmitLocks, SubmitClaims,
          SubmitRollsBack, DrainOnce, RescorerClaims, RescorerCommits, RescorerDies,
          Purge, PurgeExpires, PurgeNulls, PurgeDies, DayPasses, vars, predictions
  <2>2. r \in erasing /\ UNCHANGED <<today, born>>
    BY <1>3, <2>1 DEF PurgeCommits
  <2>3. Older(born[r], purgeDay, TextDays) /\ purgeDay <= today
    BY <2>2 DEF Kept, PurgeCovers, Clock
  <2> QED
    BY <1>0, <1>1, <2>2, <2>3 DEF Older
<1> QED
  BY <1>2, <1>3

LEMMA ClickFreshNext == FCore /\ ClickFresh /\ [FNext]_fvars => ClickFresh'
<1> SUFFICES ASSUME FCore, ClickFresh, [FNext]_fvars PROVE ClickFresh'
  OBVIOUS
<1>0. Core /\ TypeOK /\ FTypeOK /\ Named
  BY DEF FCore, Core
<1>1. \A r \in Requests : born[r] \in Nat
  BY <1>0, QueueAssumption DEF TypeOK
<1>2. today \in Nat /\ FeedbackDays \in Nat
  BY <1>0, QueueAssumption DEF TypeOK
<1>3. ASSUME NEW c \in Clicks, Click(c) PROVE ClickFresh'
  <2>1. CASE \E r \in Requests, v \in Verdicts : Admit(c, r, v)
    <3>1. PICK r \in Requests, v \in Verdicts : Admit(c, r, v)
      BY <2>1
    <3>2. /\ about'[c] = r
          /\ \A d \in Clicks : d # c => click'[d] = click[d] /\ about'[d] = about[d]
          /\ UNCHANGED <<today, text, born>>
      BY <1>0, <3>1, AdmitEffect DEF vars, predictions
    <3>3. text[r] # "none" /\ today <= born[r] + FeedbackDays + 1
      <4>1. text[r] # "none" /\ today <= born[r] + FeedbackDays
        BY <3>1 DEF Admit, MayVote
      <4> QED
        BY <1>1, <1>2, <4>1
    <3> QED
      BY <3>2, <3>3 DEF ClickFresh
  <2>2. ASSUME UNCHANGED <<today, predictions>>, click[c] # "idle",
               NEW where \in {"idle", "refer", "enqueue"}, Go(c, where)
        PROVE  ClickFresh'
    <3>1. /\ click'[c] = where
          /\ where # "idle" => about'[c] = about[c]
          /\ \A d \in Clicks : d # c => click'[d] = click[d] /\ about'[d] = about[d]
      BY <1>0, <2>2, GoEffect
    <3> QED
      BY <2>2, <3>1 DEF ClickFresh, predictions
  <2>3. CASE InsertFeedback(c)
    BY <1>0, <2>2, <2>3, InsertEffect DEF vars
  <2>4. CASE Refer(c) \/ ReferralRefused(c) \/ ClickFails(c)
    BY <1>0, <2>2, <2>4, OtherClickEffect DEF vars
  <2>5. CASE InsertReferral(c)
    BY <1>0, <2>2, <2>5, ReferralEffect
  <2> QED
    BY <1>3, <2>1, <2>3, <2>4, <2>5 DEF Click
<1>4. CASE Others
  <2>1. Next /\ UNCHANGED <<click, about>>
    BY <1>4, OthersAreSteps DEF clicking
  <2>2. ASSUME NEW c \in Clicks, click[c] # "idle"
        PROVE  /\ text'[about[c]] # "none"
               /\ today' <= born'[about[c]] + FeedbackDays + 1
    <3>1. PICK r \in Requests : r = about[c]
      BY <1>0, <2>2 DEF Named
    <3>2. text[r] # "none" /\ today <= born[r] + FeedbackDays + 1
      BY <2>2, <3>1 DEF ClickFresh
    <3>3. text'[r] # "none" /\ born'[r] = born[r]
      BY <1>0, <2>1, <3>2, PredictionStays
    <3>4. CASE NoClickIsOld /\ DayPasses
      <4>1. today <= born[r] + FeedbackDays /\ today' = today + 1
        BY <2>2, <3>1, <3>4 DEF NoClickIsOld, DayPasses
      <4> QED
        BY <1>1, <1>2, <3>1, <3>3, <4>1
    <3>5. CASE UNCHANGED today
      BY <3>1, <3>2, <3>3, <3>5
    <3>6. (NoClickIsOld /\ DayPasses) \/ UNCHANGED today
      BY <1>4 DEF Others, WritePending, Submit, SubmitLocks, SubmitClaims,
                  SubmitRollsBack, DrainOnce, RescorerClaims, RescorerCommits,
                  RescorerDies, Purge, PurgeExpires, PurgeNulls, PurgeCommits, PurgeDies
    <3> QED
      BY <3>4, <3>5, <3>6
  <2> QED
    BY <2>1, <2>2 DEF ClickFresh
<1>5. CASE UNCHANGED fvars
  BY <1>5 DEF ClickFresh, fvars, vars, predictions, clicking
<1> QED
  BY <1>3, <1>4, <1>5 DEF FNext

\* The text of the prediction a click is about is there.
LEMMA ReferralReports ==
    ASSUME RetentionOrdered, FCore, NulledOld, ClickFresh,
           NEW c \in Clicks, InsertReferral(c)
    PROVE  \E r \in Requests : Report(r)
<1>0. Core /\ TypeOK /\ FTypeOK /\ Named
  BY DEF FCore, Core
<1>1. PICK r \in Requests : r = about[c]
  BY <1>0, ReferralEffect
<1>2. /\ click[c] = "enqueue"
      /\ status[r] = "none"
      /\ NewItem(r, "user-report")
      /\ UNCHANGED <<today, predictions, judged, lock, purging>>
  BY <1>0, <1>1, ReferralEffect
<1>3. text[r] # "none" /\ today <= born[r] + FeedbackDays + 1
  BY <1>1, <1>2 DEF ClickFresh
<1>4. /\ today \in Nat /\ born[r] \in Nat /\ FeedbackDays \in Nat /\ TextDays \in Nat
      /\ FeedbackDays < TextDays
  BY <1>0, QueueAssumption DEF TypeOK, RetentionOrdered
<1>5. text[r] # "null"
  BY <1>3, <1>4 DEF NulledOld, Older
<1>6. text[r] = "kept"
  BY <1>0, <1>3, <1>5 DEF TypeOK
<1> QED
  BY <1>2, <1>3, <1>6 DEF Report, Admissible

LEMMA QueueNext ==
    ASSUME RetentionOrdered
    PROVE  FCore /\ NulledOld /\ ClickFresh /\ [FNext]_fvars => [Next]_vars
<1> SUFFICES ASSUME FCore, NulledOld, ClickFresh, [FNext]_fvars PROVE [Next]_vars
  OBVIOUS
<1>1. ASSUME NEW c \in Clicks, Click(c) PROVE [Next]_vars
  <2>1. CASE InsertReferral(c)
    BY <2>1, ReferralReports DEF Next, Backend
  <2>2. CASE \/ \E r \in Requests, v \in Verdicts : Admit(c, r, v)
             \/ InsertFeedback(c)
             \/ Refer(c) \/ ReferralRefused(c) \/ ClickFails(c)
    BY <2>2 DEF Admit, InsertFeedback, Refer, ReferralRefused, ClickFails
  <2> QED
    BY <1>1, <2>1, <2>2 DEF Click
<1>2. CASE Others
  BY <1>2, OthersAreSteps
<1>3. CASE UNCHANGED fvars
  BY <1>3 DEF fvars
<1> QED
  BY <1>1, <1>2, <1>3 DEF FNext

\* Under the same settings as OpenReadableCorrect: the clicks and the other
\* programs together are still a review queue, so what is proved of it holds
\* beside any number of clicks that act on counts and texts read before.
THEOREM QueueImplemented ==
    ASSUME RetentionOrdered
    PROVE  FSpec => QueueSpec
<1>1. FInit => FCore /\ Kept /\ NulledOld /\ ClickFresh /\ Init
  <2> SUFFICES ASSUME FInit PROVE Kept /\ NulledOld /\ ClickFresh /\ Init
    BY FCoreInit
  <2>1. Init /\ Kept
    BY KeptInit DEF FInit
  <2> QED
    BY <2>1 DEF FInit, Init, NulledOld, ClickFresh
<1>2. FCore /\ Kept /\ NulledOld /\ ClickFresh /\ [FNext]_fvars
          => /\ FCore' /\ Kept' /\ NulledOld' /\ ClickFresh'
             /\ [Next]_vars
  BY FCoreNext, KeptNext, NulledOldNext, ClickFreshNext, QueueNext DEF FCore
<1> QED
  BY <1>1, <1>2, PTL DEF FSpec, QueueSpec, Spec
=============================================================================
