----------------------- MODULE ReviewerConsole_proofs -----------------------
(***************************************************************************)
(* Proofs about ReviewerConsole: with the reviewer's script in front of it *)
(* the queue is still the queue of ReviewQueue, so that what is proved     *)
(* there holds here, and labels stray to another item only when their own  *)
(* has left the queue or stands behind it.                                 *)
(***************************************************************************)
EXTENDS ReviewerConsole, ReviewQueue_proofs, SequenceTheorems, WellFoundedInduction

-----------------------------------------------------------------------------
(* The line and what is on top of it                                       *)

\* A set of numbers that is not empty has a least one.
LEMMA LeastExists ==
    ASSUME NEW S \in SUBSET Nat, S # {}
    PROVE  \E x \in S : \A y \in S : x <= y
<1>1. \E R : IsWellFoundedOn(R, Nat) /\ \A x, y \in Nat : y < x => <<y, x>> \in R
  <2>1. \A x, y \in Nat : y < x => <<y, x>> \in OpToRel(<, Nat)
    BY DEF OpToRel
  <2>2. QED
    BY <2>1, NatLessThanWellFounded
<1>2. PICK R : IsWellFoundedOn(R, Nat) /\ \A x, y \in Nat : y < x => <<y, x>> \in R
  BY <1>1
<1>3. PICK x \in S : \A y \in S : ~ (<<y, x>> \in R)
  BY <1>2, WFMin
<1>4. ASSUME NEW y \in S PROVE x <= y
  <2>1. x \in Nat /\ y \in Nat /\ ~ (<<y, x>> \in R)
    BY <1>3
  <2>2. ~ (y < x)
    BY <1>2, <2>1
  <2>3. QED
    BY <2>1, <2>2
<1>5. QED
  BY <1>4

Before(l, r, f) == \E i, j \in 1..Len(l) : i < j /\ l[i] = r /\ l[j] = f

\* What is on top is open, and every other open item of the line is behind it.
LEMMA TopIsFirst ==
    ASSUME line \in Seq(Requests)
    PROVE  /\ Top \in Requests \cup {NoItem}
           /\ Top # NoItem =>
                /\ status[Top] \in Open
                /\ \E i \in 1..Len(line) : line[i] = Top
                /\ \A j \in 1..Len(line) :
                     status[line[j]] \in Open => line[j] = Top \/ Before(line, Top, line[j])
<1>1. CASE Waiting = {}
  BY <1>1 DEF Top
<1>2. CASE Waiting # {}
  <2>1. Waiting \in SUBSET Nat
    BY DEF Waiting
  <2>2. PICK i \in Waiting : /\ \A j \in Waiting : i <= j
                             /\ Top = line[i]
    <3> DEFINE first == CHOOSE i \in Waiting : \A j \in Waiting : i <= j
    <3>1. first \in Waiting /\ \A j \in Waiting : first <= j
      BY <1>2, <2>1, LeastExists
    <3>2. Top = line[first]
      BY <1>2 DEF Top
    <3>3. QED
      BY <3>1, <3>2
  <2>3. i \in 1..Len(line) /\ status[line[i]] \in Open /\ line[i] \in Requests
    BY DEF Waiting
  <2>4. ASSUME NEW j \in 1..Len(line), status[line[j]] \in Open, line[j] # Top
        PROVE  Before(line, Top, line[j])
    <3>1. j \in Waiting
      BY <2>4 DEF Waiting
    <3>2. i < j
      BY <2>2, <2>3, <2>4, <3>1
    <3>3. QED
      BY <2>2, <2>3, <3>2 DEF Before
  <2>5. QED
    BY <2>2, <2>3, <2>4
<1>3. QED
  BY <1>1, <1>2

\* A newcomer may stand anywhere, and moves nobody past another.
LEMMA InsertKeepsOrder ==
    ASSUME line \in Seq(Requests), NEW q \in Requests, NEW i \in 1..Len(line) + 1,
           line' = InsertAt(line, i, q)
    PROVE  /\ line' \in Seq(Requests)
           /\ \E j \in 1..Len(line') : line'[j] = q
           /\ \A j \in 1..Len(line) : \E k \in 1..Len(line') : line'[k] = line[j]
           /\ \A r, f : Before(line, r, f) => Before(line', r, f)
<1> DEFINE front == SubSeq(line, 1, i - 1)
           back == SubSeq(line, i, Len(line))
           n == Len(line)
<1>1. n \in Nat /\ i \in 1..n + 1 /\ i \in Int
  BY LenProperties
<1>2. /\ front \in Seq(Requests) /\ Len(front) = i - 1
      /\ \A j \in 1..i - 1 : front[j] = line[j]
  <2>1. \A j \in 1..i - 1 : line[j] \in Requests
    BY <1>1, ElementOfSeq
  <2>2. QED
    BY <1>1, <2>1, SubSeqProperties
<1>3. /\ back \in Seq(Requests) /\ Len(back) = n - i + 1
      /\ \A j \in 1..n - i + 1 : back[j] = line[i + j - 1]
  <2>1. \A j \in i..n : line[j] \in Requests
    BY <1>1, ElementOfSeq
  <2>2. QED
    BY <1>1, <2>1, SubSeqProperties
<1>4. /\ front \o <<q>> \in Seq(Requests) /\ Len(front \o <<q>>) = i
      /\ \A j \in 1..i : (front \o <<q>>)[j] = IF j <= i - 1 THEN line[j] ELSE q
  <2>1. <<q>> \in Seq(Requests) /\ Len(<<q>>) = 1 /\ <<q>>[1] = q
    OBVIOUS
  <2>2. QED
    BY <1>1, <1>2, <2>1, ConcatProperties
<1>5. PICK p \in Seq(Requests) :
         /\ Len(p) = i /\ \A j \in 1..i : p[j] = IF j <= i - 1 THEN line[j] ELSE q
         /\ line' = p \o back
  BY <1>4 DEF InsertAt
<1>6. /\ line' \in Seq(Requests) /\ Len(line') = n + 1
      /\ \A j \in 1..n + 1 : line'[j] = IF j <= i THEN p[j] ELSE back[j - i]
  <2> HIDE DEF back, n
  <2>1. /\ p \o back \in Seq(Requests) /\ Len(p \o back) = Len(p) + Len(back)
        /\ \A j \in 1..Len(p) + Len(back) :
             (p \o back)[j] = IF j <= Len(p) THEN p[j] ELSE back[j - Len(p)]
    BY <1>3, <1>5, ConcatProperties
  <2>2. Len(p) + Len(back) = n + 1
    BY <1>1, <1>3, <1>5
  <2>3. QED
    BY <1>5, <2>1, <2>2
<1>7. line'[i] = q
  BY <1>1, <1>5, <1>6
<1>8. \A j \in 1..n : j < i => line'[j] = line[j]
  BY <1>1, <1>5, <1>6
<1>9. ASSUME NEW j \in 1..n, j >= i PROVE line'[j + 1] = line[j]
  <2> HIDE DEF back, n
  <2>1. j + 1 \in 1..n + 1 /\ j + 1 > i /\ j + 1 - i \in 1..n - i + 1
    BY <1>1, <1>9
  <2>2. line'[j + 1] = back[j + 1 - i]
    BY <1>1, <1>6, <2>1
  <2>3. i + (j + 1 - i) - 1 = j
    BY <1>1
  <2>4. QED
    BY <1>3, <2>1, <2>2, <2>3
<1>10. ASSUME NEW r, NEW f, Before(line, r, f) PROVE Before(line', r, f)
  <2>1. PICK a, b \in 1..n : a < b /\ line[a] = r /\ line[b] = f
    BY <1>10 DEF Before
  <2> DEFINE moved(j) == IF j < i THEN j ELSE j + 1
  <2>2. moved(a) \in 1..n + 1 /\ moved(b) \in 1..n + 1 /\ moved(a) < moved(b)
    BY <1>1, <2>1
  <2>3. line'[moved(a)] = r /\ line'[moved(b)] = f
    BY <1>1, <1>8, <1>9, <2>1
  <2>4. QED
    BY <1>6, <2>2, <2>3 DEF Before
<1>11. \A j \in 1..n : \E k \in 1..n + 1 : line'[k] = line[j]
  BY <1>1, <1>8, <1>9
<1>12. QED
  BY <1>1, <1>6, <1>7, <1>10, <1>11

-----------------------------------------------------------------------------
(* The console only asks                                                   *)

Call == [item : Requests \cup {NoItem}, from : Requests \cup {NoItem},
         by : Consoles \cup {NoItem}]

\* A worker serves a submit of an item of the queue.
Asked ==
    /\ line \in Seq(Requests)
    /\ formed \in [Consoles -> Requests \cup {NoItem}]
    /\ shown \in [Consoles -> Requests \cup {NoItem}]
    /\ call \in [Reviewers -> Call]
    /\ \A w \in Reviewers : call[w] # NoCall => call[w].item \in Requests

LEMMA ConsoleAsks ==
    ASSUME Asked, [ConsoleNext]_allVars
    PROVE  [Next]_vars
<1>1. CASE UNCHANGED allVars
  BY <1>1 DEF allVars
<1>2. ASSUME NEW c \in Consoles, Console(c) PROVE [Next]_vars
  BY <1>2 DEF Console, SignIn, Tick, Refresh, HearRecorded, HearFailure, Click, Runs
<1>3. ASSUME NEW w \in Reviewers, Serve(w) PROVE [Next]_vars
  <2>1. CASE Refuse(w)
    BY <2>1 DEF Refuse
  <2>2. CASE Lock(w) \/ Claim(w)
    <3>1. call[w].item \in Requests
      BY <2>2 DEF Lock, Claim, Asked
    <3>2. Submit(w)
      BY <2>2, <3>1 DEF Lock, Claim, Submit
    <3>3. QED
      BY <3>2 DEF Next
  <2>3. CASE RollBack(w)
    BY <2>3 DEF RollBack, Submit, Next
  <2>4. QED
    BY <1>3, <2>1, <2>2, <2>3 DEF Serve
<1>4. CASE Others
  BY <1>4 DEF Others, Next
<1>5. QED
  BY <1>1, <1>2, <1>3, <1>4 DEF ConsoleNext

-----------------------------------------------------------------------------
(* Labels that stray                                                       *)

\* f has been in the queue, and labels made for it may be stored for r.
MayStray(st, l, r, f) ==
    /\ f \in Requests /\ st[f] # "none"
    /\ f = r \/ st[f] \notin Open \/ Before(l, r, f)

\* Whoever has been queued stands in the line.
InLine == \A r \in Requests : status[r] # "none" => \E i \in 1..Len(line) : line[i] = r

\* What a console shows, or its ticks were made for, has been in the queue.
OnScreen ==
    \A c \in Consoles : /\ formed[c] # NoItem => status[formed[c]] # "none"
                        /\ shown[c] # NoItem => status[shown[c]] # "none"

\* What is on its way and what is stored strays no further than it may.
Underway ==
    \A w \in Reviewers :
        call[w] # NoCall => MayStray(status, line, call[w].item, call[w].from)
Stored ==
    /\ filed \in [Requests -> Requests \cup {NoItem}]
    /\ \A r \in Requests : filed[r] # NoItem => MayStray(status, line, r, filed[r])

Filing == Asked /\ InLine /\ OnScreen /\ Underway /\ Stored

\* What the life of an item allows: nothing leaves for "none", nothing closed opens, and
\* one item is new at a time.
LEMMA LifeMoves ==
    ASSUME Core, [Next]_vars
    PROVE  /\ \A r \in Requests : status[r] # "none" => status'[r] # "none"
           /\ \A r \in Requests :
                status[r] \notin Open \cup {"none"} => status'[r] \notin Open
           /\ \A r, q \in Requests :
                /\ status[r] = "none" /\ status'[r] # "none"
                /\ status[q] = "none" /\ status'[q] # "none"
                => r = q
<1>1. [Lifecycle!Next]_<<status, judged>>
  BY LifecycleNext
<1>2. CASE UNCHANGED <<status, judged>>
  BY <1>2
<1>3. ASSUME NEW q \in Requests, Lifecycle!Queue(q)
      PROVE  status' = [r \in Requests |-> IF r = q THEN "pending" ELSE status[r]]
             /\ status[q] = "none"
  BY <1>3 DEF Lifecycle!Queue, Lifecycle!Move
<1>4. ASSUME NEW items \in SUBSET Requests, NEW to \in {"rescored", "expired", "reviewed"},
             NEW from \in {{"pending"}, Open, Open \cup {"expired"}},
             to = "rescored" => from = {"pending"},
             \A r \in items : status[r] \in from,
             status' = [r \in Requests |-> IF r \in items THEN to ELSE status[r]]
      PROVE  /\ \A r \in Requests : (status[r] = "none") <=> (status'[r] = "none")
             /\ \A r \in Requests : status[r] \notin Open => status'[r] \notin Open
  BY <1>4 DEF Open
<1>5. ASSUME NEW q \in Requests, Lifecycle!Judge(q)
      PROVE  /\ \A r \in Requests : (status[r] = "none") <=> (status'[r] = "none")
             /\ \A r \in Requests : status[r] \notin Open => status'[r] \notin Open
  BY <1>5 DEF Lifecycle!Judge, Lifecycle!Move, Lifecycle!Open, Open
<1>6. ASSUME NEW items \in SUBSET Requests, Lifecycle!Rescore(items) \/ Lifecycle!Expire(items)
      PROVE  /\ \A r \in Requests : (status[r] = "none") <=> (status'[r] = "none")
             /\ \A r \in Requests : status[r] \notin Open => status'[r] \notin Open
  BY <1>6 DEF Lifecycle!Rescore, Lifecycle!Expire, Lifecycle!Move, Lifecycle!Open, Open
<1>7. CASE \E q \in Requests : Lifecycle!Queue(q)
  BY <1>3, <1>7 DEF Open
<1>8. QED
  BY <1>1, <1>2, <1>5, <1>6, <1>7 DEF Lifecycle!Next

\* What may stray now may stray for ever.
LEMMA MayStrayStays ==
    ASSUME Core, [Next]_vars,
           \A r, f : Before(line, r, f) => Before(line', r, f),
           NEW r, NEW f, MayStray(status, line, r, f)
    PROVE  MayStray(status', line', r, f)
BY LifeMoves DEF MayStray

\* The steps of the queue that leave the screens, the calls and the record alone.
LEMMA FilingStays ==
    ASSUME Core, Filing, [Next]_vars, line' \in Seq(Requests), InLine',
           \A r, f : Before(line, r, f) => Before(line', r, f),
           UNCHANGED <<shown, formed, call, filed>>
    PROVE  Filing'
<1>1. Asked'
  BY DEF Filing, Asked
<1>2. OnScreen'
  BY LifeMoves DEF Filing, Asked, OnScreen
<1>3. \A r, f : MayStray(status, line, r, f) => MayStray(status', line', r, f)
  BY MayStrayStays
<1>4. call' = call /\ filed' = filed
  OBVIOUS
<1>5. Underway'
  BY <1>3, <1>4 DEF Filing, Underway
<1>6. Stored'
  BY <1>3, <1>4 DEF Filing, Stored
<1>7. QED
  BY <1>1, <1>2, <1>5, <1>6 DEF Filing

LEMMA FilingInit == ConsoleInit => Filing
<1> SUFFICES ASSUME ConsoleInit PROVE Filing
  OBVIOUS
<1>1. line \in Seq(Requests)
  BY DEF ConsoleInit
<1>2. Asked
  BY <1>1 DEF ConsoleInit, Asked, Call, NoCall
<1>3. QED
  BY <1>2, ConsoleAssumption DEF ConsoleInit, Init, Filing, InLine, OnScreen,
     Underway, Stored, MayStray, NoCall

LEMMA FilingNext == Core /\ Filing /\ [ConsoleNext]_allVars => Filing'
<1> SUFFICES ASSUME Core, Filing, [ConsoleNext]_allVars PROVE Filing'
  OBVIOUS
<1>0. [Next]_vars /\ Asked /\ line \in Seq(Requests)
  BY ConsoleAsks DEF Filing, Asked
<1>1. ASSUME UNCHANGED <<status, line>>, UNCHANGED <<shown, formed, call, filed>>
      PROVE  Filing'
  BY <1>0, <1>1, FilingStays DEF Filing, InLine, Before
<1>2. CASE UNCHANGED allVars
  BY <1>1, <1>2 DEF allVars, vars, queue, consoleVars, screen
<1>3. ASSUME NEW c \in Consoles, Console(c) PROVE Filing'
  <2>0. UNCHANGED <<status, line, filed>>
    BY <1>3
    DEF Console, SignIn, Tick, Refresh, HearRecorded, HearFailure, Click, Runs, vars, queue
  <2>1. ASSUME NEW r, NEW ticks, Shows(c, r, ticks),
               r = NoItem \/ r = Top,
               ticks = NoItem \/ ticks = formed[c] \/ ticks = shown[c]
        PROVE  /\ formed' \in [Consoles -> Requests \cup {NoItem}]
               /\ shown' \in [Consoles -> Requests \cup {NoItem}]
               /\ \A d \in Consoles : /\ formed'[d] # NoItem => status[formed'[d]] # "none"
                                      /\ shown'[d] # NoItem => status[shown'[d]] # "none"
    <3>1. r \in Requests \cup {NoItem} /\ (r # NoItem => status[r] # "none")
      BY <1>0, <2>1, TopIsFirst DEF Open
    <3>2. ticks \in Requests \cup {NoItem} /\ (ticks # NoItem => status[ticks] # "none")
      BY <1>0, <2>1 DEF Filing, Asked, OnScreen
    <3>3. QED
      BY <1>0, <2>1, <3>1, <3>2 DEF Shows, Filing, Asked, OnScreen
  <2>2. ASSUME NEW ticks, Runs(c, ticks),
               ticks = NoItem \/ ticks = formed[c] \/ ticks = shown[c]
        PROVE  Filing'
    <3>1. PICK r : Shows(c, r, ticks) /\ r \in {NoItem, Top}
      BY <2>2 DEF Runs
    <3>2. UNCHANGED call
      BY <2>2 DEF Runs
    <3>3. QED
      BY <1>0, <2>0, <2>1, <2>2, <3>1, <3>2
      DEF Filing, Asked, InLine, OnScreen, Underway, Stored
  <2>3. ASSUME NEW w \in Reviewers, Click(c, w) PROVE Filing'
    <3>1. /\ formed[c] \in Requests /\ status[formed[c]] # "none" /\ Top # NoItem
          /\ call' = [call EXCEPT ![w] = [item |-> Top, from |-> formed[c], by |-> c]]
          /\ Shows(c, Top, formed[c])
      BY <1>0, <2>3 DEF Click, Filing, Asked, OnScreen
    <3>2. MayStray(status, line, Top, formed[c])
      BY <1>0, <3>1, TopIsFirst DEF Filing, InLine, OnScreen, MayStray
    <3>3. Top \in Requests
      BY <1>0, <3>1, TopIsFirst
    <3>4. [item |-> Top, from |-> formed[c], by |-> c] \in Call
      BY <3>1, <3>3 DEF Call
    <3>5. /\ call' \in [Reviewers -> Call]
          /\ \A v \in Reviewers : call'[v] # NoCall =>
               call'[v].item \in Requests /\ MayStray(status, line, call'[v].item, call'[v].from)
      <4>1. call'[w].item = Top /\ call'[w].from = formed[c]
        BY <1>0, <3>1 DEF Asked
      <4>2. \A v \in Reviewers : v # w => call'[v] = call[v]
        BY <1>0, <3>1 DEF Asked
      <4>3. call' \in [Reviewers -> Call]
        BY <1>0, <3>1, <3>4 DEF Asked
      <4>4. QED
        BY <1>0, <3>2, <3>3, <4>1, <4>2, <4>3 DEF Filing, Asked, Underway
    <3>6. QED
      BY <1>0, <2>0, <2>1, <3>1, <3>5 DEF Filing, Asked, InLine, OnScreen, Underway, Stored
  <2>4. CASE HearFailure(c)
    <3>1. \A w \in Reviewers :
             /\ call'[w] \in Call
             /\ call'[w].item = call[w].item /\ call'[w].from = call[w].from
             /\ call[w] = NoCall => call'[w] = NoCall
      BY <1>0, <2>4 DEF HearFailure, Asked, Call, NoCall
    <3>2. call' \in [Reviewers -> Call] /\ UNCHANGED <<shown, formed>>
      BY <2>4, <3>1 DEF HearFailure, screen
    <3>3. QED
      BY <1>0, <2>0, <3>1, <3>2 DEF Filing, Asked, InLine, OnScreen, Underway, Stored
  <2>5. QED
    BY <1>3, <2>2, <2>3, <2>4 DEF Console, SignIn, Tick, Refresh, HearRecorded
<1>4. ASSUME NEW w \in Reviewers, Serve(w) PROVE Filing'
  <2>0. UNCHANGED <<shown, formed, line>>
    BY <1>4 DEF Serve, Refuse, Lock, Claim, RollBack, screen, consoleVars
  <2>1. \A r, f : MayStray(status, line, r, f) => MayStray(status', line', r, f)
    BY <1>0, <2>0, MayStrayStays DEF Before
  <2>2. Lock(w) => UNCHANGED <<call, filed>>
    BY DEF Lock, consoleVars
  <2>3. \A r \in Requests : status'[r] = "none" <=> status[r] = "none"
    <3>1. CASE UNCHANGED status
      BY <3>1
    <3>2. CASE Claim(w)
      <4>1. /\ status' = [status EXCEPT ![call[w].item] = "reviewed"]
            /\ call[w].item \in Requests /\ lock[call[w].item] = w
        BY <1>0, <3>2 DEF Claim, SubmitClaims, Asked
      <4>2. w # Nobody /\ status \in [Requests -> {"none", "reviewed", "expired"} \cup Open]
        BY QueueAssumption DEF Core, TypeOK, Workers
      <4>3. status[call[w].item] # "none"
        BY <4>1, <4>2 DEF Core, Locks
      <4>4. QED
        BY <4>1, <4>2, <4>3
    <3>3. QED
      BY <1>4, <3>1, <3>2
      DEF Serve, Refuse, Lock, RollBack, SubmitLocks, SubmitRollsBack, vars, queue
  <2>4. /\ call' \in [Reviewers -> Call]
        /\ \A v \in Reviewers : call'[v] = call[v] \/ call'[v] = NoCall
    BY <1>0, <1>4, <2>2 DEF Serve, Refuse, Claim, RollBack, Ends, Asked, NoCall, Call
  <2>5. /\ filed' \in [Requests -> Requests \cup {NoItem}]
        /\ \A r \in Requests : filed'[r] # NoItem => MayStray(status', line', r, filed'[r])
    <3>1. CASE filed' = filed
      BY <2>1, <3>1 DEF Filing, Stored
    <3>2. CASE Claim(w)
      <4>1. /\ call[w] # NoCall
            /\ filed' = [filed EXCEPT ![call[w].item] = call[w].from]
        BY <3>2 DEF Claim
      <4>2. call[w].item \in Requests /\ call[w].from \in Requests
            /\ MayStray(status, line, call[w].item, call[w].from)
        BY <4>1 DEF Filing, Asked, Underway, MayStray
      <4>3. QED
        BY <2>1, <4>1, <4>2 DEF Filing, Stored
    <3>3. QED
      BY <1>4, <2>2, <3>1, <3>2 DEF Serve, Refuse, RollBack
  <2>6. QED
    BY <1>0, <2>0, <2>1, <2>3, <2>4, <2>5, LifeMoves
    DEF Filing, Asked, InLine, OnScreen, Underway, Stored
<1>5. CASE Others
  <2>1. UNCHANGED <<shown, formed, call, filed>>
    BY <1>5 DEF Others, screen
  <2>2. CASE line' = line /\ \A r \in Requests : status[r] = "none" => status'[r] = "none"
    BY <1>0, <2>1, <2>2, FilingStays DEF Filing, InLine, Before
  <2>3. ASSUME NEW q \in Requests, status[q] = "none", status'[q] # "none",
               NEW i \in 1..Len(line) + 1, line' = InsertAt(line, i, q)
        PROVE  Filing'
    <3>1. /\ line' \in Seq(Requests)
          /\ \E j \in 1..Len(line') : line'[j] = q
          /\ \A j \in 1..Len(line) : \E k \in 1..Len(line') : line'[k] = line[j]
          /\ \A r, f : Before(line, r, f) => Before(line', r, f)
      BY <1>0, <2>3, InsertKeepsOrder
    <3>2. \A r \in Requests : status'[r] # "none" => r = q \/ status[r] # "none"
      BY <1>0, <2>3, LifeMoves
    <3>3. InLine'
      BY <3>1, <3>2 DEF Filing, InLine
    <3>4. QED
      BY <1>0, <2>1, <3>1, <3>3, FilingStays
  <2>4. QED
    BY <1>5, <2>2, <2>3 DEF Others
<1>6. QED
  BY <1>2, <1>3, <1>4, <1>5 DEF ConsoleNext

\* A console in front of the queue, its sessions, its timeouts and its lost answers do
\* nothing that ReviewQueue does not: every behaviour of both is one of the queue.
THEOREM ConsoleImplementsQueue == ConsoleSpec => Spec
<1>1. Core /\ Filing /\ [ConsoleNext]_allVars => [Next]_vars
  BY ConsoleAsks DEF Filing
<1>2. ConsoleInit => Init
  BY DEF ConsoleInit
<1>3. QED
  BY <1>1, <1>2, FilingInit, FilingNext, CoreInit, CoreNext, PTL DEF ConsoleSpec, Spec

\* So a submit that was given up and runs on beside its repetition, from any number of
\* consoles, still leaves one judgement ...
THEOREM ConsoleOneJudgement == ConsoleSpec => []OneJudgement
BY ConsoleImplementsQueue, OneJudgementCorrect, PTL

\* ... and an item still lives the life of ReviewLifecycle.
THEOREM ConsoleLifecycle == ConsoleSpec => LifecycleSpec
BY ConsoleImplementsQueue, LifecycleImplemented, PTL

\* For any number of consoles, workers and items, however the line grows and whatever is
\* re-scored, purged or given up: labels are stored for another item than their own only
\* if their own has left the queue or stands behind it.
THEOREM StrayFromTopCorrect == ConsoleSpec => []StrayFromTop
<1>1. Filing => StrayFromTop
  BY DEF Filing, Stored, StrayFromTop, MayStray, Before
<1>2. Core /\ Filing /\ [ConsoleNext]_allVars => [Next]_vars
  BY ConsoleAsks DEF Filing
<1>3. ConsoleInit => Init
  BY DEF ConsoleInit
<1>4. QED
  BY <1>1, <1>2, <1>3, FilingInit, FilingNext, CoreInit, CoreNext, PTL DEF ConsoleSpec
=============================================================================
