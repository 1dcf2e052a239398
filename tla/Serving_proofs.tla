-------------------------- MODULE Serving_proofs ----------------------------
(***************************************************************************)
(* Proofs about what stands between a request and its answer, and about    *)
(* what puts a commit behind it: RateLimiter, Gate, Decision and Deploy.   *)
(***************************************************************************)
EXTENDS RateLimiter, Gate, Decision, Deploy, TLAPS


-----------------------------------------------------------------------------
(* RateLimiter                                                             *)

LimiterInv == TypeOK /\ Accounting

\* One refill, also over a negative time: what is spent and left of the old
\* bucket pays for what is left of the new one.
LEMMA RefillPays ==
    ASSUME NEW paid \in Int, NEW left \in Int, NEW level \in Int,
           NEW made \in Int, NEW last \in Int, NEW time \in Int,
           paid + left <= Full + Rate * (last - made),
           level <= left + (time - last) * Rate
    PROVE  paid + level <= Full + Rate * (time - made)
<1>1. Rate \in Int /\ Full \in Int
  BY LimiterAssumption DEF Full
<1>2. Rate * (last - made) + (time - last) * Rate = Rate * (time - made)
  BY <1>1
<1> DEFINE a == Rate * (last - made)
           b == (time - last) * Rate
           c == Rate * (time - made)
<1>3. a \in Int /\ b \in Int /\ c \in Int
  BY <1>1
<1>4. a + b = c
  BY <1>2
<1>5. paid + left <= Full + a /\ level <= left + b
  OBVIOUS
<1> HIDE DEF a, b, c
<1>6. paid + level <= Full + c
  BY <1>1, <1>3, <1>4, <1>5
<1> QED
  BY <1>6 DEF c

LEMMA LimiterInit == Init => LimiterInv
<1> SUFFICES ASSUME Init PROVE LimiterInv
  OBVIOUS
<1>1. Tracked = {}
  BY DEF Init, Tracked
<1>2. buckets \in [Tracked -> Buckets]
  BY <1>1 DEF Init
<1>3. clock \in Ticks
  BY LimiterAssumption DEF Init, Ticks
<1> QED
  BY <1>1, <1>2, <1>3 DEF Init, LimiterInv, TypeOK, Accounting

\* A refill is an integer, at most a full bucket, and at most what the time
\* passed adds.
LEMMA RefilledEffect ==
    ASSUME NEW units \in Int, NEW elapsed \in Int
    PROVE  /\ Refilled(units, elapsed) \in Int
           /\ Refilled(units, elapsed) <= Full
           /\ Refilled(units, elapsed) <= units + elapsed * Rate
<1>1. Rate \in Int /\ Full \in Int
  BY LimiterAssumption DEF Full
<1>2. units + elapsed * Rate \in Int
  BY <1>1
<1> QED
  BY <1>1, <1>2 DEF Refilled

\* The books of one bucket.
Balanced(b) == b.spent * Cost + b.tokens <= Full + Rate * (b.updated - b.made)

\* The bucket a call finds and stamps is a bucket, and its books balance at
\* the time the call has read.
LEMMA FoundBalanced ==
    ASSUME LimiterInv, NEW k \in Keys, NEW time \in Ticks
    PROVE  /\ Stamped(Found(k, time), time) \in Buckets
           /\ Balanced(Stamped(Found(k, time), time))
<1>0. /\ Cost \in Int /\ Full \in Int /\ Rate \in Int
      /\ time \in Int /\ Ticks \subseteq Int
  BY LimiterAssumption DEF Full, Ticks
<1>1. CASE k \notin Tracked
  <2>1. Stamped(Found(k, time), time)
          = [tokens |-> Full, updated |-> time, made |-> time, spent |-> 0]
    BY <1>1 DEF Found, Stamped
  <2>2. 0 * Cost + Full <= Full + Rate * (time - time)
    BY <1>0
  <2> QED
    BY <1>0, <2>1, <2>2 DEF Buckets, Balanced
<1>2. CASE k \in Tracked
  <2> DEFINE b == buckets[k]
             level == Refilled(b.tokens, time - b.updated)
             paid == b.spent * Cost
  <2>1. b \in Buckets /\ Balanced(b)
    BY <1>2 DEF LimiterInv, TypeOK, Accounting, Balanced
  <2>2. /\ b.tokens \in Int /\ b.updated \in Int /\ b.made \in Int
        /\ b.updated \in Ticks /\ b.made \in Ticks
        /\ b.spent \in Nat /\ time - b.updated \in Int
    <3> HIDE DEF b
    <3>1. /\ b.tokens \in Int /\ b.updated \in Ticks
          /\ b.made \in Ticks /\ b.spent \in Nat
      BY <2>1 DEF Buckets
    <3>2. b.updated \in Int /\ b.made \in Int
      BY <1>0, <3>1
    <3> QED
      BY <1>0, <3>1, <3>2
  <2>3. Stamped(Found(k, time), time)
          = [tokens |-> level, updated |-> time, made |-> b.made, spent |-> b.spent]
    <3>1. b = [tokens |-> b.tokens, updated |-> b.updated,
               made |-> b.made, spent |-> b.spent]
      BY <2>1 DEF Buckets
    <3>2. Found(k, time) = [b EXCEPT !.tokens = level]
      BY <1>2 DEF Found
    <3> HIDE DEF b, level
    <3>3. Found(k, time) = [tokens |-> level, updated |-> b.updated,
                           made |-> b.made, spent |-> b.spent]
      BY <3>1, <3>2
    <3> QED
      BY <3>3 DEF Stamped
  <2>4. /\ level \in Int
        /\ level <= Full
        /\ level <= b.tokens + (time - b.updated) * Rate
    <3> DEFINE elapsed == time - b.updated
    <3>1. b.tokens \in Int /\ elapsed \in Int
      BY <2>2
    <3> HIDE DEF b, elapsed
    <3>2. /\ Refilled(b.tokens, elapsed) \in Int
          /\ Refilled(b.tokens, elapsed) <= Full
          /\ Refilled(b.tokens, elapsed) <= b.tokens + elapsed * Rate
      BY <3>1, RefilledEffect
    <3> QED
      BY <3>2 DEF elapsed
  <2>5. paid \in Int
    BY <1>0, <2>2
  <2>6. paid + b.tokens <= Full + Rate * (b.updated - b.made)
    BY <2>1 DEF Balanced
  <2> HIDE DEF level, paid
  <2>7. paid + level <= Full + Rate * (time - b.made)
    BY <1>0, <2>2, <2>4, <2>5, <2>6, RefillPays
  <2>8. [tokens |-> level, updated |-> time, made |-> b.made, spent |-> b.spent] \in Buckets
    BY <2>2, <2>4 DEF Buckets
  <2> QED
    BY <2>3, <2>7, <2>8 DEF Balanced, paid
<1> QED
  BY <1>1, <1>2

\* Taking a token moves it from what is held to what is spent.
LEMMA ChargedBalanced ==
    ASSUME NEW b \in Buckets, Balanced(b)
    PROVE  Charged(b) \in Buckets /\ Balanced(Charged(b))
<1>0. /\ Cost \in Int /\ Cost > 0 /\ Full \in Int /\ Rate \in Int
      /\ b.spent \in Nat /\ b.tokens \in Int /\ b.tokens <= Full
      /\ b.updated \in Int /\ b.made \in Int
  BY LimiterAssumption DEF Full, Buckets, Ticks
<1>1. CASE ~Admits(b)
  BY <1>1 DEF Charged
<1>2. CASE Admits(b)
  <2>1. Charged(b) = [tokens |-> b.tokens - Cost, updated |-> b.updated,
                      made |-> b.made, spent |-> b.spent + 1]
    BY <1>2 DEF Charged, Buckets
  <2>2. (b.spent + 1) * Cost = b.spent * Cost + Cost /\ b.spent * Cost \in Int
    BY <1>0
  <2>3. (b.spent + 1) * Cost + (b.tokens - Cost) = b.spent * Cost + b.tokens
    BY <1>0, <2>2
  <2>4. Balanced(Charged(b))
    BY <2>1, <2>3 DEF Balanced
  <2>5. b.tokens - Cost \in Int /\ b.tokens - Cost <= Full /\ b.spent + 1 \in Nat
    BY <1>0
  <2>6. Charged(b) \in Buckets
    BY <2>1, <2>5 DEF Buckets
  <2> QED
    BY <2>4, <2>6
<1> QED
  BY <1>1, <1>2

LEMMA LimiterDecide == ASSUME LimiterInv, NEW c \in Callers, Decide(c) PROVE LimiterInv'
<1> DEFINE k == reading[c].key
           time == reading[c].now
           found == Found(k, time)
           new == Charged(Stamped(found, time))
<1>1. TypeOK /\ Accounting
  BY DEF LimiterInv
<1>2. reading[c] \in Readings /\ k \in Keys /\ time \in Ticks
  BY <1>1 DEF Decide, TypeOK, Readings
<1>3. PICK out \in Evictions(k) :
        /\ buckets' = [other \in (Tracked \ out) \union {k} |->
                         IF other = k THEN new ELSE buckets[other]]
        /\ lost' = (lost \/ Watched \in out)
  BY DEF Decide, Left
<1>4. new \in Buckets /\ Balanced(new)
  <2>1. Stamped(found, time) \in Buckets /\ Balanced(Stamped(found, time))
    BY <1>2, FoundBalanced
  <2> HIDE DEF found, time
  <2> QED
    BY <2>1, ChargedBalanced
<1> HIDE DEF new
<1>5. Tracked' = (Tracked \ out) \union {k}
  BY <1>3 DEF Tracked
<1>6. buckets' \in [Tracked' -> Buckets] /\ Tracked' \subseteq Keys
  BY <1>1, <1>2, <1>3, <1>4, <1>5 DEF TypeOK
<1>7. ASSUME NEW other \in Tracked' PROVE Balanced(buckets'[other])
  <2>1. CASE other = k
    BY <1>3, <1>4, <1>5, <2>1
  <2>2. CASE other # k
    <3>1. other \in Tracked /\ buckets'[other] = buckets[other]
      BY <1>3, <1>5, <1>7, <2>2
    <3> QED
      BY <1>1, <3>1 DEF Accounting, Balanced
  <2> QED
    BY <2>1, <2>2
<1>8. admitted' \in [Windows -> Nat]
  <2>1. ASSUME NEW n \in Nat PROVE Counted(n) \in Nat
    BY DEF Counted
  <2>2. admitted \in [Windows -> Nat]
    BY <1>1 DEF TypeOK
  <2>3. Admitted(time) \in [Windows -> Nat]
    BY <2>1, <2>2 DEF Admitted
  <2>4. admitted' \in {Admitted(time), admitted, [w \in Windows |-> 0]}
    BY DEF Decide
  <2> QED
    BY <2>2, <2>3, <2>4
<1>9. /\ clock' \in Ticks /\ lost' \in BOOLEAN
      /\ reading' \in [Callers -> Readings \union {Idle}]
  BY <1>1, <1>3 DEF TypeOK, Decide
<1> QED
  BY <1>6, <1>7, <1>8, <1>9 DEF LimiterInv, TypeOK, Accounting, Balanced

LEMMA LimiterNext == LimiterInv /\ [Next]_vars => LimiterInv'
<1> SUFFICES ASSUME LimiterInv, [Next]_vars PROVE LimiterInv'
  OBVIOUS
<1>1. CASE Tick
  BY <1>1, LimiterAssumption
  DEF Tick, LimiterInv, TypeOK, Accounting, Ticks, Tracked, Buckets, Readings, history
<1>2. ASSUME NEW c \in Callers, NEW k \in Keys, ReadClock(c, k) PROVE LimiterInv'
  <2>1. [key |-> k, now |-> clock] \in Readings
    BY DEF LimiterInv, TypeOK, Readings
  <2> QED
    BY <1>2, <2>1 DEF ReadClock, LimiterInv, TypeOK, Accounting, Tracked, history
<1>3. CASE \E c \in Callers : Decide(c)
  BY <1>3, LimiterDecide
<1>4. CASE UNCHANGED vars
  BY <1>4 DEF vars, LimiterInv, TypeOK, Accounting, Tracked, history
<1> QED
  BY <1>1, <1>2, <1>3, <1>4 DEF Next

\* No bucket ever holds more than its burst, and the tables stay tables.
THEOREM LimiterTypeCorrect == Spec => []TypeOK
<1>1. LimiterInv => TypeOK
  BY DEF LimiterInv
<1> QED
  BY LimiterInit, LimiterNext, <1>1, PTL DEF Spec

\* For any number of keys and threads and any order of their clock reads, a
\* bucket never admits more than its burst and its refill since it was made.
THEOREM AccountingCorrect == Spec => []Accounting
<1>1. LimiterInv => Accounting
  BY DEF LimiterInv
<1> QED
  BY LimiterInit, LimiterNext, <1>1, PTL DEF Spec

\* What a window has admitted and what the bucket still holds was paid for by one
\* burst and the refill since the window began.
Leveled ==
    lost \/ \A w \in Windows :
        admitted[w] > 0 =>
            /\ Watched \in Tracked
            /\ admitted[w] * Cost + buckets[Watched].tokens
                   <= Full + Rate * (buckets[Watched].updated - w[1])

WindowInv == Leveled /\ WindowBounded

\* A refill pays for what was paid, from any moment on.
LEMMA FoundPays ==
    ASSUME LimiterInv, NEW k \in Tracked, NEW time \in Ticks,
           NEW paid \in Int, NEW from \in Int,
           paid + buckets[k].tokens <= Full + Rate * (buckets[k].updated - from)
    PROVE  paid + Stamped(Found(k, time), time).tokens <= Full + Rate * (time - from)
<1> DEFINE b == buckets[k]
           level == Refilled(b.tokens, time - b.updated)
<1>1. b \in Buckets /\ Ticks \subseteq Int
  BY DEF LimiterInv, TypeOK, Ticks
<1>2. Found(k, time) = [b EXCEPT !.tokens = level]
  BY DEF Found
<1> HIDE DEF b
<1>3. b.tokens \in Int /\ b.updated \in Int /\ time \in Int /\ time - b.updated \in Int
  <2>1. b.tokens \in Int /\ b.updated \in Ticks
    BY <1>1 DEF Buckets
  <2>2. b.updated \in Int /\ time \in Int
    BY <1>1, <2>1
  <2> QED
    BY <2>1, <2>2
<1>4. level \in Int /\ level <= b.tokens + (time - b.updated) * Rate
  BY <1>3, RefilledEffect
<1> HIDE DEF level
<1>5. Stamped(Found(k, time), time).tokens = level
  BY <1>1, <1>2 DEF Stamped, Buckets
<1>6. paid + b.tokens <= Full + Rate * (b.updated - from)
  BY DEF b
<1>7. paid + level <= Full + Rate * (time - from)
  BY <1>3, <1>4, <1>6, RefillPays
<1> QED
  BY <1>5, <1>7

LEMMA WindowInit == Init => WindowInv
<1>1. \A w \in Windows : 0 * Cost <= Full + Rate * (w[2] - w[1])
  <2>1. /\ Cost \in Nat /\ Burst \in Nat /\ Rate \in Nat
        /\ \A w \in Windows : w[1] \in Int /\ w[2] \in Int /\ w[2] - w[1] \in Nat
    BY LimiterAssumption DEF Windows, Ticks
  <2>2. \A x, y \in Nat : x * y \in Nat
    OBVIOUS
  <2>3. \A w \in Windows : Full \in Nat /\ Rate * (w[2] - w[1]) \in Nat
    BY <2>1, <2>2 DEF Full
  <2> QED
    BY <2>1, <2>3
<1> QED
  BY <1>1 DEF Init, WindowInv, Leveled, WindowBounded, Bounded

\* A call for the watched key: each window that it falls in, or that has admitted
\* something, was paid for up to the time it read.
LEMMA WindowPays ==
    ASSUME LimiterInv, Leveled, ~lost, NEW time \in Ticks, NEW w \in Windows,
           admitted[w] > 0 \/ time \in w[1]..w[2]
    PROVE  admitted[w] * Cost + Stamped(Found(Watched, time), time).tokens
               <= Full + Rate * (time - w[1])
<1> DEFINE level == Stamped(Found(Watched, time), time).tokens
<1>0. /\ Cost \in Int /\ Rate \in Nat /\ Full \in Int /\ time \in Int /\ Watched \in Keys
      /\ w[1] \in Int /\ w[2] \in Int /\ admitted[w] \in Nat
  BY LimiterAssumption DEF Full, Ticks, Windows, LimiterInv, TypeOK
<1>1. CASE admitted[w] > 0
  <2>1. /\ Watched \in Tracked
        /\ admitted[w] * Cost + buckets[Watched].tokens
              <= Full + Rate * (buckets[Watched].updated - w[1])
    BY <1>1 DEF Leveled
  <2>2. admitted[w] * Cost \in Int
    BY <1>0
  <2> QED
    BY <1>0, <2>1, <2>2, FoundPays
<1>2. CASE admitted[w] = 0 /\ time \in w[1]..w[2]
  <2>1. Stamped(Found(Watched, time), time) \in Buckets
    BY <1>0, FoundBalanced
  <2>2. level \in Int /\ level <= Full
    BY <2>1 DEF Buckets
  <2>3. time - w[1] \in Nat
    BY <1>0, <1>2
  <2>4. Rate * (time - w[1]) \in Nat
    <3>1. \A x, y \in Nat : x * y \in Nat
      OBVIOUS
    <3> QED
      BY <1>0, <2>3, <3>1
  <2>5. admitted[w] * Cost = 0
    BY <1>0, <1>2
  <2> HIDE DEF level
  <2>6. admitted[w] * Cost + level <= Full + Rate * (time - w[1])
    BY <1>0, <2>2, <2>4, <2>5
  <2> QED
    BY <2>6 DEF level
<1> QED
  BY <1>0, <1>1, <1>2

\* Counting one admission costs at most one token.
LEMMA CountedCost ==
    ASSUME NEW n \in Nat
    PROVE  Counted(n) \in Nat /\ Counted(n) * Cost <= n * Cost + Cost /\ n * Cost \in Nat
<1>1. Cost \in Nat
  BY LimiterAssumption
<1>2. Counted(n) = n \/ Counted(n) = n + 1
  BY DEF Counted
<1>3. (n + 1) * Cost = n * Cost + Cost
  BY <1>1
<1>4. n * Cost \in Nat
  <2>1. \A x, y \in Nat : x * y \in Nat
    OBVIOUS
  <2> QED
    BY <1>1, <2>1
<1> QED
  BY <1>1, <1>2, <1>3, <1>4

LEMMA WindowDecide ==
    ASSUME LimiterInv, WindowInv, NEW c \in Callers, Decide(c)
    PROVE  WindowInv'
<1> DEFINE k == reading[c].key
           time == reading[c].now
           found == Found(k, time)
<1>1. k \in Keys /\ time \in Ticks
  BY DEF Decide, LimiterInv, TypeOK, Readings
<1>2. PICK out \in Evictions(k) :
        /\ buckets' = [other \in (Tracked \ out) \union {k} |->
                IF other = k THEN Charged(Stamped(found, time)) ELSE buckets[other]]
        /\ lost' = (lost \/ Watched \in out)
  BY DEF Decide, Left
<1>3. Tracked' = (Tracked \ out) \union {k}
  BY <1>2 DEF Tracked
<1>4. ~lost' => admitted' = IF k = Watched /\ Admits(found) THEN Admitted(time) ELSE admitted
  BY DEF Decide
<1> HIDE DEF k, time, found
<1>5. CASE lost \/ Watched \in out
  BY <1>2, <1>5 DEF WindowInv, Leveled, WindowBounded
<1>6. CASE ~lost /\ Watched \notin out /\ k # Watched
  <2>1. admitted' = admitted
    BY <1>2, <1>4, <1>6
  <2>2. Watched \in Tracked => Watched \in Tracked' /\ buckets'[Watched] = buckets[Watched]
    BY <1>2, <1>3, <1>6
  <2> QED
    BY <1>2, <1>6, <2>1, <2>2 DEF WindowInv, Leveled, WindowBounded, Bounded
<1>7. CASE ~lost /\ Watched \notin out /\ k = Watched
  <2> DEFINE new == Stamped(found, time)
  <2>0. /\ new = Stamped(Found(Watched, time), time)
        /\ Cost \in Nat /\ Rate \in Nat /\ Full \in Int /\ time \in Int
        /\ ~lost' /\ Leveled /\ Bounded
    <3>1. new = Stamped(Found(Watched, time), time)
      BY <1>7 DEF found
    <3>2. Cost \in Nat /\ Rate \in Nat /\ Full \in Int /\ time \in Int
      BY <1>1, LimiterAssumption DEF Full, Ticks
    <3>3. ~lost' /\ Leveled /\ Bounded
      BY <1>2, <1>7 DEF WindowInv, WindowBounded
    <3> QED
      BY <3>1, <3>2, <3>3
  <2>1. new \in Buckets /\ new.updated = time /\ (Admits(found) <=> Admits(new))
    <3>1. new \in Buckets
      BY <1>1, <1>7, <2>0, FoundBalanced
    <3>2. found \in Buckets
      <4>1. found = Found(Watched, time) /\ Watched \in Keys
        BY <1>1, <1>7 DEF found
      <4>2. CASE Watched \in Tracked
        <5>1. buckets[Watched] \in Buckets /\ Ticks \subseteq Int
          BY <4>2 DEF LimiterInv, TypeOK, Ticks
        <5> DEFINE b == buckets[Watched]
                   level == Refilled(b.tokens, time - b.updated)
        <5>2. found = [b EXCEPT !.tokens = level]
          BY <4>1, <4>2 DEF Found
        <5>3. b \in Buckets
          BY <5>1
        <5> HIDE DEF b
        <5>4. b.tokens \in Int /\ b.updated \in Ticks
          BY <5>3 DEF Buckets
        <5>5. time - b.updated \in Int
          <6>1. b.updated \in Int
            BY <5>1, <5>4
          <6>2. time \in Int
            BY <2>0
          <6> QED
            BY <6>1, <6>2
        <5>6. level \in Int /\ level <= Full
          BY <5>4, <5>5, RefilledEffect
        <5> HIDE DEF level
        <5> QED
          BY <5>2, <5>3, <5>6 DEF Buckets
      <4>3. CASE Watched \notin Tracked
        BY <1>1, <2>0, <4>1, <4>3 DEF Found, Buckets
      <4> QED
        BY <4>2, <4>3
    <3> QED
      BY <3>1, <3>2 DEF Stamped, Buckets, Admits
  <2>2. \A w \in Windows :
            /\ admitted[w] \in Nat /\ w[1] \in Int /\ w[2] \in Int
            /\ admitted[w] > 0 \/ time \in w[1]..w[2]
                  => admitted[w] * Cost + new.tokens <= Full + Rate * (time - w[1])
    <3> HIDE DEF new
    <3>1. \A w \in Windows : admitted[w] \in Nat /\ w[1] \in Int /\ w[2] \in Int
      BY DEF LimiterInv, TypeOK, Windows, Ticks
    <3>2. ASSUME NEW w \in Windows, admitted[w] > 0 \/ time \in w[1]..w[2]
          PROVE  admitted[w] * Cost + new.tokens <= Full + Rate * (time - w[1])
      BY <1>1, <1>7, <2>0, <3>2, WindowPays
    <3> QED
      BY <3>1, <3>2
  <2>3. Watched \in Tracked' /\ buckets'[Watched] = Charged(new)
    BY <1>2, <1>3, <1>7
  <2> HIDE DEF new
  <2>4. CASE ~Admits(found)
    <3>1. admitted' = admitted /\ Charged(new) = new
      BY <1>4, <2>0, <2>1, <2>4 DEF Charged
    <3> QED
      BY <2>0, <2>1, <2>2, <2>3, <3>1 DEF WindowInv, Leveled, WindowBounded, Bounded
  <2>5. CASE Admits(found)
    <3>1. /\ new.tokens \in Int /\ new.tokens >= Cost
          /\ Charged(new).tokens = new.tokens - Cost /\ Charged(new).updated = time
      BY <2>1, <2>5 DEF Charged, Admits, Buckets
    <3>2. admitted' = Admitted(time)
      BY <1>4, <2>0, <1>7, <2>5
    <3>3. ASSUME NEW w \in Windows
          PROVE  /\ admitted'[w] > 0 =>
                       admitted'[w] * Cost + Charged(new).tokens
                           <= Full + Rate * (time - w[1])
                 /\ admitted'[w] * Cost <= Full + Rate * (w[2] - w[1])
      <4> DEFINE n == admitted[w]
                 refill == Rate * (time - w[1])
                 most == Rate * (w[2] - w[1])
      <4>1. /\ n \in Nat /\ w[1] \in Int /\ w[2] \in Int
            /\ n * Cost <= Full + most
            /\ n > 0 \/ time \in w[1]..w[2] => n * Cost + new.tokens <= Full + refill
        BY <2>0, <2>2 DEF Bounded
      <4>2. refill \in Int /\ most \in Int
        BY <2>0, <4>1
      <4>3. CASE time \in w[1]..w[2]
        <5>1. admitted'[w] = Counted(n)
          BY <3>2, <4>3 DEF Admitted
        <5>2. refill <= most
          <6>1. time - w[1] <= w[2] - w[1] /\ time - w[1] \in Int /\ w[2] - w[1] \in Int
            BY <2>0, <4>1, <4>3
          <6>2. \A x, y \in Int : x <= y => Rate * x <= Rate * y
            BY <2>0
          <6> QED
            BY <6>1, <6>2
        <5>3. Counted(n) \in Nat /\ Counted(n) * Cost <= n * Cost + Cost /\ n * Cost \in Nat
          BY <4>1, CountedCost
        <5>4. Counted(n) * Cost \in Nat
          BY <5>3, CountedCost
        <5> HIDE DEF n, refill, most
        <5>5. /\ Counted(n) * Cost + (new.tokens - Cost) <= Full + refill
              /\ Counted(n) * Cost <= Full + most
          BY <2>0, <3>1, <4>1, <4>2, <4>3, <5>2, <5>3, <5>4
        <5> QED
          BY <3>1, <5>1, <5>5 DEF refill, most
      <4>4. CASE time \notin w[1]..w[2]
        <5>1. admitted'[w] = n
          BY <3>2, <4>4 DEF Admitted
        <5>2. n * Cost \in Nat
          BY <4>1, CountedCost
        <5> HIDE DEF n, refill, most
        <5>3. n > 0 => n * Cost + (new.tokens - Cost) <= Full + refill
          BY <2>0, <3>1, <4>1, <4>2, <5>2
        <5> QED
          BY <3>1, <4>1, <5>1, <5>3 DEF refill, most
      <4> QED
        BY <4>3, <4>4
    <3> QED
      BY <2>0, <2>3, <3>1, <3>3 DEF WindowInv, Leveled, WindowBounded, Bounded
  <2> QED
    BY <2>4, <2>5
<1> QED
  BY <1>5, <1>6, <1>7

LEMMA WindowNext == LimiterInv /\ WindowInv /\ [Next]_vars => WindowInv'
<1> SUFFICES ASSUME LimiterInv, WindowInv, [Next]_vars PROVE WindowInv'
  OBVIOUS
<1>1. CASE \E c \in Callers : Decide(c)
  BY <1>1, WindowDecide
<1>2. CASE \/ Tick \/ UNCHANGED vars
           \/ \E c \in Callers, k \in Keys : ReadClock(c, k)
  <2>1. UNCHANGED <<buckets, history>>
    BY <1>2 DEF Tick, ReadClock, vars
  <2> QED
    BY <2>1 DEF history, WindowInv, Leveled, WindowBounded, Bounded, Tracked
<1> QED
  BY <1>1, <1>2 DEF Next

\* Over every window of the times its calls read, a key whose bucket is kept is
\* admitted at most the burst and what the window refills: for any rates and
\* bursts, any number of threads, and however late a thread with an old reading
\* takes the lock.
THEOREM WindowBoundedCorrect == Spec => []WindowBounded
<1>1. WindowInv => WindowBounded
  BY DEF WindowInv
<1> QED
  BY LimiterInit, LimiterNext, WindowInit, WindowNext, <1>1, PTL DEF Spec

-----------------------------------------------------------------------------
(* Gate                                                                    *)

\* The bucket of a peer, whose time never runs backwards here: what it admitted and what
\* it holds is at least a full bucket, and at most that and its refill.
PeerFull == PeerBurst * TokenCost

SoundAt(b, time) ==
    /\ b \in Ceiling!Buckets
    /\ 0 <= b.tokens /\ b.made <= b.updated /\ b.updated <= time
    /\ b.spent * TokenCost + b.tokens <= PeerFull + PeerRate * (b.updated - b.made)
    /\ PeerFull <= b.spent * TokenCost + b.tokens

PeersSound ==
    \A f \in DOMAIN perPeer : f[2] <= today /\ SoundAt(perPeer[f], now)

\* What a peer's bucket was spent for, and nothing else, are the requests that passed.
SpentOnPassed ==
    \A p \in Peers \ forgotten :
        passed[p] = IF PeerOf(p) \in DOMAIN perPeer THEN perPeer[PeerOf(p)].spent ELSE 0

RefusedLate == \A p \in Peers \ forgotten : p \in ceiling => passed[p] >= PeerBurst

GateInv == GateTypeOK /\ PeersSound /\ SpentOnPassed /\ RefusedLate

LEMMA PeerNumbers ==
    /\ PeerBurst \in Nat \ {0} /\ PeerRate \in Nat \ {0} /\ TokenCost \in Nat \ {0}
    /\ PeerFull \in Nat /\ Ceiling!Full = PeerFull /\ TokenCost <= PeerFull
    /\ LastTime \in Nat /\ LastDay \in Nat
<1>1. /\ CallerBurst \in Nat \ {0} /\ CallerRate \in Nat \ {0} /\ TokenCost \in Nat \ {0}
      /\ Multiplier \in Nat \ {0} /\ LastTime \in Nat /\ LastDay \in Nat
  BY GateAssumption
<1>2. \A a, b \in Nat \ {0} : a * b \in Nat \ {0} /\ b <= a * b
  OBVIOUS
<1>3. PeerBurst \in Nat \ {0} /\ PeerRate \in Nat \ {0}
  BY <1>1, <1>2 DEF PeerBurst, PeerRate
<1>4. PeerFull \in Nat \ {0} /\ TokenCost <= PeerFull
  BY <1>1, <1>2, <1>3 DEF PeerFull
<1> QED
  BY <1>1, <1>3, <1>4 DEF Ceiling!Full, PeerFull

\* One refill.
LEMMA Refills ==
    ASSUME NEW paid \in Nat, NEW tokens \in Nat, NEW made \in Nat, NEW updated \in Nat,
           NEW time \in Nat, made <= updated, updated <= time, tokens <= PeerFull,
           paid + tokens <= PeerFull + PeerRate * (updated - made),
           PeerFull <= paid + tokens
    PROVE  LET level == Ceiling!Refilled(tokens, time - updated)
           IN  /\ level \in Nat /\ level <= PeerFull
               /\ paid + level <= PeerFull + PeerRate * (time - made)
               /\ PeerFull <= paid + level
<1> DEFINE a == PeerRate * (updated - made)
           b == (time - updated) * PeerRate
           c == PeerRate * (time - made)
<1>0. PeerRate \in Nat /\ PeerFull \in Nat
  BY PeerNumbers
<1>1. a + b = c
  BY <1>0
<1>2. a \in Int /\ c \in Int /\ b \in Nat
  <2>1. time - updated \in Nat /\ updated - made \in Nat /\ time - made \in Nat
    OBVIOUS
  <2>2. \A x, y \in Nat : x * y \in Nat
    OBVIOUS
  <2> QED
    BY <1>0, <2>1, <2>2
<1>3. Ceiling!Refilled(tokens, time - updated) =
          IF tokens + b > PeerFull THEN PeerFull ELSE tokens + b
  BY PeerNumbers DEF Ceiling!Refilled
<1>4. paid + tokens <= PeerFull + a
  OBVIOUS
<1> HIDE DEF a, b, c
<1>5. LET level == Ceiling!Refilled(tokens, time - updated)
      IN  /\ level \in Nat /\ level <= PeerFull
          /\ paid + level <= PeerFull + c
          /\ PeerFull <= paid + level
  BY <1>0, <1>1, <1>2, <1>3, <1>4
<1> QED
  BY <1>5 DEF c

\* The bucket that the ceiling of a peer is asked on, and what is left of it.
LEMMA PeerCharged ==
    ASSUME GateInv, NEW f \in Fingerprints
    PROVE  LET found == Ceiling!Found(f, now)
               left == Ceiling!Charged(Ceiling!Stamped(found, now))
               spent == IF f \in DOMAIN perPeer THEN perPeer[f].spent ELSE 0
           IN  /\ SoundAt(left, now)
               /\ Ceiling!Admits(found) => left.spent = spent + 1
               /\ ~Ceiling!Admits(found) => left.spent = spent /\ left.spent >= PeerBurst
<1>0. /\ now \in Nat /\ now \in 0..LastTime /\ PeerFull \in Nat /\ PeerRate \in Nat
      /\ TokenCost \in Nat /\ 0 < TokenCost /\ TokenCost <= PeerFull /\ PeerBurst \in Nat
      /\ Ceiling!Full = PeerFull
  BY PeerNumbers DEF GateInv, GateTypeOK
<1> DEFINE found == Ceiling!Found(f, now)
           stamped == Ceiling!Stamped(found, now)
           left == Ceiling!Charged(stamped)
           spent == IF f \in DOMAIN perPeer THEN perPeer[f].spent ELSE 0
\* Found and stamped
<1>1. /\ SoundAt(stamped, now) /\ stamped.spent = spent
      /\ stamped.tokens = found.tokens
  <2>1. CASE f \notin DOMAIN perPeer
    <3>1. found = [tokens |-> PeerFull, updated |-> now, made |-> now, spent |-> 0]
      BY <1>0, <2>1 DEF Ceiling!Found, Ceiling!Tracked
    <3>2. stamped = found
      BY <3>1 DEF Ceiling!Stamped
    <3>3. found \in Ceiling!Buckets
      BY <1>0, <3>1 DEF Ceiling!Buckets, Ceiling!Ticks
    <3>4. 0 * TokenCost = 0 /\ PeerRate * (now - now) = 0
      BY <1>0
    <3> QED
      BY <1>0, <2>1, <3>1, <3>2, <3>3, <3>4 DEF SoundAt
  <2>2. CASE f \in DOMAIN perPeer
    <3> DEFINE b == perPeer[f]
               level == Ceiling!Refilled(b.tokens, now - b.updated)
    <3>1. SoundAt(b, now)
      BY <2>2 DEF GateInv, PeersSound
    <3>2. /\ b = [tokens |-> b.tokens, updated |-> b.updated, made |-> b.made, spent |-> b.spent]
          /\ b.tokens \in Nat /\ b.tokens <= PeerFull /\ b.spent \in Nat
          /\ b.made \in 0..LastTime /\ b.updated \in 0..LastTime
          /\ b.made \in Nat /\ b.updated \in Nat
      BY <1>0, <3>1, PeerNumbers DEF SoundAt, Ceiling!Buckets, Ceiling!Ticks
    <3>3. found = [tokens |-> level, updated |-> b.updated, made |-> b.made, spent |-> b.spent]
      <4>1. found = [b EXCEPT !.tokens = level]
        BY <2>2 DEF Ceiling!Found, Ceiling!Tracked
      <4> HIDE DEF b, level, found
      <4> QED
        BY <3>2, <4>1
    <3>4. stamped = [tokens |-> level, updated |-> now, made |-> b.made, spent |-> b.spent]
      BY <3>3 DEF Ceiling!Stamped
    <3>5. b.spent * TokenCost \in Nat
      BY <1>0, <3>2
    <3>6. /\ level \in Nat /\ level <= PeerFull
          /\ b.spent * TokenCost + level <= PeerFull + PeerRate * (now - b.made)
          /\ PeerFull <= b.spent * TokenCost + level
      <4> HIDE DEF b
      <4> QED
        BY <1>0, <3>1, <3>2, <3>5, Refills DEF SoundAt
    <3>7. stamped \in Ceiling!Buckets
      <4> HIDE DEF b, level, stamped
      <4> QED
        BY <1>0, <3>2, <3>4, <3>6 DEF Ceiling!Buckets, Ceiling!Ticks
    <3>8. b.made <= now
      BY <1>0, <3>1, <3>2 DEF SoundAt
    <3>9. stamped.spent = spent /\ stamped.tokens = found.tokens
      BY <2>2, <3>3, <3>4
    <3> HIDE DEF b, level, stamped, found, spent
    <3> QED
      BY <1>0, <3>4, <3>6, <3>7, <3>8, <3>9 DEF SoundAt
  <2> QED
    BY <2>1, <2>2
\* Charged
<1> HIDE DEF found, stamped, spent
<1>2. /\ stamped = [tokens |-> stamped.tokens, updated |-> stamped.updated,
                    made |-> stamped.made, spent |-> stamped.spent]
      /\ stamped.tokens \in Nat /\ stamped.spent \in Nat /\ stamped.tokens <= PeerFull
      /\ stamped.updated \in 0..LastTime /\ stamped.made \in 0..LastTime
  BY <1>0, <1>1 DEF SoundAt, Ceiling!Buckets, Ceiling!Ticks
<1>3. Ceiling!Admits(found) <=> stamped.tokens >= TokenCost
  BY <1>1 DEF Ceiling!Admits
<1>4. CASE stamped.tokens >= TokenCost
  <2>1. left = [tokens |-> stamped.tokens - TokenCost, updated |-> stamped.updated,
                made |-> stamped.made, spent |-> stamped.spent + 1]
    BY <1>2, <1>4 DEF Ceiling!Charged, Ceiling!Admits
  <2>2. (stamped.spent + 1) * TokenCost + (stamped.tokens - TokenCost)
          = stamped.spent * TokenCost + stamped.tokens
    BY <1>0, <1>2
  <2>3. stamped.tokens - TokenCost \in Nat /\ stamped.tokens - TokenCost <= PeerFull
    BY <1>0, <1>2, <1>4
  <2>4. left \in Ceiling!Buckets
    BY <1>0, <1>2, <2>1, <2>3 DEF Ceiling!Buckets, Ceiling!Ticks
  <2> HIDE DEF left
  <2>5. SoundAt(left, now)
    BY <1>1, <2>1, <2>2, <2>3, <2>4 DEF SoundAt
  <2> QED
    BY <1>1, <1>3, <1>4, <2>1, <2>5 DEF left, found, stamped, spent
<1>5. CASE ~(stamped.tokens >= TokenCost)
  <2>1. left = stamped
    BY <1>5 DEF Ceiling!Charged, Ceiling!Admits
  <2>2. stamped.spent >= PeerBurst
    <3> SUFFICES ASSUME stamped.spent < PeerBurst PROVE FALSE
      BY <1>0, <1>2
    <3>1. \A x, y, z \in Nat : x + 1 <= y => (x + 1) * z <= y * z /\ (x + 1) * z = x * z + z
      OBVIOUS
    <3>2. stamped.spent * TokenCost + TokenCost <= PeerFull
      BY <1>0, <1>2, <3>1 DEF PeerFull
    <3>3. PeerFull <= stamped.spent * TokenCost + stamped.tokens /\ stamped.spent * TokenCost \in Nat
      BY <1>0, <1>1, <1>2 DEF SoundAt
    <3>4. stamped.tokens < TokenCost
      BY <1>0, <1>2, <1>5
    <3> QED
      BY <1>0, <1>2, <3>2, <3>3, <3>4
  <2> QED
    BY <1>1, <1>3, <1>5, <2>1, <2>2 DEF left, found, stamped, spent
<1> QED
  BY <1>4, <1>5

\* Another request, of the same peer or of another, has a bucket of its own.
LEMMA PeerKeys ==
    ASSUME today \in 0..LastDay
    PROVE  /\ \A p \in Peers : PeerOf(p) \in Fingerprints /\ PeerOf(p)[2] = today
           /\ \A p, q \in Peers : PeerOf(p) = PeerOf(q) => p = q
BY DEF PeerOf, Fingerprints, Identities

LEMMA Evicted ==
    ASSUME NEW f, NEW out \in Ceiling!Evictions(f)
    PROVE  out \subseteq DOMAIN perPeer /\ f \notin out
BY DEF Ceiling!Evictions, Ceiling!MustEvict, Ceiling!Tracked

LEMMA OwnEvicted ==
    ASSUME NEW f, NEW out \in Caller!Evictions(f)
    PROVE  out \subseteq DOMAIN perCaller
BY DEF Caller!Evictions, Caller!MustEvict, Caller!Tracked

LEMMA OwnSpent ==
    ASSUME GateTypeOK, NEW r \in Arriving, SpendOwn(r)
    PROVE  DOMAIN perCaller' \subseteq Fingerprints
<1>1. r \in Requests /\ today \in 0..LastDay
  BY ArrivingAssumption DEF GateTypeOK
<1>2. Source(r) \in Fingerprints
  <2>1. Identity(r) \in Identities
    BY <1>1 DEF Identity, Identities, Requests
  <2> QED
    BY <1>1, <2>1 DEF Source, Fingerprints
<1>3. CASE r.path \in Unmetered
  BY <1>3 DEF SpendOwn, GateTypeOK
<1>4. CASE r.path \notin Unmetered
  <2>1. PICK out \in Caller!Evictions(Source(r)) : perCaller' = Caller!Left(Source(r), now, out)
    BY <1>4 DEF SpendOwn
  <2>2. DOMAIN perCaller' = (DOMAIN perCaller \ out) \union {Source(r)}
    BY <2>1 DEF Caller!Left, Caller!Tracked
  <2> QED
    BY <1>2, <2>2 DEF GateTypeOK
<1> QED
  BY <1>3, <1>4

\* The ceiling is asked, and a request that its caller's bucket admits passes or not.
LEMMA SharedSpent ==
    ASSUME GateInv, NEW r \in Arriving, SpendOwn(r), SpendShared(r), Owns(r),
           UNCHANGED <<now, today>>
    PROVE  GateInv'
<1> DEFINE f == PeerOf(r.peer)
           found == Ceiling!Found(f, now)
           left == Ceiling!Charged(Ceiling!Stamped(found, now))
           spent == IF f \in DOMAIN perPeer THEN perPeer[f].spent ELSE 0
<1>1. r.peer \in Peers /\ today \in 0..LastDay /\ f \in Fingerprints /\ f[2] = today
  BY ArrivingAssumption, PeerKeys DEF Requests, GateInv, GateTypeOK
<1>2. PICK out \in Ceiling!Evictions(f) :
        /\ perPeer' = Ceiling!Left(f, now, out)
        /\ forgotten' = forgotten \cup {q \in Peers : PeerOf(q) \in out}
        /\ passed' = IF Ceiling!Admits(found)
                     THEN [passed EXCEPT ![r.peer] = @ + 1] ELSE passed
        /\ ceiling' = IF Ceiling!Admits(found) THEN {} ELSE {r.peer}
        /\ rejected' = IF Ceiling!Admits(found) THEN {} ELSE {"rate_limited"}
  BY DEF SpendShared
<1>3. out \subseteq DOMAIN perPeer /\ f \notin out
  BY <1>2, Evicted
<1>4. perPeer' = [g \in (DOMAIN perPeer \ out) \union {f} |-> IF g = f THEN left ELSE perPeer[g]]
  BY <1>2 DEF Ceiling!Left, Ceiling!Tracked
<1>5. /\ SoundAt(left, now)
      /\ Ceiling!Admits(found) => left.spent = spent + 1
      /\ ~Ceiling!Admits(found) => left.spent = spent /\ left.spent >= PeerBurst
  BY <1>1, PeerCharged
<1> HIDE DEF left, found
<1>6. PeersSound'
  <2> SUFFICES ASSUME NEW g \in DOMAIN perPeer' 
               PROVE  g[2] <= today' /\ SoundAt(perPeer'[g], now')
    BY DEF PeersSound, SoundAt
  <2>1. CASE g = f
    BY <1>1, <1>4, <1>5, <2>1 DEF GateInv, GateTypeOK, SoundAt
  <2>2. CASE g # f
    BY <1>4, <2>2 DEF GateInv, PeersSound, SoundAt
  <2> QED
    BY <2>1, <2>2
<1>7. passed \in [Peers -> Nat]
  BY DEF GateInv, GateTypeOK
<1>8. \A p \in Peers \ {r.peer} : PeerOf(p) # f /\ passed'[p] = passed[p]
  BY <1>1, <1>2, <1>7, PeerKeys
<1>9. r.peer \notin forgotten =>
        passed'[r.peer] = left.spent /\ (~Ceiling!Admits(found) => passed'[r.peer] >= PeerBurst)
  BY <1>1, <1>2, <1>5, <1>7 DEF GateInv, SpentOnPassed
<1>10. SpentOnPassed'
  <2> SUFFICES ASSUME NEW p \in Peers, p \notin forgotten'
               PROVE  passed'[p] = IF PeerOf(p) \in DOMAIN perPeer'
                                   THEN perPeer'[PeerOf(p)].spent ELSE 0
    BY DEF SpentOnPassed, PeerOf
  <2>1. p \notin forgotten /\ PeerOf(p) \notin out
    BY <1>2
  <2>2. CASE p = r.peer
    BY <1>4, <1>9, <2>1, <2>2
  <2>3. CASE p # r.peer
    BY <1>4, <1>8, <2>1, <2>3 DEF GateInv, SpentOnPassed
  <2> QED
    BY <2>2, <2>3
<1>11. RefusedLate'
  BY <1>2, <1>9 DEF RefusedLate, PeerBurst
<1>12. GateTypeOK'
  <2>1. DOMAIN perCaller' \subseteq Fingerprints
    BY OwnSpent DEF GateInv
  <2>2. DOMAIN perPeer' \subseteq Fingerprints
    BY <1>1, <1>4 DEF GateInv, GateTypeOK
  <2>3. passed' \in [Peers -> Nat]
    BY <1>1, <1>2, <1>7
  <2> QED
    BY <1>1, <1>2, <2>1, <2>2, <2>3 DEF GateInv, GateTypeOK
<1> QED
  BY <1>6, <1>10, <1>11, <1>12 DEF GateInv

LEMMA GateStep == GateInv /\ [GateNext]_gateVars => GateInv'
<1> SUFFICES ASSUME GateInv, [GateNext]_gateVars PROVE GateInv'
  OBVIOUS
<1>1. ASSUME NEW r \in Arriving, Turned(r) PROVE GateInv'
  BY <1>1 DEF Turned, GateInv, GateTypeOK, PeersSound, SoundAt, SpentOnPassed, PeerOf, RefusedLate
<1>2. ASSUME NEW r \in Arriving, Metered(r) PROVE GateInv'
  <2>1. SpendOwn(r) /\ UNCHANGED <<now, today>>
    BY <1>2 DEF Metered
  <2>2. CASE Owns(r)
    BY <1>2, <2>1, <2>2, SharedSpent DEF Metered
  <2>3. CASE ~Owns(r)
    <3>1. /\ rejected' = {"rate_limited"} /\ ceiling' = {}
          /\ UNCHANGED <<perPeer, passed, forgotten>>
      BY <1>2, <2>3 DEF Metered
    <3>2. DOMAIN perCaller' \subseteq Fingerprints
      BY <2>1, OwnSpent DEF GateInv
    <3> QED
      BY <2>1, <3>1, <3>2
      DEF GateInv, GateTypeOK, PeersSound, SoundAt, SpentOnPassed, PeerOf, RefusedLate
  <2> QED
    BY <2>2, <2>3
<1>3. CASE Later
  <2>1. now' = now + 1 /\ now' \in 0..LastTime /\ now \in Nat
    BY <1>3, GateAssumption DEF Later, GateInv, GateTypeOK
  <2>2. \A f \in DOMAIN perPeer : SoundAt(perPeer[f], now) => SoundAt(perPeer[f], now')
    BY <2>1, GateAssumption DEF SoundAt, Ceiling!Buckets, Ceiling!Ticks
  <2>3. PeersSound'
    BY <1>3, <2>2 DEF Later, GateInv, PeersSound, SoundAt
  <2> QED
    BY <1>3, <2>1, <2>3 DEF Later, GateInv, GateTypeOK, SpentOnPassed, PeerOf, RefusedLate
<1>4. CASE Midnight
  \* Nobody has a bucket under a key of tomorrow.
  <2>1. today \in Nat /\ today' = today + 1 /\ today' \in 0..LastDay
    BY <1>4, GateAssumption DEF Midnight, GateInv, GateTypeOK
  <2>2. \A p \in Peers : PeerOf(p)' \notin DOMAIN perPeer
    <3>1. \A p \in Peers : PeerOf(p)'[2] = today + 1
      BY <2>1 DEF PeerOf
    <3> QED
      BY <2>1, <3>1 DEF GateInv, PeersSound
  <2>3. SpentOnPassed'
    BY <1>4, <2>2 DEF Midnight, SpentOnPassed, Nobody
  <2>4. \A f \in DOMAIN perPeer : f[2] <= today => f[2] <= today + 1
    <3>1. \A f \in DOMAIN perPeer : f[2] \in Int
      BY GateAssumption DEF GateInv, GateTypeOK, Fingerprints
    <3> QED
      BY <2>1, <3>1
  <2>5. PeersSound'
    BY <1>4, <2>1, <2>4 DEF Midnight, GateInv, PeersSound, SoundAt
  <2> QED
    BY <1>4, <2>1, <2>3, <2>5 DEF Midnight, GateInv, GateTypeOK, RefusedLate, Nobody
<1>5. CASE UNCHANGED gateVars
  BY <1>5
  DEF gateVars, GateInv, GateTypeOK, PeersSound, SoundAt, SpentOnPassed, PeerOf, RefusedLate
<1> QED
  BY <1>1, <1>2, <1>3, <1>4, <1>5 DEF GateNext

LEMMA GateInvariant == GateSpec => []GateInv
<1>1. GateInit => GateInv
  BY GateAssumption
  DEF GateInit, GateInv, GateTypeOK, PeersSound, SpentOnPassed, RefusedLate, Nobody
<1> QED
  BY <1>1, GateStep, PTL DEF GateSpec

\* The gate keeps its types.
THEOREM GateTypeCorrect == GateSpec => []GateTypeOK
<1>1. GateInv => GateTypeOK
  BY DEF GateInv
<1> QED
  BY <1>1, GateInvariant, PTL

\* For any sessions, keys and paths: the ceiling of a peer bounds what it is let through
\* in a day, and is spent by nothing else.
THEOREM CeilingIsAdmissionsCorrect == GateSpec => []CeilingIsAdmissions
<1>1. GateInv => CeilingIsAdmissions
  <2> SUFFICES ASSUME GateInv, NEW p \in Peers \ forgotten
               PROVE  /\ passed[p] * TokenCost <=
                           IF PeerOf(p) \in DOMAIN perPeer
                           THEN PeerBurst * TokenCost + PeerRate * (now - perPeer[PeerOf(p)].made)
                           ELSE 0
                      /\ p \in ceiling => passed[p] >= PeerBurst
    BY DEF CeilingIsAdmissions
  <2>0. now \in Nat /\ PeerFull \in Nat /\ PeerRate \in Nat /\ TokenCost \in Nat
    BY PeerNumbers DEF GateInv, GateTypeOK
  <2>1. CASE PeerOf(p) \notin DOMAIN perPeer
    BY <2>0, <2>1 DEF GateInv, SpentOnPassed, RefusedLate
  <2>2. CASE PeerOf(p) \in DOMAIN perPeer
    <3> DEFINE b == perPeer[PeerOf(p)]
    <3>1. SoundAt(b, now) /\ passed[p] = b.spent
      BY <2>2 DEF GateInv, PeersSound, SpentOnPassed
    <3>2. b.tokens \in Nat /\ b.spent \in Nat /\ b.made \in Nat /\ b.updated \in Nat
      BY <3>1, PeerNumbers DEF SoundAt, Ceiling!Buckets, Ceiling!Ticks
    <3> HIDE DEF b
    <3>3. b.spent * TokenCost \in Nat /\ b.updated - b.made <= now - b.made
      BY <2>0, <3>1, <3>2 DEF SoundAt
    <3>4. \A x, y \in Int, z \in Nat : x <= y => z * x <= z * y /\ z * x \in Int /\ z * y \in Int
      OBVIOUS
    <3>5. /\ PeerRate * (b.updated - b.made) <= PeerRate * (now - b.made)
          /\ PeerRate * (b.updated - b.made) \in Int /\ PeerRate * (now - b.made) \in Int
      BY <2>0, <3>2, <3>3, <3>4
    <3>6. b.spent * TokenCost <= PeerFull + PeerRate * (now - b.made)
      BY <2>0, <3>1, <3>2, <3>3, <3>5 DEF SoundAt
    <3> QED
      BY <2>2, <3>1, <3>6 DEF b, PeerFull, GateInv, RefusedLate
  <2> QED
    BY <2>1, <2>2
<1> QED
  BY <1>1, GateInvariant, PTL

-----------------------------------------------------------------------------
(* Decision                                                                *)

\* Scores and thresholds as the rules see them: one number for every label.
Table == [Labels -> Int]

\* One comment is scored nowhere lower than another.
AtMost(p, q) == \A l \in Labels : p[l] <= q[l]

LEMMA NumbersAreIntegers ==
    /\ Scores \subseteq Int /\ Thresholds \subseteq Int
    /\ \A v \in Scores : 0 <= v /\ v <= One
    /\ \A v \in Thresholds : 1 <= v /\ v < One
    /\ One \in Int /\ BlockMargin \in Nat /\ ReviewMargin \in Nat
    /\ BlockLabels \subseteq Labels
    /\ "toxic" \in Labels /\ "severe_toxic" \in Labels
BY DecisionAssumption, LabelsAssumption

LEMMA TablesAreTables ==
    /\ [Labels -> Scores] \subseteq Table
    /\ [Labels -> Thresholds] \subseteq Table
BY NumbersAreIntegers DEF Table

-----------------------------------------------------------------------------
(* The rules                                                               *)

\* enforce_hierarchy lowers severe_toxic to toxic and touches no other label.
LEMMA HierarchyEnforced ==
    ASSUME NEW p \in Table
    PROVE  /\ EnforceHierarchy(p) \in Table
           /\ EnforceHierarchy(p)["severe_toxic"] <= EnforceHierarchy(p)["toxic"]
           /\ EnforceHierarchy(p)["severe_toxic"] <= p["severe_toxic"]
           /\ EnforceHierarchy(p)["severe_toxic"] \in {p["severe_toxic"], p["toxic"]}
           /\ \A l \in Labels \ {"severe_toxic"} : EnforceHierarchy(p)[l] = p[l]
BY NumbersAreIntegers DEF EnforceHierarchy, Table

\* It keeps the order of two comments.
LEMMA HierarchyMonotone ==
    ASSUME NEW p \in Table, NEW q \in Table, AtMost(p, q)
    PROVE  AtMost(EnforceHierarchy(p), EnforceHierarchy(q))
BY NumbersAreIntegers DEF EnforceHierarchy, Table, AtMost

\* What each of the three rules says of one label.
LEMMA FlagsRule ==
    ASSUME NEW p, NEW t, NEW l \in Labels
    PROVE  Flags(p, t)[l] =
              (p[l] >= t[l] \/ (l = "toxic" /\ p["severe_toxic"] >= t["severe_toxic"]))
BY Zenon DEF Flags

LEMMA OtherFlagsRule ==
    ASSUME NEW p, NEW t, NEW l \in Labels, l # "toxic"
    PROVE  Flags(p, t)[l] = (p[l] >= t[l])
BY FlagsRule

LEMMA ToxicFlagRule ==
    ASSUME NEW p, NEW t
    PROVE  Flags(p, t)["toxic"] =
              (p["toxic"] >= t["toxic"] \/ p["severe_toxic"] >= t["severe_toxic"])
BY FlagsRule, NumbersAreIntegers, Zenon

LEMMA FlaggedRule ==
    ASSUME NEW p, NEW t, NEW l \in Labels
    PROVE  Flagged(p, t)[l] = (p[l] >= t[l])
BY Zenon DEF Flagged

LEMMA BaselineRule ==
    ASSUME NEW p, NEW t, NEW l \in Labels
    PROVE  BaselineFlagged(p, t)[l] = (p[l] >= t[l])
BY Zenon DEF BaselineFlagged

\* The more severe the scores, the more severe the verdict.
LEMMA VerdictMonotone ==
    ASSUME NEW p \in Table, NEW q \in Table, NEW t \in Table, AtMost(p, q)
    PROVE  Severity[Verdict(p, t)] <= Severity[Verdict(q, t)]
<1> DEFINE Blocked(x) == \E l \in BlockLabels : x[l] >= t[l] + BlockMargin
           Reviewed(x) == \/ \E l \in Labels : Flags(x, t)[l]
                          \/ \E l \in Labels : InReviewBand(x[l], t[l])
<1>1. Blocked(p) => Blocked(q)
    BY NumbersAreIntegers DEF AtMost, Table
<1>2. \A l \in Labels : Flags(p, t)[l] => Flags(q, t)[l]
  <2> SUFFICES ASSUME NEW l \in Labels, Flags(p, t)[l] PROVE Flags(q, t)[l]
    OBVIOUS
  <2>1. p[l] <= q[l] /\ p["severe_toxic"] <= q["severe_toxic"]
    BY NumbersAreIntegers DEF AtMost
  <2>2. {p[l], q[l], t[l], p["severe_toxic"], q["severe_toxic"], t["severe_toxic"]} \subseteq Int
    BY NumbersAreIntegers DEF Table
  <2>3. \/ p[l] >= t[l]
        \/ l = "toxic" /\ p["severe_toxic"] >= t["severe_toxic"]
    BY FlagsRule, Zenon
  <2>4. q[l] >= t[l] \/ (l = "toxic" /\ q["severe_toxic"] >= t["severe_toxic"])
    BY <2>1, <2>2, <2>3
  <2> QED
    BY <2>4, FlagsRule, Zenon
<1>3. \A l \in Labels : InReviewBand(p[l], t[l]) => InReviewBand(q[l], t[l])
    BY NumbersAreIntegers DEF AtMost, Table, InReviewBand
<1>4. Reviewed(p) => Reviewed(q)
    BY <1>2, <1>3
<1>5. \A x \in {p, q} : Verdict(x, t) = IF Blocked(x) THEN "block"
                                       ELSE IF Reviewed(x) THEN "review" ELSE "allow"
    BY DEF Verdict
<1>6. Severity["allow"] = 0 /\ Severity["review"] = 1 /\ Severity["block"] = 2
    BY DEF Severity
<1> HIDE DEF Blocked, Reviewed
<1> QED
    BY <1>1, <1>4, <1>5, <1>6

\* A comment with no score at all is allowed.
LEMMA NothingAllowed ==
    ASSUME NEW t \in [Labels -> Thresholds]
    PROVE  Verdict([l \in Labels |-> 0], t) = "allow"
<1> DEFINE zero == [l \in Labels |-> 0]
<1>1. \A l \in Labels : t[l] \in Int /\ 1 <= t[l]
    BY NumbersAreIntegers
<1>2. \A l \in BlockLabels : ~(zero[l] >= t[l] + BlockMargin)
    BY <1>1, NumbersAreIntegers
<1>3. \A l \in Labels : ~Flags(zero, t)[l]
  <2> SUFFICES ASSUME NEW l \in Labels PROVE ~Flags(zero, t)[l]
    OBVIOUS
  <2>1. ~(zero[l] >= t[l]) /\ ~(zero["severe_toxic"] >= t["severe_toxic"])
    BY <1>1, NumbersAreIntegers
  <2> QED
    BY <2>1, FlagsRule, Zenon
<1>4. \A l \in Labels : ~InReviewBand(zero[l], t[l])
    BY <1>1, NumbersAreIntegers DEF InReviewBand
<1> QED
    BY <1>2, <1>3, <1>4 DEF Verdict

\* What is served passes its own contract.
LEMMA Served ==
    ASSUME NEW p \in [Labels -> Scores], NEW t \in [Labels -> Thresholds]
    PROVE  WellFormed(Response(EnforceHierarchy(p), t))
<1>1. p \in Table /\ t \in Table
    BY TablesAreTables
<1> DEFINE s == EnforceHierarchy(p)
<1>2. \A l \in Labels : s[l] \in 0..One
  <2>1. s["severe_toxic"] \in Scores
    <3>1. s["severe_toxic"] \in {p["severe_toxic"], p["toxic"]}
      BY <1>1, HierarchyEnforced
    <3> HIDE DEF s
    <3> QED
      BY <3>1, NumbersAreIntegers
  <2>2. \A l \in Labels \ {"severe_toxic"} : s[l] \in Scores
    BY <1>1, HierarchyEnforced
  <2> HIDE DEF s
  <2>3. \A l \in Labels : s[l] \in Scores
    BY <2>1, <2>2
  <2> HIDE DEF s
  <2> SUFFICES ASSUME NEW l \in Labels PROVE s[l] \in 0..One
    OBVIOUS
  <2>4. s[l] \in Int /\ 0 <= s[l] /\ s[l] <= One
    BY <2>3, NumbersAreIntegers
  <2> QED
    BY <2>4, NumbersAreIntegers
<1>3. s["severe_toxic"] <= s["toxic"]
    BY <1>1, HierarchyEnforced
<1> HIDE DEF s
<1>4. Flags(s, t)["severe_toxic"] => Flags(s, t)["toxic"]
  <2>1. Flags(s, t)["severe_toxic"] = (s["severe_toxic"] >= t["severe_toxic"])
    BY OtherFlagsRule, NumbersAreIntegers
  <2>2. Flags(s, t)["toxic"] =
           (s["toxic"] >= t["toxic"] \/ s["severe_toxic"] >= t["severe_toxic"])
    BY ToxicFlagRule, Zenon
  <2> QED
    BY <2>1, <2>2, Zenon
<1>5. Response(s, t).scores = s /\ Response(s, t).flags = Flags(s, t)
    BY DEF Response
<1> QED
    BY <1>2, <1>3, <1>4, <1>5 DEF WellFormed, s

-----------------------------------------------------------------------------
(* The invariant                                                           *)

\* A comment that has been answered was answered by the rules.
DecisionInv ==
    /\ thresholds \in [Labels -> Thresholds]
    /\ scores \in [Labels -> Scores]
    /\ response \in {Pending, Response(EnforceHierarchy(scores), thresholds)}

LEMMA DecisionInvariant == DecisionSpec => []DecisionInv
<1>1. DecisionInit => DecisionInv
    BY DEF DecisionInit, DecisionInv
<1>2. DecisionInv /\ [Predict]_decisionVars => DecisionInv'
  <2> SUFFICES ASSUME DecisionInv, [Predict]_decisionVars PROVE DecisionInv'
    OBVIOUS
  <2>1. CASE Predict
    BY <2>1, Served DEF DecisionInv, Predict
  <2>2. CASE UNCHANGED decisionVars
    BY <2>2 DEF DecisionInv, decisionVars
  <2> QED
    BY <2>1, <2>2
<1> QED
    BY <1>1, <1>2, PTL DEF DecisionSpec

-----------------------------------------------------------------------------
(* Theorems                                                                *)

\* The decision of /predict is sound for any model and any tuning: no request fails on
\* its own contract, no higher score earns a milder decision, allow stays reachable.
THEOREM DecisionSoundCorrect == DecisionSpec => []DecisionSound
<1>1. DecisionInv => DecisionSound
  <2> SUFFICES ASSUME DecisionInv PROVE DecisionSound
    OBVIOUS
  <2>1. ResponseValid
    BY DEF DecisionInv, ResponseValid, Pending, Raised, Response
  <2>2. NeverMoreLenient
    <3> SUFFICES ASSUME NEW l \in Labels, NEW v \in Scores, v >= scores[l]
                 PROVE  Decided(scores) <= Decided([scores EXCEPT ![l] = v])
      BY DEF NeverMoreLenient
    <3> DEFINE higher == [scores EXCEPT ![l] = v]
    <3>1. scores \in Table /\ higher \in Table /\ thresholds \in Table
      BY TablesAreTables DEF DecisionInv
    <3>2. AtMost(scores, higher)
      BY <3>1 DEF AtMost, Table
    <3> HIDE DEF higher
    <3>3. AtMost(EnforceHierarchy(scores), EnforceHierarchy(higher))
      BY <3>1, <3>2, HierarchyMonotone
    <3>4. EnforceHierarchy(scores) \in Table /\ EnforceHierarchy(higher) \in Table
      BY <3>1, HierarchyEnforced
    <3>5. Decided(scores) <= Decided(higher)
      BY <3>1, <3>3, <3>4, VerdictMonotone DEF Decided
    <3> QED
      BY <3>5 DEF higher
  <2>3. AllowReachable
    BY NothingAllowed DEF DecisionInv, AllowReachable
  <2> QED
    BY <2>1, <2>2, <2>3 DEF DecisionSound
<1> QED
    BY <1>1, DecisionInvariant, PTL

\* The flags of the response, of monitoring's query and of the baseline agree but for the
\* two labels of the hierarchy, and there they differ in one direction each.
THEOREM OneRuleCorrect == DecisionSpec => []OneRule
<1>1. DecisionInv => OneRule
  <2> SUFFICES ASSUME DecisionInv, response \notin {Pending, Raised} PROVE OneRule
    BY DEF OneRule
  <2> DEFINE s == EnforceHierarchy(scores)
  <2>1. response.scores = s /\ response.flags = Flags(s, thresholds)
    BY DEF DecisionInv, Response
  <2>2. scores \in Table /\ thresholds \in Table
    BY TablesAreTables DEF DecisionInv
  <2>3. /\ s \in Table /\ s["severe_toxic"] <= s["toxic"]
        /\ s["severe_toxic"] <= scores["severe_toxic"]
        /\ \A l \in Labels \ {"severe_toxic"} : s[l] = scores[l]
    BY <2>2, HierarchyEnforced
  <2> HIDE DEF s
  <2>4. \A l \in Labels \ {"toxic", "severe_toxic"} :
           /\ Flags(s, thresholds)[l] = Flagged(s, thresholds)[l]
           /\ Flagged(s, thresholds)[l] = BaselineFlagged(scores, thresholds)[l]
    BY <2>3 DEF Flags, Flagged, BaselineFlagged
  <2>5. /\ Flagged(s, thresholds)["toxic"] = BaselineFlagged(scores, thresholds)["toxic"]
        /\ Flagged(s, thresholds)["toxic"] => Flags(s, thresholds)["toxic"]
        /\ Flags(s, thresholds)["severe_toxic"] = Flagged(s, thresholds)["severe_toxic"]
        /\ Flagged(s, thresholds)["severe_toxic"]
              => BaselineFlagged(scores, thresholds)["severe_toxic"]
    <3>1. s["toxic"] = scores["toxic"]
      BY <2>3, NumbersAreIntegers
    <3>2. s["severe_toxic"] >= thresholds["severe_toxic"]
             => scores["severe_toxic"] >= thresholds["severe_toxic"]
      BY <2>2, <2>3, NumbersAreIntegers DEF Table
    <3>3. Flags(s, thresholds)["severe_toxic"] = (s["severe_toxic"] >= thresholds["severe_toxic"])
      BY OtherFlagsRule, NumbersAreIntegers
    <3>4. Flags(s, thresholds)["toxic"] =
             (s["toxic"] >= thresholds["toxic"] \/ s["severe_toxic"] >= thresholds["severe_toxic"])
      BY ToxicFlagRule, Zenon
    <3>5. /\ Flagged(s, thresholds)["toxic"] = (s["toxic"] >= thresholds["toxic"])
          /\ Flagged(s, thresholds)["severe_toxic"]
                = (s["severe_toxic"] >= thresholds["severe_toxic"])
      BY FlaggedRule, NumbersAreIntegers
    <3>6. /\ BaselineFlagged(scores, thresholds)["toxic"] = (scores["toxic"] >= thresholds["toxic"])
          /\ BaselineFlagged(scores, thresholds)["severe_toxic"]
                = (scores["severe_toxic"] >= thresholds["severe_toxic"])
      BY BaselineRule, NumbersAreIntegers
    <3> QED
      BY <3>1, <3>2, <3>3, <3>4, <3>5, <3>6
  <2> QED
    BY <2>1, <2>4, <2>5 DEF OneRule
<1> QED
    BY <1>1, DecisionInvariant, PTL

-----------------------------------------------------------------------------
(* Deploy                                                                  *)

(***************************************************************************)
(* What a program knows of itself: an idle one has nothing, one at work    *)
(* has a commit, and the command it polls is for that commit and for the   *)
(* instance it has come to.                                                *)
(***************************************************************************)
Own(p) ==
    IF step[p] = "idle"
    THEN turn[p] = 1 /\ job[p] = NoJob
    ELSE /\ target[p] \in Commits
         /\ IF step[p] = "poll"
            THEN /\ job[p] \in JobOf
                 /\ job[p].sha = target[p] /\ job[p].host = Order[turn[p]]
            ELSE job[p] = NoJob

OwnOK == \A p \in Programs : Own(p)

Typed == DeployTypeOK /\ OwnOK

LEMMA HostFacts ==
    /\ Len(Order) \in Nat /\ Len(Order) > 0
    /\ \A i \in 1..Len(Order) : Order[i] \in Hosts
BY DeployAssumption DEF Hosts

LEMMA DeployTyped == DeployInit => Typed
BY HostFacts, DeployAssumption DEF DeployInit, Typed, DeployTypeOK, OwnOK, Own, NoJob, Programs

\* What a command does on its instance, it does to the parts of the fleet it may.
LEMMA RunsTyped ==
    ASSUME DeployTypeOK, NEW m \in JobOf, NEW at \in Places, Runs(m, [m EXCEPT !.at = at])
    PROVE  /\ [m EXCEPT !.at = at] \in JobOf
           /\ installed' \in [Hosts -> Commits \cup {Unset, Mixed}]
           /\ env' \in [Hosts -> Commits \cup {Unset}]
           /\ up' \in [Hosts -> Commits \cup {Unset}]
<1> USE DEF DeployTypeOK, JobOf, Places, fleet
<1>1. [m EXCEPT !.at = at] \in JobOf
    OBVIOUS
<1>2. CASE Copies(m, [m EXCEPT !.at = at])
    BY <1>2, <1>1 DEF Copies
<1>3. CASE WritesEnv(m, [m EXCEPT !.at = at])
    BY <1>3, <1>1 DEF WritesEnv
<1>4. CASE Restarts(m, [m EXCEPT !.at = at])
    BY <1>4, <1>1 DEF Restarts
<1>5. CASE Fails(m, [m EXCEPT !.at = at])
    BY <1>5, <1>1 DEF Fails
<1> QED
    BY <1>2, <1>3, <1>4, <1>5 DEF Runs

\* A program polls a command that is doing something.
LEMMA Polls ==
    ASSUME Typed, NEW p \in Programs, NEW n, Runs(job[p], n)
    PROVE  step[p] = "poll" /\ job[p] \in JobOf
BY DEF Typed, OwnOK, Own, Runs, Copies, WritesEnv, Restarts, Fails, NoJob

LEMMA DeployTypedStep == Typed /\ [DeployNext]_deployVars => Typed'
<1> SUFFICES ASSUME Typed, [DeployNext]_deployVars PROVE Typed'
    OBVIOUS
<1> USE HostFacts, DeployAssumption
        DEF Typed, DeployTypeOK, OwnOK, Own, Programs, Places, NoJob, JobOf,
            pointers, fleet, programs
<1>1. ASSUME NEW c \in Commits, StartWorkflow(c) PROVE Typed'
    BY <1>1 DEF StartWorkflow, Begins, Goes
<1>2. ASSUME NEW c \in Commits, StartRollback(c) PROVE Typed'
    BY <1>2 DEF StartRollback, Begins, Goes
<1>3. CASE Build
    BY <1>3 DEF Build, Goes
<1>4. CASE UploadPayload
    BY <1>4 DEF UploadPayload, Goes
<1>5. ASSUME NEW p \in Programs, Send(p) PROVE Typed'
    BY <1>5 DEF Send, Goes
<1>6. ASSUME NEW p \in Programs, Advance(p) PROVE Typed'
    BY <1>6 DEF Advance, Succeeded, Goes
<1>7. ASSUME NEW p \in Programs, Dies(p) PROVE Typed'
    BY <1>7 DEF Dies, Ends, Goes
<1>8. ASSUME NEW p \in Programs, JobRuns(p) PROVE Typed'
  <2>1. PICK at \in Places : /\ Runs(job[p], [job[p] EXCEPT !.at = at])
                             /\ job' = [job EXCEPT ![p] = [job[p] EXCEPT !.at = at]]
    BY <1>8 DEF JobRuns
  <2>2. step[p] = "poll" /\ job[p] \in JobOf
    BY <2>1, Polls
  <2>3. /\ [job[p] EXCEPT !.at = at] \in JobOf
        /\ installed' \in [Hosts -> Commits \cup {Unset, Mixed}]
        /\ env' \in [Hosts -> Commits \cup {Unset}]
        /\ up' \in [Hosts -> Commits \cup {Unset}]
    BY <2>1, <2>2, RunsTyped
  <2>4. DeployTypeOK'
    BY <1>8, <2>1, <2>3 DEF JobRuns
  <2>5. \A q \in Programs : Own(q)'
    BY <1>8, <2>1, <2>2, <2>3 DEF JobRuns
  <2> QED
    BY <2>4, <2>5
<1>9. ASSUME NEW p \in Programs, PassGate(p) PROVE Typed'
    BY <1>9 DEF PassGate, Goes
<1>10. ASSUME NEW p \in Programs, ReadCurrent(p) PROVE Typed'
    BY <1>10 DEF ReadCurrent, Goes
<1>11. ASSUME NEW p \in Programs, PutPrevious(p) PROVE Typed'
    BY <1>11 DEF PutPrevious, Goes
<1>12. ASSUME NEW p \in Programs, PutCurrent(p) PROVE Typed'
    BY <1>12 DEF PutCurrent, Ends, Goes
<1>13. ASSUME NEW m \in late, LateRuns(m) PROVE Typed'
  <2>1. PICK at \in Places :
          /\ Runs(m, [m EXCEPT !.at = at])
          /\ late' = (late \ {m})
                \cup (IF at \in {"success", "failed"} THEN {} ELSE {[m EXCEPT !.at = at]})
    BY <1>13 DEF LateRuns
  <2>2. /\ [m EXCEPT !.at = at] \in JobOf
        /\ installed' \in [Hosts -> Commits \cup {Unset, Mixed}]
        /\ env' \in [Hosts -> Commits \cup {Unset}]
        /\ up' \in [Hosts -> Commits \cup {Unset}]
    BY <2>1, RunsTyped
  <2> QED
    BY <1>13, <2>1, <2>2 DEF LateRuns
<1>14. ASSUME NEW h \in Hosts, HostRestarts(h) PROVE Typed'
    BY <1>14 DEF HostRestarts
<1>15. CASE UNCHANGED deployVars
    BY <1>15 DEF deployVars
<1> QED
    BY <1>1, <1>2, <1>3, <1>4, <1>5, <1>6, <1>7, <1>8, <1>9, <1>10, <1>11, <1>12, <1>13, <1>14,
       <1>15 DEF DeployNext

-----------------------------------------------------------------------------
(* Baselines                                                               *)

\* Whatever a program is about to record, and whatever it read as current, passed the gate.
RecordsGated ==
    \A p \in Programs :
        /\ seen[p] \in gated \cup {Unset}
        /\ Passed(p) => target[p] \in gated

Gated == BaselinesGated /\ RecordsGated

LEMMA GatedStep == Typed /\ Gated /\ [DeployNext]_deployVars => Gated'
<1> SUFFICES ASSUME Typed, Gated, [DeployNext]_deployVars PROVE Gated'
    OBVIOUS
<1> USE DeployAssumption
        DEF Typed, DeployTypeOK, OwnOK, Own, Gated, BaselinesGated, RecordsGated, Passed,
            Programs, pointers, fleet, programs
<1>1. ASSUME NEW c \in Commits, StartWorkflow(c) PROVE Gated'
    BY <1>1 DEF StartWorkflow, Begins, Goes
<1>2. ASSUME NEW c \in Commits, StartRollback(c) PROVE Gated'
    BY <1>2 DEF StartRollback, Begins, Goes
<1>3. CASE Build
    BY <1>3 DEF Build, Goes
<1>4. CASE UploadPayload
    BY <1>4 DEF UploadPayload, Goes
<1>5. ASSUME NEW p \in Programs, Send(p) PROVE Gated'
    BY <1>5 DEF Send, Goes
<1>6. ASSUME NEW p \in Programs, Advance(p) PROVE Gated'
    BY <1>6 DEF Advance, Goes
<1>7. ASSUME NEW p \in Programs, Dies(p) PROVE Gated'
    BY <1>7 DEF Dies, Ends, Goes
<1>8. ASSUME NEW p \in Programs, JobRuns(p) PROVE Gated'
    BY <1>8 DEF JobRuns
<1>9. ASSUME NEW p \in Programs, PassGate(p) PROVE Gated'
    BY <1>9 DEF PassGate, Goes
<1>10. ASSUME NEW p \in Programs, ReadCurrent(p) PROVE Gated'
    BY <1>10 DEF ReadCurrent, Goes
<1>11. ASSUME NEW p \in Programs, PutPrevious(p) PROVE Gated'
    BY <1>11 DEF PutPrevious, Goes
<1>12. ASSUME NEW p \in Programs, PutCurrent(p) PROVE Gated'
    BY <1>12 DEF PutCurrent, Ends, Goes
<1>13. ASSUME NEW m \in late, LateRuns(m) PROVE Gated'
    BY <1>13 DEF LateRuns
<1>14. ASSUME NEW h \in Hosts, HostRestarts(h) PROVE Gated'
    BY <1>14 DEF HostRestarts
<1>15. CASE UNCHANGED deployVars
    BY <1>15 DEF deployVars
<1> QED
    BY <1>1, <1>2, <1>3, <1>4, <1>5, <1>6, <1>7, <1>8, <1>9, <1>10, <1>11, <1>12, <1>13, <1>14,
       <1>15 DEF DeployNext

-----------------------------------------------------------------------------
(* The fleet                                                               *)

\* A program is at work and has had the fleet to itself.
Undisturbed(p) == step[p] # "idle" /\ ~disturbed[p]

\* Nobody else is at work.
Alone(p) == late = {} /\ \A q \in Programs : step[q] # "idle" => q = p

\* An instance runs the program's commit, or will when it runs again.
Written(p, h) == env[h] = target[p]
Rolled(p, h) == Written(p, h) /\ up[h] \in {target[p], Unset}

\* How far an undisturbed program has come: the instances before the one it is at are
\* rolled, that one as far as its command has come, and after the last one all of them.
Progress(p) ==
    /\ \A i \in 1..(turn[p] - 1) : Rolled(p, Order[i])
    /\ job[p].at = "written" => Written(p, job[p].host)
    /\ job[p].at = "success" => Rolled(p, job[p].host)
    /\ step[p] \in {"gate", "read", "keep", "put"} => \A h \in Hosts : Rolled(p, h)

Steady == \A p \in Programs : Undisturbed(p) => Alone(p) /\ Progress(p)

\* A command of an undisturbed program moves only the instance it is on, forward.
LEMMA RunsForward ==
    ASSUME Typed, NEW p \in Programs, Undisturbed(p), Progress(p),
           NEW n, Runs(job[p], n), target' = target
    PROVE  /\ \A h \in Hosts : Rolled(p, h) => Rolled(p, h)'
           /\ n.host = job[p].host
           /\ n.at = "written" => Written(p, n.host)'
           /\ n.at = "success" => Rolled(p, n.host)'
<1> USE DEF Typed, DeployTypeOK, Progress, Rolled, Written, fleet
<1>1. step[p] = "poll" /\ job[p] \in JobOf /\ job[p].sha = target[p]
    BY Polls DEF OwnOK, Own
<1>2. CASE Copies(job[p], n)
    BY <1>1, <1>2 DEF Copies, JobOf
<1>3. CASE WritesEnv(job[p], n)
    BY <1>1, <1>3 DEF WritesEnv, JobOf
<1>4. CASE Restarts(job[p], n)
    BY <1>1, <1>4 DEF Restarts, JobOf
<1>5. CASE Fails(job[p], n)
    BY <1>1, <1>5 DEF Fails, JobOf
<1> QED
    BY <1>2, <1>3, <1>4, <1>5 DEF Runs

LEMMA JobPolled ==
    ASSUME Typed, NEW p \in Programs, JobRuns(p)
    PROVE  step[p] = "poll"
BY Polls DEF JobRuns

LEMMA JobForward ==
    ASSUME Typed, Steady, NEW p \in Programs, Undisturbed(p), JobRuns(p)
    PROVE  Progress(p)'
<1>1. PICK at \in Places : /\ Runs(job[p], [job[p] EXCEPT !.at = at])
                           /\ job' = [job EXCEPT ![p] = [job[p] EXCEPT !.at = at]]
    BY DEF JobRuns
<1>2. UNCHANGED <<step, turn, target>>
    BY DEF JobRuns
<1>3. Progress(p)
    BY DEF Steady
<1>4. PICK here : here = job[p].host
    OBVIOUS
<1>5. /\ \A h \in Hosts : Rolled(p, h) => Rolled(p, h)'
      /\ here = [job[p] EXCEPT !.at = at].host
      /\ at = "written" => Written(p, here)'
      /\ at = "success" => Rolled(p, here)'
  <2>1. target' = target
    BY <1>2
  <2>2. PICK n : n = [job[p] EXCEPT !.at = at]
    OBVIOUS
  <2>3. n.at = at /\ n.host = [job[p] EXCEPT !.at = at].host
    BY <1>1, <2>2, Polls DEF JobOf
  <2>4. Runs(job[p], n)
    BY <1>1, <2>2 DEF Runs, Copies, WritesEnv, Restarts, Fails
  <2>5. /\ \A h \in Hosts : Rolled(p, h) => Rolled(p, h)'
        /\ n.host = job[p].host
        /\ n.at = "written" => Written(p, n.host)'
        /\ n.at = "success" => Rolled(p, n.host)'
    BY <1>3, <2>1, <2>4, RunsForward DEF Rolled, Written
  <2> QED
    BY <1>4, <2>3, <2>5 DEF Rolled, Written
<1>6. job'[p].at = at /\ job'[p].host = here
    BY <1>1, <1>4, Polls DEF Typed, DeployTypeOK, JobOf
<1>7. \A i \in 1..(turn'[p] - 1) : Rolled(p, Order[i])'
    BY <1>2, <1>3, <1>5, HostFacts DEF Progress, Typed, DeployTypeOK, Rolled, Written
<1>8. step'[p] = "poll"
    BY <1>2, JobPolled
<1> QED
    BY <1>5, <1>6, <1>7, <1>8 DEF Progress, Rolled, Written

\* An instance whose command has succeeded is rolled, and the program goes to the next.
LEMMA AdvanceForward ==
    ASSUME Typed, NEW p \in Programs, Progress(p), Advance(p)
    PROVE  Progress(p)'
<1>1. turn[p] \in 1..Len(Order) /\ job[p].host = Order[turn[p]]
    BY DEF Advance, Typed, DeployTypeOK, OwnOK, Own
<1>2. \A i \in 1..turn[p] : Rolled(p, Order[i])
    BY <1>1, HostFacts DEF Advance, Succeeded, Progress
<1>3. UNCHANGED <<env, up, target>> /\ job'[p].at = "none"
    BY DEF Advance, fleet, Typed, DeployTypeOK, NoJob
<1>4. \A i \in 1..turn[p] : env'[Order[i]] = target'[p] /\ up'[Order[i]] \in {target'[p], Unset}
    BY <1>2, <1>3 DEF Rolled, Written
<1>5. CASE turn[p] < Len(Order)
  <2>1. turn'[p] = turn[p] + 1 /\ step'[p] = "roll"
    BY <1>5 DEF Advance, Goes, Typed, DeployTypeOK
  <2> QED
    BY <1>1, <1>3, <1>4, <2>1, HostFacts DEF Progress, Rolled, Written
<1>6. CASE turn[p] = Len(Order)
  <2>1. turn' = turn
    BY <1>6, HostFacts DEF Advance
  <2>2. \A h \in Hosts : env'[h] = target'[p] /\ up'[h] \in {target'[p], Unset}
    BY <1>4, <1>6 DEF Hosts
  <2> QED
    BY <1>1, <1>3, <1>4, <2>1, <2>2, HostFacts DEF Progress, Rolled, Written
<1> QED
    BY <1>1, <1>5, <1>6, HostFacts

LEMMA SteadyStep == Typed /\ Steady /\ [DeployNext]_deployVars => Steady'
<1> SUFFICES ASSUME Typed, Steady, [DeployNext]_deployVars,
                    NEW p \in Programs, Undisturbed(p)'
             PROVE  Alone(p)' /\ Progress(p)'
    BY DEF Steady
<1> DEFINE Goal == Alone(p)' /\ Progress(p)'
<1> USE HostFacts
        DEF Typed, DeployTypeOK, OwnOK, Own, Steady, Undisturbed, Alone, Progress, Rolled, Written,
            Goes, pointers, fleet, programs
<1>1. ASSUME NEW q \in Programs, NEW c \in Commits, NEW where, Begins(q, c, where),
             where \in {"build", "roll"}
      PROVE  Goal
  <2>1. CASE q = p
    <3>1. Alone(p)'
      BY <1>1, <2>1 DEF Begins, Programs
    <3>2. turn'[p] = 1 /\ job'[p] = NoJob /\ step'[p] \in {"build", "roll"}
      BY <1>1, <2>1 DEF Begins
    <3> QED
      BY <3>1, <3>2 DEF NoJob
  <2>2. CASE q # p
    BY <1>1, <2>2 DEF Begins, Programs
  <2> QED
    BY <2>1, <2>2
<1>2. ASSUME NEW c \in Commits, StartWorkflow(c) \/ StartRollback(c) PROVE Goal
    BY <1>1, <1>2 DEF StartWorkflow, StartRollback, Programs
<1>3. CASE Build
    BY <1>3 DEF Build, Programs
<1>4. CASE UploadPayload
    BY <1>4 DEF UploadPayload, Programs
<1>5. ASSUME NEW q \in Programs, Send(q) PROVE Goal
    BY <1>5 DEF Send
<1>6. ASSUME NEW q \in Programs, Advance(q) PROVE Goal
  <2>1. q = p /\ Undisturbed(p) /\ Alone(p) /\ Progress(p)
    BY <1>6 DEF Advance
  <2>2. Progress(p)'
    BY <2>1, <1>6, AdvanceForward
  <2> QED
    BY <1>6, <2>1, <2>2 DEF Advance
<1>7. ASSUME NEW q \in Programs, Dies(q) PROVE Goal
    BY <1>7 DEF Dies, Ends
<1>8. ASSUME NEW q \in Programs, JobRuns(q) PROVE Goal
  <2>1. q = p /\ Undisturbed(p) /\ Alone(p)
    BY <1>8, JobPolled DEF JobRuns
  <2>2. Progress(p)'
    BY <2>1, <1>8, JobForward
  <2> QED
    BY <1>8, <2>1, <2>2 DEF JobRuns
<1>9. ASSUME NEW q \in Programs, PassGate(q) PROVE Goal
    BY <1>9 DEF PassGate
<1>10. ASSUME NEW q \in Programs, ReadCurrent(q) PROVE Goal
    BY <1>10 DEF ReadCurrent
<1>11. ASSUME NEW q \in Programs, PutPrevious(q) PROVE Goal
    BY <1>11 DEF PutPrevious
<1>12. ASSUME NEW q \in Programs, PutCurrent(q) PROVE Goal
    BY <1>12 DEF PutCurrent, Ends
<1>13. ASSUME NEW m \in late, LateRuns(m) PROVE Goal
    BY <1>13 DEF LateRuns
<1>14. ASSUME NEW h \in Hosts, HostRestarts(h) PROVE Goal
    BY <1>14 DEF HostRestarts
<1>15. CASE UNCHANGED deployVars
    BY <1>15 DEF deployVars
<1> QED
    BY <1>2, <1>3, <1>4, <1>5, <1>6, <1>7, <1>8, <1>9, <1>10, <1>11, <1>12, <1>13, <1>14,
       <1>15 DEF DeployNext

-----------------------------------------------------------------------------
(* Theorems                                                                *)

DeployInv == Typed /\ Gated /\ Steady

LEMMA DeployInvariant == DeploySpec => []DeployInv
<1>1. DeployInit => DeployInv
  <2> SUFFICES ASSUME DeployInit PROVE Gated /\ Steady
    BY DeployTyped DEF DeployInv
  <2> QED
    BY DEF DeployInit, Gated, BaselinesGated, RecordsGated, Passed, Steady, Undisturbed
<1>2. DeployInv /\ [DeployNext]_deployVars => DeployInv'
    BY DeployTypedStep, GatedStep, SteadyStep DEF DeployInv
<1> QED
    BY <1>1, <1>2, PTL DEF DeploySpec

\* Every variable keeps its type; in particular a command left behind names a commit and
\* an instance, and never more of them are counted than are there.
THEOREM DeployTypeCorrect == DeploySpec => []DeployTypeOK
<1>1. DeployInv => DeployTypeOK
    BY DEF DeployInv, Typed
<1> QED
    BY <1>1, DeployInvariant, PTL

\* What verify_live.sh and record_deploy.sh leave behind: a program that had the fleet to
\* itself and passed its gate has every instance on its commit, and what current-sha and
\* previous-sha name has passed the gate, wherever programs died and whatever they left.
THEOREM DeploySoundCorrect == DeploySpec => []DeploySound
<1>1. DeployInv => DeploySound
    BY DEF DeployInv, Gated, Steady, DeploySound, FleetIsTarget, Passed, Undisturbed, Progress, Rolled,
           Written
<1> QED
    BY <1>1, DeployInvariant, PTL
=============================================================================
