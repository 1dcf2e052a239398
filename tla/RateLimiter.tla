---------------------------- MODULE RateLimiter ----------------------------
(***************************************************************************)
(* The token bucket of backend/ratelimit.py, called by several threads.    *)
(*                                                                         *)
(* allow() reads the clock before it takes the lock, so the calls reach    *)
(* the bucket in another order than they read the time, and the elapsed    *)
(* time of a refill may be negative.                                       *)
(*                                                                         *)
(* Tokens are counted in units of 1/Cost of a token and time in ticks, so  *)
(* that one tick refills Rate units: per_minute / 60 tokens per second are *)
(* Rate / Cost tokens per tick.                                            *)
(***************************************************************************)
EXTENDS Integers, FiniteSets

CONSTANTS
    Keys,        \* fingerprints, or peers of /review/login
    Watched,     \* the key whose admissions the history counts
    Callers,     \* threads inside allow()
    Idle,        \* a thread that is not in it
    Burst,       \* tokens of a full bucket
    Rate,        \* units refilled per tick
    Cost,        \* units of one token
    MaxTracked,  \* MAX_TRACKED_KEYS
    MaxTick,     \* bound of the model: the last tick
    MaxCount     \* bound of the model: where the history stops counting

Full == Burst * Cost
Ticks == 0..MaxTick
Readings == [key : Keys, now : Ticks]
Windows == { w \in Ticks \X Ticks : w[1] <= w[2] }

ASSUME LimiterAssumption ==
    /\ IsFiniteSet(Keys)
    /\ Watched \in Keys
    /\ Idle \notin Readings
    /\ Burst \in Nat \ {0}
    /\ Rate \in Nat \ {0}
    /\ Cost \in Nat \ {0}
    /\ MaxTracked \in Nat \ {0, 1}
    /\ MaxTick \in Nat
    /\ MaxCount \in Nat

VARIABLES
    clock,     \* time.monotonic()
    reading,   \* each thread: Idle, or the key it asks for and the time it read
    buckets,   \* the dict of buckets, with the history of each (see Buckets)
    admitted,  \* history: admissions of Watched, by the window their time was read in
    lost       \* history: Watched has lost a bucket

history == <<admitted, lost>>
vars == <<clock, reading, buckets, history>>

\* tokens and updated are the code's; made is the time the bucket was created
\* with, and spent the tokens taken from it since.
Buckets == [tokens : { units \in Int : units <= Full }, updated : Ticks,
            made : Ticks, spent : Nat]

Tracked == DOMAIN buckets

TypeOK ==
    /\ clock \in Ticks
    /\ reading \in [Callers -> Readings \union {Idle}]
    /\ Tracked \subseteq Keys
    /\ buckets \in [Tracked -> Buckets]
    /\ admitted \in [Windows -> Nat]
    /\ lost \in BOOLEAN

Init ==
    /\ clock = 0
    /\ reading = [c \in Callers |-> Idle]
    /\ buckets = [k \in {} |-> Idle]
    /\ admitted = [w \in Windows |-> 0]
    /\ lost = FALSE

-----------------------------------------------------------------------------
Tick ==
    /\ clock < MaxTick
    /\ clock' = clock + 1
    /\ UNCHANGED <<reading, buckets, history>>

\* now = self._clock()
ReadClock(c, k) ==
    /\ reading[c] = Idle
    /\ reading' = [reading EXCEPT ![c] = [key |-> k, now |-> clock]]
    /\ UNCHANGED <<clock, buckets, history>>

MustEvict(k) == Cardinality(Tracked) >= MaxTracked /\ k \notin Tracked

\* _evict: the least recently seen half, in any order among equals.
Evictions(k) ==
    IF MustEvict(k)
    THEN { half \in SUBSET Tracked :
             /\ Cardinality(half) = Cardinality(Tracked) \div 2
             /\ \A old \in half, new \in Tracked \ half :
                    buckets[old].updated <= buckets[new].updated }
    ELSE { {} }

\* min(burst, tokens + (now - updated) * rate)
Refilled(units, elapsed) ==
    IF units + elapsed * Rate > Full THEN Full ELSE units + elapsed * Rate

\* The bucket a call finds, refilled to the time it read, or the one it creates.
Found(k, now) ==
    IF k \in Tracked
    THEN [buckets[k] EXCEPT !.tokens = Refilled(@, now - buckets[k].updated)]
    ELSE [tokens |-> Full, updated |-> now, made |-> now, spent |-> 0]

\* Mutant: an existing bucket keeps the time of its creation.
StampedOnce(found, now) == found

\* bucket.updated = now, also in a call that is refused.
Stamped(found, now) == [found EXCEPT !.updated = now]

Admits(found) == found.tokens >= Cost

\* What a call leaves of the bucket.
Charged(found) ==
    IF Admits(found)
    THEN [found EXCEPT !.tokens = @ - Cost, !.spent = @ + 1]
    ELSE found

\* An admission at this time counts in every window around it.
Counted(n) == IF n < MaxCount THEN n + 1 ELSE n
Admitted(now) ==
    [w \in Windows |-> IF now \in w[1]..w[2] THEN Counted(admitted[w]) ELSE admitted[w]]

\* The table a call for k leaves, if these buckets are evicted.
Left(k, now, out) ==
    [other \in (Tracked \ out) \union {k} |->
        IF other = k THEN Charged(Stamped(Found(k, now), now)) ELSE buckets[other]]

\* The block under the lock, and the eviction under it before.  The history ends
\* with the bucket of Watched.
Decide(c) ==
    LET k == reading[c].key
        now == reading[c].now
        found == Found(k, now)
    IN
    /\ reading[c] # Idle
    /\ \E out \in Evictions(k) :
         /\ buckets' = Left(k, now, out)
         /\ lost' = (lost \/ Watched \in out)
    /\ admitted' = IF lost' THEN [w \in Windows |-> 0]
                   ELSE IF k = Watched /\ Admits(found) THEN Admitted(now) ELSE admitted
    /\ reading' = [reading EXCEPT ![c] = Idle]
    /\ UNCHANGED clock

Next ==
    \/ Tick
    \/ \E c \in Callers : (\E k \in Keys : ReadClock(c, k)) \/ Decide(c)

Spec == Init /\ [][Next]_vars

-----------------------------------------------------------------------------
(* Properties                                                              *)

\* What a bucket has admitted since it was created, and what it still holds,
\* never exceeds its burst and what has been refilled since, in whatever
\* order the threads arrive with the times they read.
Accounting ==
    \A k \in Tracked :
        buckets[k].spent * Cost + buckets[k].tokens
            <= Full + Rate * (buckets[k].updated - buckets[k].made)

\* Over every window of the times its calls read, a key is admitted at most the burst
\* and what that window refills.
Bounded ==
    \A w \in Windows : admitted[w] * Cost <= Full + Rate * (w[2] - w[1])

\* The rate a key is held to, as long as the table keeps its bucket, whatever
\* the threads that arrive late with an older time.  An evicted key starts again
\* with a full burst, which `lost` remembers.
WindowBounded == lost \/ Bounded
=============================================================================
