------------------------------- MODULE Gate -------------------------------
(***************************************************************************)
(* The middleware every request to the backend passes: backend/app.py      *)
(* _gate, with backend/auth.py and backend/fingerprint.py.                 *)
(*                                                                         *)
(* It awaits nothing before call_next, so requests pass it one at a time.  *)
(* Its two limiters are those of RateLimiter: one bucket for the caller a  *)
(* request claims to come from, and a larger one for the TCP peer, which   *)
(* no caller can choose.  Both keys are salted with the day.               *)
(***************************************************************************)
EXTENDS Integers, FiniteSets

CONSTANTS
    Peers,          \* request.client.host
    Public,         \* those of them that are globally routable
    Sessions,       \* well-formed X-Session-Fp headers
    Absent,         \* none, or one that is not well formed
    CallerBurst,    \* rate_limit_burst
    CallerRate,     \* rate_limit_per_minute, as the Rate of RateLimiter
    TokenCost,      \* the Cost of RateLimiter
    Multiplier,     \* PEER_CEILING_MULTIPLIER
    TrackedLimit,   \* MAX_TRACKED_KEYS
    Arriving,       \* the requests an instance has
    LastTime,       \* bound of the model
    LastDay         \* bound of the model

ASSUME GateAssumption ==
    /\ IsFiniteSet(Peers) /\ Public \subseteq Peers
    /\ IsFiniteSet(Sessions) /\ Absent \notin Sessions
    /\ {CallerBurst, CallerRate, TokenCost, Multiplier} \subseteq Nat \ {0}
    /\ TrackedLimit \in Nat \ {0, 1}
    /\ LastTime \in Nat /\ LastDay \in Nat

Unkeyed == {"health", "schema", "login"}
Reviewer == {"login", "pending", "submit"}
Unmetered == {"health", "pending"}
Bodies == {"login", "submit", "predict"}

\* A request, by what the gate asks of it: whether its key is right, and how its body is
\* framed -- by both headers, by neither, by a length that is refused, or properly.
Requests == [peer : Peers, session : Sessions \cup {Absent}, keyed : BOOLEAN,
             path : Unkeyed \cup Reviewer \cup {"predict"},
             framing : {"both", "none", "oversize", "sized"}]

ASSUME ArrivingAssumption == Arriving \subseteq Requests

Identities == [kind : {"session"}, id : Sessions] \cup [kind : {"peer"}, id : Peers]
Fingerprints == Identities \X (0..LastDay)

VARIABLES
    now,        \* time.monotonic()
    today,      \* the UTC date
    perCaller,  \* app.state.limiter
    perPeer,    \* app.state.peer_limiter
    rejected,   \* the counter of app.state.rejected the last request went up in, or none
    ceiling,    \* history: the peer whose ceiling the last request was refused at
    passed,     \* history: the requests of each peer that passed today
    forgotten   \* history: the peers whose bucket was evicted

gateVars == <<now, today, perCaller, perPeer, rejected, ceiling, passed, forgotten>>

Caller ==
    INSTANCE RateLimiter WITH
        Keys <- Fingerprints, Watched <- Absent, Callers <- {}, Idle <- Absent,
        Burst <- CallerBurst, Rate <- CallerRate, Cost <- TokenCost,
        MaxTracked <- TrackedLimit, MaxTick <- LastTime, MaxCount <- 0,
        clock <- now, reading <- <<>>, buckets <- perCaller, admitted <- <<>>, lost <- FALSE

PeerBurst == CallerBurst * Multiplier
PeerRate == CallerRate * Multiplier

Ceiling ==
    INSTANCE RateLimiter WITH
        Keys <- Fingerprints, Watched <- Absent, Callers <- {}, Idle <- Absent,
        Burst <- PeerBurst, Rate <- PeerRate, Cost <- TokenCost,
        MaxTracked <- TrackedLimit, MaxTick <- LastTime, MaxCount <- 0,
        clock <- now, reading <- <<>>, buckets <- perPeer, admitted <- <<>>, lost <- FALSE

Nobody == [p \in Peers |-> 0]

GateInit ==
    /\ now = 0 /\ today = 0
    /\ perCaller = [k \in {} |-> Absent] /\ perPeer = [k \in {} |-> Absent]
    /\ rejected = {} /\ ceiling = {} /\ passed = Nobody /\ forgotten = {}

-----------------------------------------------------------------------------
\* caller_identity: a session counts only together with the frontend's key.
Identity(r) ==
    IF r.keyed /\ r.session # Absent THEN [kind |-> "session", id |-> r.session]
    ELSE [kind |-> "peer", id |-> r.peer]

\* submitter_fp, of the caller and of the peer.
Source(r) == <<Identity(r), today>>
PeerOf(p) == <<[kind |-> "peer", id |-> p], today>>

\* The refusals that come before any bucket is looked at, in this order.
Conflicting(r) == r.framing = "both"
Hidden(r) == r.path \in Reviewer /\ r.peer \in Public
Unsized(r) == r.path \in Bodies /\ r.framing # "sized"
Locked(r) == ~r.keyed /\ r.path \notin Unkeyed

Turned(r) ==
    /\ Conflicting(r) \/ Hidden(r) \/ Unsized(r) \/ Locked(r)
    /\ rejected' =
         {IF Conflicting(r) \/ (Unsized(r) /\ ~Hidden(r)) THEN "oversize" ELSE "unauthenticated"}
    /\ ceiling' = {}
    /\ UNCHANGED <<now, today, perCaller, perPeer, passed, forgotten>>

Owns(r) == r.path \in Unmetered \/ Caller!Admits(Caller!Found(Source(r), now))

\* allow() of the caller's bucket, for the paths that are metered,
SpendOwn(r) ==
    IF r.path \in Unmetered THEN perCaller' = perCaller
    ELSE \E out \in Caller!Evictions(Source(r)) : perCaller' = Caller!Left(Source(r), now, out)

\* and of the peer's.
SpendShared(r) ==
    LET p == PeerOf(r.peer)
        admits == Ceiling!Admits(Ceiling!Found(p, now))
    IN  \E out \in Ceiling!Evictions(p) :
          /\ perPeer' = Ceiling!Left(p, now, out)
          /\ forgotten' = forgotten \cup {q \in Peers : PeerOf(q) \in out}
          /\ passed' = IF admits /\ Owns(r) THEN [passed EXCEPT ![r.peer] = @ + 1] ELSE passed
          /\ ceiling' = IF admits THEN {} ELSE {r.peer}
          /\ rejected' = IF admits /\ Owns(r) THEN {} ELSE {"rate_limited"}

\* Mutation: the ceiling is asked first.
MeteredPeerFirst(r) ==
    /\ ~(Conflicting(r) \/ Hidden(r) \/ Unsized(r) \/ Locked(r))
    /\ SpendOwn(r)
    /\ SpendShared(r)
    /\ UNCHANGED <<now, today>>

\* The caller's own bucket first: what it refuses spends nothing of the ceiling that the
\* callers behind one peer share.
Metered(r) ==
    /\ ~(Conflicting(r) \/ Hidden(r) \/ Unsized(r) \/ Locked(r))
    /\ SpendOwn(r)
    /\ IF Owns(r) THEN SpendShared(r)
       ELSE /\ rejected' = {"rate_limited"} /\ ceiling' = {}
            /\ UNCHANGED <<perPeer, passed, forgotten>>
    /\ UNCHANGED <<now, today>>

Later ==
    /\ now < LastTime
    /\ now' = now + 1
    /\ rejected' = {} /\ ceiling' = {}
    /\ UNCHANGED <<today, perCaller, perPeer, passed, forgotten>>

\* Every key changes at midnight; the buckets of yesterday stay until they are evicted.
Midnight ==
    /\ today < LastDay
    /\ today' = today + 1
    /\ rejected' = {} /\ ceiling' = {} /\ passed' = Nobody /\ forgotten' = {}
    /\ UNCHANGED <<now, perCaller, perPeer>>

GateNext ==
    \/ \E r \in Arriving : Turned(r) \/ Metered(r)
    \/ Later
    \/ Midnight

GateSpec == GateInit /\ [][GateNext]_gateVars

-----------------------------------------------------------------------------
(* Properties                                                              *)

\* Types.
GateTypeOK ==
    /\ now \in 0..LastTime /\ today \in 0..LastDay
    /\ DOMAIN perCaller \subseteq Fingerprints /\ DOMAIN perPeer \subseteq Fingerprints
    /\ rejected \subseteq {"unauthenticated", "rate_limited", "oversize"}
    /\ ceiling \subseteq Peers /\ forgotten \subseteq Peers
    /\ passed \in [Peers -> Nat]

\* The ceiling of a peer is a ceiling on what it is let through in a day, whatever
\* sessions its requests claim and whatever paths they take; and it is spent by nothing
\* else: who is refused at it comes after a whole burst of requests that passed, never
\* after those of one caller that were refused.  A peer whose bucket was evicted starts
\* again.
CeilingIsAdmissions ==
    \A p \in Peers \ forgotten :
        /\ passed[p] * TokenCost <=
             IF PeerOf(p) \in DOMAIN perPeer
             THEN PeerBurst * TokenCost + PeerRate * (now - perPeer[PeerOf(p)].made) ELSE 0
        /\ p \in ceiling => passed[p] >= PeerBurst

=============================================================================
