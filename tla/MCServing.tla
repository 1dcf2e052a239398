----------------------------- MODULE MCServing -----------------------------
(****************************************************************************)
(* One instance of what stands between a request and its answer, and of     *)
(* what puts a commit behind it: one limiter called by threads, the gate    *)
(* that calls two of them, the decision on one comment, or the deployments. *)
(* They share no variable.                                                  *)
(*                                                                          *)
(* A burst of two.  With a token and a half refilled per tick a refill is a *)
(* part of a token, or more than one, or cut off by the burst; a thread     *)
(* may hold a time read two ticks ago.                                      *)
(*                                                                          *)
(* At the gate, a visitor and a reviewer behind the frontend's private      *)
(* peer, and an outsider; a burst of one for a caller, of two for a peer;   *)
(* two days, and tables that hold every key of both.                        *)
(*                                                                          *)
(* Probabilities in twentieths, three labels.  Two commits, two instances.  *)
(****************************************************************************)
EXTENDS RateLimiter, Gate, Decision, MCDeploy

CONSTANTS k1, k2, k3, c1, c2, frontend, outsider, s1

MCKeys == {k1, k2, k3}
OneCaller == {c1}
MCCallers == {c1, c2}
MCPeers == {frontend, outsider}
MCPublic == {outsider}
MCSessions == {s1}

Request(peer, session, keyed, path, framing) ==
    [peer |-> peer, session |-> session, keyed |-> keyed, path |-> path, framing |-> framing]

\* What the frontend sends for its visitors and its console, a probe, and one request for
\* each early refusal.
MCArriving ==
    {Request(frontend, s1, TRUE, "predict", "sized"),
     Request(frontend, Absent, TRUE, "pending", "none"),
     Request(frontend, Absent, FALSE, "login", "sized"),
     Request(outsider, Absent, FALSE, "health", "none"),
     Request(outsider, Absent, FALSE, "predict", "sized"),
     Request(outsider, Absent, TRUE, "submit", "sized"),
     Request(outsider, Absent, TRUE, "predict", "none"),
     Request(outsider, Absent, TRUE, "submit", "both")}

MCLabels == {"toxic", "severe_toxic", "insult"}
MCAnnotated == {"toxic", "severe_toxic"}
MCBlockLabels == {"severe_toxic"}
MCScores == {0, 1, 2, 4, 5, 8, 20}
MCThresholds == {1, 3, 5}

\* A behaviour has threads or commits, never both.
MCSymmetry ==
    Permutations({k2, k3}) \union
    {(c1 :> c2) @@ (c2 :> c1) @@ (sha1 :> sha2) @@ (sha2 :> sha1)}

\* The parts a behaviour is not about.
Nil == <<>>
NoGate ==
    /\ now = 0 /\ today = 0 /\ perCaller = Nil /\ perPeer = Nil
    /\ rejected = {} /\ ceiling = {} /\ passed = Nobody /\ forgotten = {}
NoLimiter ==
    /\ clock = 0 /\ reading = Nil /\ buckets = Nil
    /\ admitted = [w \in Windows |-> 0] /\ lost = FALSE
NoDecision == thresholds = Nil /\ scores = Nil /\ response = Pending
NoDeploy ==
    /\ images = Nil /\ payload = Nil /\ current = Unset /\ previous = Unset
    /\ installed = Nil /\ env = Nil /\ up = Nil /\ step = [p \in Programs |-> "idle"]
    /\ target = Nil /\ turn = Nil /\ job = Nil /\ seen = Nil /\ runs = 0 /\ late = {}
    /\ disturbed = Nil /\ gated = {}

MCInit ==
    \/ Init /\ NoGate /\ NoDecision /\ NoDeploy
    \/ NoLimiter /\ GateInit /\ NoDecision /\ NoDeploy
    \/ NoLimiter /\ NoGate /\ DecisionInit /\ NoDeploy
    \/ NoLimiter /\ NoGate /\ NoDecision /\ DeployInit

MCNext ==
    \/ reading # Nil /\ Next /\ UNCHANGED <<gateVars, decisionVars, deployVars>>
    \/ /\ reading = Nil /\ scores = Nil /\ env = Nil /\ GateNext
       /\ UNCHANGED <<vars, decisionVars, deployVars>>
    \/ scores # Nil /\ Predict /\ UNCHANGED <<vars, gateVars, deployVars>>
    \/ env # Nil /\ DeployNext /\ UNCHANGED <<vars, gateVars, decisionVars>>

MCSpec == MCInit /\ [][MCNext]_<<vars, gateVars, decisionVars, deployVars>>
=============================================================================
