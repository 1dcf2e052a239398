--------------------------- MODULE MCPersistence ---------------------------
(***************************************************************************)
(* Three requests on two threads, two transactions each, against a spool   *)
(* of one row: enough for two threads to pass the bound together, for a    *)
(* drain to read the line of one request while another appends its own,    *)
(* and for a third request to find the spool full or the line torn.        *)
(***************************************************************************)
EXTENDS Persistence, TLC

CONSTANTS r1, r2, r3

MCRequests == {r1, r2, r3}
MCTwo == {r1, r2}
MCThird == {r3}
NoPoison == {}
MCSymmetry == Permutations(MCTwo)

NoIO == {"db", "ambiguous", "crash"}
OnlyDb == {"db"}
DbAndTear == {"db", "crash", "tear"}
=============================================================================
