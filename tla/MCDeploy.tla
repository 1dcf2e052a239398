------------------------------- MODULE MCDeploy -------------------------------
(***************************************************************************)
(* Two instances, of which the second runs two images, and two commits.    *)
(***************************************************************************)
EXTENDS Deploy, TLC

CONSTANTS sha1, sha2

MCCommits == {sha1, sha2}
MCOrder == <<"backend", "frontend">>
MCNeeds == ("backend" :> {"backend"}) @@ ("frontend" :> {"frontend", "reviewer"})

=============================================================================
