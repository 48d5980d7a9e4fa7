---------------------------- MODULE MCGithubGate ----------------------------
(* Instances of GithubGate for TLC: two worker threads of one process or of *)
(* two, with one token.                                                     *)
EXTENDS GithubGate, TLC

CONSTANTS p1, p2, t1, t2, tok

MCThreads == {t1, t2}
OneProcess == t1 :> p1 @@ t2 :> p1
TwoProcesses == t1 :> p1 @@ t2 :> p2
OneToken == [t \in MCThreads |-> tok]
=============================================================================
