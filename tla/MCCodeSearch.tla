---------------------------- MODULE MCCodeSearch ----------------------------
(* An instance of CodeSearchClient for TLC. *)
EXTENDS CodeSearchClient, TLC

CONSTANTS s1, s2, c1, c2

MCServers == {s1, s2}
MCOneServer == {s1}
MCClients == {c1, c2}
\* Both workers leave the mode at its default.
MCMode == c1 :> "auto" @@ c2 :> "auto"
\* One worker insists on the server.
MCMixedMode == c1 :> "auto" @@ c2 :> "server"
MCServerSymmetry == Permutations(MCServers)
=============================================================================
