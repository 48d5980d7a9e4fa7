---------------------------- MODULE QueryAgents ----------------------------
(***************************************************************************)
(* The two query agents the package src/src/agents offers, QueryAgent over *)
(* the code-search tool and QueryAgentGH over the gh command, and what the *)
(* tool does with the results of a search.  A caller uses one of them, and *)
(* the others have nothing to do.                                          *)
(***************************************************************************)
EXTENDS QueryAgent, QueryAgentGH, SearchResults

apiVars == <<node, hasQueries, saved, seenIds, refineDone, turn, round, offers>>

NoPage == {CHOOSE p \in Pages : p.score = <<>>}

\* Either of the agents is called, or the search tool on its own.
AgentsInit ==
  \/ InitAt("generate") /\ GhInit("done") /\ SearchInit("idle", NoPage)
  \/ InitAt("done") /\ GhInit("query") /\ SearchInit("idle", NoPage)
  \/ InitAt("done") /\ GhInit("done") /\ SearchInit("fetched", Pages)

AgentsNext ==
  \/ Next /\ UNCHANGED <<ghVars, searchVars>>
  \/ GhNext /\ UNCHANGED <<apiVars, searchVars>>
  \/ SearchNext /\ UNCHANGED <<apiVars, ghVars>>

agentsVars == <<apiVars, ghVars, searchVars>>

\* Calls to the LLM, to GitHub and to the embedding model return.
AgentsSpec == AgentsInit /\ [][AgentsNext]_agentsVars /\ WF_agentsVars(AgentsNext)

AgentsTypeOK == TypeOK /\ GhTypeOK /\ SearchTypeOK

\* The call ends, with either agent and whatever is found.
AgentTerminates ==
  <>(node \in {"done", "failed"} /\ ghNode \in {"done", "failed"} /\ phase \in {"idle", "done"})
=============================================================================
