----------------------------- MODULE Synthesis -----------------------------
(***************************************************************************)
(* How the synthesis agents (src/src/agents/synthesis_agent.py and         *)
(* synthesis_agent_direct.py) read a mutant from the LLM's answer.  An     *)
(* answer is a sequence of lines of AgentUtils.                            *)
(***************************************************************************)
EXTENDS AgentUtils
LOCAL L == INSTANCE FiniteSetsExt
LOCAL S == INSTANCE SequencesExt

\* What the LLM may say: up to five lines in any order.
Answers == S!BoundedSeq(Lines, 5)

\* _extract_tag: from the first opening tag to the first closing tag behind it.
ExtractTag(answer) ==
  LET opens == {i \in DOMAIN answer : answer[i] = "open"}
      closes == {j \in DOMAIN answer : answer[j] = "close" /\ \E i \in opens : i < j}
  IN IF closes = {} THEN <<>> ELSE Strip(SubSeq(answer, L!Min(opens) + 1, L!Min(closes) - 1))

\* synthesize_step: an answer without code is no result.
SynthesizedCode(answer) == StripFence(ExtractTag(answer))
SynthesisResults == {SynthesizedCode(answer) # <<>> : answer \in Answers}

\* direct_mutate_step reads its answer in the same way, without a snippet.
MutatedCode(answer) == StripFence(ExtractTag(answer))
MutationResults == {MutatedCode(answer) # <<>> : answer \in Answers}
=============================================================================
