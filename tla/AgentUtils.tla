----------------------------- MODULE AgentUtils -----------------------------
(***************************************************************************)
(* The functions of src/src/agents/utils.py with which every agent reads   *)
(* an answer of the LLM.                                                   *)
(***************************************************************************)
EXTENDS Naturals, Sequences
LOCAL F == INSTANCE FiniteSetsExt

(* Code is a sequence of lines, and a line is one of a few kinds: the two   *)
(* tags of mutated code, a fence with and without a language, code, and an  *)
(* empty line.                                                              *)
Lines == {"open", "close", "lang", "fence", "code", "blank"}

\* strip(): without the empty lines around the rest.
Strip(text) ==
  LET full == {i \in DOMAIN text : text[i] # "blank"}
  IN IF full = {} THEN <<>> ELSE SubSeq(text, F!Min(full), F!Max(full))

\* strip_code_fence: the pattern is greedy, so the last line is the closing fence
\* whatever fences stand between.
IsFenced(text) ==
  Len(text) >= 2 /\ text[1] \in {"lang", "fence"} /\ text[Len(text)] = "fence"

StripFence(text) == IF IsFenced(text) THEN Strip(SubSeq(text, 2, Len(text) - 1)) ELSE text

-----------------------------------------------------------------------------
(* JSON is looked for in a fenced block and between the outermost braces;   *)
(* of the object matters only what it holds under the key that is read.     *)
LlmAnswers(words) == [fenced : BOOLEAN, bare : BOOLEAN, entries : SUBSET words]

\* parse_json: the empty object when neither place holds JSON.
ParseJson(answer) == IF answer.fenced \/ answer.bare THEN answer.entries ELSE {}
=============================================================================
