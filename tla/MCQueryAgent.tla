---------------------------- MODULE MCQueryAgent ----------------------------
(* An instance of QueryAgents for TLC: both directions, two results for the  *)
(* agent, three for the older one, and for the search tool all pages of up   *)
(* to four results and text matches within these bounds.                     *)
EXTENDS QueryAgents

CONSTANTS fn, fp, a, b, x, y, z

MCDirections == {fn, fp}
MCSnippets == {a, b}
MCItems == {x, y, z}

Pairs(n) == {{i, j} : i, j \in 1..n} \ {{i} : i \in 1..n}

\* Four results without duplicates, as close to each other as may be.
DistinctPages ==
  {[repo |-> <<1, 2, 3, 4>>, url |-> <<1, 2, 3, 4>>, score |-> score, sim |-> sim] :
     score \in {<<1, 2, 3, 4>>, <<4, 3, 2, 1>>, <<1, 2, 1, 2>>, <<1, 1, 2, 2>>},
     sim \in [Pairs(4) -> 0..2]}

\* Three results, any of them of one repository or one url.
MixedPages ==
  {[repo |-> repo, url |-> url, score |-> score, sim |-> sim] :
     repo \in [1..3 -> {1, 2, Unknown}],
     url \in {<<1, 1, 1>>, <<1, 1, 2>>, <<1, 2, 1>>, <<1, 2, 2>>, <<1, 2, 3>>},
     score \in {<<1, 2, 3>>, <<2, 3, 1>>},
     sim \in [Pairs(3) -> 0..1]}

OnePage == [repo |-> <<1>>, url |-> <<1>>, score |-> <<1>>, sim |-> <<>>]
EmptyPage == [repo |-> <<>>, url |-> <<>>, score |-> <<>>, sim |-> <<>>]
MCPages == DistinctPages \cup MixedPages \cup {OnePage, EmptyPage}

\* A match is found in one of the two ways or not; a text match has none, one or two of them.
Matches ==
  [inSegment : {TRUE}, segmentAt : {{}} \cup {{l} : l \in 0..LastLine}, lineAt : {{}}]
  \cup [inSegment : {TRUE}, segmentAt : {{}}, lineAt : {{l} : l \in 0..LastLine}]
  \cup [inSegment : {FALSE}, segmentAt : {{LastLine}}, lineAt : {{0}}]
OneText == [fragment : BOOLEAN, matches : {<<m, n>> : m, n \in Matches}]
TwoTexts == [fragment : {TRUE}, matches : {<<>>} \cup {<<m>> : m \in Matches}]

\* A single result has any text matches, one of several results none.
MCTextMatches(p) ==
  IF p = OnePage THEN [1..1 -> OneText] \cup UNION {[1..count -> TwoTexts] : count \in 2..3} ELSE {<<>>}
MCContexts == 0..1
=============================================================================
