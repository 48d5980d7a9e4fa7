----------------------------- MODULE MCPipeline -----------------------------
(* Instances of Pipeline for TLC: a rule whose logic tree is one predicate, a *)
(* predicate under a predicate, or three or four leaves; the environments of  *)
(* the normal run and of the ablations, each with another analyzer.           *)
EXTENDS Pipeline

a == <<"a">>
b == <<"b">>
c == <<"c">>
d == <<"d">>
Leaf(depth, name) == Node(depth, name, <<>>)
Operator == Leaf(0, NoName)

MCTrees ==
  {<<Leaf(0, a)>>,
   <<Operator, Leaf(1, a), Leaf(2, b), Leaf(1, c)>>,
   <<Operator, Leaf(1, a), Leaf(1, b), Leaf(1, a)>>,
   <<Operator, Leaf(1, a), Leaf(1, b), Leaf(1, c), Leaf(1, d)>>}

MCMatchLists == {<<>>, <<"">>, <<"x">>, <<"x", "", "y">>}

SplitOf(target, into) == [op |-> "split", target |-> target, into |-> into]
MergeOf(targets, name, given) ==
  [op |-> "merge", targets |-> targets, name |-> name, covered |-> given]
Inherits(name) == [name |-> name, inherits |-> TRUE, covered |-> <<>>]
Gives(name, codes) == [name |-> name, inherits |-> FALSE, covered |-> codes]

MCOperations ==
  {[op |-> "other"],
   SplitOf(a, <<Inherits(a), Inherits(b)>>),
   SplitOf(c, <<Gives(c, <<>>), Inherits(NoName), Inherits(d)>>),
   SplitOf(b, <<Inherits(b), Inherits(NoName)>>),
   MergeOf(<<a, b, c>>, NoName, <<>>),
   MergeOf(<<c, a>>, c, <<>>),
   MergeOf(<<a, b>>, b, <<"z">>),
   MergeOf(<<b, c>>, NoName, <<>>),
   MergeOf(<<a, b, b>>, NoName, <<>>),
   MergeOf(<<a, a>>, NoName, <<>>),
   MergeOf(<<a, NoName>>, NoName, <<>>)}

Setting(tool, refine, earlyExit, cap, direct) ==
  [tool |-> tool, refine |-> refine, earlyExit |-> earlyExit, bLow |-> 0, bHigh |-> 3,
   cap |-> cap, direct |-> direct]

MCSettings ==
  {Setting("bandit", TRUE, FALSE, 2, FALSE),
   Setting("codeql", FALSE, TRUE, 1, TRUE),
   Setting("semgrep", TRUE, TRUE, 1, FALSE),
   Setting("spotbugs", FALSE, FALSE, 1, FALSE)}
=============================================================================
