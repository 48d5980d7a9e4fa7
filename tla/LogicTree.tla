----------------------------- MODULE LogicTree -----------------------------
(***************************************************************************)
(* The logic tree of a rule and the operations analysis_agent.py performs  *)
(* on it.  A tree is the sequence of its nodes in the order of a walk from *)
(* the root; a node has its depth, the name of its predicate and the codes *)
(* matched to it.  An operator node has no name.  A name is a sequence of  *)
(* words: "_and_".join(targets) is the concatenation of the names.         *)
(***************************************************************************)
EXTENDS Subsequences
Lists == INSTANCE SequencesExt
Sets == INSTANCE FiniteSetsExt

NoName == <<>>
Node(depth, name, covered) == [depth |-> depth, name |-> name, covered |-> covered]

\* A list of anything.
IsList(list) == list \in Seq(Lists!ToSet(list))

IsTree(t) ==
  /\ IsList(t) /\ \A i \in DOMAIN t : IsList(t[i].covered)
  /\ t # <<>> => t[1].depth = 0
  /\ \A i \in 2..Len(t) : t[i].depth \in 1..(t[i - 1].depth + 1)

\* Where the walk leaves the subtree of node i.
LastOf(t, i) ==
  LET out == {j \in (i + 1)..Len(t) : t[j].depth <= t[i].depth}
  IN IF out = {} THEN Len(t) ELSE Sets!Min(out) - 1

\* 0 for the root.
Parent(t, i) ==
  LET above == {j \in 1..(i - 1) : t[j].depth < t[i].depth}
  IN IF above = {} THEN 0 ELSE Sets!Max(above)

Children(t, p) == InOrder({i \in DOMAIN t : i > 1 /\ Parent(t, i) = p})

\* t with the subtree of node i replaced.
Replace(t, i, nodes) == SubSeq(t, 1, i - 1) \o nodes \o SubSeq(t, LastOf(t, i) + 1, Len(t))

-----------------------------------------------------------------------------
\* _find_predicate_node: the first of the name, 0 for none.
Find(t, name) ==
  LET found == {i \in DOMAIN t : t[i].name = name}
  IN IF name = NoName \/ found = {} THEN 0 ELSE Sets!Min(found)

\* extract_predicates_from_tree.
Predicates(t) == Kept(t, {i \in DOMAIN t : t[i].name # NoName})

Names(t) == {t[i].name : i \in DOMAIN t} \ {NoName}
Codes(t) == UNION {Lists!ToSet(t[i].covered) : i \in DOMAIN t}

\* rebuild_logic_tree_with_mappings: nodes of one name get the same codes.
WithMappings(t, mappings) ==
  [i \in DOMAIN t |->
     IF t[i].name = NoName THEN t[i]
       ELSE Node(t[i].depth, t[i].name,
                 IF t[i].name \in DOMAIN mappings THEN mappings[t[i].name] ELSE <<>>)]

\* _extract_predicates of pipeline_agent.py: predicates with matched code.
WithCode(t) == Kept(t, {i \in DOMAIN t : t[i].name # NoName /\ t[i].covered # <<>>})

-----------------------------------------------------------------------------
(* An operation of the LLM's answer is                                      *)
(*   [op |-> "split", target, into], a child being [name, inherits, covered],  *)
(*   [op |-> "merge", targets, name, covered], or [op |-> "other"].         *)
(* A name it does not give is NoName; a child of a split inherits the codes *)
(* it does not give, a merge without codes, <<>>, joins them.               *)

\* What stands in the place of a list is a list.
ListsGiven(op) ==
  /\ op.op = "split" => IsList(op.into) /\ \A k \in DOMAIN op.into : IsList(op.into[k].covered)
  /\ op.op = "merge" => IsList(op.targets) /\ IsList(op.covered)

\* _apply_split_operation: valid children take over the codes of the target, its
\* own children are gone, and an operator node stands in its place.
ValidEntries(op) == Kept(op.into, {k \in DOMAIN op.into : op.into[k].name # NoName})

Splits(t, op) == Find(t, op.target) # 0 /\ Len(ValidEntries(op)) >= 2

Split(t, op) ==
  LET at == Find(t, op.target)
      Child(entry) ==
        Node(t[at].depth + 1, entry.name,
             IF entry.inherits THEN t[at].covered ELSE entry.covered)
      children == [k \in DOMAIN ValidEntries(op) |-> Child(ValidEntries(op)[k])]
  IN Replace(t, at, <<Node(t[at].depth, NoName, <<>>)>> \o children)

\* Where _apply_merge_operation finds its targets, in their order.
Locations(t, op) ==
  LET targets == Kept(op.targets, {k \in DOMAIN op.targets : op.targets[k] # NoName})
  IN [k \in DOMAIN targets |-> Find(t, targets[k])]

\* Two valid targets or more, all in the tree, siblings, and none the root.
Merges(t, op) ==
  LET at == Locations(t, op) IN
  /\ Len(op.targets) >= 2 /\ Len(at) >= 2
  /\ 0 \notin Lists!ToSet(at)
  /\ Cardinality({Parent(t, at[k]) : k \in DOMAIN at}) = 1
  /\ Parent(t, at[1]) # 0

\* Faulty variant: the merged node has the codes of its first target.
FirstCodes(t, at) == t[at[1]].covered

\* The codes of all targets, each once; what reads them does not depend on their order.
JoinedCodes(t, at) == Lists!SetToSeq(UNION {Lists!ToSet(t[at[k]].covered) : k \in DOMAIN at})

\* del children[place], if there is such a child.
Without(children, place) ==
  IF place \in DOMAIN children THEN Lists!RemoveAt(children, place) ELSE children

\* Faulty variant: the lower child goes first, and the others move up.
RemoveInOrder(children, places) ==
  LET left[n \in 0..(Len(places) - 1)] ==
        IF n = 0 THEN children ELSE Without(left[n - 1], places[n + 1])
  IN left[Len(places) - 1]

\* All children but the first of the places, the last one first; a place listed
\* twice is deleted twice, if there is one then.
RemoveMerged(children, places) ==
  LET left[n \in 0..(Len(places) - 1)] ==
        IF n = 0 THEN children ELSE Without(left[n - 1], places[Len(places) + 1 - n])
  IN left[Len(places) - 1]

\* The places of the targets among the children, in order.
Places(siblings, at) ==
  LET PlaceOf(k) == CHOOSE place \in DOMAIN siblings : siblings[place] = at[k]
      before == {pair \in (DOMAIN at) \X (DOMAIN at) :
        \/ PlaceOf(pair[1]) < PlaceOf(pair[2])
        \/ PlaceOf(pair[1]) = PlaceOf(pair[2]) /\ pair[1] < pair[2]}
      order == Arranged(DOMAIN at, before)
  IN [n \in DOMAIN order |-> PlaceOf(order[n])]

Deleted(siblings, at) ==
  Lists!ToSet(siblings) \ Lists!ToSet(RemoveMerged(siblings, Places(siblings, at)))

\* _apply_merge_operation: the first of the targets becomes the merged node, without
\* children, and what is deleted goes with its subtree.
Merge(t, op) ==
  LET at == Locations(t, op)
      first == Sets!Min(Lists!ToSet(at))
      merged ==
        Node(t[first].depth,
             IF op.name = NoName THEN Lists!FlattenSeq(op.targets) ELSE op.name,
             IF op.covered = <<>> THEN JoinedCodes(t, at) ELSE op.covered)
      deleted == Deleted(Children(t, Parent(t, at[1])), at)
      gone == ((first + 1)..LastOf(t, first)) \cup UNION {i..LastOf(t, i) : i \in deleted}
  IN Kept([t EXCEPT ![first] = merged], DOMAIN t \ gone)

Applies(t, op) ==
  \/ op.op = "split" /\ Splits(t, op)
  \/ op.op = "merge" /\ Merges(t, op)

\* One round of the loop of refine_logic_tree: an operation that does not apply
\* is skipped.
Apply(t, op) ==
  IF ~Applies(t, op) THEN t ELSE IF op.op = "split" THEN Split(t, op) ELSE Merge(t, op)
=============================================================================
