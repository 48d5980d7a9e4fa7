--------------------------- MODULE SearchResults ---------------------------
(***************************************************************************)
(* What run() in src/src/tools/impl_code_search.py does with the results   *)
(* GitHub returned: duplicates are dropped, near duplicates are clustered  *)
(* and represented by one of them, twice, the best are kept, and on        *)
(* demand each is given the lines around its matches.                      *)
(*                                                                         *)
(* The results of a search are numbered 1, 2, ... in GitHub's order.  A    *)
(* page is a record of what matters of them: their repo and url, their     *)
(* score, and sim, how close two of them are, 0 when their embeddings are  *)
(* less similar than EMBED_SIM_THRESHOLD.                                  *)
(***************************************************************************)
EXTENDS Naturals, Sequences, FiniteSets, Subsequences

CONSTANTS
  Unknown,     \* a repository without a name
  BatchSize,   \* texts embedded at once
  MaxSampled,  \* 96: results that are kept at most
  LastLine,    \* number of a file's last line, counted from 0
  Pages,       \* what GitHub may return
  TextMatches(_),  \* the text matches a result of a page may have
  Contexts     \* context_lines

ASSUME SearchAssumption ==
  /\ BatchSize \in Nat \ {0}
  /\ MaxSampled \in Nat \ {0}
  /\ LastLine \in Nat
  /\ Contexts \subseteq Nat

VARIABLES
  page,     \* raw_results
  phase,    \* the phase of run() that is over, or "idle" when nobody searches
  results,  \* the numbers of the results that are left
  unique,   \* history: those the deduplication left
  matches,  \* history: text matches and context_lines of a result
  snippet   \* its chunks, once it is enriched

searchVars == <<page, phase, results, unique, matches, snippet>>

SearchInit(start, pages) ==
  /\ phase = start
  /\ page \in pages
  /\ results = <<>>
  /\ unique = <<>>
  /\ matches = <<>>
  /\ snippet = <<>>

Results == DOMAIN page.score

Listed(list) == {list[p] : p \in DOMAIN list}
Least(numbers) == CHOOSE n \in numbers : \A m \in numbers : n <= m

SearchTypeOK ==
  /\ phase \in {"idle", "fetched", "unique", "distinct", "sampled", "done"}
  /\ results \in Seq(Results)
  /\ unique \in Seq(Results)
  /\ page.score # <<>> /\ phase \notin {"idle", "fetched"} => results # <<>>
  /\ Len(results) <= Len(unique)

-----------------------------------------------------------------------------
(* Phase 2: duplicates *)

Same(i, j) ==
  \/ page.repo[i] = page.repo[j] /\ page.repo[i] # Unknown
  \/ page.url[i] = page.url[j]

\* The results that are kept after the first n; their repositories and urls count as seen.
Deduped ==
  LET kept[n \in 0..Len(page.score)] ==
        IF n = 0 THEN {}
        ELSE IF \E j \in kept[n - 1] : Same(n, j) THEN kept[n - 1] ELSE kept[n - 1] \cup {n}
  IN InOrder(kept[Len(page.score)])

-----------------------------------------------------------------------------
(* Phase 2b: near duplicates *)

\* _embed_with_codet5p, _embed_with_qwen: without the model or the key, or when a batch
\* fails or yields too few vectors, there are no embeddings at all.
Embeds(run, count) ==
  /\ run.ready
  /\ \A batch \in 1..((count + BatchSize - 1) \div BatchSize) : run.vectors[batch] = "all"

Sim(items, p, q) == page.sim[{items[p], items[q]}]

\* A cluster is as close to a result as its closest member.
Closest(items, p) ==
  {q \in 1..(p - 1) : /\ Sim(items, p, q) > 0
                     /\ \A r \in 1..(p - 1) : Sim(items, p, r) <= Sim(items, p, q)}

\* Where in items the cluster of items[p] begins: a result joins the first of the closest
\* clusters, or founds one.
Founder(items) ==
  LET founder[p \in DOMAIN items] ==
        IF Closest(items, p) = {} THEN p ELSE Least({founder[q] : q \in Closest(items, p)})
  IN founder

\* Faulty variant: the founder of a cluster stands for it.
First(items, cluster) == Least(cluster)

\* max(cluster, key=...): the first of those with the highest score.
Best(items, cluster) ==
  CHOOSE p \in cluster : \A q \in cluster :
    \/ page.score[items[q]] < page.score[items[p]]
    \/ page.score[items[q]] = page.score[items[p]] /\ p <= q

\* _cluster_and_pick_representatives: those of the clusters in the order of their founders;
\* without embeddings all stay.
Representatives(items, embedded) ==
  IF ~embedded THEN items
  ELSE LET founder == Founder(items)
           founders == InOrder({p \in DOMAIN items : founder[p] = p})
       IN [c \in DOMAIN founders |->
             items[Best(items, {p \in DOMAIN items : founder[p] = founders[c]})]]

-----------------------------------------------------------------------------
(* Phase 3: the best.  target_results plays no part in it. *)

ByScore(items) ==
  LET before == {pair \in (DOMAIN items) \X (DOMAIN items) :
        \/ page.score[items[pair[1]]] > page.score[items[pair[2]]]
        \/ page.score[items[pair[1]]] = page.score[items[pair[2]]] /\ pair[1] < pair[2]}
      order == Arranged(DOMAIN items, before)
  IN [p \in DOMAIN order |-> items[order[p]]]

\* sample_results clusters what it is given once more.
SampleResults(items, embedded) ==
  IF Len(items) <= 1 THEN items
  ELSE LET sorted == ByScore(Representatives(items, embedded))
       IN [n \in 1..(IF Len(sorted) < MaxSampled THEN Len(sorted) ELSE MaxSampled) |-> sorted[n]]

-----------------------------------------------------------------------------
(* Phase 4: context.  A text match of a result has a fragment, in segments, *)
(* and matches in it.  A match is given by whether it lies in a segment,    *)
(* and by the line of the file, if any, where that segment and where its    *)
(* line of the segment is found.                                            *)

\* _segment_for_fragment_index, and the search for the segment, else for its line.
Anchor(match) ==
  IF ~match.inSegment THEN {} ELSE IF match.segmentAt # {} THEN match.segmentAt ELSE match.lineAt

\* A page's scores and similarities are numbers, and what is found of a match is one line.
ASSUME PagesAssumption == \A p \in Pages :
  /\ p.score \in Seq(Nat)
  /\ \A i, j \in DOMAIN p.score : i # j => p.sim[{i, j}] \in Nat
  /\ \A texts \in TextMatches(p) :
       /\ DOMAIN texts \subseteq Nat /\ IsFiniteSet(DOMAIN texts)
       /\ \A t \in DOMAIN texts :
            /\ DOMAIN texts[t].matches \subseteq Nat /\ IsFiniteSet(DOMAIN texts[t].matches)
            /\ \A m \in DOMAIN texts[t].matches :
                 Anchor(texts[t].matches[m]) \in {{}} \cup {{line} : line \in 0..LastLine}

Window(line, context) ==
  <<IF line > context THEN line - context ELSE 0,
    IF LastLine < line + context THEN LastLine ELSE line + context>>

\* The matches that are found, each given by the places of its text match and of itself.
Located(textMatches) ==
  {place \in UNION {{t} \X (DOMAIN textMatches[t].matches) : t \in DOMAIN textMatches} :
     Anchor(textMatches[place[1]].matches[place[2]]) # {}}

Windows(textMatches, context) ==
  [place \in Located(textMatches) |->
     Window(CHOOSE line \in Anchor(textMatches[place[1]].matches[place[2]]) : TRUE, context)]

\* Windows by their first line, equal ones in the order of the matches.
Sorted(windows) ==
  LET before == {pair \in (DOMAIN windows) \X (DOMAIN windows) :
        LET p == pair[1]
            q == pair[2]
        IN \/ windows[p][1] < windows[q][1]
           \/ /\ windows[p][1] = windows[q][1]
              /\ p[1] < q[1] \/ (p[1] = q[1] /\ p[2] < q[2])}
      order == Arranged(DOMAIN windows, before)
  IN [n \in DOMAIN order |-> windows[order[n]]]

\* Faulty variant: the end of the later window is the end of both.
LastEndCounts(merged, w) ==
  IF merged = <<>> \/ w[1] > merged[Len(merged)][2] + 1 THEN Append(merged, w)
  ELSE [merged EXCEPT ![Len(merged)] = <<@[1], w[2]>>]

\* A window that overlaps or touches the last one is merged with it.
Joined(merged, w) ==
  IF merged = <<>> \/ w[1] > merged[Len(merged)][2] + 1 THEN Append(merged, w)
  ELSE [merged EXCEPT ![Len(merged)] = <<@[1], IF w[2] > @[2] THEN w[2] ELSE @[2]>>]

\* _merge_line_windows.
MergeLineWindows(windows) ==
  LET sorted == Sorted(windows)
      merged[n \in 0..Len(sorted)] ==
        IF n = 0 THEN <<>> ELSE Joined(merged[n - 1], sorted[n])
  IN merged[Len(sorted)]

\* Text matches none of whose matches is found offer their fragment instead.
Fallbacks(textMatches) ==
  {t \in DOMAIN textMatches : /\ textMatches[t].fragment
                              /\ \A m \in DOMAIN textMatches[t].matches :
                                   Anchor(textMatches[t].matches[m]) = {}}

\* _extract_chunks_from_text_matches: once one match is found, the fallbacks are dropped.
Chunks(textMatches, context) ==
  LET merged == MergeLineWindows(Windows(textMatches, context))
      fallbacks == InOrder(Fallbacks(textMatches))
  IN IF merged # <<>> THEN merged ELSE [f \in DOMAIN fallbacks |-> <<fallbacks[f]>>]

\* enrich_with_context: a snippet without chunks stays as it is.
Enriched(fetched, textMatches, context) == IF fetched THEN Chunks(textMatches, context) ELSE <<>>

-----------------------------------------------------------------------------
(* The phases of run().  The two runs of the embedding model may end        *)
(* differently.                                                             *)

EmbeddingRuns == [ready : BOOLEAN, vectors : [1..2 -> {"all", "some"}]]
Embedding(items) == {Embeds(run, Len(items)) : run \in EmbeddingRuns}

Deduplicate ==
  /\ phase = "fetched"
  /\ phase' = "unique"
  /\ results' = Deduped
  /\ unique' = Deduped
  /\ UNCHANGED <<page, matches, snippet>>

RemoveNearDuplicates ==
  /\ phase = "unique"
  /\ phase' = "distinct"
  /\ IF Len(results) > 1
     THEN \E embedded \in Embedding(results) : results' = Representatives(results, embedded)
     ELSE UNCHANGED results
  /\ UNCHANGED <<page, unique, matches, snippet>>

Sample ==
  /\ phase = "distinct"
  /\ phase' = "sampled"
  /\ \E embedded \in Embedding(results) : results' = SampleResults(results, embedded)
  /\ UNCHANGED <<page, unique, matches, snippet>>

\* Without FETCH_FULL_CONTENT the snippets stay as GitHub returned them; else the results
\* are enriched one by one, of which one is followed.
Enrich ==
  /\ phase = "sampled"
  /\ phase' = "done"
  /\ \/ UNCHANGED <<matches, snippet>>
     \/ \E textMatches \in TextMatches(page), context \in Contexts, fetched \in BOOLEAN :
          /\ matches' = <<textMatches, context, fetched>>
          /\ snippet' = Enriched(fetched, textMatches, context)
  /\ UNCHANGED <<page, results, unique>>

SearchNext == Deduplicate \/ RemoveNearDuplicates \/ Sample \/ Enrich

SearchSpec == SearchInit("fetched", Pages) /\ [][SearchNext]_searchVars

-----------------------------------------------------------------------------
(* Properties *)

\* A chain of near results leads from i to k: no part of the results that is apart from
\* the others has i and not k.
Linked(among, i, k) ==
  \A part \in SUBSET among :
    i \in part /\ (\A p \in part, q \in among \ part : page.sim[{p, q}] = 0) => k \in part

\* Diversity costs no find: what the search drops is a duplicate of a result that the
\* deduplication keeps, or is represented by one as good that a chain of near results
\* leads to, or fell to the cap with none kept that is worse.
Represented ==
  LET kept == Listed(results)
      Score(i) == page.score[i]
  IN /\ phase = "unique" =>
          /\ \A i \in Results : \E j \in kept : i = j \/ Same(i, j)
          /\ \A i, j \in kept : i # j => ~Same(i, j)
     /\ phase = "sampled" => \A i \in Listed(unique) :
          \/ \E k \in kept : Linked(Listed(unique), i, k) /\ Score(k) >= Score(i)
          \/ Cardinality(kept) = MaxSampled /\ \A k \in kept : Score(k) >= Score(i)

\* The chunks of an enriched result are the lines around its matches that were found, all
\* of them and no others, in order and apart; and without such, its fragments.
ContextComplete == matches # <<>> /\ matches[3] =>
  LET textMatches == matches[1]
      anchors == UNION {UNION {Anchor(textMatches[t].matches[m]) :
                                 m \in DOMAIN textMatches[t].matches} : t \in DOMAIN textMatches}
      around == {l \in 0..LastLine : \E a \in anchors : l <= a + matches[2] /\ a <= l + matches[2]}
      windows == Listed(snippet)
  IN IF anchors = {}
     THEN windows = {<<t>> : t \in {u \in DOMAIN textMatches : textMatches[u].fragment}}
     ELSE /\ UNION {w[1]..w[2] : w \in windows} = around
          /\ \A c \in 1..(Len(snippet) - 1) : snippet[c][2] + 1 < snippet[c + 1][1]
=============================================================================
