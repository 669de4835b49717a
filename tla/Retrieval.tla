----------------------------- MODULE Retrieval -----------------------------
(***************************************************************************)
(* Hybrid search over the index while ingestion writes it:                 *)
(* rag/hybrid_retriever.py over the vector and the keyword store, the      *)
(* cached query embedding, the reranker, and what the retriever tool makes *)
(* of the outcome.                                                         *)
(***************************************************************************)
EXTENDS Indexing

CONSTANTS
  Searches,          \* calls of the retriever tool
  Queries, QueryOf,  \* what is asked, and by which search
  TopK,              \* the tool's top_k
  FusionCandidates,  \* the depth of both searches and of the reranked pool
  RrfK,              \* rag_rrf_k
  RetrievalWeight,   \* the reranker's retrieval_weight, in tenths
  MaxFaults          \* bound: components that fail a search

ASSUME RetrievalAssumption ==
  /\ TopK \in Nat \ {0} /\ FusionCandidates \in Nat \ {0} /\ RrfK \in Nat \ {0}
  /\ FusionCandidates <= RrfK + 1 /\ RetrievalWeight \in 0..10
  /\ QueryOf \in [Searches -> Queries] /\ MaxFaults \in Nat

VARIABLES
  search,   \* every search
  cached,   \* the queries whose vector the cache holds
  faults    \* failed components so far

searchVars == <<search, cached, faults>>
retrievalVars == <<indexVars, searchVars>>

IdleSearch == [pc |-> "idle", failed |-> {}, waiting |-> {"vector", "word"}, byVector |-> <<>>,
               byWord |-> <<>>, fused |-> <<>>, result |-> <<>>, mode |-> "none"]

SearchInit(asking) ==
  /\ search = [s \in Searches |-> IF s \in asking THEN IdleSearch
                                  ELSE [IdleSearch EXCEPT !.pc = "absent"]]
  /\ cached = {} /\ faults = 0

\* The orders in which a store may rank some chunks.
Rankings(ids) ==
  {p \in [1..Cardinality(ids) -> ids] : \A i, j \in DOMAIN p : p[i] = p[j] => i = j}
\* The rows it returns, at most as many as it is asked for.
Some(ids) == {found \in SUBSET ids : Cardinality(found) <= FusionCandidates}
Rows(p) == [i \in 1..Len(p) |-> [id |-> p[i], text |-> text[p[i][1]][p[i][2]]]]

Searchable == {id \in Files \X Sequence : vector[id[1]][id[2]] # Nothing}
Readable   == {id \in Files \X Sequence : text[id[1]][id[2]] # Nothing}
\* Every vector has a distance, but the index is searched approximately, and only
\* then are other models' vectors left out: any of the chunks come back, or none.
Neighbours == UNION {Rankings(near) : near \in Some(Searchable)}
\* Full-text search returns the rows whose words the query asks for.
Matches == UNION {Rankings(matching) : matching \in Some(Readable)}

Ask(s) ==
  /\ search[s].pc = "idle"
  /\ \E blank \in BOOLEAN :
       search' = [search EXCEPT ![s].pc = IF blank THEN "no_results" ELSE "embed",
                                ![s].mode = IF blank THEN "blank" ELSE @]
  /\ UNCHANGED <<indexVars, cached, faults>>

\* CachingEmbeddingProvider: a hit, or the model and then the cache.
RememberQuery(s) == cached' = cached \cup {QueryOf[s]}
EmbedQuery(s) ==
  /\ search[s].pc = "embed"
  /\ RememberQuery(s)
  /\ search' = [search EXCEPT ![s].pc = "search"]
  /\ UNCHANGED <<indexVars, faults>>

\* The model or the cache raises: the search goes on by keyword alone.
EmbedQueryFails(s) ==
  /\ search[s].pc = "embed" /\ faults < MaxFaults
  /\ search' = [search EXCEPT ![s].pc = "search", ![s].failed = {"embedding"},
                              ![s].waiting = {"word"}]
  /\ cached' \in {cached, cached \cup {QueryOf[s]}}
  /\ faults' = faults + 1
  /\ UNCHANGED indexVars

CacheExpires(q) ==
  /\ q \in cached /\ cached' = cached \ {q}
  /\ UNCHANGED <<indexVars, search, faults>>

\* mutant: an empty index is never answered
VectorSearchWaits(s) ==
  /\ search[s].pc = "search" /\ "vector" \in search[s].waiting /\ Searchable # {}
  /\ \E p \in Neighbours :
       search' = [search EXCEPT ![s].byVector = Rows(p), ![s].waiting = @ \ {"vector"}]
  /\ UNCHANGED <<indexVars, cached, faults>>

VectorSearch(s) ==
  /\ search[s].pc = "search" /\ "vector" \in search[s].waiting
  /\ \E p \in Neighbours :
       search' = [search EXCEPT ![s].byVector = Rows(p), ![s].waiting = @ \ {"vector"}]
  /\ UNCHANGED <<indexVars, cached, faults>>

KeywordSearch(s) ==
  /\ search[s].pc = "search" /\ "word" \in search[s].waiting
  /\ \E p \in Matches :
       search' = [search EXCEPT ![s].byWord = Rows(p), ![s].waiting = @ \ {"word"}]
  /\ UNCHANGED <<indexVars, cached, faults>>

VectorSearchFails(s) ==
  /\ search[s].pc = "search" /\ "vector" \in search[s].waiting /\ faults < MaxFaults
  /\ search' = [search EXCEPT ![s].waiting = @ \ {"vector"}, ![s].failed = @ \cup {"vector"}]
  /\ faults' = faults + 1
  /\ UNCHANGED <<indexVars, cached>>

KeywordSearchFails(s) ==
  /\ search[s].pc = "search" /\ "word" \in search[s].waiting /\ faults < MaxFaults
  /\ search' = [search EXCEPT ![s].waiting = @ \ {"word"}, ![s].failed = @ \cup {"keyword"}]
  /\ faults' = faults + 1
  /\ UNCHANGED <<indexVars, cached>>

-----------------------------------------------------------------------------
(* Reciprocal rank fusion *)

\* 1 / (k + rank) in units that make every reciprocal whole.
Unit == FoldSet(LAMBDA r, acc : (RrfK + r) * acc, 1, 1..FusionCandidates)

Reciprocal(rows, id) ==
  LET ranks == {r \in DOMAIN rows : rows[r].id = id}
  IN IF ranks = {} THEN 0 ELSE Unit \div (RrfK + Min(ranks))

RrfScore(byVector, byWord, id) == Reciprocal(byVector, id) + Reciprocal(byWord, id)

\* Places in a list, the best score first; equal scores stay in their order.
BestFirst(places, score) ==
  CHOOSE p \in SetToSeqs(places) : \A i, j \in 1..Cardinality(places) : i < j =>
    score[p[i]] > score[p[j]] \/ (score[p[i]] = score[p[j]] /\ p[i] < p[j])

\* One result per chunk, as it was met first: the vector store's come first.
FirstMet(all) == {i \in DOMAIN all : \A j \in 1..(i - 1) : all[j].id # all[i].id}
Fused(byVector, byWord) ==
  LET all   == byVector \o byWord
      order == BestFirst(FirstMet(all),
                         [i \in DOMAIN all |-> RrfScore(byVector, byWord, all[i].id)])
  IN [k \in DOMAIN order |-> all[order[k]]]

SemanticDown(failed) == failed \cap {"embedding", "vector"} # {}

Mode(failed) == IF SemanticDown(failed) THEN "keyword_only"
                ELSE IF "keyword" \in failed THEN "vector_only" ELSE "full"

\* mutant: the search is unavailable only when every component has failed
FuseWhateverFailed(s) ==
  LET fused == Fused(search[s].byVector, search[s].byWord)
  IN /\ search[s].pc = "search" /\ search[s].waiting = {}
     /\ search' = [search EXCEPT
          ![s].mode = Mode(search[s].failed), ![s].fused = fused,
          ![s].pc = IF search[s].failed = {"embedding", "vector", "keyword"} THEN "unavailable"
                    ELSE IF fused = <<>> THEN "no_results" ELSE "rerank"]
     /\ UNCHANGED <<indexVars, cached, faults>>

Fuse(s) ==
  LET fused == Fused(search[s].byVector, search[s].byWord)
      down  == SemanticDown(search[s].failed) /\ "keyword" \in search[s].failed
  IN /\ search[s].pc = "search" /\ search[s].waiting = {}
     /\ search' = [search EXCEPT
          ![s].mode = Mode(search[s].failed), ![s].fused = fused,
          ![s].pc = IF down THEN "unavailable"
                    ELSE IF fused = <<>> THEN "no_results" ELSE "rerank"]
     /\ UNCHANGED <<indexVars, cached, faults>>

\* The combined score of the candidate at a rank, whose cross-encoder score is
\* ce halves: (1 - w) * ce + w * (1 - (rank - 1) / max(n - 1, 1)), scaled.
Combined(ce, rank, n) ==
  LET span == Greater(n - 1, 1)
  IN (10 - RetrievalWeight) * ce * span + 2 * RetrievalWeight * (span - (rank - 1))

Prefix(seq, n) == SubSeq(seq, 1, Lesser(n, Len(seq)))

Rerank(s) ==
  LET pool == Prefix(search[s].fused, FusionCandidates)
      n    == Len(pool)
  IN /\ search[s].pc = "rerank"
     /\ \E ce \in [1..n -> 0..2] :
          LET order == BestFirst(1..n, [i \in 1..n |-> Combined(ce[i], i, n)])
          IN search' = [search EXCEPT ![s].pc = "results",
                          ![s].result = Prefix([k \in 1..n |-> pool[order[k]]], TopK)]
     /\ UNCHANGED <<indexVars, cached, faults>>

\* The fused order stands in for the reranked one, but only in a full search.
RerankFails(s) ==
  /\ search[s].pc = "rerank" /\ faults < MaxFaults
  /\ search' = [search EXCEPT ![s].failed = @ \cup {"reranker"},
       ![s].pc = IF search[s].mode = "full" THEN "results" ELSE "unavailable",
       ![s].mode = IF search[s].mode = "full" THEN "no_rerank" ELSE @,
       ![s].result = IF search[s].mode = "full" THEN Prefix(search[s].fused, TopK) ELSE @]
  /\ faults' = faults + 1
  /\ UNCHANGED <<indexVars, cached>>

\* The turn is cancelled or times out while the tool waits.
CancelSearch(s) ==
  /\ search[s].pc \in {"embed", "search", "rerank"}
  /\ search' = [search EXCEPT ![s].pc = "cancelled"]
  /\ UNCHANGED <<indexVars, cached, faults>>

SearchStep(s) ==
  EmbedQuery(s) \/ VectorSearch(s) \/ KeywordSearch(s) \/ Fuse(s) \/ Rerank(s)

SearchNext ==
  \/ \E s \in Searches :
       \/ Ask(s) \/ SearchStep(s) \/ EmbedQueryFails(s) \/ VectorSearchFails(s)
       \/ KeywordSearchFails(s) \/ RerankFails(s) \/ CancelSearch(s)
  \/ \E q \in Queries : CacheExpires(q)

RetrievalNext == (IndexNext /\ UNCHANGED searchVars) \/ SearchNext

\* What the golden-dataset evaluation takes the mode of a search for: it wraps
\* every component and only sees which of them raised.
ModeUsed(failed, unavailable) ==
  IF unavailable THEN "unavailable"
  ELSE IF SemanticDown(failed) THEN "keyword_only"
  ELSE IF "keyword" \in failed THEN "vector_only"
  ELSE IF "reranker" \in failed THEN "no_rerank" ELSE "full"

-----------------------------------------------------------------------------
Ended == {"results", "no_results", "unavailable", "cancelled"}

RetrievalTypeOK ==
  /\ IndexTypeOK
  /\ cached \subseteq Queries /\ faults \in 0..MaxFaults
  /\ \A s \in Searches :
       /\ search[s].pc \in Ended \cup {"idle", "absent", "embed", "search", "rerank"}
       /\ search[s].waiting \subseteq {"vector", "word"}
       /\ search[s].failed \subseteq {"embedding", "vector", "keyword", "reranker"}
       /\ search[s].mode \in {"none", "blank", "full", "keyword_only", "vector_only",
                              "no_rerank"}

\* The table of rag/README.md:111: a search that answers has lost at most one of
\* embedding or vector store, keyword store and reranker, whatever the order in
\* which they failed, and one that gives up has lost two (hybrid_retriever.py:299,
\* :333).
OneFailureTolerated ==
  \A s \in Searches :
    LET lost == Cardinality(search[s].failed)
    IN /\ search[s].pc \in {"results", "no_results"} => lost <= 1
       /\ search[s].pc = "unavailable" => lost = 2

\* What is handed to the agent: no chunk twice although two stores found it, at
\* most top_k, and every chunk that both stores found ahead, in the fused order,
\* of every chunk that only one did (hybrid_retriever.py:391; rag/README.md:101).
FusionRight ==
  \A s \in Searches :
    LET fused == search[s].fused
        both(k) == /\ \E i \in DOMAIN search[s].byVector : search[s].byVector[i].id = fused[k].id
                   /\ \E i \in DOMAIN search[s].byWord : search[s].byWord[i].id = fused[k].id
    IN /\ \A i, j \in DOMAIN fused : fused[i].id = fused[j].id => i = j
       /\ \A i, j \in DOMAIN fused : both(j) /\ ~both(i) => j < i
       /\ IsInjective([i \in DOMAIN search[s].result |-> search[s].result[i].id])
       /\ Len(search[s].result) <= TopK

\* The evaluation of a degraded mode measures that mode: what it infers from the
\* components that raised is the mode the search ran in (retrieval_mode.py:131).
EvaluatedModeIsTheMode ==
  \A s \in Searches :
    search[s].pc \in {"results", "no_results", "unavailable"} /\ search[s].mode # "blank" =>
      ModeUsed(search[s].failed, search[s].pc = "unavailable")
        = IF search[s].pc = "unavailable" THEN "unavailable" ELSE search[s].mode

\* What is indexed is the file: every letter in order in its chunks, every chunk
\* with the vector of its own text, every processed file whole.
IndexRight == RetrievalTypeOK /\ VectorMatchesText /\ ProcessedIsIndexed
TextKept   == LettersKept /\ ChunksInOrder

\* What a search says of itself is so, whichever components failed, and when.
SearchRight ==
  OneFailureTolerated /\ FusionRight /\ EvaluatedModeIsTheMode

\* A search the reader waits for ends, whatever ingestion is doing.
SearchesEnd == \A s \in Searches : search[s].pc = "embed" ~> search[s].pc \in Ended

\* Neither a run nor a search waits for ever, beside the other or alone.
AllEnd == RunsEnd /\ SearchesEnd

RetrievalFairness ==
  /\ \A r \in Runs : WF_retrievalVars(Proceed(r) /\ UNCHANGED searchVars)
  /\ \A s \in Searches : WF_retrievalVars(SearchStep(s))

\* Any directory, any index that an earlier run over whole files has left of it,
\* any runs and searches to come.
RetrievalInit ==
  \E start, earlier \in [Files -> Documents \cup {Nothing}], active \in SUBSET Runs,
     asking \in SUBSET Searches, edited \in 0..MaxEdits, failed \in 0..MaxFailures :
       /\ \A f \in Files : earlier[f] = Nothing \/ ~earlier[f].broken
       /\ IndexInit(start, earlier, active, edited, failed) /\ SearchInit(asking)

RetrievalSpec == RetrievalInit /\ [][RetrievalNext]_retrievalVars /\ RetrievalFairness
=============================================================================
