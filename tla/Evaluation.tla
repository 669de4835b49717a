----------------------------- MODULE Evaluation -----------------------------
(***************************************************************************)
(* How retrieval and answers are graded (rag/evaluation): the metrics over *)
(* the golden dataset, the run that gates on them, the LLM judge and the   *)
(* sampler of live answers, and the offline gate.  A text is what it       *)
(* matches; a score is a fraction; a score that may be missing is a        *)
(* sequence of at most one.                                                *)
(***************************************************************************)
EXTENDS Retrieval

CONSTANTS
  EvalCases,    \* cases of a golden dataset
  EvalResults,  \* what searches return for them
  Replies       \* what the judge answers

\* Lists are lists; a judge's reply is read into a value and a verdict.
ASSUME EvaluationAssumption ==
  /\ \A case \in EvalCases :
       case.evidence \in Seq(Range(case.evidence)) /\ case.sources \in Seq(Range(case.sources))
  /\ \A results \in EvalResults : results \in Seq(Range(results))
  /\ \A reply \in Replies :
       reply \in [object : BOOLEAN, value : {"none", "text", "nan", "number"}, tenths : Int,
                  relevant : {"none", "true", "false", "other"}]

BLANK == "blank"   \* an expected text of white space only

Fraction(n, d) == [num |-> n, den |-> d]
Zero == Fraction(0, 1)
One  == Fraction(1, 1)
AtLeast(x, y) == x.num * y.den >= y.num * x.den
Smaller(x, y) == IF AtLeast(x, y) THEN y ELSE x

PassThreshold == Fraction(3, 5)

-----------------------------------------------------------------------------
(* The metrics: a case, and the results of its query in order              *)

EvidenceInText(evidence, result) == evidence \in result.holds

Expected(texts) == {texts[i] : i \in DOMAIN texts} \ {BLANK}

\* Sources count only for a case that lists no evidence at all, not even blank.
Basis(case) == IF case.evidence # <<>> THEN "evidence"
               ELSE IF case.sources # <<>> THEN "source" ELSE "none"
Listed(case) == IF Basis(case) = "evidence" THEN case.evidence ELSE case.sources

Relevant(case, result) ==
  \E x \in Expected(Listed(case)) :
    IF Basis(case) = "evidence" THEN EvidenceInText(x, result) ELSE result.source = x

Metric(score, threshold) == [score |-> score, passed |-> AtLeast(score, threshold)]
NoMetric == [score |-> Zero, passed |-> FALSE]

\* mutant: the bar is not lowered to what the case can reach
PrecisionAtFixedBar(case, results) ==
  LET first == Prefix(results, TopK)
      hits  == Cardinality({i \in DOMAIN first : Relevant(case, first[i])})
  IN IF first = <<>> \/ Basis(case) = "none" THEN NoMetric
     ELSE Metric(Fraction(hits, Len(first)), PassThreshold)

\* The ceiling counts the items the case lists, blank and repeated ones too.
PrecisionAtK(case, results) ==
  LET first   == Prefix(results, TopK)
      hits    == Cardinality({i \in DOMAIN first : Relevant(case, first[i])})
      ceiling == Smaller(One, Fraction(Len(Listed(case)), Len(first)))
  IN IF first = <<>> \/ Basis(case) = "none" THEN NoMetric
     ELSE Metric(Fraction(hits, Len(first)), Smaller(PassThreshold, ceiling))

SourceRecall(case, first) ==
  LET expected == Expected(case.sources)
  IN IF expected = {} THEN Zero
     ELSE Fraction(Cardinality(expected \cap {first[i].source : i \in DOMAIN first}),
                   Cardinality(expected))

\* A piece of evidence that is listed twice counts twice.
EvidenceRecall(case, first) ==
  LET expected == {i \in DOMAIN case.evidence : case.evidence[i] # BLANK}
      matched  == {i \in expected :
                     \E j \in DOMAIN first : EvidenceInText(case.evidence[i], first[j])}
  IN IF expected = {} THEN Zero ELSE Fraction(Cardinality(matched), Cardinality(expected))

RecallAtK(case, results) ==
  LET first == Prefix(results, TopK)
  IN IF Basis(case) = "none" THEN NoMetric
     ELSE Metric(IF Basis(case) = "evidence" THEN EvidenceRecall(case, first)
                 ELSE SourceRecall(case, first), PassThreshold)

\* Over every result, not the first k; any rank passes.
FirstRank(case, results) ==
  LET ranks == {i \in DOMAIN results : Relevant(case, results[i])}
  IN IF ranks = {} THEN 0 ELSE Min(ranks)

MeanReciprocalRank(case, results) ==
  LET rank == FirstRank(case, results)
  IN IF Basis(case) = "none" \/ rank = 0 THEN NoMetric
     ELSE [score |-> Fraction(1, rank), passed |-> TRUE]

\* Nothing to judge passes; a judge that gave no score fails.
Faithfulness(case, results, judged) ==
  IF results = <<>> THEN NoMetric
  ELSE IF case.answer = BLANK THEN [score |-> Zero, passed |-> TRUE]
  ELSE IF judged = <<>> THEN NoMetric ELSE Metric(judged[1], PassThreshold)

EvaluateCase(case, results, judged) ==
  << RecallAtK(case, results), PrecisionAtK(case, results),
     MeanReciprocalRank(case, results), Faithfulness(case, results, judged) >>
CasePassed(metrics) == \A i \in DOMAIN metrics : metrics[i].passed

-----------------------------------------------------------------------------
(* The run over the golden dataset                                         *)

EvalModes == {"full", "keyword_only", "no_rerank"}
Disabled  == [full |-> {}, keyword_only |-> {"embedding"}, no_rerank |-> {"reranker"}]

\* The mode a search counts under, and whether that is the one asked for.
CountsAs(mode, failed, unavailable) ==
  LET used == ModeUsed(failed, unavailable)
  IN IF used = "full" /\ mode = "no_rerank" THEN "no_rerank" ELSE used
RightMode(mode, failed, unavailable) == CountsAs(mode, failed, unavailable) = mode

\* The loader refuses the whole file for one ill-formed case.
WellFormed(case) == case.query # BLANK /\ case.typed
Loads(cases) == \A i \in DOMAIN cases : WellFormed(cases[i])

\* Each case with the search of its query, in order; the first search in another
\* mode ends the run.
EvaluateDataset(cases, searches, judged) ==
  [i \in DOMAIN cases |->
     CasePassed(EvaluateCase(cases[i], searches[i].results, judged))]
PassedCases(results) == Cardinality({i \in DOMAIN results : results[i]})

\* The exit code: 2 for a search in another mode, 1 below the gate (in percent,
\* none when empty) and for a file that does not load, which raises.
EvaluationExit(mode, gate, cases, searches, judged) ==
  LET passed == PassedCases(EvaluateDataset(cases, searches, judged))
  IN IF ~Loads(cases) THEN 1
     ELSE IF \E i \in DOMAIN cases :
               ~RightMode(mode, searches[i].failed, searches[i].unavailable) THEN 2
     ELSE IF gate # <<>> /\ IF cases = <<>> THEN gate[1] > 0
                            ELSE passed * 100 < gate[1] * Len(cases)
          THEN 1 ELSE 0

-----------------------------------------------------------------------------
(* The judge.  A reply either is an object, with a value and a verdict, or  *)
(* is nothing: the call raised, or the text is no JSON object.              *)

NoReply == [object |-> FALSE, value |-> "none", tenths |-> 0, relevant |-> "none"]

\* A number is clamped to [0, 1]; NaN falls out of the comparisons as 1.0.
ValidateScore(reply) ==
  IF reply.value \in {"none", "text"} THEN <<>>
  ELSE IF reply.value = "nan" THEN <<One>>
  ELSE <<Fraction(Greater(0, Lesser(10, reply.tenths)), 10)>>

EvaluatePrompt(reply) == IF reply.object THEN reply ELSE NoReply

\* The legacy backend, and ragas', which takes NaN for no score.
LegacyFaithfulness(reply) == ValidateScore(EvaluatePrompt(reply))
RagasFaithfulness(reply) ==
  IF ~reply.object \/ reply.value # "number" THEN <<>> ELSE <<Fraction(reply.tenths, 10)>>

\* Each chunk is judged alone; only verdicts that are Booleans count.
ContextPrecision(replies) ==
  LET verdicts == {i \in DOMAIN replies :
                     EvaluatePrompt(replies[i]).relevant \in {"true", "false"}}
  IN IF verdicts = {} THEN <<>>
     ELSE <<Fraction(Cardinality({i \in verdicts : replies[i].relevant = "true"}),
                     Cardinality(verdicts))>>

\* What the sampler has of one answer, once both of its tasks are back.
Graded(faithful, relevancy, chunks) ==
  [faithfulness      |-> faithful,
   answer_relevancy  |-> ValidateScore(EvaluatePrompt(relevancy)),
   context_precision |-> ContextPrecision(chunks)]

HasQualityConcern(graded) ==
  \E m \in DOMAIN graded : graded[m] # <<>> /\ ~AtLeast(graded[m][1], PassThreshold)

\* What it records: nothing at all when a task raised.
EvaluateAndRecord(raised, graded) ==
  IF raised THEN [recorded |-> {}, warned |-> FALSE]
  ELSE [recorded |-> {m \in DOMAIN graded : graded[m] # <<>>},
        warned   |-> HasQualityConcern(graded)]

-----------------------------------------------------------------------------
(* The offline ragas gate, over the means of the rows that have a score     *)

QualityGates == [faithfulness |-> Fraction(3, 4), answer_relevancy |-> Fraction(3, 4),
                 context_precision |-> PassThreshold, context_recall |-> PassThreshold]

\* Lines that are no JSON are skipped; a string context becomes a list of one.
Records(lines) == SelectSeq(lines, LAMBDA line : line.parses)

SumOfScores(rows, m) == FoldSeq(LAMBDA row, acc : acc + row[m][1], 0, rows)
\* pandas leaves the missing rows of a column out of its mean.
MeanScores(rows) ==
  [m \in DOMAIN QualityGates |->
     LET scored == SelectSeq(rows, LAMBDA row : row[m] # <<>>)
     IN IF scored = <<>> THEN <<>> ELSE <<Fraction(SumOfScores(scored, m), 10 * Len(scored))>>]

CheckQualityGates(means) ==
  \A m \in DOMAIN QualityGates : means[m] # <<>> /\ AtLeast(means[m][1], QualityGates[m])

OfflineExit(lines) ==
  LET records == Records(lines)
  IN IF records = <<>> \/ ~CheckQualityGates(MeanScores([i \in DOMAIN records |->
                                                           records[i].scores]))
     THEN 1 ELSE 0

-----------------------------------------------------------------------------
FoundWhole(case, results) ==
  LET first == Prefix(results, TopK)
  IN /\ case.evidence # <<>> /\ BLANK \notin Range(case.evidence) /\ IsInjective(case.evidence)
     /\ \E at \in [DOMAIN case.evidence -> DOMAIN first] :
          /\ IsInjective(at)
          /\ \A i \in DOMAIN at : EvidenceInText(case.evidence[i], first[at[i]])

\* "Even a perfect retrieval" is not failed for the slots it could not fill: when
\* every piece of evidence is there, each in a chunk of its own, the case passes,
\* whatever else is among the first k; and a case that lists enough to clear the
\* full threshold still has to (precision.py:95).
PerfectPasses ==
  \A case \in EvalCases : \A results \in EvalResults :
    LET precision == PrecisionAtK(case, results)
        enough    == 5 * Len(Listed(case)) >= 3 * Len(Prefix(results, TopK))
    IN /\ FoundWhole(case, results) /\ case.answer = BLANK =>
            CasePassed(EvaluateCase(case, results, <<>>))
       /\ precision.passed /\ enough => AtLeast(precision.score, PassThreshold)

\* "recall@k and mrr already independently confirm whether the evidence was found
\* at all" (precision.py:102): within the first k the three metrics agree on it,
\* and no case passes without it.
MetricsAgree ==
  \A case \in EvalCases : \A results \in EvalResults :
    LET found == \E i \in DOMAIN Prefix(results, TopK) : Relevant(case, results[i])
        positive(metric) == metric.score.num > 0
    IN /\ positive(RecallAtK(case, results)) <=> found
       /\ positive(PrecisionAtK(case, results)) <=> found
       /\ FirstRank(case, results) \in 1..TopK <=> found
       /\ CasePassed(EvaluateCase(case, results, <<One>>)) => found

SearchOutcomes(mode) ==
  {x \in [failed : {{}, {"embedding"}, {"keyword"}, {"reranker"}, {"embedding", "keyword"}},
          results : {r \in EvalResults : Len(r) <= 1}, unavailable : BOOLEAN] :
     /\ x.unavailable = (Cardinality(x.failed) = 2)
     /\ Disabled[mode] \subseteq x.failed \/ (mode = "no_rerank" /\ x.results = <<>>)}

\* No gate, and gates in percent.
Gates == {<<>>, <<50>>, <<100>>}

\* "Any other mode fails the run" and "fail below this pass rate": an exit of 0
\* under a gate means a file without an ill-formed case, every query searched with
\* nothing lost but what the mode disables, and that share of the cases with some
\* of their evidence found (evaluate_rag_retrieval.py:129, :174; loader.py:108).
ExitMeansGraded ==
  \A mode \in EvalModes : \A gate \in Gates :
    \A one, two \in {c \in EvalCases : Len(c.evidence \o c.sources) <= 1} :
      \A x, y \in SearchOutcomes(mode) :
        LET cases == <<one, two>>
            asked == <<x, y>>
            found == {i \in 1..2 : \E j \in DOMAIN asked[i].results :
                                     Relevant(cases[i], asked[i].results[j])}
        IN EvaluationExit(mode, gate, cases, asked, <<One>>) = 0 =>
             /\ one.typed /\ two.typed
             /\ x.failed \cup y.failed \subseteq Disabled[mode]
             /\ gate # <<>> => 100 * Cardinality(found) >= gate[1] * 2

\* "Evaluation failures produce unavailable metrics": a judge that did not answer,
\* or answered no number, is never recorded as a score, never warns of quality and
\* never passes a gate (evaluator.py:344; online_sampler.py:106; faithfulness.py:100).
UnjudgedIsNothing ==
  \A f \in Replies : \A q \in Replies : \A chunks \in {<<>>} \cup {<<a, f>> : a \in Replies} :
    \A legacy \in BOOLEAN : \A raised \in BOOLEAN :
      LET score  == IF legacy THEN LegacyFaithfulness(f) ELSE RagasFaithfulness(f)
          graded == Graded(score, q, chunks)
          event  == EvaluateAndRecord(raised, graded)
          judged(r) == r.object /\ r.value \notin {"none", "text"}
      IN /\ event.warned => event.recorded # {}
         /\ "faithfulness" \in event.recorded => ~raised /\ judged(f)
         /\ "answer_relevancy" \in event.recorded => ~raised /\ judged(q)
         /\ "context_precision" \in event.recorded =>
              ~raised /\ \E i \in DOMAIN chunks :
                           chunks[i].object /\ chunks[i].relevant \in {"true", "false"}
         /\ legacy \/ f.tenths \in 0..10 =>
              \A m \in event.recorded : AtLeast(graded[m][1], Zero) /\ AtLeast(One, graded[m][1])
         /\ ~judged(f) => \A case \in EvalCases : \A results \in EvalResults :
              case.answer # BLANK => ~Faithfulness(case, results, score).passed

\* The search that is graded under a mode really ran in it: a full one lost
\* nothing, one by keyword returned what the words found and no more, one without
\* the reranker the order of the fusion of both stores (retrieval_mode.py:199).
GradedModeRan ==
  \A s \in Searches : \A mode \in EvalModes :
    LET x == search[s]
        reached == Disabled[mode] \subseteq x.failed \/ (mode = "no_rerank" /\ x.fused = <<>>)
    IN /\ x.pc \in {"results", "no_results"} /\ x.mode # "blank" /\ reached
       /\ RightMode(mode, x.failed, FALSE)
       => /\ mode = "full" => x.failed = {}
          /\ mode = "keyword_only" => Range(x.result) \subseteq Range(x.byWord)
          /\ mode = "no_rerank" => /\ x.failed \subseteq {"reranker"}
                                   /\ x.result = Prefix(x.fused, TopK)

\* What a grade says of the retrieval or of an answer is so.
EvaluationRight ==
  PerfectPasses /\ MetricsAgree /\ ExitMeansGraded /\ UnjudgedIsNothing /\ GradedModeRan
=============================================================================
