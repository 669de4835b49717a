-------------------------- MODULE OrchestrationProofs --------------------------
(***************************************************************************)
(* Orchestration, proved for any plans, deadlines, numbers of attempts and *)
(* whatever agents, judge and detector return: an approval that a run      *)
(* asked for reaches the user, what is sent is right, and the plan is      *)
(* carried out as the validator accepted it.                               *)
(***************************************************************************)
EXTENDS Orchestration, FiniteRecursion, SequenceTheorems

\* Nothing is asked for before there is a run to ask for it.
NoneBeforeRun == stage \in {"new", "planning", "failover"} => approval = 0

\* Only a turn with an open approval waits.
WaitsForApproval == stage = "waiting" => approval # 0

ApprovalInv == ApprovalKept /\ NoneBeforeRun /\ WaitsForApproval

-----------------------------------------------------------------------------
\* The validator has one verdict for each plan.
LEMMA VerdictCases == \A p : Verdict(p) \in {"valid", "tooLarge", "invalid"}
  BY DEF Verdict

\* A request that ends by an exception has no approval open.
LEMMA RaiseKeeps ==
  ASSUME NEW kind, Raise(kind)
  PROVE  ApprovalInv'
  BY DEF Raise, ApprovalInv, ApprovalKept, ApprovalNotLost, ApprovalCarried, NoneBeforeRun,
         WaitsForApproval

\* What is sent says whether the run's approval is open.
LEMMA RespondKeeps ==
  ASSUME ApprovalInv, NEW kind, NEW kept, Respond(kind, kept), UNCHANGED <<attempt, approval>>
  PROVE  ApprovalInv'
  BY DEF Respond, ApprovalInv, ApprovalKept, ApprovalNotLost, ApprovalCarried, NoneBeforeRun,
         WaitsForApproval

\* A run is started only while no approval is open.
LEMMA StartKeeps ==
  ASSUME approval = 0, StartAttempt
  PROVE  ApprovalInv'
  BY DEF StartAttempt, StartAttemptOn, ApprovalInv, ApprovalKept, ApprovalNotLost,
         ApprovalCarried, NoneBeforeRun, WaitsForApproval

LEMMA AcceptKeeps ==
  ASSUME ApprovalInv, approval = 0, NEW p, Accept(p)
  PROVE  ApprovalInv'
  <1>1. CASE Verdict(p) = "valid"
    BY <1>1, StartKeeps DEF Accept
  <1>2. CASE Verdict(p) = "tooLarge"
    <2>1. Respond("tooLarge", {}) /\ UNCHANGED <<attempt, approval>>
      BY <1>2 DEF Accept
    <2> QED
      BY <2>1, RespondKeeps
  <1>3. CASE Verdict(p) = "invalid"
    <2>1. Raise("invalidPlan")
      BY <1>3 DEF Accept
    <2> QED
      BY <2>1, RaiseKeeps
  <1> QED
    BY <1>1, <1>2, <1>3, VerdictCases

LEMMA ApprovalStep ==
  ASSUME ApprovalInv, [Next]_vars
  PROVE  ApprovalInv'
  <1> USE DEF ApprovalInv, ApprovalKept, ApprovalNotLost, ApprovalCarried, NoneBeforeRun,
              WaitsForApproval
  <1>1. ASSUME NEW allowed \in BOOLEAN, Authorize(allowed)
        PROVE  ApprovalInv'
    BY <1>1, RaiseKeeps DEF Authorize
  <1>2. ASSUME NEW matched \in SUBSET Templates, UseTemplate(matched)
        PROVE  ApprovalInv'
    BY <1>2, AcceptKeeps DEF UseTemplate
  <1>3. ASSUME NEW reply \in PlannerReplies, NEW spent \in 0 .. RequestTime,
               AskPlanner(reply, spent)
        PROVE  ApprovalInv'
    <2>1. CASE reply = "plan"
      <3>1. PICK p \in Proposals : Accept(p)
        BY <1>3, <2>1 DEF AskPlanner
      <3> QED
        BY <1>3, <3>1, AcceptKeeps DEF AskPlanner
    <2>2. CASE reply # "plan" /\ FailoverConfigured
      BY <1>3, <2>2 DEF AskPlanner
    <2>3. CASE reply # "plan" /\ ~FailoverConfigured
      <3>1. NoPlan(<<reply>>)
        BY <1>3, <2>3 DEF AskPlanner
      <3> QED
        BY <3>1, RaiseKeeps DEF NoPlan
    <2> QED
      BY <2>1, <2>2, <2>3
  <1>4. ASSUME NEW reply \in PlannerReplies, NEW spent \in 0 .. RequestTime,
               AskFailover(reply, spent)
        PROVE  ApprovalInv'
    <2>1. CASE reply = "plan"
      <3>1. PICK p \in Proposals : Accept(p)
        BY <1>4, <2>1 DEF AskFailover
      <3> QED
        BY <1>4, <3>1, AcceptKeeps DEF AskFailover
    <2>2. CASE reply # "plan"
      <3>1. NoPlan(Append(hist.planner, reply))
        BY <1>4, <2>2 DEF AskFailover
      <3> QED
        BY <3>1, RaiseKeeps DEF NoPlan
    <2> QED
      BY <2>1, <2>2
  <1>5. ASSUME SkipFailover PROVE ApprovalInv'
    BY <1>5, RaiseKeeps DEF SkipFailover
  <1>6. ASSUME GraphStep PROVE ApprovalInv'
    <2>1. ASSUME NEW kind, GraphFails(kind) PROVE ApprovalInv'
      BY <2>1, RaiseKeeps DEF GraphFails
    <2>2. ASSUME UNCHANGED <<stage, attempt, approval, response>> PROVE ApprovalInv'
      BY <2>2
    <2> QED
      BY <1>6, <2>1, <2>2 DEF GraphStep, StartWave, Skip, StepPauses, StepEnds
  <1>7. ASSUME Prepare PROVE ApprovalInv'
    <2>1. ASSUME Raise("prepareFailed") PROVE ApprovalInv'
      BY <2>1, RaiseKeeps
    <2>2. ASSUME approval' = attempt, UNCHANGED <<stage, response, attempt>>, stage = "running"
          PROVE  ApprovalInv'
      BY <2>2
    <2> QED
      BY <1>7, <2>1, <2>2 DEF Prepare, GraphStopped
  <1>8. ASSUME AnswerMissing PROVE ApprovalInv'
    BY <1>8, RespondKeeps DEF AnswerMissing, Fallback
  <1>9. ASSUME ResponsesRefused PROVE ApprovalInv'
    BY <1>9, RaiseKeeps DEF ResponsesRefused
  <1>10. ASSUME NEW reply \in JudgeReplies, NEW ds \in DetectedSets,
                NEW evidence \in SUBSET Words, Review(reply, ds, evidence)
         PROVE  ApprovalInv'
    <2>1. PICK r \in Reviews(reply, ds, evidence) :
             CASE r.action # "blocked" -> AnswerShown(r) /\ UNCHANGED <<attempt, graph, approval>>
               [] r.action = "blocked" /\ MayRegenerate -> StartAttempt
               [] r.action = "blocked" /\ ~MayRegenerate ->
                      Respond("refusal", {}) /\ UNCHANGED <<attempt, graph, approval>>
      BY <1>10 DEF Review
    <2>2. CASE r.action # "blocked"
      BY <2>1, <2>2, RespondKeeps DEF AnswerShown
    <2>3. CASE r.action = "blocked" /\ MayRegenerate
      BY <2>1, <2>3, StartKeeps DEF MayRegenerate
    <2>4. CASE r.action = "blocked" /\ ~MayRegenerate
      BY <2>1, <2>4, RespondKeeps
    <2> QED
      BY <2>2, <2>3, <2>4
  <1>11. ASSUME SendSlice PROVE ApprovalInv'
    BY <1>11 DEF SendSlice
  <1>12. ASSUME SendFinal PROVE ApprovalInv'
    BY <1>12 DEF SendFinal
  <1>13. ASSUME Disconnect PROVE ApprovalInv'
    BY <1>13, RaiseKeeps DEF Disconnect
  <1>14. ASSUME NEW d \in Decisions, Resume(d) PROVE ApprovalInv'
    <2>1. CASE Len(graph.paused) = 1
      BY <1>14, <2>1 DEF Resume
    <2>2. CASE Len(graph.paused) # 1
      <3>1. Raise("twoInterrupts")
        BY <1>14, <2>2 DEF Resume
      <3> QED
        BY <3>1, RaiseKeeps
    <2> QED
      BY <2>1, <2>2
  <1>15. ASSUME UNCHANGED vars PROVE ApprovalInv'
    BY <1>15 DEF vars
  <1> QED
    BY <1>1, <1>2, <1>3, <1>4, <1>5, <1>6, <1>7, <1>8, <1>9, <1>10, <1>11, <1>12, <1>13, <1>14,
       <1>15 DEF Next

\* An approval that a run asked for is never replaced by a regeneration, and the
\* answer, refusal or fixed message sent for that run carries it (the break on a
\* pending action in the regeneration loop of AIOrchestrator).
THEOREM ApprovalsReachTheUser == Spec => []ApprovalKept
  <1>1. Init => ApprovalInv
    BY DEF Init, ApprovalInv, ApprovalKept, ApprovalNotLost, ApprovalCarried, NoneBeforeRun,
           WaitsForApproval
  <1>2. ApprovalInv /\ [Next]_vars => ApprovalInv'
    BY ApprovalStep
  <1>3. ApprovalInv => ApprovalKept
    BY DEF ApprovalInv
  <1> QED
    BY <1>1, <1>2, <1>3, PTL DEF Spec

-----------------------------------------------------------------------------
\* The steps of a plan are known, and each has a status and an artifact.
PlanIds == StepIds(plan) \subseteq Ids
GraphShape ==
  /\ DOMAIN graph = {"status", "artifact", "wave", "done", "paused"}
  /\ DOMAIN graph.artifact = Ids
HistShape == DOMAIN hist = {"ran", "planner", "misredacted", "pauses"}

\* An artifact was written by an agent that ran in this very run.
ArtifactsOfRun ==
  \A id \in Ids : graph.artifact[id] # "none" => <<attempt, id>> \in hist.ran

AnswerInv == AnsweredByThisRun /\ PlanIds /\ GraphShape /\ HistShape /\ ArtifactsOfRun

LEMMA AnsweringKnown == ASSUME PlanIds PROVE Answering \subseteq Ids
  BY DEF PlanIds, Answering

\* What does not send, ends or goes on with the same run keeps its artifacts.
LEMMA QuietAnswer ==
  ASSUME AnswerInv, UNCHANGED <<plan, attempt, graph, hist>>,
         \/ stage' \notin {"send", "waiting"}
         \/ response'.attempt = attempt
         \/ UNCHANGED response /\ stage \in {"send", "waiting"}
  PROVE  AnswerInv'
  BY AnsweringKnown DEF AnswerInv, AnsweredByThisRun, PlanIds, GraphShape, HistShape,
                        ArtifactsOfRun, Answering

LEMMA RaiseAnswer ==
  ASSUME AnswerInv, NEW kind, Raise(kind), UNCHANGED <<plan, attempt, graph>>,
         DOMAIN hist' = DOMAIN hist, hist'.ran = hist.ran
  PROVE  AnswerInv'
  BY DEF Raise, AnswerInv, AnsweredByThisRun, PlanIds, GraphShape, HistShape, ArtifactsOfRun

LEMMA RespondAnswer ==
  ASSUME AnswerInv, NEW kind, NEW kept, Respond(kind, kept),
         StepIds(plan') \subseteq Ids, UNCHANGED <<attempt, graph>>,
         DOMAIN hist' = DOMAIN hist, hist'.ran = hist.ran
  PROVE  AnswerInv'
  <1>1. stage' = "send" /\ response'.attempt = attempt
    BY DEF Respond
  <1>2. Answering' \subseteq Ids
    BY DEF Answering
  <1> QED
    BY <1>1, <1>2 DEF AnswerInv, AnsweredByThisRun, PlanIds, GraphShape, HistShape, ArtifactsOfRun,
                      Answering

\* A run starts with an empty graph, whatever the one before left.
LEMMA StartAnswer ==
  ASSUME AnswerInv, StartAttempt, StepIds(plan') \subseteq Ids, DOMAIN hist' = DOMAIN hist
  PROVE  AnswerInv'
  BY DEF StartAttempt, StartAttemptOn, NewGraph, AnswerInv, AnsweredByThisRun, PlanIds, GraphShape,
         HistShape, ArtifactsOfRun

LEMMA ProposalIds == \A p \in Proposals : StepIds(p) \subseteq Ids
  <1> TAKE p \in Proposals
  <1> DEFINE Steps == [id : Ids, agent : Agents, deps : Seq(Ids), wellFormed : BOOLEAN]
  <1>1. p \in Seq(Steps)
    BY OrchestrationAssumption
  <1>2. \A s \in Steps : s.id \in Ids
    OBVIOUS
  <1> HIDE DEF Steps
  <1>3. \A i \in DOMAIN p : p[i] \in Steps
    BY <1>1
  <1> QED
    BY <1>2, <1>3 DEF StepIds

LEMMA TemplateIds == \A t : StepIds(TemplatePlan(t)) \subseteq Ids
  <1> TAKE t
  <1> DEFINE agent == IF t = LegalResearch THEN LegalAgent ELSE ContractAgent
  <1>1. TemplatePlan(t) = <<[id |-> Answer, agent |-> agent, deps |-> <<>>, wellFormed |-> TRUE]>>
    BY DEF TemplatePlan, Step
  <1> HIDE DEF agent
  <1>2. DOMAIN TemplatePlan(t) = {1} /\ TemplatePlan(t)[1].id = Answer
    BY <1>1
  <1> QED
    BY <1>2, OrchestrationAssumption DEF StepIds

LEMMA AcceptAnswer ==
  ASSUME AnswerInv, NEW p, Accept(p), StepIds(p) \subseteq Ids,
         DOMAIN hist' = DOMAIN hist, hist'.ran = hist.ran
  PROVE  AnswerInv'
  <1>1. CASE Verdict(p) = "valid"
    BY <1>1, StartAnswer DEF Accept
  <1>2. CASE Verdict(p) = "tooLarge"
    <2>1. Respond("tooLarge", {}) /\ UNCHANGED <<plan, attempt, graph>>
      BY <1>2 DEF Accept
    <2> QED
      BY <2>1, RespondAnswer DEF AnswerInv, PlanIds
  <1>3. CASE Verdict(p) = "invalid"
    <2>1. Raise("invalidPlan") /\ UNCHANGED <<plan, attempt, graph>>
      BY <1>3 DEF Accept
    <2> QED
      BY <2>1, RaiseAnswer
  <1> QED
    BY <1>1, <1>2, <1>3, VerdictCases

LEMMA AnswerStep ==
  ASSUME AnswerInv, [Next]_vars
  PROVE  AnswerInv'
  <1>1. ASSUME NEW allowed \in BOOLEAN, Authorize(allowed)
        PROVE  AnswerInv'
    <2>1. CASE allowed
      BY <1>1, <2>1, QuietAnswer DEF Authorize
    <2>2. CASE ~allowed
      BY <1>1, <2>2, RaiseAnswer DEF Authorize
    <2> QED
      BY <2>1, <2>2
  <1>2. ASSUME NEW matched \in SUBSET Templates, UseTemplate(matched)
        PROVE  AnswerInv'
    <2>1. StepIds(Resolve(matched)) \subseteq Ids
      BY TemplateIds DEF Resolve
    <2> QED
      BY <1>2, <2>1, AcceptAnswer DEF UseTemplate
  <1>3. ASSUME NEW reply \in PlannerReplies, NEW spent \in 0 .. RequestTime,
               AskPlanner(reply, spent)
        PROVE  AnswerInv'
    <2>1. DOMAIN hist' = DOMAIN hist /\ hist'.ran = hist.ran
      BY <1>3 DEF AskPlanner, Failures, AnswerInv, HistShape
    <2>2. CASE reply = "plan"
      <3>1. PICK p \in Proposals : Accept(p)
        BY <1>3, <2>2 DEF AskPlanner
      <3> QED
        BY <2>1, <3>1, ProposalIds, AcceptAnswer
    <2>3. CASE reply # "plan" /\ FailoverConfigured
      <3>1. stage' = "failover" /\ UNCHANGED <<plan, attempt, graph>>
        BY <1>3, <2>3 DEF AskPlanner
      <3> QED
        BY <2>1, <3>1 DEF AnswerInv, AnsweredByThisRun, PlanIds, GraphShape, HistShape,
                          ArtifactsOfRun
    <2>4. CASE reply # "plan" /\ ~FailoverConfigured
      <3>1. NoPlan(<<reply>>)
        BY <1>3, <2>4 DEF AskPlanner
      <3> QED
        BY <2>1, <3>1, RaiseAnswer DEF NoPlan
    <2> QED
      BY <2>2, <2>3, <2>4
  <1>4. ASSUME NEW reply \in PlannerReplies, NEW spent \in 0 .. RequestTime,
               AskFailover(reply, spent)
        PROVE  AnswerInv'
    <2>1. DOMAIN hist' = DOMAIN hist /\ hist'.ran = hist.ran
      BY <1>4 DEF AskFailover, Failures, AnswerInv, HistShape
    <2>2. CASE reply = "plan"
      <3>1. PICK p \in Proposals : Accept(p)
        BY <1>4, <2>2 DEF AskFailover
      <3> QED
        BY <2>1, <3>1, ProposalIds, AcceptAnswer
    <2>3. CASE reply # "plan"
      <3>1. NoPlan(Append(hist.planner, reply))
        BY <1>4, <2>3 DEF AskFailover
      <3> QED
        BY <2>1, <3>1, RaiseAnswer DEF NoPlan
    <2> QED
      BY <2>2, <2>3
  <1>5. ASSUME SkipFailover PROVE AnswerInv'
    BY <1>5, RaiseAnswer DEF SkipFailover
  <1>6. ASSUME GraphStep PROVE AnswerInv'
    <2>1. ASSUME StartWave PROVE AnswerInv'
      BY <2>1 DEF StartWave, AnswerInv, AnsweredByThisRun, PlanIds, GraphShape, HistShape,
                  ArtifactsOfRun
    <2>2. ASSUME NEW id \in Ids, Skip(id) PROVE AnswerInv'
      BY <2>2 DEF Skip, Running, Ended, AnswerInv, AnsweredByThisRun, PlanIds, GraphShape,
                  HistShape, ArtifactsOfRun
    <2>3. ASSUME NEW id \in Ids, StepPauses(id) PROVE AnswerInv'
      BY <2>3 DEF StepPauses, MayRun, Running, AnswerInv, AnsweredByThisRun, PlanIds, GraphShape,
                  HistShape, ArtifactsOfRun
    <2>4. ASSUME NEW id \in Ids, NEW r \in StepResults, StepEnds(id, r) PROVE AnswerInv'
      BY <2>4 DEF StepEnds, MayRun, Running, Ended, AgentRan, AnswerInv, AnsweredByThisRun, PlanIds,
                  GraphShape, HistShape, ArtifactsOfRun
    <2>5. ASSUME NEW kind, GraphFails(kind) PROVE AnswerInv'
      BY <2>5, RaiseAnswer DEF GraphFails
    <2> QED
      BY <1>6, <2>1, <2>2, <2>3, <2>4, <2>5 DEF GraphStep
  <1>7. ASSUME Prepare PROVE AnswerInv'
    <2>1. ASSUME Raise("prepareFailed") PROVE AnswerInv'
      BY <1>7, <2>1, RaiseAnswer DEF Prepare
    <2>2. ASSUME UNCHANGED stage PROVE AnswerInv'
      BY <1>7, <2>2, QuietAnswer DEF Prepare, GraphStopped
    <2> QED
      BY <1>7, <2>1, <2>2 DEF Prepare
  <1>8. ASSUME AnswerMissing PROVE AnswerInv'
    BY <1>8, RespondAnswer DEF AnswerMissing, Fallback, AnswerInv, PlanIds
  <1>9. ASSUME ResponsesRefused PROVE AnswerInv'
    BY <1>9, RaiseAnswer DEF ResponsesRefused
  <1>10. ASSUME NEW reply \in JudgeReplies, NEW ds \in DetectedSets,
                NEW evidence \in SUBSET Words, Review(reply, ds, evidence)
         PROVE  AnswerInv'
    <2>1. PICK r \in Reviews(reply, ds, evidence) :
             /\ hist' = IF r.action = "blocked" THEN hist
                        ELSE [hist EXCEPT !.misredacted = @ \cup Misredacted(r, ds, evidence)]
             /\ CASE r.action # "blocked" ->
                         AnswerShown(r) /\ UNCHANGED <<attempt, graph, approval>>
                  [] r.action = "blocked" /\ MayRegenerate -> StartAttempt
                  [] r.action = "blocked" /\ ~MayRegenerate ->
                         Respond("refusal", {}) /\ UNCHANGED <<attempt, graph, approval>>
      BY <1>10 DEF Review
    <2>2. DOMAIN hist' = DOMAIN hist /\ hist'.ran = hist.ran
      BY <2>1 DEF AnswerInv, HistShape
    <2>3. StepIds(plan') \subseteq Ids
      BY <1>10 DEF Review, AnswerInv, PlanIds
    <2>4. CASE r.action # "blocked"
      BY <2>1, <2>2, <2>3, <2>4, RespondAnswer DEF AnswerShown
    <2>5. CASE r.action = "blocked" /\ MayRegenerate
      BY <2>1, <2>2, <2>3, <2>5, StartAnswer
    <2>6. CASE r.action = "blocked" /\ ~MayRegenerate
      BY <2>1, <2>2, <2>3, <2>6, RespondAnswer
    <2> QED
      BY <2>4, <2>5, <2>6
  <1>11. ASSUME SendSlice PROVE AnswerInv'
    BY <1>11, QuietAnswer DEF SendSlice
  <1>12. ASSUME SendFinal PROVE AnswerInv'
    BY <1>12, QuietAnswer DEF SendFinal
  <1>13. ASSUME Disconnect PROVE AnswerInv'
    BY <1>13, RaiseAnswer DEF Disconnect
  <1>14. ASSUME NEW d \in Decisions, Resume(d) PROVE AnswerInv'
    <2>1. CASE Len(graph.paused) = 1
      BY <1>14, <2>1 DEF Resume, AnswerInv, AnsweredByThisRun, PlanIds, GraphShape, HistShape,
                         ArtifactsOfRun
    <2>2. CASE Len(graph.paused) # 1
      BY <1>14, <2>2, RaiseAnswer DEF Resume
    <2> QED
      BY <2>1, <2>2
  <1>15. ASSUME UNCHANGED vars PROVE AnswerInv'
    BY <1>15 DEF vars, AnswerInv, AnsweredByThisRun, PlanIds, GraphShape, HistShape, ArtifactsOfRun,
                 Answering
  <1> QED
    BY <1>1, <1>2, <1>3, <1>4, <1>5, <1>6, <1>7, <1>8, <1>9, <1>10, <1>11, <1>12, <1>13, <1>14,
       <1>15 DEF Next

LEMMA AnswerInvariant == Spec => []AnswerInv
  <1>1. Init => AnswerInv
    BY DEF Init, NewGraph, StepIds, AnswerInv, AnsweredByThisRun, PlanIds, GraphShape, HistShape,
           ArtifactsOfRun
  <1>2. AnswerInv /\ [Next]_vars => AnswerInv'
    BY AnswerStep
  <1> QED
    BY <1>1, <1>2, PTL DEF Spec

\* An answer is put together from what agents wrote in the run it is sent for,
\* however often the answer before it was blocked (each regeneration has a
\* thread of its own).
THEOREM AnswersAreOfTheirRun == Spec => []AnsweredByThisRun
  <1>1. AnswerInv => AnsweredByThisRun
    BY DEF AnswerInv
  <1> QED
    BY <1>1, AnswerInvariant, PTL

-----------------------------------------------------------------------------
(* Overlapping detections *)

Apart(left, d) == {e \in left : ~Overlap(e, d)}
Keeps(K, left) ==
    IF left = {} THEN {{}}
    ELSE UNION {{{d} \cup kept : kept \in K[Apart(left, d)]} : d \in Strongest(left)}

\* A detection overlaps itself.
LEMMA ApartIsLess ==
  ASSUME NEW ds \in SUBSET Detections, NEW left \in SUBSET ds, NEW d \in left
  PROVE  /\ Apart(left, d) \in SUBSET ds
         /\ <<Apart(left, d), left>> \in StrictSubsetOrdering(ds)
  <1>1. Overlap(d, d)
    BY DEF Overlap, Detections
  <1> QED
    BY <1>1 DEF Apart, StrictSubsetOrdering

\* ResolveOverlaps is what its recursion says.
LEMMA KeptByRecursion ==
  ASSUME NEW ds \in SUBSET Detections, IsFiniteSet(ds)
  PROVE  \E K \in [SUBSET ds -> SUBSET SUBSET ds] :
            /\ ResolveOverlaps(ds) = K[ds]
            /\ \A left \in SUBSET ds : K[left] = Keeps(K, left)
  <1> DEFINE I == SUBSET ds
             V == SUBSET SUBSET ds
             R == StrictSubsetOrdering(ds)
             D == [left \in I |-> [K \in [I -> V] |-> Keeps(K, left)]]
             keep == CHOOSE K : K = [left \in I |-> Keeps(K, left)]
  <1>1. ASSUME NEW left \in I, NEW K \in [I -> V] PROVE Keeps(K, left) \in V
    <2>1. ASSUME NEW d \in Strongest(left), NEW kept \in K[Apart(left, d)]
          PROVE  {d} \cup kept \in SUBSET ds
      <3>1. d \in left /\ Apart(left, d) \in I
        BY DEF Strongest, Apart
      <3> QED
        BY <3>1
    <2> QED
      BY <2>1 DEF Keeps
  <1>2. D \in [I -> [[I -> V] -> V]]
    <2> HIDE DEF I, V
    <2> QED
      BY <1>1
  <1>3. Local(D, R, I, V)
    <2> SUFFICES ASSUME NEW left \in I, NEW g \in [I -> V], NEW h \in [I -> V],
                        \A y \in I : <<y, left>> \in R => g[y] = h[y]
                 PROVE  Keeps(g, left) = Keeps(h, left)
      <3> HIDE DEF I, V, R
      <3> QED
        BY DEF Local
    <2>1. \A d \in Strongest(left) : g[Apart(left, d)] = h[Apart(left, d)]
      BY ApartIsLess DEF Strongest
    <2>2. ASSUME NEW k PROVE k \in Keeps(g, left) <=> k \in Keeps(h, left)
      BY <2>1 DEF Keeps
    <2> QED
      BY <2>2 DEF Keeps
  <1>4. Founded(R, I) /\ Transitive(R, I) /\ Determines(D, I, V)
    BY <1>2, SubsetsFounded DEF Determines
  <1>5. \E K : Solution(K, D, I, V)
    <2> HIDE DEF I, V, R, D
    <2> QED
      BY <1>3, <1>4, RecursionDefines
  <1>6. PICK K \in [I -> V] : \A left \in I : K[left] = Keeps(K, left)
    <2> HIDE DEF I, V
    <2> QED
      BY <1>5 DEF Solution
  <1>7. keep = [left \in I |-> Keeps(keep, left)]
    <2>1. K = [left \in I |-> Keeps(K, left)]
      <3> HIDE DEF I, V
      <3> QED
        BY <1>6
    <2> QED
      BY <2>1
  <1>8. keep \in [I -> V] /\ \A left \in I : keep[left] = Keeps(keep, left)
    <2> SUFFICES ASSUME NEW left \in I PROVE keep[left] \in V
      <3> HIDE DEF I, V, keep
      <3> QED
        BY <1>7
    <2> DEFINE Bad == {u \in I : keep[u] \notin V}
    <2>1. Bad = {}
      <3> SUFFICES ASSUME Bad # {} PROVE FALSE
        OBVIOUS
      <3>1. PICK u \in Bad : \A y \in Bad : <<y, u>> \notin R
        <4>1. Bad \in SUBSET I
          OBVIOUS
        <4> HIDE DEF Bad, I, R
        <4> QED
          BY <1>4, <4>1 DEF Founded
      <3>2. keep[u] = Keeps(keep, u)
        <4> HIDE DEF I, V, keep
        <4> QED
          BY <1>7
      <3>3. ASSUME NEW d \in Strongest(u), NEW kept \in keep[Apart(u, d)]
            PROVE  {d} \cup kept \in SUBSET ds
        <4>1. d \in u /\ Apart(u, d) \in I /\ Apart(u, d) \notin Bad
          BY <3>1, ApartIsLess DEF Strongest
        <4> HIDE DEF keep
        <4> QED
          BY <4>1
      <3> HIDE DEF keep
      <3>4. Keeps(keep, u) \in V
        BY <3>3 DEF Keeps
      <3> QED
        BY <3>1, <3>2, <3>4
    <2> HIDE DEF V, I, keep
    <2> QED
      BY <2>1
  <1>9. ResolveOverlaps(ds) = keep[ds]
    BY DEF ResolveOverlaps, Keeps, Apart
  <1> HIDE DEF keep
  <1> QED
    BY <1>8, <1>9

\* Whatever is kept does not overlap, and what no other detection rivals is kept.
Unrivalled(d, ds) == \A e \in ds \ {d} : Overlap(d, e) => Stronger(d, e)
KeptWell(kept, left, ds) ==
    /\ kept \subseteq left
    /\ \A d, e \in kept : d # e => ~Overlap(d, e)
    /\ \A d \in left : Unrivalled(d, ds) => d \in kept

LEMMA KeptRight ==
  ASSUME NEW ds \in SUBSET Detections, IsFiniteSet(ds), NEW all \in ResolveOverlaps(ds)
  PROVE  KeptWell(all, ds, ds)
  <1>1. PICK K \in [SUBSET ds -> SUBSET SUBSET ds] :
            /\ ResolveOverlaps(ds) = K[ds]
            /\ \A left \in SUBSET ds : K[left] = Keeps(K, left)
    BY KeptByRecursion
  <1> DEFINE Bad == {left \in SUBSET ds : \E kept \in K[left] : ~KeptWell(kept, left, ds)}
  <1>2. ASSUME Bad # {} PROVE FALSE
    <2>1. PICK left \in Bad : \A u \in Bad : <<u, left>> \notin StrictSubsetOrdering(ds)
      <3>1. Bad \in SUBSET SUBSET ds
        OBVIOUS
      <3> HIDE DEF Bad
      <3> QED
        BY <1>2, <3>1, SubsetsFounded DEF Founded
    <2>2. PICK all2 \in K[left] : ~KeptWell(all2, left, ds)
      BY <2>1
    <2>3. left \in SUBSET ds /\ all2 \in Keeps(K, left)
      BY <1>1, <2>1, <2>2
    <2>4. CASE left = {}
      BY <2>2, <2>3, <2>4 DEF Keeps, KeptWell
    <2>5. CASE left # {}
      <3>1. PICK d \in Strongest(left) :
                \E kept \in K[Apart(left, d)] : all2 = {d} \cup kept
        BY <2>3, <2>5 DEF Keeps
      <3>2. PICK kept \in K[Apart(left, d)] : all2 = {d} \cup kept
        BY <3>1
      <3>3. d \in left /\ \A e \in left : ~Stronger(e, d)
        BY <3>1 DEF Strongest
      <3>4. KeptWell(kept, Apart(left, d), ds)
        BY <2>1, <2>3, <3>2, <3>3, ApartIsLess
      <3>5. all2 \subseteq left
        BY <3>2, <3>3, <3>4 DEF KeptWell, Apart
      <3>6. ASSUME NEW e \in all2, NEW f \in all2, e # f PROVE ~Overlap(e, f)
        <4>1. \A g \in kept : ~Overlap(g, d) /\ ~Overlap(d, g)
          BY <3>4 DEF KeptWell, Apart, Overlap
        <4> QED
          BY <3>2, <3>4, <3>6, <4>1 DEF KeptWell
      <3>7. ASSUME NEW e \in left, Unrivalled(e, ds) PROVE e \in all2
        <4>1. CASE e = d
          BY <3>2, <4>1
        <4>2. CASE e # d /\ Overlap(e, d)
          BY <2>3, <3>3, <3>7, <4>2 DEF Unrivalled
        <4>3. CASE ~Overlap(e, d)
          BY <3>2, <3>4, <3>7, <4>3 DEF KeptWell, Apart
        <4> QED
          BY <4>1, <4>2, <4>3
      <3> QED
        BY <2>2, <3>5, <3>6, <3>7 DEF KeptWell
    <2> QED
      BY <2>4, <2>5
  <1> QED
    BY <1>1, <1>2

\* A review shows and hides what it should, whichever way the overlaps resolve.
LEMMA ReviewRight ==
  ASSUME NEW reply, NEW ds \in SUBSET Detections, IsFiniteSet(ds), NEW evidence,
         NEW r \in Reviews(reply, ds, evidence), r.action # "blocked"
  PROVE  Misredacted(r, ds, evidence) = {}
  <1>1. r \in PiiReviews(ds, evidence)
    BY DEF Reviews
  <1> DEFINE Hidden(kept) == {d \in kept : DetectionAction(d, evidence) = "redacted"}
             Reviewed(kept) == [action |-> MaxSeverity({DetectionAction(d, evidence) : d \in kept}),
                                redacted |-> RedactSpans(Hidden(kept)), acted |-> kept]
  <1>2. PICK kept \in ResolveOverlaps(ds) : r.redacted = RedactSpans(Hidden(kept))
    <2>1. PICK kept \in ResolveOverlaps(ds) : r = Reviewed(kept)
      BY <1>1 DEF PiiReviews
    <2>2. Reviewed(kept).redacted = RedactSpans(Hidden(kept))
      <3> HIDE DEF Hidden
      <3> QED
        OBVIOUS
    <2> HIDE DEF Hidden, Reviewed
    <2> QED
      BY <2>1, <2>2
  <1>3. KeptWell(kept, ds, ds)
    BY KeptRight
  <1>4. r.redacted.kept =
            Words \ UNION {Covers(d) : d \in {e \in kept : DetectionAction(e, evidence) = "redacted"}}
    BY <1>2 DEF RedactSpans
  <1>5. ASSUME NEW w \in Words, NEW d \in ds, w \in Covers(d), Unrivalled(d, ds)
        PROVE  w \in r.redacted.kept
                   <=> d.category # "structured" /\ Covers(d) \subseteq evidence
    <2>1. d \in kept
      BY <1>3, <1>5 DEF KeptWell
    <2>2. ASSUME NEW e \in kept, w \in Covers(e) PROVE e = d
      <3>1. w \in Int /\ d.from \in Int /\ d.to \in Int /\ e.from \in Int /\ e.to \in Int
        BY <1>3, <2>2, GuardrailAssumption DEF KeptWell, Words, Detections
      <3>2. Overlap(e, d)
        BY <1>5, <2>2, <3>1 DEF Covers, Overlap
      <3> QED
        BY <1>3, <2>1, <2>2, <3>2 DEF KeptWell
    <2>3. w \in r.redacted.kept <=> DetectionAction(d, evidence) # "redacted"
      BY <1>4, <1>5, <2>1, <2>2
    <2> QED
      BY <2>3 DEF DetectionAction, EvidenceMatched
  <1> QED
    BY <1>5 DEF Misredacted, Unrivalled

-----------------------------------------------------------------------------
(* Why planning failed, and what was redacted *)

PlanningErrors == {"planningUnavailable", "planningTimeout"}

Failed == {"clientError", "timeout"}

\* How the planner and the failover model failed, for as long as planning lasts.
PlannerInv ==
    /\ PlanningErrorMatches /\ RedactionExact
    /\ stage \in {"new", "planning"} => hist.planner = <<>>
    /\ stage = "failover" =>
          FailoverConfigured /\ hist.planner \in Seq(Failed) /\ Len(hist.planner) = 1
    /\ response.kind \in PlanningErrors => stage = "ended"
    /\ decision \in {"none"} \cup Decisions

\* The first failure, and one more.
LEMMA OneFailure ==
  ASSUME NEW a \in Failed
  PROVE  Append(<<>>, a) = <<a>> /\ <<a>> \in Seq(Failed) /\ Len(<<a>>) = 1
  <1>1. <<>> \in Seq(Failed) /\ <<a>> \in Seq(Failed)
    OBVIOUS
  <1> QED
    BY <1>1, SeqEqual

LEMMA NextFailure ==
  ASSUME NEW s \in Seq(Failed), Len(s) = 1, NEW a \in Failed
  PROVE  Append(s, a) \in Seq(Failed) /\ Len(Append(s, a)) = 2
  <1>1. Append(s, a) \in Seq(Failed) /\ Len(Append(s, a)) = Len(s) + 1
    BY AppendProperties
  <1> QED
    BY <1>1

\* The error that is told is the one that the failures give.
LEMMA NoPlanMatches ==
  ASSUME NEW replies \in Seq(Failed), NoPlan(replies), hist'.planner = replies,
         FailoverConfigured => Len(replies) = 2
  PROVE  stage' = "ended" /\ PlanningErrorMatches'
  <1>1. /\ stage' = "ended"
        /\ response'.kind = IF \A i \in DOMAIN replies : replies[i] = "clientError"
                            THEN "planningUnavailable" ELSE "planningTimeout"
    BY DEF NoPlan, Raise, NoResponse
  <1>2. \A i \in DOMAIN replies : replies[i] \in {"clientError", "timeout"}
    BY DEF Failed
  <1> QED
    BY <1>1, <1>2 DEF PlanningErrorMatches

\* Past planning, no step reports that planning failed.
LEMMA PastPlanning ==
  ASSUME PlannerInv, stage' \notin {"new", "planning", "failover"}, RedactionExact',
         decision' \in {"none"} \cup Decisions,
         \/ response'.kind \notin PlanningErrors
         \/ stage # "ended" /\ UNCHANGED response
  PROVE  PlannerInv'
  BY DEF PlannerInv, PlanningErrorMatches, PlanningErrors

LEMMA RaiseMatches ==
  ASSUME PlannerInv, NEW kind, kind \notin PlanningErrors, Raise(kind), RedactionExact',
         decision' \in {"none"} \cup Decisions
  PROVE  PlannerInv'
  BY PastPlanning DEF Raise, NoResponse

LEMMA RespondMatches ==
  ASSUME PlannerInv, NEW kind, kind \notin PlanningErrors, NEW kept, Respond(kind, kept),
         RedactionExact', UNCHANGED decision
  PROVE  PlannerInv'
  BY PastPlanning DEF Respond, PlannerInv

LEMMA StartMatches ==
  ASSUME PlannerInv, stage # "ended", StartAttempt, RedactionExact', UNCHANGED decision
  PROVE  PlannerInv'
  BY PastPlanning DEF StartAttempt, StartAttemptOn, PlannerInv

LEMMA AcceptMatches ==
  ASSUME PlannerInv, stage # "ended", NEW p, Accept(p), RedactionExact', UNCHANGED decision
  PROVE  PlannerInv'
  <1>1. CASE Verdict(p) = "valid"
    BY <1>1, StartMatches DEF Accept
  <1>2. CASE Verdict(p) = "tooLarge"
    <2>1. Respond("tooLarge", {})
      BY <1>2 DEF Accept
    <2> QED
      BY <2>1, RespondMatches DEF PlanningErrors
  <1>3. CASE Verdict(p) = "invalid"
    <2>1. Raise("invalidPlan")
      BY <1>3 DEF Accept
    <2> QED
      BY <2>1, RaiseMatches DEF PlanningErrors, PlannerInv
  <1> QED
    BY <1>1, <1>2, <1>3, VerdictCases

LEMMA FailuresKeep ==
  ASSUME HistShape, RedactionExact, NEW reply, Failures(reply)
  PROVE  /\ RedactionExact'
         /\ hist'.planner = IF reply = "plan" THEN <<>> ELSE Append(hist.planner, reply)
  BY DEF HistShape, RedactionExact, Failures

LEMMA PlannerStep ==
  ASSUME AnswerInv, PlannerInv, [Next]_vars
  PROVE  PlannerInv'
  <1>0. HistShape /\ RedactionExact /\ decision \in {"none"} \cup Decisions
    BY DEF AnswerInv, PlannerInv
  <1>1. ASSUME NEW allowed \in BOOLEAN, Authorize(allowed)
        PROVE  PlannerInv'
    <2>1. CASE allowed
      BY <1>1, <2>1
         DEF Authorize, PlannerInv, PlanningErrorMatches, PlanningErrors, RedactionExact
    <2>2. CASE ~allowed
      BY <1>0, <1>1, <2>2, RaiseMatches DEF Authorize, PlanningErrors, RedactionExact
    <2> QED
      BY <2>1, <2>2
  <1>2. ASSUME NEW matched \in SUBSET Templates, UseTemplate(matched)
        PROVE  PlannerInv'
    BY <1>0, <1>2, AcceptMatches DEF UseTemplate, RedactionExact
  <1>3. ASSUME NEW reply \in PlannerReplies, NEW spent \in 0 .. RequestTime,
               AskPlanner(reply, spent)
        PROVE  PlannerInv'
    <2>1. /\ stage = "planning" /\ hist.planner = <<>> /\ Failures(reply) /\ UNCHANGED decision
          /\ response.kind \notin PlanningErrors
      BY <1>3 DEF AskPlanner, PlannerInv
    <2>2. CASE reply = "plan"
      <3>1. PICK p \in Proposals : Accept(p)
        BY <1>3, <2>2 DEF AskPlanner
      <3> QED
        BY <1>0, <2>1, <3>1, FailuresKeep, AcceptMatches
    <2>3. ASSUME reply # "plan"
          PROVE  /\ RedactionExact' /\ hist'.planner = <<reply>>
                 /\ <<reply>> \in Seq(Failed) /\ Len(<<reply>>) = 1
      <3>1. reply \in Failed
        BY <2>3 DEF PlannerReplies, Failed
      <3> QED
        BY <1>0, <2>1, <2>3, <3>1, FailuresKeep, OneFailure
    <2>4. CASE reply # "plan" /\ FailoverConfigured
      <3>1. stage' = "failover" /\ UNCHANGED response
        BY <1>3, <2>4 DEF AskPlanner
      <3> QED
        BY <1>0, <2>1, <2>3, <2>4, <3>1 DEF PlannerInv, PlanningErrorMatches, PlanningErrors
    <2>5. CASE reply # "plan" /\ ~FailoverConfigured
      <3>1. NoPlan(<<reply>>)
        BY <1>3, <2>5 DEF AskPlanner
      <3>2. stage' = "ended" /\ PlanningErrorMatches'
        BY <2>3, <2>5, <3>1, NoPlanMatches
      <3> QED
        BY <1>0, <2>1, <2>3, <2>5, <3>2 DEF PlannerInv
    <2> QED
      BY <2>2, <2>4, <2>5
  <1>4. ASSUME NEW reply \in PlannerReplies, NEW spent \in 0 .. RequestTime,
               AskFailover(reply, spent)
        PROVE  PlannerInv'
    <2>1. hist.planner \in Seq(Failed) /\ Len(hist.planner) = 1
      BY <1>4 DEF AskFailover, PlannerInv
    <2>2. stage = "failover" /\ Failures(reply) /\ UNCHANGED decision
      BY <1>4 DEF AskFailover, PlannerInv
    <2>3. CASE reply = "plan"
      <3>1. PICK p \in Proposals : Accept(p)
        BY <1>4, <2>3 DEF AskFailover
      <3> QED
        BY <1>0, <2>2, <2>3, <3>1, FailuresKeep, AcceptMatches
    <2>4. CASE reply # "plan"
      <3>1. reply \in Failed
        BY <2>4 DEF PlannerReplies, Failed
      <3>2. RedactionExact' /\ hist'.planner = Append(hist.planner, reply)
        BY <1>0, <2>2, <2>4, FailuresKeep
      <3>3. NoPlan(Append(hist.planner, reply))
        BY <1>4, <2>4 DEF AskFailover
      <3>4. stage' = "ended" /\ PlanningErrorMatches'
        BY <2>1, <3>1, <3>2, <3>3, NextFailure, NoPlanMatches
      <3> QED
        BY <1>0, <2>2, <3>2, <3>4 DEF PlannerInv
    <2> QED
      BY <2>3, <2>4
  <1>5. ASSUME SkipFailover PROVE PlannerInv'
    <2>1. Len(hist.planner) = 1
      BY <1>5 DEF SkipFailover, PlannerInv
    <2>2. stage' = "ended" /\ response'.kind = "planningTimeout" /\ UNCHANGED <<hist, decision>>
      BY <1>5 DEF SkipFailover, Raise, NoResponse
    <2> QED
      BY <1>0, <2>1, <2>2 DEF PlannerInv, PlanningErrorMatches, PlanningErrors, RedactionExact
  <1>6. ASSUME GraphStep PROVE PlannerInv'
    <2>1. stage = "running" /\ RedactionExact' /\ UNCHANGED decision
      BY <1>0, <1>6 DEF GraphStep, StartWave, Skip, StepPauses, StepEnds, GraphFails, MayRun,
                        AgentRan, Running, RedactionExact, HistShape
    <2>2. ASSUME NEW kind \in {"stepRaised", "timedOut"}, GraphFails(kind) PROVE PlannerInv'
      BY <1>0, <2>1, <2>2, RaiseMatches DEF GraphFails, PlanningErrors
    <2>3. ASSUME UNCHANGED <<stage, response>> PROVE PlannerInv'
      BY <1>0, <2>1, <2>3, PastPlanning
    <2> QED
      BY <1>6, <2>2, <2>3 DEF GraphStep, StartWave, Skip, StepPauses, StepEnds
  <1>7. ASSUME Prepare PROVE PlannerInv'
    <2>1. stage = "running" /\ RedactionExact' /\ UNCHANGED decision
      BY <1>0, <1>7 DEF Prepare, GraphStopped, RedactionExact
    <2>2. ASSUME Raise("prepareFailed") PROVE PlannerInv'
      BY <1>0, <2>1, <2>2, RaiseMatches DEF PlanningErrors
    <2>3. ASSUME UNCHANGED <<stage, response>> PROVE PlannerInv'
      BY <1>0, <2>1, <2>3, PastPlanning
    <2> QED
      BY <1>7, <2>2, <2>3 DEF Prepare
  <1>8. ASSUME AnswerMissing PROVE PlannerInv'
    <2>1. FallbackKind \notin PlanningErrors
      BY <1>0 DEF FallbackKind, PlanningErrors, Decisions
    <2> QED
      BY <1>0, <1>8, <2>1, RespondMatches DEF AnswerMissing, Fallback, RedactionExact
  <1>9. ASSUME ResponsesRefused PROVE PlannerInv'
    BY <1>0, <1>9, RaiseMatches DEF ResponsesRefused, RedactionExact, PlanningErrors
  <1>10. ASSUME NEW reply \in JudgeReplies, NEW ds \in DetectedSets,
                NEW evidence \in SUBSET Words, Review(reply, ds, evidence)
         PROVE  PlannerInv'
    <2>1. PICK r \in Reviews(reply, ds, evidence) :
             /\ hist' = IF r.action = "blocked" THEN hist
                        ELSE [hist EXCEPT !.misredacted = @ \cup Misredacted(r, ds, evidence)]
             /\ CASE r.action # "blocked" ->
                         AnswerShown(r) /\ UNCHANGED <<attempt, graph, approval>>
                  [] r.action = "blocked" /\ MayRegenerate -> StartAttempt
                  [] r.action = "blocked" /\ ~MayRegenerate ->
                         Respond("refusal", {}) /\ UNCHANGED <<attempt, graph, approval>>
      BY <1>10 DEF Review
    <2>2. ds \in SUBSET Detections /\ IsFiniteSet(ds)
      BY OrchestrationAssumption
    <2>3. stage = "running" /\ UNCHANGED decision
      BY <1>10 DEF Review, Prepared, GraphStopped
    <2>4. RedactionExact'
      <3>1. CASE r.action = "blocked"
        BY <1>0, <2>1, <3>1 DEF RedactionExact
      <3>2. CASE r.action # "blocked"
        BY <1>0, <2>1, <2>2, <3>2, ReviewRight DEF RedactionExact, HistShape
      <3> QED
        BY <3>1, <3>2
    <2>5. CASE r.action # "blocked"
      BY <2>1, <2>3, <2>4, <2>5, RespondMatches DEF AnswerShown, PlanningErrors
    <2>6. CASE r.action = "blocked" /\ MayRegenerate
      BY <2>1, <2>3, <2>4, <2>6, StartMatches
    <2>7. CASE r.action = "blocked" /\ ~MayRegenerate
      BY <2>1, <2>3, <2>4, <2>7, RespondMatches DEF PlanningErrors
    <2> QED
      BY <2>5, <2>6, <2>7
  <1>11. ASSUME SendSlice \/ SendFinal PROVE PlannerInv'
    BY <1>0, <1>11, PastPlanning DEF SendSlice, SendFinal, RedactionExact
  <1>12. ASSUME Disconnect PROVE PlannerInv'
    BY <1>0, <1>12, RaiseMatches DEF Disconnect, RedactionExact, PlanningErrors
  <1>13. ASSUME NEW d \in Decisions, Resume(d) PROVE PlannerInv'
    <2>1. CASE Len(graph.paused) = 1
      BY <1>0, <1>13, <2>1, PastPlanning DEF Resume, RedactionExact
    <2>2. CASE Len(graph.paused) # 1
      BY <1>0, <1>13, <2>2, RaiseMatches DEF Resume, RedactionExact, PlanningErrors
    <2> QED
      BY <2>1, <2>2
  <1>14. ASSUME UNCHANGED vars PROVE PlannerInv'
    BY <1>14 DEF vars, PlannerInv, PlanningErrorMatches, RedactionExact
  <1> QED
    BY <1>1, <1>2, <1>3, <1>4, <1>5, <1>6, <1>7, <1>8, <1>9, <1>10, <1>11, <1>12, <1>13, <1>14
       DEF Next

\* Whatever the models, the judge and the detector return, and however overlapping
\* detections are resolved: what is sent is this run's answer, hides what it should and
\* nothing else, and a planning error is the one that happened (OutputGuardrailService.review,
\* _resolve_overlaps, _redact_spans, _generate_within_timeout).
THEOREM ResponsesAreRight == Spec => []ResponseRight
  <1>1. Init => PlannerInv
    BY DEF Init, NoResponse, PlannerInv, PlanningErrorMatches, PlanningErrors, RedactionExact
  <1>2. AnswerInv /\ PlannerInv /\ [Next]_vars => PlannerInv'
    BY PlannerStep
  <1>3. AnswerInv /\ PlannerInv => ResponseRight
    BY DEF AnswerInv, PlannerInv, ResponseRight
  <1> QED
    BY <1>1, <1>2, <1>3, AnswerInvariant, PTL DEF Spec

-----------------------------------------------------------------------------
(* The largest sets first *)

\* What holds of no largest subset that fails it holds of all subsets; and pairs are
\* compared by the subset they come with.
LargerFirst(S) ==
    {p \in ((SUBSET S) \X S) \X ((SUBSET S) \X S) : <<p[1][1], p[2][1]>> \in Larger(S)}

LEMMA VisitsFounded ==
  ASSUME NEW S, IsFiniteSet(S)
  PROVE  /\ Founded(LargerFirst(S), (SUBSET S) \X S)
         /\ Transitive(LargerFirst(S), (SUBSET S) \X S)
  <1>1. ASSUME NEW F \in SUBSET ((SUBSET S) \X S), F # {}
        PROVE  \E x \in F : \A y \in F : <<y, x>> \notin LargerFirst(S)
    <2> DEFINE Firsts == {x[1] : x \in F}
    <2>1. Firsts \in SUBSET SUBSET S /\ Firsts # {}
      BY <1>1
    <2>2. PICK T \in Firsts : \A U \in Firsts : <<U, T>> \notin Larger(S)
      <3> HIDE DEF Firsts
      <3> QED
        BY <2>1, SupersetsFounded DEF Founded
    <2>3. PICK x \in F : T = x[1]
      BY <2>2
    <2>4. ASSUME NEW y \in F, <<y, x>> \in LargerFirst(S) PROVE FALSE
      BY <2>2, <2>3, <2>4 DEF LargerFirst
    <2> QED
      BY <2>4
  <1>2. Transitive(LargerFirst(S), (SUBSET S) \X S)
    <2> DEFINE I == (SUBSET S) \X S
    <2> SUFFICES ASSUME NEW x \in I, NEW y \in I, NEW z \in I,
                        <<x, y>> \in LargerFirst(S), <<y, z>> \in LargerFirst(S)
                 PROVE  <<x, z>> \in LargerFirst(S)
      BY DEF Transitive
    <2>1. <<x[1], y[1]>> \in Larger(S) /\ <<y[1], z[1]>> \in Larger(S)
      BY DEF LargerFirst
    <2>2. <<x[1], z[1]>> \in Larger(S)
      BY <2>1 DEF Larger
    <2> QED
      BY <2>2 DEF LargerFirst
  <1> QED
    BY <1>1, <1>2 DEF Founded

-----------------------------------------------------------------------------
(* What following depends_on finds *)

More(p, found) == found \cup UNION {DependsOn(p, d) : d \in found}

\* The steps of a plan that are known depend on steps of the plan.
KnownPlan(p) ==
    /\ IsFiniteSet(StepIds(p))
    /\ \A id \in StepIds(p) : DependsOn(p, id) \subseteq StepIds(p)

LEMMA FoundByRecursion ==
  ASSUME NEW p, KnownPlan(p)
  PROVE  \E g : /\ \A id : TransitiveDependencies(p, id) = g[DependsOn(p, id)]
                /\ \A found \in SUBSET StepIds(p) :
                      g[found] = IF More(p, found) = found THEN found ELSE g[More(p, found)]
  <1> DEFINE S == StepIds(p)
             I == SUBSET S
             R == Larger(S)
             Follows(g, found) == IF More(p, found) = found THEN found ELSE g[More(p, found)]
             D == [found \in I |-> [g \in [I -> I] |-> Follows(g, found)]]
             follow == CHOOSE g : g = [found \in I |-> Follows(g, found)]
  <1>1. ASSUME NEW found \in I
        PROVE  More(p, found) \in I /\ (More(p, found) # found => <<More(p, found), found>> \in R)
    BY DEF KnownPlan, More, Larger
  <1>2. D \in [I -> [[I -> I] -> I]]
    <2> HIDE DEF I
    <2> QED
      BY <1>1
  <1>3. Local(D, R, I, I)
    <2> SUFFICES ASSUME NEW found \in I, NEW g \in [I -> I], NEW h \in [I -> I],
                        \A y \in I : <<y, found>> \in R => g[y] = h[y]
                 PROVE  Follows(g, found) = Follows(h, found)
      <3> HIDE DEF I, R, Follows
      <3> QED
        BY DEF Local
    <2> HIDE DEF I, R
    <2> QED
      BY <1>1
  <1>4. Founded(R, I) /\ Transitive(R, I) /\ Determines(D, I, I)
    BY <1>2, SupersetsFounded DEF KnownPlan, Determines
  <1>5. \E g : Solution(g, D, I, I)
    <2> HIDE DEF I, R, D
    <2> QED
      BY <1>3, <1>4, RecursionDefines
  <1>6. PICK g \in [I -> I] : \A found \in I : g[found] = Follows(g, found)
    <2> HIDE DEF I, Follows
    <2> QED
      BY <1>5 DEF Solution
  <1>7. follow = [found \in I |-> Follows(follow, found)]
    <2>1. g = [found \in I |-> Follows(g, found)]
      <3> HIDE DEF I, Follows
      <3> QED
        BY <1>6
    <2> QED
      BY <2>1
  <1>8. \A found \in I : follow[found] = Follows(follow, found)
    <2> HIDE DEF I, Follows, follow
    <2> QED
      BY <1>7
  <1>9. \A id : TransitiveDependencies(p, id) = follow[DependsOn(p, id)]
    BY DEF TransitiveDependencies, More
  <1> HIDE DEF follow
  <1> QED
    BY <1>8, <1>9

\* It stays within any set of steps that holds what they depend on.
LEMMA FoundStaysWithin ==
  ASSUME NEW p, KnownPlan(p), NEW C \in SUBSET StepIds(p), NEW id,
         DependsOn(p, id) \subseteq C, \A d \in C : DependsOn(p, d) \subseteq C
  PROVE  TransitiveDependencies(p, id) \subseteq C
  <1>1. PICK g : /\ \A i : TransitiveDependencies(p, i) = g[DependsOn(p, i)]
                 /\ \A found \in SUBSET StepIds(p) :
                       g[found] = IF More(p, found) = found THEN found ELSE g[More(p, found)]
    BY FoundByRecursion
  <1> DEFINE Bad == {found \in SUBSET C : ~(g[found] \subseteq C)}
  <1>2. ASSUME Bad # {} PROVE FALSE
    <2>1. PICK found \in Bad : \A u \in Bad : <<u, found>> \notin Larger(StepIds(p))
      <3>1. Bad \in SUBSET SUBSET StepIds(p)
        OBVIOUS
      <3> HIDE DEF Bad
      <3> QED
        BY <1>2, <3>1, SupersetsFounded DEF Founded, KnownPlan
    <2>2. More(p, found) \subseteq C /\ found \subseteq More(p, found)
      BY <2>1 DEF More
    <2>3. More(p, found) = found \/ <<More(p, found), found>> \in Larger(StepIds(p))
      BY <2>1, <2>2 DEF Larger
    <2> QED
      BY <1>1, <2>1, <2>2, <2>3
  <1> QED
    BY <1>1, <1>2

-----------------------------------------------------------------------------
(* What the depth-first visit finds *)

RaisesFrom(p, g, visit) ==
    \/ visit[2] \in visit[1]
    \/ \E d \in DependsOn(p, visit[2]) : g[<<visit[1] \cup {visit[2]}, d>>]

LEMMA RaisesByRecursion ==
  ASSUME NEW p, KnownPlan(p), Acyclic(p)
  PROVE  \E g : /\ \A id \in StepIds(p) : ~g[<<{}, id>>]
                /\ \A visit \in (SUBSET StepIds(p)) \X StepIds(p) :
                      RaisesFrom(p, g, visit) => g[visit]
  <1> DEFINE S == StepIds(p)
             I == (SUBSET S) \X S
             R == LargerFirst(S)
             D == [visit \in I |-> [g \in [I -> BOOLEAN] |-> RaisesFrom(p, g, visit)]]
             raises == CHOOSE g : g = [visit \in I |-> RaisesFrom(p, g, visit)]
  <1>1. ASSUME NEW visit \in I, NEW d \in DependsOn(p, visit[2])
        PROVE  /\ <<visit[1] \cup {visit[2]}, d>> \in I
               /\ visit[2] \notin visit[1] => <<<<visit[1] \cup {visit[2]}, d>>, visit>> \in R
    <2>1. d \in S /\ visit[1] \in SUBSET S /\ visit[2] \in S
      BY DEF KnownPlan
    <2> QED
      BY <2>1 DEF LargerFirst, Larger
  <1>2. D \in [I -> [[I -> BOOLEAN] -> BOOLEAN]]
    <2>1. \A visit \in I, g \in [I -> BOOLEAN] : RaisesFrom(p, g, visit) \in BOOLEAN
      BY DEF RaisesFrom
    <2> HIDE DEF I
    <2> QED
      BY <2>1
  <1>3. Local(D, R, I, BOOLEAN)
    <2> SUFFICES ASSUME NEW visit \in I, NEW g \in [I -> BOOLEAN], NEW h \in [I -> BOOLEAN],
                        \A y \in I : <<y, visit>> \in R => g[y] = h[y]
                 PROVE  RaisesFrom(p, g, visit) = RaisesFrom(p, h, visit)
      <3> HIDE DEF I, R
      <3> QED
        BY DEF Local
    <2>1. CASE visit[2] \in visit[1]
      BY <2>1 DEF RaisesFrom
    <2>2. CASE visit[2] \notin visit[1]
      <3>1. \A d \in DependsOn(p, visit[2]) :
               g[<<visit[1] \cup {visit[2]}, d>>] = h[<<visit[1] \cup {visit[2]}, d>>]
        <4> HIDE DEF I, R
        <4> QED
          BY <1>1, <2>2
      <3> QED
        BY <2>2, <3>1 DEF RaisesFrom
    <2> QED
      BY <2>1, <2>2
  <1>4. Founded(R, I) /\ Transitive(R, I) /\ Determines(D, I, BOOLEAN)
    BY <1>2, VisitsFounded DEF KnownPlan, Determines
  <1>5. \E g : Solution(g, D, I, BOOLEAN)
    <2> HIDE DEF I, R, D
    <2> QED
      BY <1>3, <1>4, RecursionDefines
  <1>6. PICK g \in [I -> BOOLEAN] : \A visit \in I : g[visit] = RaisesFrom(p, g, visit)
    <2> HIDE DEF I
    <2> QED
      BY <1>5 DEF Solution
  <1>7. raises = [visit \in I |-> RaisesFrom(p, raises, visit)]
    <2>1. g = [visit \in I |-> RaisesFrom(p, g, visit)]
      <3> HIDE DEF I
      <3> QED
        BY <1>6
    <2> QED
      BY <2>1
  <1>8. \A visit \in I : raises[visit] = RaisesFrom(p, raises, visit)
    <2> HIDE DEF I, raises
    <2> QED
      BY <1>7
  <1>9. \A id \in S : ~raises[<<{}, id>>]
    BY DEF Acyclic, RaisesFrom
  <1> HIDE DEF raises
  <1> QED
    BY <1>8, <1>9

\* A plan that passes the visit has, in any set of its steps, one that depends on
\* no other of the set.
LEMMA NoCycle ==
  ASSUME NEW p, KnownPlan(p), Acyclic(p), NEW U \in SUBSET StepIds(p), U # {}
  PROVE  \E u \in U : DependsOn(p, u) \cap U = {}
  <1> SUFFICES ASSUME \A u \in U : DependsOn(p, u) \cap U # {} PROVE FALSE
    OBVIOUS
  <1>1. PICK g : /\ \A id \in StepIds(p) : ~g[<<{}, id>>]
                 /\ \A visit \in (SUBSET StepIds(p)) \X StepIds(p) :
                       RaisesFrom(p, g, visit) => g[visit]
    BY RaisesByRecursion
  <1> DEFINE Bad == {visit \in (SUBSET StepIds(p)) \X StepIds(p) : visit[2] \in U /\ ~g[visit]}
  <1>2. Bad # {}
    <2>1. PICK u \in U : TRUE
      OBVIOUS
    <2>2. <<{}, u>> \in Bad
      BY <1>1, <2>1
    <2> QED
      BY <2>2
  <1>3. PICK visit \in Bad : \A y \in Bad : <<y, visit>> \notin LargerFirst(StepIds(p))
    <2>1. Bad \in SUBSET ((SUBSET StepIds(p)) \X StepIds(p))
      OBVIOUS
    <2> HIDE DEF Bad
    <2> QED
      BY <1>2, <2>1, VisitsFounded DEF Founded, KnownPlan
  <1>4. PICK d \in DependsOn(p, visit[2]) : d \in U
    BY <1>3
  <1>5. visit[2] \notin visit[1] /\ ~g[<<visit[1] \cup {visit[2]}, d>>]
    BY <1>1, <1>3, <1>4 DEF RaisesFrom
  <1>6. <<visit[1] \cup {visit[2]}, d>> \in Bad
    BY <1>3, <1>4, <1>5
  <1>7. <<<<visit[1] \cup {visit[2]}, d>>, visit>> \in LargerFirst(StepIds(p))
    BY <1>3, <1>4, <1>5 DEF LargerFirst, Larger
  <1> QED
    BY <1>3, <1>6, <1>7

-----------------------------------------------------------------------------
(* How a plan is carried out *)

Steps == [id : Ids, agent : Agents, deps : Seq(Ids), wellFormed : BOOLEAN]

\* No plan, or one that the validator accepted.
SoundPlan(p) ==
    p \in Seq(Steps) /\ DependenciesKnown(p) /\ Acyclic(p) /\ AgentsNotConcurrent(p)

GraphTyped ==
    /\ graph \in [status : [Ids -> Statuses], artifact : [Ids -> Artifacts],
                  wave : SUBSET StepIds(plan), done : SUBSET StepIds(plan),
                  paused : Seq(StepIds(plan))]
    /\ hist.ran \subseteq (0..attempt) \X Ids /\ attempt \in Nat

\* What has ended, and what is under way, depends on what has ended.
Begun == graph.wave \cup Elements(graph.paused)
EndedClosed == \A id \in graph.done : DependsOn(plan, id) \subseteq graph.done
BegunAfter ==
    /\ \A id \in Begun : id \notin graph.done /\ DependsOn(plan, id) \subseteq graph.done
    /\ graph.wave \cap Elements(graph.paused) = {}

\* A status is final; a step completes only by running in this attempt, and ran only
\* once what it depends on had completed.
StatusOfEnded == \A id \in Ids : graph.status[id] # "pending" => id \in graph.done
CompletedRan == \A id \in Ids : graph.status[id] = "completed" => <<attempt, id>> \in hist.ran
RanAfter ==
    \A id \in Ids : <<attempt, id>> \in hist.ran =>
        id \in StepIds(plan) /\ \A d \in DependsOn(plan, id) : graph.status[d] = "completed"

FlowInv ==
    /\ SoundPlan(plan) /\ GraphTyped /\ HistShape
    /\ EndedClosed /\ BegunAfter /\ StatusOfEnded /\ CompletedRan /\ RanAfter

LEMMA SoundPlanKnown ==
  ASSUME NEW p, SoundPlan(p)
  PROVE  KnownPlan(p) /\ StepIds(p) \subseteq Ids
  <1>1. p \in Seq(Steps) /\ Len(p) \in Nat /\ DOMAIN p = 1..Len(p)
    BY DEF SoundPlan
  <1>2. \A i \in DOMAIN p : p[i] \in Steps
    BY <1>1
  <1>3. StepIds(p) \subseteq Ids
    BY <1>2 DEF StepIds, Steps
  <1>4. IsFiniteSet(StepIds(p))
    <2> DEFINE f == [i \in 1..Len(p) |-> p[i].id]
    <2>1. f \in Surjection(1..Len(p), StepIds(p))
      BY <1>1 DEF StepIds, Surjection
    <2>2. ExistsSurjection(1..Len(p), StepIds(p))
      BY <2>1 DEF ExistsSurjection
    <2> QED
      BY <1>1, <2>2, FS_NatSurjection
  <1>5. ASSUME NEW id \in StepIds(p) PROVE DependsOn(p, id) \subseteq StepIds(p)
    <2> DEFINE j == CHOOSE i \in DOMAIN p : p[i].id = id
    <2>1. j \in DOMAIN p
      BY DEF StepIds
    <2>2. DependsOn(p, id) = Elements(p[j].deps)
      BY DEF DependsOn, StepOf
    <2> HIDE DEF j
    <2> QED
      BY <2>1, <2>2 DEF SoundPlan, DependenciesKnown
  <1> QED
    BY <1>3, <1>4, <1>5 DEF KnownPlan

\* The parts of PlanFollowed that are about the plan follow.
LEMMA FlowIsRight ==
  ASSUME FlowInv
  PROVE  RanAfterDependencies /\ NoStepForgotten /\ OneStepPerAgent
  <1>1. KnownPlan(plan) /\ StepIds(plan) \subseteq Ids
    BY SoundPlanKnown DEF FlowInv
  <1>2. RanAfterDependencies
    <2> SUFFICES ASSUME NEW id \in Ids, <<attempt, id>> \in hist.ran
                 PROVE  \A d \in TransitiveDependencies(plan, id) : graph.status[d] = "completed"
      BY DEF RanAfterDependencies
    <2> DEFINE C == {d \in StepIds(plan) : graph.status[d] = "completed"}
    <2>1. DependsOn(plan, id) \subseteq C
      BY <1>1 DEF FlowInv, RanAfter, KnownPlan
    <2>2. \A d \in C : DependsOn(plan, d) \subseteq C
      BY <1>1 DEF FlowInv, RanAfter, CompletedRan, KnownPlan
    <2>3. C \in SUBSET StepIds(plan)
      OBVIOUS
    <2>4. TransitiveDependencies(plan, id) \subseteq C
      <3> HIDE DEF C
      <3> QED
        BY <1>1, <2>1, <2>2, <2>3, FoundStaysWithin
    <2> QED
      BY <2>4
  <1>3. NoStepForgotten
    <2> SUFFICES ASSUME GraphStopped, graph.paused = <<>> PROVE StepIds(plan) = graph.done
      BY DEF NoStepForgotten
    <2> DEFINE U == StepIds(plan) \ graph.done
    <2>1. Ready = {}
      BY DEF GraphStopped
    <2>2. ASSUME U # {} PROVE FALSE
      <3>1. PICK u \in U : DependsOn(plan, u) \cap U = {}
        BY <1>1, <2>2, NoCycle DEF FlowInv, SoundPlan
      <3>2. u \in Ready
        BY <1>1, <3>1 DEF Ready, KnownPlan
      <3> QED
        BY <2>1, <3>2
    <2> QED
      BY <2>2 DEF FlowInv, GraphTyped
  <1>4. OneStepPerAgent
    <2> SUFFICES ASSUME NEW s \in graph.wave, NEW t \in graph.wave, s # t,
                        StepOf(plan, s).agent = StepOf(plan, t).agent
                 PROVE  FALSE
      BY DEF OneStepPerAgent
    <2>1. s \in StepIds(plan) /\ t \in StepIds(plan) /\ graph.done \in SUBSET StepIds(plan)
      BY DEF FlowInv, GraphTyped
    <2>2. \A id \in graph.wave : TransitiveDependencies(plan, id) \subseteq graph.done
      BY <1>1, <2>1, FoundStaysWithin DEF FlowInv, BegunAfter, Begun, EndedClosed
    <2>3. s \in TransitiveDependencies(plan, t) \/ t \in TransitiveDependencies(plan, s)
      BY <2>1 DEF FlowInv, SoundPlan, AgentsNotConcurrent
    <2> QED
      BY <2>2, <2>3 DEF FlowInv, BegunAfter, Begun
  <1> QED
    BY <1>2, <1>3, <1>4

\* What leaves the plan, the run and its graph alone.
LEMMA QuietFlow ==
  ASSUME FlowInv, UNCHANGED <<plan, attempt, graph>>, HistShape', hist'.ran = hist.ran
  PROVE  FlowInv'
  BY DEF FlowInv, GraphTyped, EndedClosed, BegunAfter, Begun, StatusOfEnded, CompletedRan,
         RanAfter

\* A run begins with nothing done.
LEMMA StartFlow ==
  ASSUME FlowInv, StartAttempt, SoundPlan(plan'), HistShape', hist'.ran = hist.ran
  PROVE  FlowInv'
  <1>1. /\ graph' = NewGraph /\ attempt' = attempt + 1 /\ attempt \in Nat
        /\ hist.ran \subseteq (0..attempt) \X Ids
    BY DEF StartAttempt, StartAttemptOn, FlowInv, GraphTyped
  <1>2. /\ graph'.status = [id \in Ids |-> "pending"] /\ graph'.artifact = [id \in Ids |-> "none"]
        /\ graph'.wave = {} /\ graph'.done = {} /\ graph'.paused = <<>>
    BY <1>1 DEF NewGraph
  <1>3. \A id \in Ids : <<attempt', id>> \notin hist'.ran
    BY <1>1
  <1>4. GraphTyped'
    <2>1. graph' \in [status : [Ids -> Statuses], artifact : [Ids -> Artifacts],
                      wave : SUBSET StepIds(plan'), done : SUBSET StepIds(plan'),
                      paused : Seq(StepIds(plan'))]
      BY <1>1 DEF NewGraph, Statuses, Artifacts
    <2>2. hist'.ran \subseteq (0..attempt') \X Ids /\ attempt' \in Nat
      BY <1>1
    <2> QED
      BY <2>1, <2>2 DEF GraphTyped
  <1>5. (EndedClosed /\ BegunAfter /\ StatusOfEnded)'
    BY <1>2 DEF EndedClosed, BegunAfter, Begun, Elements, StatusOfEnded
  <1>6. (CompletedRan /\ RanAfter)'
    BY <1>2, <1>3 DEF CompletedRan, RanAfter
  <1> QED
    BY <1>4, <1>5, <1>6 DEF FlowInv

\* A step that ends.
LEMMA EndFlow ==
  ASSUME FlowInv, NEW id \in graph.wave, NEW status \in Statuses \ {"pending"},
         NEW artifact \in Artifacts, Ended(id, status, artifact),
         UNCHANGED <<plan, attempt>>, HistShape',
         \/ hist'.ran = hist.ran /\ status # "completed"
         \/ DependenciesCompleted(id) /\ hist'.ran = hist.ran \cup {<<attempt, id>>}
  PROVE  FlowInv'
  <1>1. /\ graph \in [status : [Ids -> Statuses], artifact : [Ids -> Artifacts],
                      wave : SUBSET StepIds(plan), done : SUBSET StepIds(plan),
                      paused : Seq(StepIds(plan))]
        /\ hist.ran \subseteq (0..attempt) \X Ids /\ attempt \in Nat
    BY DEF FlowInv, GraphTyped
  <1>2. StepIds(plan) \subseteq Ids /\ id \in StepIds(plan)
    BY <1>1, SoundPlanKnown DEF FlowInv
  <1>3. /\ graph' \in [status : [Ids -> Statuses], artifact : [Ids -> Artifacts],
                       wave : SUBSET StepIds(plan), done : SUBSET StepIds(plan),
                       paused : Seq(StepIds(plan))]
        /\ graph'.status = [graph.status EXCEPT ![id] = status]
        /\ graph'.wave = graph.wave \ {id} /\ graph'.done = graph.done \cup {id}
        /\ graph'.paused = graph.paused
    BY <1>1, <1>2 DEF Ended
  <1>4. /\ id \notin graph.done /\ id \notin Elements(graph.paused)
        /\ DependsOn(plan, id) \subseteq graph.done
    BY DEF FlowInv, BegunAfter, Begun
  <1>5. /\ graph.status[id] = "pending" /\ graph'.status[id] = status
        /\ \A i \in Ids : i # id => graph'.status[i] = graph.status[i]
    BY <1>1, <1>2, <1>3, <1>4 DEF FlowInv, StatusOfEnded
  <1>6. hist'.ran = hist.ran \/ hist'.ran = hist.ran \cup {<<attempt, id>>}
    OBVIOUS
  <1>7. GraphTyped'
    <2>1. hist'.ran \subseteq (0..attempt) \X Ids
      BY <1>1, <1>2, <1>6
    <2> QED
      BY <1>1, <1>3, <2>1 DEF GraphTyped
  <1>8. (EndedClosed /\ BegunAfter /\ StatusOfEnded)'
    <2>1. EndedClosed'
      BY <1>3, <1>4 DEF FlowInv, EndedClosed
    <2>2. BegunAfter'
      BY <1>3, <1>4 DEF FlowInv, BegunAfter, Begun
    <2>3. StatusOfEnded'
      BY <1>3, <1>5 DEF FlowInv, StatusOfEnded
    <2> QED
      BY <2>1, <2>2, <2>3
  <1>9. CompletedRan'
    BY <1>5, <1>6 DEF FlowInv, CompletedRan
  <1>10. RanAfter'
    <2> SUFFICES ASSUME NEW i \in Ids, <<attempt, i>> \in hist'.ran
                 PROVE  /\ i \in StepIds(plan)
                        /\ \A d \in DependsOn(plan, i) : graph'.status[d] = "completed"
      BY DEF RanAfter
    <2>1. i \in StepIds(plan) /\ \A d \in DependsOn(plan, i) : graph.status[d] = "completed"
      BY <1>2, <1>6 DEF FlowInv, RanAfter, DependenciesCompleted
    <2>2. DependsOn(plan, i) \subseteq Ids
      BY <1>2, <2>1, SoundPlanKnown DEF FlowInv, KnownPlan
    <2> QED
      BY <1>5, <2>1, <2>2
  <1> QED
    BY <1>7, <1>8, <1>9, <1>10 DEF FlowInv

\* A superstep begins.
LEMMA WaveFlow ==
  ASSUME FlowInv, StartWave
  PROVE  FlowInv'
  <1>1. /\ graph \in [status : [Ids -> Statuses], artifact : [Ids -> Artifacts],
                      wave : SUBSET StepIds(plan), done : SUBSET StepIds(plan),
                      paused : Seq(StepIds(plan))]
        /\ UNCHANGED <<plan, attempt, hist>> /\ graph.paused = <<>>
        /\ graph' = [graph EXCEPT !.wave = Ready]
    BY DEF FlowInv, GraphTyped, StartWave
  <1>2. Ready \in SUBSET StepIds(plan)
    BY DEF Ready
  <1>3. /\ graph' \in [status : [Ids -> Statuses], artifact : [Ids -> Artifacts],
                       wave : SUBSET StepIds(plan), done : SUBSET StepIds(plan),
                       paused : Seq(StepIds(plan))]
        /\ graph'.wave = Ready /\ graph'.status = graph.status /\ graph'.done = graph.done
        /\ graph'.paused = <<>>
    BY <1>1, <1>2
  <1>4. GraphTyped'
    BY <1>1, <1>3 DEF GraphTyped, FlowInv
  <1>5. BegunAfter'
    <2>1. Elements(graph'.paused) = {}
      BY <1>3 DEF Elements
    <2> QED
      BY <1>1, <1>3, <2>1 DEF BegunAfter, Begun, Ready
  <1> QED
    BY <1>1, <1>3, <1>4, <1>5
       DEF FlowInv, HistShape, EndedClosed, StatusOfEnded, CompletedRan, RanAfter

LEMMA ElementsAppend ==
  ASSUME NEW S, NEW s \in Seq(S), NEW e \in S
  PROVE  Append(s, e) \in Seq(S) /\ Elements(Append(s, e)) = Elements(s) \cup {e}
  <1>1. /\ Append(s, e) \in Seq(S) /\ Len(Append(s, e)) = Len(s) + 1 /\ Len(s) \in Nat
        /\ \A i \in 1..Len(s) : Append(s, e)[i] = s[i]
        /\ Append(s, e)[Len(s) + 1] = e
        /\ DOMAIN s = 1..Len(s) /\ DOMAIN Append(s, e) = 1..Len(s) + 1
    BY AppendProperties
  <1>2. 1..Len(s) + 1 = (1..Len(s)) \cup {Len(s) + 1}
    BY <1>1
  <1> QED
    BY <1>1, <1>2 DEF Elements

\* A step that pauses.
LEMMA PauseFlow ==
  ASSUME FlowInv, NEW id \in Ids, StepPauses(id)
  PROVE  FlowInv'
  <1>1. /\ graph \in [status : [Ids -> Statuses], artifact : [Ids -> Artifacts],
                      wave : SUBSET StepIds(plan), done : SUBSET StepIds(plan),
                      paused : Seq(StepIds(plan))]
        /\ UNCHANGED <<plan, attempt>> /\ id \in graph.wave /\ DependenciesCompleted(id)
        /\ graph' = [graph EXCEPT !.wave = @ \ {id}, !.paused = Append(@, id)]
    BY DEF FlowInv, GraphTyped, StepPauses, MayRun
  <1>2. HistShape' /\ hist'.ran = hist.ran \cup {<<attempt, id>>}
    BY DEF StepPauses, FlowInv, HistShape
  <1>3. id \in StepIds(plan)
    BY <1>1
  <1>4. /\ Append(graph.paused, id) \in Seq(StepIds(plan))
        /\ Elements(Append(graph.paused, id)) = Elements(graph.paused) \cup {id}
    BY <1>1, <1>3, ElementsAppend
  <1>5. /\ graph' \in [status : [Ids -> Statuses], artifact : [Ids -> Artifacts],
                       wave : SUBSET StepIds(plan), done : SUBSET StepIds(plan),
                       paused : Seq(StepIds(plan))]
        /\ graph'.wave = graph.wave \ {id} /\ graph'.status = graph.status
        /\ graph'.done = graph.done /\ graph'.paused = Append(graph.paused, id)
    BY <1>1, <1>4
  <1>6. GraphTyped'
    <2>1. hist'.ran \subseteq (0..attempt) \X Ids /\ attempt \in Nat
      BY <1>2 DEF FlowInv, GraphTyped
    <2> QED
      BY <1>1, <1>5, <2>1 DEF GraphTyped
  <1>7. BegunAfter'
    <2>1. Begun' = Begun
      BY <1>1, <1>4, <1>5 DEF Begun
    <2>2. graph'.wave \cap Elements(graph'.paused) = {}
      BY <1>4, <1>5 DEF FlowInv, BegunAfter
    <2> QED
      BY <1>1, <1>5, <2>1, <2>2 DEF FlowInv, BegunAfter
  <1>8. RanAfter'
    BY <1>1, <1>2, <1>3, <1>5 DEF FlowInv, RanAfter, DependenciesCompleted
  <1> QED
    BY <1>1, <1>2, <1>5, <1>6, <1>7, <1>8 DEF FlowInv, EndedClosed, StatusOfEnded, CompletedRan

\* A decision resumes the graph in the step that paused.
LEMMA ResumeFlow ==
  ASSUME FlowInv, NEW d \in Decisions, Resume(d)
  PROVE  FlowInv'
  <1>1. /\ graph \in [status : [Ids -> Statuses], artifact : [Ids -> Artifacts],
                      wave : SUBSET StepIds(plan), done : SUBSET StepIds(plan),
                      paused : Seq(StepIds(plan))]
        /\ UNCHANGED <<plan, attempt, hist>>
    BY DEF FlowInv, GraphTyped, Resume
  <1>2. CASE Len(graph.paused) # 1
    BY <1>1, <1>2, QuietFlow DEF Resume, FlowInv, HistShape
  <1>3. CASE Len(graph.paused) = 1
    <2>1. /\ graph.paused[1] \in StepIds(plan) /\ graph.paused[1] \in Elements(graph.paused)
      BY <1>1, <1>3 DEF Elements
    <2>2. PICK wave \in SUBSET StepIds(plan), paused \in Seq(StepIds(plan)) :
             /\ wave = {graph.paused[1]} /\ paused = <<>>
             /\ graph' = [graph EXCEPT !.wave = wave, !.paused = paused]
      <3>1. graph' = [graph EXCEPT !.wave = {graph.paused[1]}, !.paused = <<>>]
        BY <1>3 DEF Resume
      <3>2. {graph.paused[1]} \in SUBSET StepIds(plan) /\ <<>> \in Seq(StepIds(plan))
        BY <2>1
      <3> QED
        BY <3>1, <3>2, Zenon
    <2>3. /\ graph' \in [status : [Ids -> Statuses], artifact : [Ids -> Artifacts],
                         wave : SUBSET StepIds(plan), done : SUBSET StepIds(plan),
                         paused : Seq(StepIds(plan))]
          /\ graph'.wave = {graph.paused[1]} /\ graph'.status = graph.status
          /\ graph'.done = graph.done /\ graph'.paused = <<>>
      BY <1>1, <2>1, <2>2
    <2>4. GraphTyped'
      BY <1>1, <2>3 DEF GraphTyped, FlowInv
    <2>5. BegunAfter'
      <3>1. Elements(graph'.paused) = {}
        BY <2>3 DEF Elements
      <3> QED
        BY <1>1, <2>1, <2>3, <3>1 DEF FlowInv, BegunAfter, Begun
    <2> QED
      BY <1>1, <2>3, <2>4, <2>5
         DEF FlowInv, HistShape, EndedClosed, StatusOfEnded, CompletedRan, RanAfter
  <1> QED
    BY <1>2, <1>3

-----------------------------------------------------------------------------
(* The types *)

KnownPlans == Proposals \cup {TemplatePlan(t) : t \in Templates} \cup {<<>>}

RunTyped ==
    /\ stage \in Stages /\ attempt \in 0..MaxAttempts /\ approval \in 0..MaxAttempts
    /\ response.kept \subseteq Words /\ response.approval \in BOOLEAN /\ sent \in 0..Slices
    /\ stage \in {"new", "planning", "failover"} => attempt = 0
    /\ stage = "running" => attempt >= 1

RestTyped ==
    /\ streaming \in BOOLEAN /\ time \in 0..RequestTime
    /\ decision \in {"none"} \cup Decisions
    /\ hist.ran \subseteq (1..MaxAttempts) \X Ids /\ hist.pauses \in 0..MaxPauses

FollowInv == FlowInv /\ plan \in KnownPlans /\ RunTyped /\ RestTyped

LEMMA FollowTyped == ASSUME FollowInv PROVE PlanFollowed
  <1>1. StepIds(plan) \subseteq Ids
    BY SoundPlanKnown DEF FollowInv, FlowInv
  <1>2. /\ graph.status \in [Ids -> Statuses] /\ graph.artifact \in [Ids -> Artifacts]
        /\ graph.wave \subseteq Ids /\ graph.done \subseteq Ids
        /\ \A i \in DOMAIN graph.paused : graph.paused[i] \in Ids
    BY <1>1 DEF FollowInv, FlowInv, GraphTyped
  <1>3. TypeOK
    BY <1>2 DEF FollowInv, RunTyped, RestTyped, KnownPlans, TypeOK
  <1> QED
    BY <1>3, FlowIsRight DEF FollowInv, PlanFollowed

\* What is shown of an answer is made of its words.
LEMMA ShownWords ==
  ASSUME NEW reply, NEW ds, NEW evidence,
         NEW r \in Reviews(reply, ds, evidence), r.action # "blocked"
  PROVE  r.redacted.kept \subseteq Words
  <1> DEFINE Hidden(kept) == {d \in kept : DetectionAction(d, evidence) = "redacted"}
             Reviewed(kept) == [action |-> MaxSeverity({DetectionAction(d, evidence) : d \in kept}),
                                redacted |-> RedactSpans(Hidden(kept)), acted |-> kept]
  <1>0. r \in PiiReviews(ds, evidence)
    BY DEF Reviews
  <1>1. PICK kept \in ResolveOverlaps(ds) : r = Reviewed(kept)
    BY <1>0 DEF PiiReviews
  <1>2. r.redacted = RedactSpans(Hidden(kept))
    <2> HIDE DEF Hidden
    <2> QED
      BY <1>1
  <1> QED
    BY <1>2 DEF RedactSpans

LEMMA RaiseTyped ==
  ASSUME RunTyped, NEW kind, Raise(kind), UNCHANGED <<attempt, sent>>
  PROVE  RunTyped'
  BY OrchestrationAssumption DEF Raise, RunTyped, NoResponse, Stages

LEMMA RespondTyped ==
  ASSUME RunTyped, NEW kind, NEW kept \in SUBSET Words, Respond(kind, kept),
         UNCHANGED <<attempt, approval>>
  PROVE  RunTyped'
  BY OrchestrationAssumption DEF Respond, RunTyped, Stages

LEMMA StartTyped ==
  ASSUME RunTyped, StartAttempt, attempt < MaxAttempts
  PROVE  RunTyped'
  BY OrchestrationAssumption DEF StartAttempt, StartAttemptOn, RunTyped, Stages

\* Both ways to a plan give steps of the known kinds.
LEMMA TemplateSteps == \A t : TemplatePlan(t) \in Seq(Steps)
  <1> TAKE t
  <1> DEFINE agent == IF t = LegalResearch THEN LegalAgent ELSE ContractAgent
             step == [id |-> Answer, agent |-> agent, deps |-> <<>>, wellFormed |-> TRUE]
  <1>1. TemplatePlan(t) = <<step>>
    BY DEF TemplatePlan, Step
  <1>2. agent \in Agents
    BY DEF Agents
  <1>3. <<>> \in Seq(Ids)
    OBVIOUS
  <1> HIDE DEF agent
  <1>4. step \in Steps
    BY <1>2, <1>3, OrchestrationAssumption DEF Steps
  <1> HIDE DEF step
  <1> QED
    BY <1>1, <1>4

LEMMA ProposedPlans ==
  /\ \A p \in Proposals : p \in Seq(Steps) /\ p \in KnownPlans
  /\ \A matched \in SUBSET Templates :
        TemplateMatches(matched) =>
            Resolve(matched) \in Seq(Steps) /\ Resolve(matched) \in KnownPlans
  <1>1. \A p \in Proposals : p \in Seq(Steps) /\ p \in KnownPlans
    BY OrchestrationAssumption DEF Steps, KnownPlans
  <1>2. ASSUME NEW matched \in SUBSET Templates, TemplateMatches(matched)
        PROVE  Resolve(matched) \in Seq(Steps) /\ Resolve(matched) \in KnownPlans
    <2>1. matched # {}
      BY <1>2, FS_EmptySet DEF TemplateMatches
    <2>2. (CHOOSE t \in matched : TRUE) \in Templates
      BY <2>1
    <2> QED
      BY <2>2, TemplateSteps DEF Resolve, KnownPlans
  <1> QED
    BY <1>1, <1>2

LEMMA AcceptFollows ==
  ASSUME FollowInv, NEW p \in Seq(Steps), p \in KnownPlans, Accept(p),
         stage \in {"planning", "failover"}, HistShape', hist'.ran = hist.ran
  PROVE  FlowInv' /\ plan' \in KnownPlans /\ RunTyped'
  <1>1. CASE Verdict(p) = "valid"
    <2>1. plan' = p /\ StartAttempt
      BY <1>1 DEF Accept
    <2>2. SoundPlan(p)
      BY <1>1 DEF Verdict, SoundPlan
    <2>3. attempt < MaxAttempts
      BY OrchestrationAssumption DEF FollowInv, RunTyped
    <2> QED
      BY <2>1, <2>2, <2>3, StartFlow, StartTyped DEF FollowInv
  <1>2. CASE Verdict(p) = "tooLarge"
    <2>1. Respond("tooLarge", {}) /\ UNCHANGED <<plan, attempt, graph, approval>>
      BY <1>2 DEF Accept
    <2> QED
      BY <2>1, QuietFlow, RespondTyped DEF FollowInv
  <1>3. CASE Verdict(p) = "invalid"
    <2>1. Raise("invalidPlan") /\ UNCHANGED <<plan, attempt, graph, sent>>
      BY <1>3 DEF Accept
    <2> QED
      BY <2>1, QuietFlow, RaiseTyped DEF FollowInv
  <1> QED
    BY <1>1, <1>2, <1>3, VerdictCases

\* What leaves the types of the request's other parts alone.
LEMMA QuietRest ==
  ASSUME RestTyped, UNCHANGED <<streaming, decision, hist>>, time' \in {time, 0}
  PROVE  RestTyped'
  BY OrchestrationAssumption DEF RestTyped

LEMMA FailuresRest ==
  ASSUME FollowInv, NEW reply, Failures(reply), UNCHANGED <<streaming, decision>>,
         time' \in 0..RequestTime
  PROVE  RestTyped' /\ HistShape' /\ hist'.ran = hist.ran
  BY DEF FollowInv, FlowInv, HistShape, RestTyped, Failures

LEMMA FollowStep ==
  ASSUME FollowInv, ApprovalInv, [Next]_vars
  PROVE  FollowInv'
  <1>0. /\ FlowInv /\ HistShape /\ plan \in KnownPlans /\ RunTyped /\ RestTyped
        /\ time \in Nat /\ time \in 0..RequestTime /\ RequestTime \in Nat /\ PlannerTime \in Nat
    BY OrchestrationAssumption DEF FollowInv, FlowInv, RestTyped
  <1>1. ASSUME NEW allowed \in BOOLEAN, Authorize(allowed)
        PROVE  FollowInv'
    <2>1. /\ stage = "new"
          /\ UNCHANGED <<decision, streaming, time, plan, attempt, graph, sent, hist>>
      BY <1>1 DEF Authorize
    <2>2. RunTyped'
      <3>1. CASE allowed
        BY <1>0, <1>1, <3>1 DEF Authorize, RunTyped, Stages
      <3>2. CASE ~allowed
        BY <1>0, <1>1, <2>1, <3>2, RaiseTyped DEF Authorize
      <3> QED
        BY <3>1, <3>2
    <2> QED
      BY <1>0, <2>1, <2>2, QuietFlow, QuietRest DEF FollowInv, HistShape
  <1>2. ASSUME NEW matched \in SUBSET Templates, UseTemplate(matched)
        PROVE  FollowInv'
    <2>1. /\ stage = "planning" /\ TemplateMatches(matched) /\ Accept(Resolve(matched))
          /\ time' = 0 /\ UNCHANGED <<decision, streaming, hist>>
      BY <1>2 DEF UseTemplate
    <2>2. FlowInv' /\ plan' \in KnownPlans /\ RunTyped'
      BY <1>0, <2>1, ProposedPlans, AcceptFollows DEF HistShape
    <2> QED
      BY <1>0, <2>1, <2>2, QuietRest DEF FollowInv
  <1>3. ASSUME NEW reply \in PlannerReplies, NEW spent \in 0 .. RequestTime,
               AskPlanner(reply, spent)
        PROVE  FollowInv'
    <2>1. /\ stage = "planning" /\ Failures(reply) /\ UNCHANGED <<streaming, decision>>
          /\ spent <= Smaller(PlannerTime, time)
      BY <1>3 DEF AskPlanner, Takes
    <2>2. CASE reply = "plan"
      <3>1. time' = 0 /\ \E p \in Proposals : Accept(p)
        BY <1>3, <2>2 DEF AskPlanner
      <3>2. RestTyped' /\ HistShape' /\ hist'.ran = hist.ran
        BY <1>0, <2>1, <3>1, FailuresRest
      <3>3. FlowInv' /\ plan' \in KnownPlans /\ RunTyped'
        BY <2>1, <3>1, <3>2, ProposedPlans, AcceptFollows
      <3> QED
        BY <3>2, <3>3 DEF FollowInv
    <2>3. CASE reply # "plan" /\ FailoverConfigured
      <3>1. /\ stage' = "failover" /\ time' = time - spent
            /\ UNCHANGED <<plan, attempt, graph, approval, response, sent>>
        BY <1>3, <2>3 DEF AskPlanner
      <3>2. time' \in 0..RequestTime
        BY <1>0, <2>1, <3>1 DEF Smaller
      <3>3. RestTyped' /\ HistShape' /\ hist'.ran = hist.ran
        BY <2>1, <3>2, FailuresRest
      <3>4. RunTyped'
        BY <1>0, <2>1, <3>1 DEF RunTyped, Stages
      <3> QED
        BY <1>0, <3>1, <3>3, <3>4, QuietFlow DEF FollowInv
    <2>4. CASE reply # "plan" /\ ~FailoverConfigured
      <3>1. time' = 0 /\ NoPlan(<<reply>>)
        BY <1>3, <2>4 DEF AskPlanner
      <3>2. RestTyped' /\ HistShape' /\ hist'.ran = hist.ran
        BY <1>0, <2>1, <3>1, FailuresRest
      <3> QED
        BY <1>0, <3>1, <3>2, QuietFlow, RaiseTyped DEF NoPlan, FollowInv
    <2> QED
      BY <2>2, <2>3, <2>4
  <1>4. ASSUME NEW reply \in PlannerReplies, NEW spent \in 0 .. RequestTime,
               AskFailover(reply, spent)
        PROVE  FollowInv'
    <2>1. /\ stage = "failover" /\ Failures(reply) /\ UNCHANGED <<streaming, decision>>
          /\ time' = 0
      BY <1>4 DEF AskFailover
    <2>2. RestTyped' /\ HistShape' /\ hist'.ran = hist.ran
      BY <1>0, <2>1, FailuresRest
    <2>3. CASE reply = "plan"
      <3>1. PICK p \in Proposals : Accept(p)
        BY <1>4, <2>3 DEF AskFailover
      <3>2. FlowInv' /\ plan' \in KnownPlans /\ RunTyped'
        BY <2>1, <2>2, <3>1, ProposedPlans, AcceptFollows
      <3> QED
        BY <2>2, <3>2 DEF FollowInv
    <2>4. CASE reply # "plan"
      <3>1. NoPlan(Append(hist.planner, reply))
        BY <1>4, <2>4 DEF AskFailover
      <3> QED
        BY <1>0, <2>2, <3>1, QuietFlow, RaiseTyped DEF NoPlan, FollowInv
    <2> QED
      BY <2>3, <2>4
  <1>5. ASSUME NEW kind, Raise(kind),
               UNCHANGED <<streaming, plan, attempt, graph, sent, hist, decision>>,
               time' \in {time, 0}
        PROVE  FollowInv'
    BY <1>0, <1>5, QuietFlow, RaiseTyped, QuietRest DEF FollowInv, HistShape
  <1>6. ASSUME NEW kind, NEW kept \in SUBSET Words, Respond(kind, kept),
               UNCHANGED <<streaming, time, plan, attempt, graph, approval, decision>>,
               hist'.ran = hist.ran, hist'.pauses = hist.pauses, HistShape'
        PROVE  FollowInv'
    BY <1>0, <1>6, QuietFlow, RespondTyped DEF FollowInv, RestTyped
  <1>7. ASSUME GraphStep PROVE FollowInv'
    <2>1. ASSUME NEW kind, GraphFails(kind) PROVE FollowInv'
      BY <1>5, <2>1 DEF GraphFails
    <2>2. ASSUME UNCHANGED <<decision, stage, streaming, time, plan, attempt, approval, response,
                             sent>>,
                 FlowInv',
                 \/ hist' = hist
                 \/ \E id \in Ids :
                       /\ stage = "running" /\ hist'.ran = hist.ran \cup {<<attempt, id>>}
                       /\ \/ hist'.pauses = hist.pauses
                          \/ hist.pauses < MaxPauses /\ hist'.pauses = hist.pauses + 1
          PROVE  FollowInv'
      <3>1. RunTyped' /\ plan' \in KnownPlans
        BY <1>0, <2>2 DEF RunTyped
      <3>2. hist'.pauses \in 0..MaxPauses
        BY <1>0, <2>2, OrchestrationAssumption DEF RestTyped
      <3>3. stage = "running" => attempt \in 1..MaxAttempts
        BY <1>0, OrchestrationAssumption DEF RunTyped
      <3>4. hist'.ran \subseteq (1..MaxAttempts) \X Ids
        BY <1>0, <2>2, <3>3 DEF RestTyped
      <3> QED
        BY <1>0, <2>2, <3>1, <3>2, <3>4 DEF RestTyped, FollowInv
    <2>3. ASSUME StartWave PROVE FollowInv'
      BY <1>0, <2>2, <2>3, WaveFlow DEF StartWave
    <2>4. ASSUME NEW id \in Ids, Skip(id) PROVE FollowInv'
      BY <1>0, <2>2, <2>4, EndFlow DEF Skip, Statuses, Artifacts, HistShape
    <2>5. ASSUME NEW id \in Ids, NEW r \in StepResults, StepEnds(id, r) PROVE FollowInv'
      <3>1. r[1] \in Statuses \ {"pending"} /\ r[2] \in Artifacts
        BY DEF StepResults, Statuses, Artifacts
      <3>2. HistShape' /\ hist'.ran = hist.ran \cup {<<attempt, id>>} /\ hist'.pauses = hist.pauses
        BY <1>0, <2>5 DEF StepEnds, AgentRan, HistShape
      <3>3. FlowInv'
        BY <1>0, <2>5, <3>1, <3>2, EndFlow DEF StepEnds, MayRun
      <3> QED
        BY <2>2, <2>5, <3>2, <3>3 DEF StepEnds, MayRun, Running
    <2>6. ASSUME NEW id \in Ids, StepPauses(id) PROVE FollowInv'
      <3>1. /\ hist'.ran = hist.ran \cup {<<attempt, id>>} /\ hist'.pauses = hist.pauses + 1
            /\ hist.pauses < MaxPauses
        BY <1>0, <2>6 DEF StepPauses, HistShape
      <3>2. FlowInv'
        BY <1>0, <2>6, PauseFlow
      <3> QED
        BY <2>2, <2>6, <3>1, <3>2 DEF StepPauses, MayRun, Running
    <2> QED
      BY <1>7, <2>1, <2>3, <2>4, <2>5, <2>6 DEF GraphStep
  <1>8. ASSUME Prepare PROVE FollowInv'
    <2>1. ASSUME Raise("prepareFailed") PROVE FollowInv'
      BY <1>5, <1>8, <2>1 DEF Prepare
    <2>2. ASSUME approval' = attempt, UNCHANGED <<stage, response>> PROVE FollowInv'
      <3>1. RunTyped'
        BY <1>0, <1>8, <2>2 DEF RunTyped, Prepare
      <3> QED
        BY <1>0, <1>8, <3>1, QuietFlow, QuietRest DEF Prepare, FollowInv, HistShape
    <2> QED
      BY <1>8, <2>1, <2>2 DEF Prepare
  <1>9. ASSUME AnswerMissing PROVE FollowInv'
    BY <1>0, <1>6, <1>9 DEF AnswerMissing, Fallback, HistShape
  <1>10. ASSUME NEW reply \in JudgeReplies, NEW ds \in DetectedSets,
                NEW evidence \in SUBSET Words, Review(reply, ds, evidence)
         PROVE  FollowInv'
    <2>1. PICK r \in Reviews(reply, ds, evidence) :
             /\ hist' = IF r.action = "blocked" THEN hist
                        ELSE [hist EXCEPT !.misredacted = @ \cup Misredacted(r, ds, evidence)]
             /\ CASE r.action # "blocked" ->
                         AnswerShown(r) /\ UNCHANGED <<attempt, graph, approval>>
                  [] r.action = "blocked" /\ MayRegenerate -> StartAttempt
                  [] r.action = "blocked" /\ ~MayRegenerate ->
                         Respond("refusal", {}) /\ UNCHANGED <<attempt, graph, approval>>
      BY <1>10 DEF Review
    <2>2. UNCHANGED <<streaming, time, plan, decision>>
      BY <1>10 DEF Review
    <2>3. HistShape' /\ hist'.ran = hist.ran /\ hist'.pauses = hist.pauses
      BY <1>0, <2>1 DEF HistShape
    <2>4. CASE r.action # "blocked"
      <3>1. Respond("answer", r.redacted.kept) /\ UNCHANGED <<attempt, graph, approval>>
        BY <2>1, <2>4 DEF AnswerShown
      <3>2. r.redacted.kept \in SUBSET Words
        BY <2>4, ShownWords
      <3> QED
        BY <1>6, <2>2, <2>3, <3>1, <3>2
    <2>5. CASE r.action = "blocked" /\ MayRegenerate
      <3>1. StartAttempt /\ attempt < MaxAttempts
        BY <2>1, <2>5 DEF MayRegenerate
      <3>2. SoundPlan(plan')
        BY <1>0, <2>2 DEF FlowInv
      <3> QED
        BY <1>0, <2>2, <2>3, <3>1, <3>2, StartFlow, StartTyped DEF FollowInv, RestTyped
    <2>6. CASE r.action = "blocked" /\ ~MayRegenerate
      BY <1>6, <2>1, <2>2, <2>3, <2>6
    <2> QED
      BY <2>4, <2>5, <2>6
  <1>11. ASSUME SendSlice PROVE FollowInv'
    <2>1. RunTyped'
      BY <1>0, <1>11, OrchestrationAssumption DEF SendSlice, RunTyped
    <2> QED
      BY <1>0, <1>11, <2>1, QuietFlow, QuietRest DEF SendSlice, FollowInv, HistShape
  <1>12. ASSUME SendFinal PROVE FollowInv'
    <2>1. RunTyped'
      BY <1>0, <1>12 DEF SendFinal, RunTyped, Stages
    <2> QED
      BY <1>0, <1>12, <2>1, QuietFlow, QuietRest DEF SendFinal, FollowInv, HistShape
  <1>13. ASSUME NEW d \in Decisions, Resume(d) PROVE FollowInv'
    <2>1. FlowInv'
      BY <1>0, <1>13, ResumeFlow
    <2>2. RestTyped'
      BY <1>0, <1>13 DEF Resume, RestTyped
    <2>3. RunTyped'
      <3>1. CASE Len(graph.paused) = 1
        <4>1. stage = "waiting" /\ stage' = "running" /\ approval' = 0
              /\ UNCHANGED <<attempt, response, sent>>
          BY <1>13, <3>1 DEF Resume
        <4>2. attempt # 0
          BY <4>1 DEF ApprovalInv, ApprovalKept, ApprovalNotLost, WaitsForApproval
        <4> QED
          BY <1>0, <4>1, <4>2, OrchestrationAssumption DEF RunTyped, Stages
      <3>2. CASE Len(graph.paused) # 1
        BY <1>0, <1>13, <3>2, RaiseTyped DEF Resume
      <3> QED
        BY <3>1, <3>2
    <2> QED
      BY <1>0, <1>13, <2>1, <2>2, <2>3 DEF Resume, FollowInv
  <1>14. ASSUME UNCHANGED vars PROVE FollowInv'
    BY <1>0, <1>14, QuietFlow DEF vars, FollowInv, RunTyped, RestTyped, HistShape
  <1>15. ASSUME SkipFailover \/ ResponsesRefused \/ Disconnect PROVE FollowInv'
    BY <1>5, <1>15 DEF SkipFailover, ResponsesRefused, Disconnect
  <1> QED
    BY <1>1, <1>2, <1>3, <1>4, <1>7, <1>8, <1>9, <1>10, <1>11, <1>12, <1>13, <1>14, <1>15 DEF Next

\* The plan is carried out as the validator accepted it, whatever plan of any length
\* that is and whatever the steps come to: an agent runs only when all that its step
\* depends on has completed, no step is left out, and no agent runs twice at once
\* (_dependencies_completed, _add_edges, _validate_dependency_graph,
\* _validate_agent_concurrency).
THEOREM PlansAreFollowed == Spec => []PlanFollowed
  <1>1. Init => FollowInv /\ ApprovalInv
    <2> SUFFICES ASSUME Init PROVE FollowInv /\ ApprovalInv
      OBVIOUS
    <2>1. /\ stage = "new" /\ streaming \in BOOLEAN /\ time \in 0..RequestTime /\ plan = <<>>
          /\ attempt = 0 /\ graph = NewGraph /\ decision = "none" /\ approval = 0
          /\ response = NoResponse /\ sent = 0
          /\ hist = [ran |-> {}, planner |-> <<>>, misredacted |-> {}, pauses |-> 0]
      BY DEF Init
    <2>2. ApprovalInv
      BY <2>1 DEF ApprovalInv, ApprovalKept, ApprovalNotLost, ApprovalCarried, NoneBeforeRun,
                  WaitsForApproval
    <2>3. StepIds(plan) = {}
      BY <2>1 DEF StepIds
    <2>4. SoundPlan(plan)
      <3>1. Acyclic(plan)
        BY <2>3 DEF Acyclic
      <3> QED
        BY <2>1, <2>3, <3>1 DEF SoundPlan, DependenciesKnown, AgentsNotConcurrent
    <2>5. GraphTyped /\ HistShape
      BY <2>1 DEF GraphTyped, HistShape, NewGraph, Statuses, Artifacts
    <2>6. EndedClosed /\ BegunAfter /\ StatusOfEnded /\ CompletedRan /\ RanAfter
      <3>1. /\ graph.wave = {} /\ graph.done = {} /\ Elements(graph.paused) = {}
            /\ \A id \in Ids : graph.status[id] = "pending"
        BY <2>1 DEF NewGraph, Elements
      <3> QED
        BY <2>1, <3>1 DEF EndedClosed, BegunAfter, Begun, StatusOfEnded, CompletedRan, RanAfter
    <2>7. RunTyped
      BY <2>1, OrchestrationAssumption DEF RunTyped, Stages, NoResponse
    <2>8. RestTyped
      BY <2>1, OrchestrationAssumption DEF RestTyped
    <2> QED
      BY <2>1, <2>2, <2>4, <2>5, <2>6, <2>7, <2>8 DEF FollowInv, FlowInv, KnownPlans
  <1>2. FollowInv /\ ApprovalInv /\ [Next]_vars => FollowInv' /\ ApprovalInv'
    BY FollowStep, ApprovalStep
  <1>3. FollowInv => PlanFollowed
    BY FollowTyped
  <1> QED
    BY <1>1, <1>2, <1>3, PTL DEF Spec
================================================================================
