----------------------------- MODULE Orchestration -----------------------------
(***************************************************************************)
(* One chat request in AIOrchestrator: authorize, plan, run the plan's     *)
(* steps as a graph, collect what the agents answered, review it, and      *)
(* answer, at once or as a stream.  A step that pauses for an approval     *)
(* leaves the turn waiting; the decision resumes the same graph.  What the *)
(* agents, the judge and the detector return are free choices, and any     *)
(* step may raise or run out of time.                                      *)
(***************************************************************************)
EXTENDS Planning, Guardrails

CONSTANTS
    Ids,                 \* step identifiers, Answer among them
    Proposals,           \* plans the planning model may write
    FailoverConfigured,  \* PLANNER_FALLBACK_PROVIDER is set
    RequestTime,         \* the request's deadline
    PlannerTime, MinFailoverTime,
    MaxAttempts,         \* GUARDRAIL_MAX_REGENERATE_ATTEMPTS + 1
    Slices,              \* pieces a streamed answer is sent in
    DetectedSets,               \* sets of detections the analyzer may report
    MaxPauses            \* bound: approvals one turn may ask for in sequence

ASSUME OrchestrationAssumption ==
    /\ Answer \in Ids
    /\ Proposals \subseteq Seq([id : Ids, agent : Agents, deps : Seq(Ids), wellFormed : BOOLEAN])
    /\ FailoverConfigured \in BOOLEAN
    /\ {RequestTime, PlannerTime, MinFailoverTime, Slices, MaxPauses} \subseteq Nat
    /\ MaxAttempts \in Nat \ {0}
    /\ \A ds \in DetectedSets : ds \subseteq Detections /\ IsFiniteSet(ds)

VARIABLES
    stage,     \* where the request is
    streaming, \* handle() or stream()
    time,      \* what is left of the deadline when planning begins, and while it lasts
    plan,
    attempt,   \* which run of the plan this is; each has a thread of its own
    graph,     \* the graph's state: updates, artifacts, interrupts, superstep
    decision,  \* the decision this run was resumed with
    approval,  \* the attempt whose paused call has an open approval, or 0
    response,  \* the OrchestratorResponse
    sent,      \* slices of it that were sent
    hist       \* history: what really happened

vars == <<stage, streaming, time, plan, attempt, graph, decision, approval, response, sent, hist>>

Statuses == {"pending", "completed", "skipped", "partial", "failed"}
Artifacts == {"none", "text", "blank"}

NewGraph ==
    [status |-> [id \in Ids |-> "pending"], artifact |-> [id \in Ids |-> "none"],
     wave |-> {}, done |-> {}, paused |-> <<>>]

NoResponse == [kind |-> "none", attempt |-> 0, kept |-> {}, approval |-> FALSE]

Init ==
    /\ stage = "new"
    /\ streaming \in BOOLEAN
    /\ time \in 0..RequestTime
    /\ plan = <<>>
    /\ attempt = 0
    /\ graph = NewGraph
    /\ decision = "none"
    /\ approval = 0
    /\ response = NoResponse
    /\ sent = 0
    /\ hist = [ran |-> {}, planner |-> <<>>, misredacted |-> {}, pauses |-> 0]

\* An exception leaves the request without an answer, and the transaction that
\* held a prepared approval is rolled back.
Raise(kind) ==
    /\ stage' = "ended"
    /\ response' = [NoResponse EXCEPT !.kind = kind]
    /\ approval' = 0

Respond(kind, kept) ==
    /\ stage' = "send"
    /\ response' = [kind |-> kind, attempt |-> attempt, kept |-> kept,
                    approval |-> approval # 0]
    /\ sent' = 0

(***************************************************************************)
(* Authorization and planning.                                             *)
(***************************************************************************)
Authorize(allowed) ==
    /\ stage = "new"
    /\ IF allowed
       THEN stage' = "planning" /\ UNCHANGED <<response, approval>>
       ELSE Raise("unauthorized")
    /\ UNCHANGED <<decision, streaming, time, plan, attempt, graph, sent, hist>>

\* Each attempt is a fresh thread: nothing of an earlier run is replayed.
StartAttemptOn(g) ==
    /\ stage' = "running"
    /\ attempt' = attempt + 1
    /\ graph' = g
    /\ UNCHANGED <<approval, response, sent>>
StartAttemptOnSameThread == StartAttemptOn(graph)                   \* mutant
StartAttemptUncounted ==                                            \* mutant
    /\ stage' = "running" /\ graph' = NewGraph
    /\ attempt' = IF attempt = 0 THEN 1 ELSE attempt
    /\ UNCHANGED <<approval, response, sent>>
StartAttempt == StartAttemptOn(NewGraph)

Accept(p) ==
    CASE Verdict(p) = "valid" -> plan' = p /\ StartAttempt
      [] Verdict(p) = "tooLarge" ->
             Respond("tooLarge", {}) /\ UNCHANGED <<plan, attempt, graph, approval>>
      [] Verdict(p) = "invalid" ->
             Raise("invalidPlan") /\ UNCHANGED <<plan, attempt, graph, sent>>

UseTemplate(matched) ==
    /\ stage = "planning" /\ TemplateMatches(matched)
    /\ Accept(Resolve(matched))
    /\ time' = 0
    /\ UNCHANGED <<decision, streaming, hist>>

\* What the planner asks: a plan, an error of the client, or no answer within
\* the time allowed.
PlannerReplies == {"plan", "clientError", "timeout"}
Smaller(a, b) == IF a < b THEN a ELSE b

Takes(allowed, reply, spent) ==
    /\ spent <= allowed
    /\ reply = "timeout" => spent = allowed
    /\ allowed = 0 => reply = "timeout"

NoPlan(replies) ==
    /\ Raise(IF \A i \in DOMAIN replies : replies[i] = "clientError"
             THEN "planningUnavailable" ELSE "planningTimeout")
    /\ UNCHANGED <<plan, attempt, graph, sent>>

\* How the models asked for the plan in progress failed.
Failures(reply) ==
    hist' = [hist EXCEPT !.planner = IF reply = "plan" THEN <<>> ELSE Append(@, reply)]

AskPlanner(reply, spent) ==
    /\ stage = "planning"
    /\ Takes(Smaller(PlannerTime, time), reply, spent)
    /\ Failures(reply)
    /\ CASE reply = "plan" -> time' = 0 /\ \E p \in Proposals : Accept(p)
         [] reply # "plan" /\ FailoverConfigured ->
                /\ stage' = "failover"
                /\ time' = time - spent
                /\ UNCHANGED <<plan, attempt, graph, approval, response, sent>>
         [] reply # "plan" /\ ~FailoverConfigured -> time' = 0 /\ NoPlan(<<reply>>)
    /\ UNCHANGED <<streaming, decision>>

SkipFailover ==
    /\ stage = "failover" /\ time < MinFailoverTime
    /\ Raise("planningTimeout")
    /\ time' = 0
    /\ UNCHANGED <<decision, streaming, plan, attempt, graph, sent, hist>>

AskFailover(reply, spent) ==
    /\ stage = "failover" /\ time >= MinFailoverTime
    /\ Takes(time, reply, spent)
    /\ Failures(reply)
    /\ IF reply = "plan" THEN \E p \in Proposals : Accept(p) ELSE NoPlan(Append(hist.planner, reply))
    /\ time' = 0
    /\ UNCHANGED <<streaming, decision>>

(***************************************************************************)
(* The graph.  A superstep runs every step whose dependencies have ended;  *)
(* the wrapper of a step skips it unless all of them completed.            *)
(***************************************************************************)
Ready == {id \in StepIds(plan) \ graph.done : DependsOn(plan, id) \subseteq graph.done}

Running == stage = "running" /\ graph.wave # {}

StartWave ==
    /\ stage = "running" /\ graph.wave = {} /\ graph.paused = <<>>
    /\ Ready # {}
    /\ graph' = [graph EXCEPT !.wave = Ready]
    /\ UNCHANGED <<decision, stage, streaming, time, plan, attempt, approval, response, sent, hist>>

DependenciesEnded(id) ==                                            \* mutant
    \A d \in DependsOn(plan, id) : graph.status[d] \in {"completed", "partial"}
DependenciesCompleted(id) ==
    \A d \in DependsOn(plan, id) : graph.status[d] = "completed"

Ended(id, status, artifact) ==
    graph' = [graph EXCEPT !.status[id] = status, !.artifact[id] = artifact,
                           !.wave = @ \ {id}, !.done = @ \cup {id}]

Skip(id) ==
    /\ Running /\ id \in graph.wave /\ ~DependenciesCompleted(id)
    /\ Ended(id, "skipped", "none")
    /\ UNCHANGED <<decision, stage, streaming, time, plan, attempt, approval, response, sent, hist>>

MayRun(id) == Running /\ id \in graph.wave /\ DependenciesCompleted(id)
AgentRan(id) == hist' = [hist EXCEPT !.ran = @ \cup {<<attempt, id>>}]

\* AgentExecutionNode: a FINAL answer, a question to the user, or the message
\* that replaced an unverified answer is kept as an artifact; a question may be
\* blank.  A turn ended by a limit or a failure leaves none.
StepResults ==
    {<<"completed", "text">>, <<"completed", "blank">>, <<"partial", "text">>,
     <<"partial", "none">>, <<"failed", "none">>}

StepEnds(id, r) ==
    /\ MayRun(id)
    /\ Ended(id, r[1], r[2])
    /\ AgentRan(id)
    /\ UNCHANGED <<decision, stage, streaming, time, plan, attempt, approval, response, sent>>

StepPauses(id) ==
    /\ MayRun(id) /\ hist.pauses < MaxPauses
    /\ graph' = [graph EXCEPT !.wave = @ \ {id}, !.paused = Append(@, id)]
    /\ hist' = [hist EXCEPT !.ran = @ \cup {<<attempt, id>>}, !.pauses = @ + 1]
    /\ UNCHANGED <<decision, stage, streaming, time, plan, attempt, approval, response, sent>>

\* A step that raises, or the graph's own time-out: the other steps of the
\* superstep are cancelled.
GraphFails(kind) ==
    /\ Running
    /\ Raise(kind)
    /\ UNCHANGED <<decision, streaming, time, plan, attempt, graph, sent, hist>>

(***************************************************************************)
(* ExecutionSession._finish and what the orchestrator makes of the result. *)
(***************************************************************************)
GraphStopped ==
    /\ stage = "running" /\ graph.wave = {}
    /\ graph.paused # <<>> \/ Ready = {}

\* Only the first interrupt is made an approval.
Prepare ==
    /\ GraphStopped /\ graph.paused # <<>> /\ approval = 0
    /\ \/ approval' = attempt /\ UNCHANGED <<stage, response>>
       \/ Raise("prepareFailed")
    /\ UNCHANGED <<decision, streaming, time, plan, attempt, graph, sent, hist>>

Prepared == GraphStopped /\ (graph.paused # <<>> => approval = attempt)

\* ExecutionStateAssembler.assemble_state, with the session's override.
ExecutionStatus ==
    LET statuses == {graph.status[id] : id \in StepIds(plan)}
    IN IF approval # 0 THEN "waitingForApproval"
       ELSE IF "failed" \in statuses THEN "failed"
       ELSE IF "partial" \in statuses THEN "partial"
       ELSE IF statuses \subseteq {"completed", "skipped"} THEN "completed" ELSE "pending"

Answering == {id \in StepIds(plan) : graph.artifact[id] # "none"}

\* The fixed message when no agent answered: handle() and stream() know whether
\* an approval is pending, a resume also what was decided.
FallbackKind ==
    IF ExecutionStatus = "waitingForApproval" THEN "pendingApproval"
    ELSE CASE decision = "none" -> "executionFailed"
           [] decision = "rejected" -> "notApproved"
           [] decision = "approved" -> "failedAfterApproval"

FallbackWithoutApproval(kind) ==                                    \* mutant
    /\ stage' = "send"
    /\ response' = [NoResponse EXCEPT !.kind = kind, !.attempt = attempt]
    /\ sent' = 0
Fallback(kind) == Respond(kind, {})

AnswerMissing ==
    /\ Prepared /\ Answering = {}
    /\ Fallback(FallbackKind)
    /\ UNCHANGED <<streaming, time, plan, attempt, graph, approval, decision, hist>>

\* ResponseValidator: one answer of each agent, and none of them blank.
AgentsUnique ==
    \A s, t \in Answering : s # t => StepOf(plan, s).agent # StepOf(plan, t).agent
NoneBlank == \A id \in Answering : graph.artifact[id] # "blank"
ResponsesValid == AgentsUnique /\ NoneBlank

ResponsesRefused ==
    /\ Prepared /\ Answering # {} /\ ~ResponsesValid
    /\ Raise(IF AgentsUnique THEN "blankAnswer" ELSE "duplicateAgent")
    /\ UNCHANGED <<streaming, time, plan, attempt, graph, decision, sent, hist>>

\* What the review should have done with each word, for the detections that no
\* other one rivals.
Misredacted(r, ds, evidence) ==
    {w \in Words :
        \E d \in ds :
            /\ w \in Covers(d)
            /\ \A e \in ds \ {d} : Overlap(d, e) => Stronger(d, e)
            /\ (w \in r.redacted.kept) # (d.category # "structured" /\ Covers(d) \subseteq evidence)}

\* A blocked answer is generated once more from the start, unless a call of this
\* run waits for an approval or the attempts are used up.  A resumed turn is not
\* generated again.
MayRegenerate == approval = 0 /\ decision = "none" /\ attempt < MaxAttempts

AnswerShown(r) == Respond("answer", r.redacted.kept)

Review(reply, ds, evidence) ==
    /\ Prepared /\ Answering # {} /\ ResponsesValid
    /\ \E r \in Reviews(reply, ds, evidence) :
           /\ hist' = IF r.action = "blocked" THEN hist
                      ELSE [hist EXCEPT !.misredacted = @ \cup Misredacted(r, ds, evidence)]
           /\ CASE r.action # "blocked" ->
                       AnswerShown(r) /\ UNCHANGED <<attempt, graph, approval>>
                [] r.action = "blocked" /\ MayRegenerate -> StartAttempt
                [] r.action = "blocked" /\ ~MayRegenerate ->
                       Respond("refusal", {}) /\ UNCHANGED <<attempt, graph, approval>>
    /\ UNCHANGED <<streaming, time, plan, decision>>

(***************************************************************************)
(* Sending the answer, and the decision that resumes a waiting turn.       *)
(***************************************************************************)
Sliced == streaming /\ response.kind = "answer"

SendSlice ==
    /\ stage = "send" /\ Sliced /\ sent < Slices
    /\ sent' = sent + 1
    /\ UNCHANGED <<stage, streaming, time, plan, attempt, graph, approval, response, decision,
                   hist>>

SendFinal ==
    /\ stage = "send" /\ (Sliced => sent = Slices)
    /\ stage' = IF approval # 0 THEN "waiting" ELSE "ended"
    /\ UNCHANGED <<streaming, time, plan, attempt, graph, approval, response, decision, sent,
                   hist>>

\* The client closes the stream: the turn is not saved.
Disconnect ==
    /\ stage = "send" /\ streaming
    /\ Raise("disconnected")
    /\ UNCHANGED <<streaming, time, plan, attempt, graph, decision, sent, hist>>

\* Executor.resume: the graph goes on from its checkpoint with the decision.  It
\* refuses one value for two interrupts.
Resume(d) ==
    /\ stage = "waiting"
    /\ decision' = d
    /\ streaming' = FALSE
    /\ IF Len(graph.paused) = 1
       THEN /\ stage' = "running"
            /\ graph' = [graph EXCEPT !.wave = {graph.paused[1]}, !.paused = <<>>]
            /\ approval' = 0
            /\ UNCHANGED response
       ELSE Raise("twoInterrupts") /\ UNCHANGED graph
    /\ UNCHANGED <<time, plan, attempt, sent, hist>>

Decisions == {"approved", "rejected"}

GraphStep ==
    \/ StartWave
    \/ \E id \in Ids : Skip(id) \/ StepPauses(id) \/ \E r \in StepResults : StepEnds(id, r)
    \/ \E kind \in {"stepRaised", "timedOut"} : GraphFails(kind)

Next ==
    \/ \E allowed \in BOOLEAN : Authorize(allowed)
    \/ \E matched \in SUBSET Templates : UseTemplate(matched)
    \/ \E reply \in PlannerReplies, spent \in 0 .. RequestTime :
           AskPlanner(reply, spent) \/ AskFailover(reply, spent)
    \/ SkipFailover
    \/ GraphStep
    \/ Prepare
    \/ AnswerMissing
    \/ ResponsesRefused
    \/ \E reply \in JudgeReplies, ds \in DetectedSets, evidence \in SUBSET Words :
           Review(reply, ds, evidence)
    \/ SendSlice
    \/ SendFinal
    \/ Disconnect
    \/ \E d \in Decisions : Resume(d)

\* The event loop goes on with the request; when a decision comes is up to the
\* user.
Fairness == WF_vars(Next /\ stage # "waiting")

Spec == Init /\ [][Next]_vars /\ Fairness

(***************************************************************************)
(* Properties.                                                             *)
(***************************************************************************)
Stages == {"new", "planning", "failover", "running", "send", "waiting", "ended"}

\* Every variable has its type.
TypeOK ==
    /\ stage \in Stages /\ streaming \in BOOLEAN
    /\ time \in 0 .. RequestTime /\ attempt \in 0 .. MaxAttempts
    /\ plan \in Proposals \cup {TemplatePlan(t) : t \in Templates} \cup {<<>>}
    /\ graph.status \in [Ids -> Statuses] /\ graph.artifact \in [Ids -> Artifacts]
    /\ graph.wave \subseteq Ids /\ graph.done \subseteq Ids
    /\ \A i \in DOMAIN graph.paused : graph.paused[i] \in Ids
    /\ decision \in {"none"} \cup Decisions /\ approval \in 0 .. MaxAttempts
    /\ response.kept \subseteq Words /\ response.approval \in BOOLEAN
    /\ sent \in 0 .. Slices
    /\ hist.ran \subseteq (1 .. MaxAttempts) \X Ids /\ hist.pauses \in 0 .. MaxPauses

\* A step's agent runs only in a run in which everything it depends on has
\* completed: a dependency that was skipped, failed or ended partially keeps it
\* from running, through any chain of steps (_dependencies_completed).
RanAfterDependencies ==
    \A id \in Ids : <<attempt, id>> \in hist.ran =>
        \A d \in TransitiveDependencies(plan, id) : graph.status[d] = "completed"

\* When the graph stops without a pause every step of the plan has run or was
\* skipped: no dependency is waited for that never comes, whatever the plan the
\* validator accepted (_add_edges, _validate_dependency_graph).
NoStepForgotten ==
    GraphStopped /\ graph.paused = <<>> => StepIds(plan) = graph.done

\* The steps of one agent never run in the same superstep: two answers of one
\* agent at once is what _validate_agent_concurrency is there to refuse.
OneStepPerAgent ==
    \A s, t \in graph.wave : s # t => StepOf(plan, s).agent # StepOf(plan, t).agent

\* An approval that a run asked for is never left behind: the run is not
\* replaced by a regeneration, and the answer sent for it, a refusal or a fixed
\* message included, carries the approval (the loop's break on a pending action).
ApprovalNotLost ==
    approval # 0 => approval = attempt /\ (stage = "waiting" => response.approval)
ApprovalCarried == stage \in {"send", "waiting"} => response.approval = (approval # 0)

\* An answer is put together from what agents wrote in the run it is sent for:
\* what a blocked run left behind is never part of it (each regeneration has a
\* thread of its own, so the checkpointer replays nothing of the blocked one).
AnsweredByThisRun ==
    stage \in {"send", "waiting"} /\ response.kind = "answer" =>
        /\ response.attempt = attempt
        /\ \A id \in Answering : <<attempt, id>> \in hist.ran

\* A word under a detection that no other detection rivals is shown exactly when
\* the turn's evidence holds it and it is no structured identifier: overlapping
\* weaker detections change neither (_resolve_overlaps).
RedactionExact == hist.misredacted = {}

\* "Unavailable" is reported only when every model asked for the plan answered
\* with an error, and a time-out when one of them ran out of time (the contract
\* in _generate_within_timeout).
PlanningErrorMatches ==
    /\ response.kind = "planningUnavailable" =>
           /\ \A i \in DOMAIN hist.planner : hist.planner[i] = "clientError"
           /\ FailoverConfigured => Len(hist.planner) = 2
    /\ response.kind = "planningTimeout" =>
           Len(hist.planner) = 1 \/ \E i \in DOMAIN hist.planner : hist.planner[i] = "timeout"

\* The plan is carried out as it stands: what a step depends on first, no step
\* left, no agent twice at once.
PlanFollowed == TypeOK /\ RanAfterDependencies /\ NoStepForgotten /\ OneStepPerAgent

\* An approval asked for reaches the user with whatever else is sent.
ApprovalKept == ApprovalNotLost /\ ApprovalCarried

\* What is sent is this run's answer with exactly the redactions due, or the
\* planning error that happened.
ResponseRight == AnsweredByThisRun /\ RedactionExact /\ PlanningErrorMatches

\* Every request ends, or waits for a decision it has told the user about, and
\* so does every resumed one, whatever the steps, the judge and the regeneration
\* loop do.
EventuallyAnswered == (stage \notin {"waiting", "ended"}) ~> (stage \in {"waiting", "ended"})

\* At most one call is paused at a time.  session.py:403 takes the first
\* interrupt because "exactly one gated tool call pauses one node at a time".
\* The code does not keep this (see the README).
OnePauseAtATime == Len(graph.paused) <= 1

\* A plan the validator accepts, every step of which answers, is not refused for
\* who answered: validator.py:128 says that one agent MAY have two steps that
\* depend on each other.
\* The code does not keep this (see the README).
ValidPlanAnswered == response.kind # "duplicateAgent"
================================================================================
