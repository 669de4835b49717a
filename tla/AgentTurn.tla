------------------------------ MODULE AgentTurn ------------------------------
(***************************************************************************)
(* One agent's turn of a plan step: evidence is seeded, the model is asked *)
(* for a decision, tools and other agents are called on its behalf, and a  *)
(* FINAL answer passes the quality gate or is replaced.  The turn runs     *)
(* under counted limits and a time budget; what the model decides, what    *)
(* the tools return and how the judge scores an answer are free choices.   *)
(***************************************************************************)
EXTENDS Naturals, FiniteSets

CONSTANTS
    Answers,           \* texts the model may propose
    Calls,             \* tool calls and delegations it may decide on
    Gated,             \* calls of tools a human must approve (SEND)
    Denied,            \* calls of tools or agents the policy forbids
    Delegations,       \* calls of other agents
    RetrieverAllowed,  \* the agent's policy allows the retriever
    Limits,            \* the AgentExecutionBudget
    MaxAttempts,       \* ExecutionRetryPolicy.max_attempts
    NoText, NoCall, Message

Kinds == {"step", "iteration", "tool", "hop", "decision", "rejected", "result",
          "evidence", "repeated", "noProgress"}

ASSUME LimitsAssumption == Limits \in [Kinds -> Nat \ {0}] /\ MaxAttempts \in Nat \ {0}
ASSUME CallsAssumption ==
    /\ Gated \cup Denied \cup Delegations \subseteq Calls /\ NoCall \notin Calls
    /\ Gated \cap (Denied \cup Delegations) = {}
ASSUME TextAssumption == {NoText, Message} \cap Answers = {} /\ NoText # Message
ASSUME PolicyAssumption == RetrieverAllowed \in BOOLEAN

VARIABLES
    pc,      \* where the turn is, at an await or between two budget checks
    timeUp,  \* max_execution_time_seconds have passed
    n,       \* AgentState's counters
    h,       \* the rest of AgentState and of the execution handle
    result,  \* the AgentExecutionResult the continuation loop looks at
    gate,    \* _gate_final's locals and the AnswerEvaluationSummary
    hist     \* history: model calls, equal calls in a row, outages no provider
             \* made up for, verified answers

vars == <<pc, timeUp, n, h, result, gate, hist>>

Decision(type, text, call, valid) ==
    [type |-> type, text |-> text, call |-> call, valid |-> valid]
NoDecision == Decision("none", NoText, NoCall, FALSE)

\* What the validator accepts, and what it does not: a payload missing, or one
\* that belongs to another type.
ValidDecisions ==
    {Decision("final", a, NoCall, TRUE) : a \in Answers}
        \cup {Decision("call", NoText, c, TRUE) : c \in Calls}
        \cup {Decision(t, NoText, NoCall, TRUE) : t \in {"needInput", "fail"}}
InvalidDecisions ==
    {Decision("final", a, NoCall, FALSE) : a \in Answers \cup {NoText}}
        \cup {Decision(t, NoText, NoCall, FALSE) : t \in {"call", "needInput", "fail"}}

Ended == {"done", "raised", "errored"}
Working == {"thinking", "fallback", "calling", "delegating", "retrieving"}

Init ==
    /\ pc = "retrieve"
    /\ timeUp = FALSE
    /\ n = [k \in Kinds \cup {"attempt"} |-> 0]
    /\ \E e \in BOOLEAN :
           h = [status |-> "running", closed |-> FALSE, decision |-> NoDecision,
                shown |-> NoText, evidence |-> e, lastAction |-> NoCall, progressed |-> FALSE]
    /\ result = [status |-> "none", acts |-> FALSE]
    /\ gate = [purpose |-> "seed", rejected |-> NoText, summary |-> "none"]
    /\ hist = [llm |-> 0, streak |-> 0, unanswered |-> 0, verified |-> {}]

TimePasses ==
    /\ ~timeUp /\ pc \notin Ended
    /\ timeUp' = TRUE
    /\ UNCHANGED <<pc, n, h, result, gate, hist>>

\* A counted limit, and one that is checked together with the time.
Within(k) == n[k] < Limits[k]
AdmittedLate(k) == n[k] < Limits[k]                                 \* mutant
Admitted(k) == ~timeUp /\ n[k] < Limits[k]

Counted(ks) == [k \in DOMAIN n |-> IF k \in ks THEN n[k] + 1 ELSE n[k]]

\* _reject_unverified: the answer gives way to a fixed message, and the result
\* is returned without being gated again.
RejectAndGateAgain(h0) ==                                           \* mutant
    /\ h' = [h0 EXCEPT !.status = "partial", !.shown = Message]
    /\ result' = [status |-> "partial", acts |-> FALSE]
    /\ gate' = [gate EXCEPT !.summary = "unverified", !.rejected = NoText]
    /\ pc' = "result"
Reject(h0) ==
    /\ h' = [h0 EXCEPT !.status = "partial", !.shown = Message]
    /\ result' = [status |-> "partial", acts |-> FALSE]
    /\ gate' = [gate EXCEPT !.summary = "unverified", !.rejected = NoText]
    /\ pc' = "done"

(***************************************************************************)
(* Retrieval: the seed before the first reasoning call, and the corrective *)
(* one after an answer was found wanting (no evidence at all, or not       *)
(* grounded or not relevant).                                              *)
(***************************************************************************)
StartRetrieval ==
    /\ pc = "retrieve"
    /\ RetrieverAllowed /\ Admitted("tool")
    /\ n' = Counted({"tool"})
    /\ pc' = "retrieving"
    /\ UNCHANGED <<timeUp, h, result, gate, hist>>

\* Feedback is added to the context before the model is asked again, which
\* raises when the turn has just been ended.
WithoutEvidence(h0) ==
    \/ /\ gate.purpose = "missing"
       /\ Reject(h0)
    \/ /\ \/ gate.purpose = "seed"
          \/ gate.purpose = "insufficient" /\ h0.status = "running"
       /\ pc' = "reason"
       /\ h' = h0
       /\ UNCHANGED <<result, gate>>
    \/ /\ gate.purpose = "insufficient" /\ h0.status # "running"
       /\ pc' = "raised"
       /\ h' = h0
       /\ UNCHANGED <<result, gate>>

RetrievalDenied ==
    /\ pc = "retrieve"
    /\ ~(RetrieverAllowed /\ Admitted("tool"))
    /\ WithoutEvidence([h EXCEPT !.status = IF RetrieverAllowed THEN "partial" ELSE @])
    /\ UNCHANGED <<timeUp, n, hist>>

NothingRetrieved ==
    /\ pc = "retrieving"
    /\ WithoutEvidence(h)
    /\ UNCHANGED <<timeUp, n, hist>>

\* record_progress: whether the same context came again, and too often.
MayBeSame(same) == same => h.progressed
Stalls(same) == same /\ ~Within("noProgress")
Progress(m, same) ==
    [m EXCEPT !.noProgress = IF ~same THEN 0 ELSE IF Within("noProgress") THEN @ + 1 ELSE @]

EvidenceRetrieved(same) ==
    /\ pc = "retrieving" /\ MayBeSame(same)
    /\ LET kept  == Within("evidence")
           count == IF kept THEN Counted({"evidence"}) ELSE n
           after == [h EXCEPT !.evidence = @ \/ kept,
                              !.status = IF kept THEN @ ELSE "partial"]
       IN \/ /\ gate.purpose = "seed" /\ ~same
             /\ n' = count
             /\ h' = after
             /\ pc' = "reason"
             /\ UNCHANGED <<result, gate>>
          \/ /\ gate.purpose # "seed"
             /\ n' = IF kept THEN Progress(count, same) ELSE count
             /\ \/ /\ kept /\ ~Stalls(same)
                   /\ h' = [after EXCEPT !.progressed = TRUE]
                   /\ pc' = "reason"
                   /\ UNCHANGED <<result, gate>>
                \/ ~(kept /\ ~Stalls(same)) /\ Reject(after)
    /\ UNCHANGED <<timeUp, hist>>

(***************************************************************************)
(* AgentExecutionHandle.reason: one call of the model and what becomes of  *)
(* its decision.                                                           *)
(***************************************************************************)
Return(st, acts) ==
    /\ result' = [status |-> st, acts |-> acts]
    /\ pc' = "result"

Close(st, d) == [h EXCEPT !.status = st, !.closed = TRUE, !.decision = d]

Reason ==
    /\ pc = "reason"
    /\ \/ h.closed /\ pc' = "raised" /\ UNCHANGED <<n, result>>
       \/ ~h.closed /\ h.status # "running" /\ Return(h.status, FALSE) /\ UNCHANGED n
       \/ ~h.closed /\ h.status = "running" /\ n' = Counted({"attempt"}) /\ pc' = "attempt"
              /\ UNCHANGED result
    /\ UNCHANGED <<timeUp, h, gate, hist>>

BeginAttempt ==
    /\ pc = "attempt"
    /\ IF Admitted("step") /\ Admitted("iteration")
       THEN /\ n' = Counted({"step", "iteration"})
            /\ pc' = "thinking"
            /\ UNCHANGED <<h, result>>
       ELSE /\ n' = IF Admitted("step") THEN Counted({"step"}) ELSE n
            /\ h' = Close("partial", h.decision)
            /\ Return("partial", FALSE)
    /\ UNCHANGED <<timeUp, gate, hist>>

LlmCalled == hist' = [hist EXCEPT !.llm = @ + 1]

\* How a provider's call fails, as _generate maps it: it cannot be reached or is
\* overloaded ("outage"), it answered with nothing usable, or anything else (the
\* credentials, a 4xx, the request's token quota).  The local provider's own
\* outages are connection failures and time-outs.
GroqErrors == {"outage", "unusable", "other"}
LocalErrors == {"outage", "unusable", "other"}

\* Seconds that remain for more work: none once the time is up.
TimeLeft(enough) == timeUp => ~enough

Retryable(err) == err = "unusable"

\* The error of a reasoning call: an unusable answer is asked for again, while a
\* whole attempt fits the time; the turn fails with any other.
ReasoningFails(err, enough, outage) ==
    /\ TimeLeft(enough)
    /\ IF Retryable(err) /\ enough /\ n["attempt"] < MaxAttempts
       THEN pc' = "reason" /\ UNCHANGED <<h, result>>
       ELSE h' = Close("failed", h.decision) /\ Return("failed", FALSE)
    /\ hist' = [hist EXCEPT !.llm = @ + 1, !.unanswered = IF outage THEN @ + 1 ELSE @]
    /\ UNCHANGED <<timeUp, n, gate>>

\* A provider's answer, at the latest the moment the time is up if it is the
\* fallback's, which is cancelled then.
Answering == pc = "thinking" \/ (pc = "fallback" /\ ~timeUp)

\* The answer is not valid for the decision's schema, whoever gave it.
NotOfSchema(enough) == Answering /\ ReasoningFails("unusable", enough, FALSE)

PrimaryFails(err, enough) ==
    pc = "thinking" /\ err # "outage" /\ ReasoningFails(err, enough, FALSE)

\* The fallback is asked when the prompt fits its window and it has time to
\* answer.
FailsOver(enough, fits) ==
    /\ pc = "thinking" /\ TimeLeft(enough)
    /\ \/ /\ enough /\ fits
          /\ pc' = "fallback"
          /\ UNCHANGED <<timeUp, n, h, result, gate, hist>>
       \/ ~(enough /\ fits) /\ ReasoningFails("outage", FALSE, TRUE)

\* The fallback fails or is cut off: the error is the primary's.
OwnErrorRaised(err, enough) ==                                      \* mutant
    pc = "fallback" /\ ReasoningFails(err, enough, TRUE)
FallbackFails(err, enough) ==
    pc = "fallback" /\ ReasoningFails(IF err = "other" THEN err ELSE "outage", enough, TRUE)

\* _may_correct: a decision that cannot be used is counted and, while the
\* limit is not reached, the model is told why and asked again.  Otherwise the
\* turn fails, also when the time ran out and the note cannot be added.
Correct(d, m) ==
    /\ n' = IF Admitted("rejected") THEN [m EXCEPT !.rejected = @ + 1] ELSE m
    /\ IF Admitted("rejected") /\ n["rejected"] + 1 < Limits["rejected"]
       THEN h' = [h EXCEPT !.decision = d] /\ pc' = "attempt" /\ UNCHANGED result
       ELSE h' = Close("failed", d) /\ Return("failed", FALSE)

InvalidDecision(d) ==
    /\ Answering /\ ~d.valid
    /\ Correct(d, n)
    /\ LlmCalled
    /\ UNCHANGED <<timeUp, gate>>

\* The loop breaker: the same action again, and how often.
Repeats(c) == c = h.lastAction
Breaks(c) == Repeats(c) /\ ~Within("repeated")

\* _handle_decision, the decision having been admitted.
Act(d, m) ==
    LET c == d.call
    IN /\ n' = [m EXCEPT !.repeated =
                    IF ~Repeats(c) THEN 0 ELSE IF Within("repeated") THEN @ + 1 ELSE @]
       /\ IF Breaks(c)
          THEN h' = Close("partial", d) /\ Return("partial", FALSE)
          ELSE h' = [h EXCEPT !.decision = d, !.lastAction = c] /\ Return("completed", TRUE)
       /\ hist' = [hist EXCEPT !.llm = @ + 1, !.streak = IF Repeats(c) THEN @ ELSE 0]

Handle(d, m) ==
    \/ /\ d.type = "final"
       /\ n' = m
       /\ h' = [h EXCEPT !.decision = d, !.shown = d.text]
       /\ Return("completed", FALSE)
       /\ LlmCalled
    \/ /\ d.type = "needInput"
       /\ n' = m
       /\ h' = [Close("partial", d) EXCEPT !.shown = Message]
       /\ Return("completed", FALSE)
       /\ LlmCalled
    \/ /\ d.type = "fail" \/ d.call \in Denied \cap Delegations
       /\ n' = m
       /\ h' = [Close("failed", d) EXCEPT !.shown = IF d.type = "fail" THEN Message ELSE @]
       /\ Return("failed", FALSE)
       /\ LlmCalled
    \/ d.type = "call" /\ d.call \in Denied \ Delegations /\ Correct(d, m) /\ LlmCalled
    \/ d.type = "call" /\ d.call \notin Denied /\ Act(d, m)

ValidDecision(d) ==
    /\ Answering /\ d.valid
    /\ IF Admitted("decision")
       THEN Handle(d, Counted({"decision"}))
       ELSE /\ h' = Close("partial", d)
            /\ Return("partial", FALSE)
            /\ LlmCalled
            /\ UNCHANGED n
    /\ UNCHANGED <<timeUp, gate>>

(***************************************************************************)
(* AgentContinuationService.execute: what a result leads to.               *)
(***************************************************************************)

\* The retry inside the gate ended the turn before a new decision was handled:
\* what would be shown is still the answer just rejected.
RetryEnded == h.status # "running" /\ gate.rejected # NoText /\ h.shown = gate.rejected

LeaveGate == gate' = [gate EXCEPT !.rejected = NoText]

RejectAfterRetry ==
    /\ pc = "result" /\ RetryEnded
    /\ Reject(h)
    /\ UNCHANGED <<timeUp, n, hist>>

\* An action takes a step, and a tool call or an agent hop unless it pauses for
\* approval: the approved call is run by the resumption.
Budgets(c) == {"step"} \cup (IF c \in Gated THEN {} ELSE IF c \in Delegations THEN {"hop"} ELSE {"tool"})

StartCall ==
    LET c == h.decision.call
    IN /\ pc = "result" /\ ~RetryEnded /\ result.acts
       /\ \A k \in Budgets(c) : Admitted(k)
       /\ n' = Counted(Budgets(c))
       /\ pc' = IF c \in Gated THEN "approval" ELSE IF c \in Delegations THEN "delegating" ELSE "calling"
       /\ hist' = [hist EXCEPT !.streak = @ + 1]
       /\ LeaveGate
       /\ UNCHANGED <<timeUp, h, result>>

CallNotAdmitted ==
    /\ pc = "result" /\ ~RetryEnded /\ result.acts
    /\ \E k \in Budgets(h.decision.call) : ~Admitted(k)
    /\ n' = IF Admitted("step") THEN Counted({"step"}) ELSE n
    /\ h' = [h EXCEPT !.status = "partial"]
    /\ result' = [status |-> "partial", acts |-> FALSE]
    /\ pc' = "done"
    /\ LeaveGate
    /\ UNCHANGED <<timeUp, hist>>

Judge ==
    /\ pc = "result" /\ ~RetryEnded /\ h.decision.type = "final" /\ h.decision.text # NoText
    /\ \/ h.status # "running" /\ Reject(h)
       \/ /\ h.status = "running"
          /\ pc' = "judging"
          /\ LeaveGate
          /\ UNCHANGED <<h, result>>
    /\ UNCHANGED <<timeUp, n, hist>>

\* Everything else is returned as it is, a FINAL without text among it.
ReturnResult ==
    /\ pc = "result" /\ ~RetryEnded /\ ~result.acts
    /\ h.decision.type = "final" => h.decision.text = NoText
    /\ pc' = "done"
    /\ LeaveGate
    /\ UNCHANGED <<timeUp, n, h, result, hist>>

(***************************************************************************)
(* Tool calls and delegations coming back.                                 *)
(***************************************************************************)
EndTurn(st, h0) ==
    /\ h' = [h0 EXCEPT !.status = st]
    /\ result' = [status |-> st, acts |-> FALSE]
    /\ pc' = "done"

ResultsFull ==
    /\ pc \in {"calling", "approval"} /\ ~Within("result")
    /\ EndTurn("partial", h)
    /\ UNCHANGED <<timeUp, n, gate, hist>>

\* A context of one item is recorded, and whether it is new; then the model is
\* asked again.
Learn(m, evident, same) ==
    IF Within("evidence") /\ ~Stalls(same)
    THEN /\ n' = Progress([m EXCEPT !.evidence = @ + 1], same)
         /\ h' = [h EXCEPT !.evidence = @ \/ evident, !.progressed = TRUE]
         /\ pc' = "reason"
         /\ UNCHANGED result
    ELSE /\ n' = IF Within("evidence") THEN [m EXCEPT !.evidence = @ + 1] ELSE m
         /\ EndTurn("partial", [h EXCEPT !.evidence = @ \/ (evident /\ Within("evidence"))])

CallSucceeds(evident, same) ==
    /\ pc \in {"calling", "approval"} /\ Within("result") /\ MayBeSame(same)
    /\ Learn(Counted({"result"}), evident, same)
    /\ UNCHANGED <<timeUp, gate, hist>>

\* The tool's error is a note to the model, not evidence.
CallFails(same) ==
    /\ pc \in {"calling", "approval"} /\ Within("result") /\ MayBeSame(same)
    /\ n' = Progress(Counted({"result"}), same)
    /\ IF Stalls(same)
       THEN EndTurn("failed", h)
       ELSE h' = [h EXCEPT !.progressed = TRUE] /\ pc' = "reason" /\ UNCHANGED result
    /\ UNCHANGED <<timeUp, gate, hist>>

CallRefused ==
    /\ pc = "approval" /\ Within("result")
    /\ n' = Counted({"result"})
    /\ EndTurn("failed", h)
    /\ UNCHANGED <<timeUp, gate, hist>>

\* The delegated agent's verified answer, or a note that it has none.
DelegationReturns(verified, same) ==
    /\ pc = "delegating" /\ MayBeSame(same)
    /\ Learn(n, verified, same)
    /\ UNCHANGED <<timeUp, gate, hist>>

\* An unregistered tool or agent, or a delegated turn that raised.
CallErrors ==
    /\ pc \in {"calling", "delegating"}
    /\ pc' = "errored"
    /\ UNCHANGED <<timeUp, n, h, result, gate, hist>>

(***************************************************************************)
(* _gate_final, the checks having come back.  Groundedness is the judge's   *)
(* score, if there is evidence to compare with; relevance and the other     *)
(* similarities come from the embedding model.                              *)
(***************************************************************************)

\* The judge's reply: a score on either side of min_groundedness, a reply
\* without a score, or none because its provider is down.
JudgeReplies == {"supported", "unsupported", "unusable", "down"}
Similarities == {"close", "far", "down"}

\* A reply without a score counts as the score 0.
FaithfulUnlessRefuted(reply) == reply # "unsupported"               \* mutant
Faithful(reply) == reply = "supported"

Evaluation(reply, sim) ==
    [scored |-> sim # "down", relevant |-> sim = "close",
     grounded |-> h.evidence /\ Faithful(reply), down |-> h.evidence /\ reply = "down"]
Sound(reply, sim) == h.evidence /\ reply = "supported" /\ sim = "close"

SufficientWithoutEvidence(v) == (h.evidence => v.grounded) /\ v.relevant    \* mutant
Sufficient(v) == h.evidence /\ v.grounded /\ v.relevant

Judged(reply, sim) ==
    LET answer == h.decision.text
        v == Evaluation(reply, sim)
    IN /\ pc = "judging"
       /\ hist' = [hist EXCEPT !.verified = IF Sound(reply, sim) THEN @ \cup {answer} ELSE @]
       /\ \/ /\ v.scored /\ Sufficient(v)
             /\ gate' = [gate EXCEPT !.summary = "verified"]
             /\ pc' = "done"
             /\ UNCHANGED <<n, h, result>>
          \/ ~v.scored /\ Reject(h) /\ UNCHANGED n
          \/ /\ v.scored /\ ~Sufficient(v)
             /\ \/ (v.down \/ ~Admitted("step")) /\ Reject(h) /\ UNCHANGED n
                \/ /\ ~v.down /\ Admitted("step")
                   /\ n' = Counted({"step"})
                   /\ gate' = [gate EXCEPT !.rejected = h.shown,
                                  !.purpose = IF h.evidence THEN "insufficient" ELSE "missing"]
                   /\ pc' = "retrieve"
                   /\ UNCHANGED <<h, result>>
       /\ UNCHANGED timeUp

Retrieve == \/ StartRetrieval \/ RetrievalDenied \/ NothingRetrieved
            \/ \E s \in BOOLEAN : EvidenceRetrieved(s)
Think == \/ Reason \/ BeginAttempt
         \/ \E e \in GroqErrors, t \in BOOLEAN : PrimaryFails(e, t)
         \/ \E e \in LocalErrors, t \in BOOLEAN : FallbackFails(e, t)
         \/ \E t, f \in BOOLEAN : NotOfSchema(t) \/ FailsOver(t, f)
         \/ \E d \in InvalidDecisions : InvalidDecision(d)
         \/ \E d \in ValidDecisions : ValidDecision(d)
Continue == StartCall \/ CallNotAdmitted \/ RejectAfterRetry \/ Judge \/ ReturnResult
Answered == \/ ResultsFull \/ CallRefused \/ CallErrors
            \/ \E e, s \in BOOLEAN : CallSucceeds(e, s) \/ DelegationReturns(e, s)
            \/ \E s \in BOOLEAN : CallFails(s)
Gate == \E r \in JudgeReplies, s \in Similarities : Judged(r, s)

Step == Retrieve \/ Think \/ Continue \/ Answered \/ Gate
Next == Step \/ TimePasses

\* Every await has its own timeout and comes back; a human's answer may not.
Spec == Init /\ [][Next]_vars /\ WF_vars(pc # "approval" /\ Step)

(***************************************************************************)
(* Properties.                                                             *)
(***************************************************************************)

\* Counters stay within their limits; only result records may be asked for once
\* the limit is reached.
TypeOK ==
    /\ pc \in Ended \cup Working \cup {"retrieve", "reason", "attempt", "result", "approval", "judging"}
    /\ timeUp \in BOOLEAN
    /\ DOMAIN n = Kinds \cup {"attempt"} /\ \A k \in Kinds : n[k] \in 0..Limits[k]
    /\ h \in [status : {"running", "partial", "failed"}, closed : BOOLEAN,
              decision : ValidDecisions \cup InvalidDecisions \cup {NoDecision},
              shown : Answers \cup {NoText, Message}, evidence : BOOLEAN,
              lastAction : Calls \cup {NoCall}, progressed : BOOLEAN]
    /\ result \in [status : {"none", "completed", "partial", "failed"}, acts : BOOLEAN]
    /\ gate \in [purpose : {"seed", "missing", "insufficient"}, rejected : Answers \cup {NoText},
                 summary : {"none", "verified", "unverified"}]
    /\ hist.verified \subseteq Answers

\* The model is called at most max_iterations times in a turn, whatever makes
\* it be asked again: an unusable answer, a correction, a failed tool, a
\* rejected answer (reason, _may_correct, _gate_final).
LlmCallsBounded == hist.llm <= Limits["iteration"]

\* A provider's outage is not repeated: retries are for unusable answers, and an
\* outage the fallback did not make up for ends the turn, however the fallback
\* failed ("retrying them again here would multiply calls against a provider
\* that is already down", build_retry_classifier).
OutagesNotRepeated == hist.unanswered <= 1

\* An action is carried out at most max_repeated_action + 1 times without a
\* different one being decided on, also when rejected answers, corrections and
\* failures lie between (LoopBreaker.record_action).
RepeatBound == hist.streak <= Limits["repeated"] + 1

\* A turn whose last decision proposes a FINAL answer shows that answer,
\* verified against evidence, or the fixed message (_gate_final).
AnswerVerifiedOrReplaced ==
    pc = "done" /\ h.decision.type = "final" /\ h.decision.text # NoText =>
        \/ h.shown \in hist.verified /\ h.shown = h.decision.text /\ gate.summary = "verified"
        \/ h.shown = Message /\ gate.summary = "unverified"

\* The runtime's own RuntimeErrors (a handle used after it closed or stopped
\* running) escape only in the instant between two checks of the time: never
\* because a counted limit was reached, provided the tool budget outlasts the
\* iterations, as the defaults' 20 and 10 do.
RaisesOnlyWhenLate == pc = "raised" => timeUp

\* What a turn may cost: no rejected answer, correction, retry or fallback gets
\* round a limit, and none of them makes the runtime raise its own error.
WorkBounded ==
    TypeOK /\ LlmCallsBounded /\ OutagesNotRepeated /\ RepeatBound /\ RaisesOnlyWhenLate

\* Once the time is up or the turn has ended, no model call, tool call,
\* retrieval or delegation is begun.
NothingStartsLate ==
    [][timeUp \/ h.status # "running" => pc' \notin Working \/ pc' = pc]_vars

\* The turn ends, or waits for a human.
Terminates == <>[](pc \in Ended \cup {"approval"})

\* "for legal output an unverified answer must not reach the user": what a step
\* with a FINAL or NEED_INPUT decision shows is never an answer the gate has
\* not accepted (continuation.py's comment on UNVERIFIED_ANSWER_MESSAGE, and
\* AgentExecutionNode, which shows partial_response for these decisions).
UnverifiedNotShown ==
    pc = "done" /\ h.decision.type \in {"final", "needInput"} =>
        h.shown \notin Answers \ hist.verified
=============================================================================
