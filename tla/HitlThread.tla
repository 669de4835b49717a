----------------------------- MODULE HitlThread -----------------------------
(***************************************************************************)
(* One conversation turn that pauses for approval, possibly several times: *)
(* the agent graph's checkpoint (the LangGraph thread), the agent_actions  *)
(* rows, and the attempt that is carrying a decision back into the graph.  *)
(*                                                                         *)
(* The two stores are written separately.  The checkpointer commits when   *)
(* the graph pauses or ends; the rows commit when the turn's session does. *)
(* A resumed node runs again from its top and asks the model again.  What  *)
(* it proposes at its i-th gated call takes the i-th answer, whatever call *)
(* the owner saw when deciding; the answers are told apart by position.    *)
(* That only one attempt is under way is HitlApproval's OneHolder.         *)
(***************************************************************************)
EXTENDS Naturals, Sequences

CONSTANTS
    MaxCalls,     \* bound: how many gated calls the agent proposes in the turn
    Drafts,       \* what a gated call may be: a tool and its parameters
    Faults,       \* kinds of fault that may happen, a subset of FaultKinds
    MaxFaults     \* bound: how many faults happen in a behaviour

FaultKinds == {"send", "reject", "graph", "commit", "crash", "role"}

ASSUME CallsAssumption == MaxCalls \in Nat \ {0}
ASSUME FaultAssumption == Faults \subseteq FaultKinds /\ MaxFaults \in Nat

VARIABLES
    thread,       \* the checkpoint: pending interrupt, resume values taken, ended
    proposed,     \* the gated calls of the node's last run, in order
    row,          \* committed agent_actions rows, by interrupt
    shown,        \* the call recorded in each row, which its owner decides on
    sent,         \* rows whose call reached the external service
    attempt,      \* the work in progress: chat turn, resume, or nothing
    drifted,      \* history: the checkpoint advanced and the rows did not follow
    faults        \* faults so far

vars == <<thread, proposed, row, shown, sent, attempt, drifted, faults>>

Calls == 1..MaxCalls
Results == {"success", "failed"}
NoDraft == "none"
NoRow == [status |-> "absent", decision |-> "none", result |-> "none"]
PendingRow == [NoRow EXCEPT !.status = "PENDING_APPROVAL"]
NoAttempt == [stage |-> "none", call |-> 0, result |-> "none"]

\* Mutant: a failed call is reported as done.
ResumeValueOptimistic(k, result) ==
    [from |-> k, decision |-> row[k].decision,
     result |-> IF row[k].decision = "APPROVE" THEN "success" ELSE result]

\* What Command(resume) hands to interrupt(): the decision and, if approved,
\* the result of the row's call.  It does not say which call that was.
ResumeValue(k, result) == [from |-> k, decision |-> row[k].decision, result |-> result]

Fault(k) == k \in Faults /\ faults < MaxFaults /\ faults' = faults + 1
NoFault == UNCHANGED faults

Init ==
    /\ thread = [state |-> "new", pending |-> 0, values |-> <<>>]
    /\ proposed = <<>>
    /\ row = [k \in Calls |-> NoRow]
    /\ shown = [k \in Calls |-> NoDraft]
    /\ sent = {}
    /\ attempt = [NoAttempt EXCEPT !.stage = "graph"]
    /\ drifted = FALSE
    /\ faults = 0

-----------------------------------------------------------------------------
(* The graph *)

\* The agent ran to its next gated call and paused: the checkpoint keeps every
\* resume value used so far.
PauseAt(values) ==
    /\ Len(values) < MaxCalls
    /\ thread' = [state |-> "paused", pending |-> Len(values) + 1, values |-> values]

End(values) == thread' = [state |-> "ended", pending |-> 0, values |-> values]

\* The run proposed n gated calls, whichever the model chose.
Proposes(n) == proposed' \in [1..n -> Drafts]

\* The turn's first execution, from the user's message.
ExecuteGraph ==
    /\ attempt.stage = "graph" /\ attempt.call = 0
    /\ \/ /\ PauseAt(<<>>) /\ Proposes(1) /\ NoFault
          /\ attempt' = [attempt EXCEPT !.stage = "commit"]
       \/ /\ End(<<>>) /\ Proposes(0) /\ NoFault
          /\ attempt' = [attempt EXCEPT !.stage = "commit"]
       \/ Fault("graph") /\ attempt' = NoAttempt /\ UNCHANGED <<thread, proposed>>
    /\ UNCHANGED <<row, shown, sent, drifted>>

\* The node runs again from its top and reasons afresh, only its ungated tool
\* calls being kept.  Its i-th gated call takes the i-th stored answer and the
\* next one this attempt's, unchecked; it may also end before it asks for them
\* all.  A rejection ends the step; after an approved call the agent may propose
\* another.  A thread that has ended returns its final state, and an error leaves
\* the checkpoint as it was.
ResumeGraph ==
    /\ attempt.stage = "graph" /\ attempt.call # 0
    /\ LET value  == ResumeValue(attempt.call, attempt.result)
           values == Append(thread.values, value)
       IN  \/ /\ thread.state = "ended" /\ UNCHANGED <<thread, proposed>>
              /\ attempt' = [attempt EXCEPT !.stage = "commit"] /\ NoFault
           \/ /\ thread.state = "paused"
              /\ \/ End(values) /\ Proposes(Len(values))
                 \/ \E n \in 0..Len(thread.values) : End(thread.values) /\ Proposes(n)
                 \/ value.decision = "APPROVE" /\ PauseAt(values) /\ Proposes(Len(values) + 1)
              /\ attempt' = [attempt EXCEPT !.stage = "commit"] /\ NoFault
           \/ /\ Fault("graph") /\ UNCHANGED <<thread, proposed>>
              /\ attempt' = [attempt EXCEPT !.stage = "undo"]
    /\ UNCHANGED <<row, shown, sent, drifted>>

-----------------------------------------------------------------------------
(* The turn's transaction *)

\* Mutant: a resumed turn's next approval is not recorded.
WithoutNextRow(rows) ==
    IF thread.state = "paused" /\ attempt.call = 0
    THEN [rows EXCEPT ![thread.pending] = PendingRow] ELSE rows

\* If the graph paused, prepare() adds the action and its approval to the
\* session: the paused interrupt gets its row in the same commit as the answer.
WithPreparedRow(rows) ==
    IF thread.state = "paused" THEN [rows EXCEPT ![thread.pending] = PendingRow] ELSE rows

\* The action row is made from the interrupt's payload: the paused run's call.
ShowPrepared ==
    shown' = IF thread.state = "paused"
             THEN [shown EXCEPT ![thread.pending] = proposed[thread.pending]] ELSE shown

ChatCommit ==
    /\ attempt.stage = "commit" /\ attempt.call = 0
    /\ \/ row' = WithPreparedRow(row) /\ ShowPrepared /\ NoFault /\ UNCHANGED drifted
       \/ /\ Fault("commit") \/ (thread.state = "paused" /\ Fault("role"))
          /\ drifted' = TRUE /\ UNCHANGED <<row, shown>>
    /\ attempt' = NoAttempt
    /\ UNCHANGED <<thread, proposed, sent>>

FinalStatus(k) == IF row[k].decision = "REJECT" THEN "REJECTED" ELSE "COMPLETED"

\* prepare() may refuse (the role has changed) or the commit may fail: both
\* roll the session back, never the checkpoint.
ResumeCommit ==
    /\ attempt.stage = "commit" /\ attempt.call # 0
    /\ \/ /\ row' = [WithPreparedRow(row) EXCEPT
                       ![attempt.call].status = FinalStatus(attempt.call)]
          /\ attempt' = NoAttempt /\ ShowPrepared /\ NoFault /\ UNCHANGED drifted
       \/ /\ Fault("commit") \/ (thread.state = "paused" /\ Fault("role"))
          /\ attempt' = [attempt EXCEPT !.stage = "undo"]
          /\ drifted' = TRUE /\ UNCHANGED <<row, shown>>
    /\ UNCHANGED <<thread, proposed, sent>>

RecordFailureAsFinal ==    \* mutant: a failed resume can't be retried
    /\ attempt.stage = "undo"
    /\ row' = [row EXCEPT ![attempt.call].status = "REJECTED"]
    /\ attempt' = NoAttempt /\ NoFault
    /\ UNCHANGED <<thread, proposed, shown, sent, drifted>>

RecordFailure ==
    /\ attempt.stage = "undo"
    /\ row' = [row EXCEPT ![attempt.call].status = "FAILED"]
    /\ attempt' = NoAttempt /\ NoFault
    /\ UNCHANGED <<thread, proposed, shown, sent, drifted>>

-----------------------------------------------------------------------------
(* The owner's requests *)

\* The decision is committed with the claim that follows it.
Decide(k, d) ==
    /\ attempt = NoAttempt /\ row[k].status = "PENDING_APPROVAL" /\ row[k].decision = "none"
    /\ row' = [row EXCEPT ![k].decision = d, ![k].status = "EXECUTING"]
    /\ attempt' = [stage |-> IF d = "APPROVE" THEN "tool" ELSE "graph",
                   call |-> k, result |-> "none"]
    /\ NoFault /\ UNCHANGED <<thread, proposed, shown, sent, drifted>>

\* A stored result is reused.  A claim left by a crashed worker is taken over
\* once stale; the owner confirms if the call may have run (force).
Retry(k) ==
    /\ attempt = NoAttempt /\ row[k].decision # "none"
    /\ row[k].status \in {"FAILED", "EXECUTING"}
    /\ row' = [row EXCEPT ![k].status = "EXECUTING"]
    /\ attempt' = [stage |-> IF row[k].decision = "APPROVE" /\ row[k].result = "none"
                             THEN "tool" ELSE "graph",
                   call |-> k, result |-> row[k].result]
    /\ NoFault /\ UNCHANGED <<thread, proposed, shown, sent, drifted>>

\* The row's call runs outside the graph and its result is stored at once; an
\* answer flagged as an error is a success whatever became of the message.
RunTool ==
    /\ attempt.stage = "tool"
    /\ LET k == attempt.call IN
       \E result \in Results :
          /\ \/ result = "success" /\ sent' = sent \cup {k} /\ NoFault
             \/ result = "success" /\ Fault("reject") /\ sent' \in {sent, sent \cup {k}}
             \/ result = "failed" /\ Fault("send") /\ sent' \in {sent, sent \cup {k}}
          /\ row' = [row EXCEPT ![k].result = result]
          /\ attempt' = [attempt EXCEPT !.stage = "graph", !.result = result]
    /\ UNCHANGED <<thread, proposed, shown, drifted>>

\* The worker stops between two of its steps.
Crash ==
    /\ attempt # NoAttempt /\ Fault("crash")
    /\ attempt' = NoAttempt
    /\ drifted' = (drifted \/ attempt.stage = "commit")
    /\ UNCHANGED <<thread, proposed, row, shown, sent>>

\* Nothing left to do: the turn is over, or its owner never decides.
Settled ==
    /\ attempt = NoAttempt
    /\ \A k \in Calls : row[k].status \notin {"FAILED", "EXECUTING"}
    /\ UNCHANGED vars

Next ==
    \/ ExecuteGraph \/ ResumeGraph \/ ChatCommit \/ ResumeCommit \/ RecordFailure
    \/ RunTool \/ Crash \/ Settled
    \/ \E k \in Calls : Retry(k) \/ \E d \in {"APPROVE", "REJECT"} : Decide(k, d)

Spec == Init /\ [][Next]_vars

\* The server carries on with an attempt; the owner decides what is asked and
\* retries what is stuck.
Fairness ==
    /\ WF_vars(ExecuteGraph \/ ResumeGraph \/ ChatCommit \/ ResumeCommit
               \/ RecordFailure \/ RunTool)
    /\ \A k \in Calls : WF_vars(Retry(k) \/ \E d \in {"APPROVE", "REJECT"} : Decide(k, d))

FairSpec == Spec /\ Fairness

-----------------------------------------------------------------------------
(* Properties *)

TypeOK ==
    /\ thread \in [state : {"new", "paused", "ended"}, pending : 0..MaxCalls,
                   values : Seq([from : Calls, decision : {"APPROVE", "REJECT"},
                                 result : Results \cup {"none"}])]
    /\ row \in [Calls -> [status : {"absent", "PENDING_APPROVAL", "EXECUTING", "FAILED",
                                    "COMPLETED", "REJECTED"},
                          decision : {"none", "APPROVE", "REJECT"},
                          result : Results \cup {"none"}]]
    /\ proposed \in Seq(Drafts) /\ shown \in [Calls -> Drafts \cup {NoDraft}]
    /\ sent \subseteq Calls
    /\ attempt \in [stage : {"none", "graph", "tool", "commit", "undo"},
                    call : 0..MaxCalls, result : Results \cup {"none"}]
    /\ drifted \in BOOLEAN /\ faults \in 0..MaxFaults

\* As long as every advance of the checkpoint was committed with its rows, the
\* i-th answer a replay takes is the i-th row's: the decision its owner made and
\* the outcome stored on it, never another row's, however attempts fail, are
\* retried or replay other calls.
AnsweredByOwnRow ==
    ~drifted => \A i \in DOMAIN thread.values :
        thread.values[i] = [from |-> i, decision |-> row[i].decision, result |-> row[i].result]

\* The answer the graph takes for a call is about that call (session.py:176: "the
\* tool must already have been executed for real").  The code does not keep this:
\* a replay may propose another call at the same place.
AnswerIsForProposal ==
    ~drifted => \A i \in DOMAIN thread.values \cap DOMAIN proposed : proposed[i] = shown[i]

\* What the graph is told was carried out was.  The code does not keep this: an
\* answer flagged as an error counts, and so does, once the checkpoint drifted,
\* the outcome of another row.
ReportedCallRan ==
    \A i \in DOMAIN thread.values : thread.values[i].result = "success" => i \in sent

\* The rows' calls run in the order of the pauses, each only after the conversation
\* has settled all earlier ones as approved (unless the checkpoint drifted, which
\* may skip an approval).
CallsRunInOrder ==
    ~drifted => \A k \in sent : \A j \in 1..(k - 1) :
        row[j].status = "COMPLETED" /\ row[j].decision = "APPROVE"

\* An approval the owner can decide is the one the graph is waiting for, and shows
\* the call the paused run proposed, not that of an earlier run.
OpenApprovalIsPending ==
    \A k \in Calls : row[k].status = "PENDING_APPROVAL" =>
        /\ thread.state = "paused" /\ thread.pending = k
        /\ shown[k] = proposed[k]

\* A paused turn the owner has heard of can always be continued by the owner:
\* something is left to decide or to retry.
PausedIsReachable ==
    attempt = NoAttempt /\ thread.state = "paused" /\ (\E k \in Calls : row[k] # NoRow)
        => \E k \in Calls : row[k].status \in {"PENDING_APPROVAL", "FAILED", "EXECUTING"}

\* A resumed graph is told, pause by pause and in order, what became of the row of
\* that pause (HitlResumeService hands each pause the outcome of one row), and no
\* row's call runs before its turn.  Which call a replay proposes there is up to
\* the model: see AnswerIsForProposal.
AnswersFollowRows == TypeOK /\ AnsweredByOwnRow /\ CallsRunInOrder

\* The rows and the checkpoint agree on what the turn waits for, so its owner can
\* always go on (_prepare_action runs in the transaction of the resume).
ApprovalsMatchGraph == OpenApprovalIsPending /\ PausedIsReachable

\* A turn that asked for approval ends, if its owner decides and retries.
TurnEnds == (\E k \in Calls : row[k] # NoRow) ~> thread.state = "ended"

=============================================================================
