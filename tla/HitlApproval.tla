---------------------------- MODULE HitlApproval ----------------------------
(***************************************************************************)
(* One gated tool call (an email) proposed by an agent, its approval, and  *)
(* the HTTP requests that decide it and resume the paused conversation:    *)
(* ApprovalLifecycleService, HitlResumeService, the two repositories with  *)
(* a conditional UPDATE, the approval token verifier and the endpoints     *)
(* POST /approvals/{id}/decision and POST /approvals/{id}/resume.          *)
(*                                                                         *)
(* A step is one database transaction (READ COMMITTED) or one external     *)
(* call of one request; requests interleave freely, in any number of       *)
(* worker processes.  A request slot is reused once it has replied.        *)
(***************************************************************************)
EXTENDS Naturals, Sequences

CONSTANTS
    Requests,     \* request slots: how many requests may be in flight at once
    Users,        \* authenticated users
    Owner,        \* the user the action was proposed for (approval.requested_by)
    Payloads,     \* parameters the gated tool can be called with
    Proposed,     \* those the agent proposed; an edit replaces them
    Faults,       \* the kinds of fault that may happen, a subset of FaultKinds
    MaxFaults     \* bound: how many faults happen in a behaviour

FaultKinds == {"save", "claim", "load", "send", "reject", "store", "answer",
               "record", "crash", "slow"}

ASSUME OwnerAssumption == Owner \in Users
ASSUME ProposedAssumption == Proposed \in Payloads
ASSUME FaultAssumption == Faults \subseteq FaultKinds /\ MaxFaults \in Nat

VARIABLES
    approval,     \* the approvals row: status, decision, the payload it approves
    overdue,      \* now >= approval.expires_at
    compliance,   \* decisions in the compliance log, oldest first
    action,       \* the agent_actions row: status and stored tool result
    stale,        \* action.updated_at is older than HITL_RESUME_STALE_SECONDS
    permitted,    \* the user's current role allows the action
    sent,         \* payloads the external service delivered, oldest first
    confirmed,    \* takeovers whose possible second send the user confirmed
    lost,         \* history: outcomes of a call whose commit failed
    answers,      \* assistant events the resumed turns committed
    faults,       \* faults so far
    req           \* each slot: where its request is, and what it has read

vars == <<approval, overdue, compliance, action, stale, permitted, sent,
          confirmed, lost, answers, faults, req>>
rows == <<approval, compliance, action, stale, sent, confirmed, lost, answers>>
environment == <<overdue, permitted>>

None == "none"
Unread == "unread"
Decisions == {"APPROVE", "EDIT", "REJECT"}
Approving == {"APPROVE", "EDIT"}
StatusOf == [APPROVE |-> "APPROVED", EDIT |-> "EDITED", REJECT |-> "REJECTED"]

\* What the ToolResult of an attempt tells: the server answered, the call raised
\* or was not let through, the user's role no longer allows it.
Results == {"success", "failed", "refused"}

ClaimableOnce == {"PENDING_APPROVAL"}
Claimable == {"PENDING_APPROVAL", "FAILED"}
Spent == {"COMPLETED", "REJECTED"}

\* A request holds the action's claim from its conditional UPDATE to its reply.
Holding == {"load", "verify", "send", "store", "answer", "undo"}
Locations == {"idle", "expire", "save", "claim"} \cup Holding

Replies == {None, "forbidden", "expired", "conflict", "error",
            "needsConfirmation", "inProgress", "failed", "completed"}

Idle(reply) == [pc |-> "idle", reply |-> reply, decision |-> None,
                payload |-> Proposed, takeOver |-> "no", seen |-> Unread,
                result |-> None]

-----------------------------------------------------------------------------
(* Requests *)

At(r, pc) == req[r].pc = pc
Reply(r, reply) == req' = [req EXCEPT ![r] = Idle(reply)]
Goto(r, pc) == req' = [req EXCEPT ![r].pc = pc]
GotoWith(r, pc, result) ==
    req' = [req EXCEPT ![r].pc = pc, ![r].result = result]

\* A fault of kind k happens in this step.
Fault(k) == k \in Faults /\ faults < MaxFaults /\ faults' = faults + 1
NoFault == UNCHANGED faults

Init ==
    /\ approval = [status |-> "WAITING", decision |-> None, payload |-> Proposed]
    /\ overdue = FALSE
    /\ compliance = <<>>
    /\ action = [status |-> "PENDING_APPROVAL", result |-> None]
    /\ stale = FALSE
    /\ permitted = TRUE
    /\ sent = <<>>
    /\ confirmed = 0 /\ lost = 0
    /\ answers = 0
    /\ faults = 0
    /\ req = [r \in Requests |-> Idle(None)]

\* A decision is POSTed.  The row is read without a lock; the expiry is
\* tested before the status.
Decide(r, u, d, p) ==
    /\ At(r, "idle")
    /\ d = "EDIT" \/ p = Proposed
    /\ \/ u # Owner /\ Reply(r, "forbidden")
       \/ u = Owner /\ overdue /\ Goto(r, "expire")
       \/ /\ u = Owner /\ ~overdue /\ approval.status # "WAITING"
          /\ Reply(r, "conflict")
       \/ /\ u = Owner /\ ~overdue /\ approval.status = "WAITING"
          /\ req' = [req EXCEPT ![r] = [Idle(None) EXCEPT
                       !.pc = "save", !.decision = d, !.payload = p]]
    /\ NoFault /\ UNCHANGED <<rows, environment>>

\* The status is overwritten whatever the row holds by now, then committed.
Expire(r) ==
    /\ At(r, "expire")
    /\ \/ /\ approval' = [approval EXCEPT !.status = "EXPIRED"]
          /\ Reply(r, "expired") /\ NoFault
       \/ Fault("save") /\ Reply(r, "error") /\ UNCHANGED approval
    /\ UNCHANGED <<compliance, action, stale, sent, confirmed, lost, answers, environment>>

\* Mutant: the row is saved without the WHERE clause.
SaveDecisionUnconditionally(r) ==
    /\ At(r, "save")
    /\ approval' = [status |-> StatusOf[req[r].decision],
                    decision |-> req[r].decision, payload |-> req[r].payload]
    /\ compliance' = <<req[r].decision>>
    /\ Goto(r, "claim") /\ NoFault
    /\ UNCHANGED <<action, stale, sent, confirmed, lost, answers, environment>>

\* Mutant: the compliance row is written in a transaction of its own.
SaveDecisionNotAtomic(r) ==
    /\ At(r, "save")
    /\ \/ /\ approval.status = "WAITING"
          /\ approval' = [status |-> StatusOf[req[r].decision],
                          decision |-> req[r].decision, payload |-> req[r].payload]
          /\ compliance' = Append(compliance, req[r].decision)
          /\ Goto(r, "claim") /\ NoFault
       \/ /\ Fault("save") /\ Reply(r, "error")
          /\ compliance' = Append(compliance, req[r].decision) /\ UNCHANGED approval
    /\ UNCHANGED <<action, stale, sent, confirmed, lost, answers, environment>>

\* One transaction: the conditional UPDATE ... WHERE status = WAITING and the
\* compliance row; a failure of either rolls both back.
SaveDecision(r) ==
    /\ At(r, "save")
    /\ \/ /\ approval.status = "WAITING"
          /\ approval' = [status   |-> StatusOf[req[r].decision],
                          decision |-> req[r].decision,
                          payload  |-> req[r].payload]
          /\ compliance' = Append(compliance, req[r].decision)
          /\ Goto(r, "claim") /\ NoFault
       \/ /\ approval.status # "WAITING"
          /\ Reply(r, "conflict") /\ NoFault /\ UNCHANGED <<approval, compliance>>
       \/ Fault("save") /\ Reply(r, "error") /\ UNCHANGED <<approval, compliance>>
    /\ UNCHANGED <<action, stale, sent, confirmed, lost, answers, environment>>

-----------------------------------------------------------------------------
(* Retrying a resume *)

\* Taking the action over could send a second time.
MayHaveSent == approval.decision # "REJECT" /\ action.result = None

RetryRefusal(u, force) ==
    IF u # Owner THEN "forbidden"
    ELSE IF approval.decision = None \/ action.status \in Spent THEN "conflict"
    ELSE IF action.status = "EXECUTING" /\ stale /\ MayHaveSent /\ ~force
         THEN "needsConfirmation"
    ELSE None

\* The action is loaded here, before the claim, and stays in the session's
\* identity map: the resume will see this result, not the row's.
Retry(r, u, force) ==
    /\ At(r, "idle")
    /\ \/ RetryRefusal(u, force) # None /\ Reply(r, RetryRefusal(u, force))
       \/ /\ RetryRefusal(u, force) = None
          /\ req' = [req EXCEPT ![r] = [
                 pc |-> "claim", reply |-> None,
                 decision |-> approval.decision, payload |-> approval.payload,
                 takeOver |-> IF ~(action.status = "EXECUTING" /\ stale) THEN "no"
                              ELSE IF MayHaveSent THEN "confirmed" ELSE "safe",
                 seen |-> action.result, result |-> None]]
    /\ NoFault /\ UNCHANGED <<rows, environment>>

-----------------------------------------------------------------------------
(* The resume: claim, run the approved call, store its result, answer *)

\* Mutant: an EXECUTING action is claimed however fresh.
CanClaimFresh(r) == action.status \in Claimable \cup {"EXECUTING"}

CanClaim(r) ==
    \/ action.status \in Claimable
    \/ req[r].takeOver # "no" /\ action.status = "EXECUTING" /\ stale

\* One conditional UPDATE to EXECUTING, committed at once.
Claim(r) ==
    /\ At(r, "claim")
    /\ \/ /\ CanClaim(r)
          /\ action' = [action EXCEPT !.status = "EXECUTING"]
          /\ stale' = FALSE
          /\ confirmed' = IF req[r].takeOver = "confirmed" THEN confirmed + 1
                          ELSE confirmed
          /\ Goto(r, "load") /\ NoFault
       \/ /\ ~CanClaim(r)
          /\ Reply(r, "inProgress") /\ NoFault
          /\ UNCHANGED <<action, stale, confirmed>>
       \/ Fault("claim") /\ Reply(r, "failed") /\ UNCHANGED <<action, stale, confirmed>>
    /\ UNCHANGED <<approval, compliance, sent, lost, answers, environment>>

\* The result the session knows for the action: a fresh read after a
\* decision, the copy loaded before the claim on a retry.
KnownResult(r) == IF req[r].seen = Unread THEN action.result ELSE req[r].seen

\* Reuse a stored result, or check the current role before a fresh call.
Load(r) ==
    /\ At(r, "load")
    /\ \/ /\ req[r].decision = "REJECT" \/ KnownResult(r) # None
          /\ GotoWith(r, "answer", KnownResult(r)) /\ NoFault
       \/ /\ req[r].decision # "REJECT" /\ KnownResult(r) = None
          /\ IF permitted THEN Goto(r, "verify")
                          ELSE GotoWith(r, "store", "refused")
          /\ NoFault
       \/ Fault("load") /\ Goto(r, "undo")
    /\ UNCHANGED <<rows, environment>>

\* The tool asks the verifier, in a session of its own, whether the token
\* covers exactly this call and is unspent.  A refusal is a failed result.
TokenValidReusable(r) ==    \* mutant: a stored result does not spend the token
    approval.status \in {"APPROVED", "EDITED"} /\ req[r].payload = approval.payload

TokenValid(r) ==
    /\ approval.status \in {"APPROVED", "EDITED"}
    /\ action.status \notin Spent /\ action.result = None
    /\ req[r].payload = approval.payload

VerifyToken(r) ==
    /\ At(r, "verify")
    /\ IF TokenValid(r) THEN Goto(r, "send") ELSE GotoWith(r, "store", "failed")
    /\ NoFault /\ UNCHANGED <<rows, environment>>

\* The external call.  An error that is raised, before or after delivery, becomes
\* a failed ToolResult; an answer that is flagged as an error is returned as the
\* text of a success (_call_mcp), whatever became of the message.
Send(r) ==
    /\ At(r, "send")
    /\ \/ /\ sent' = Append(sent, req[r].payload)
          /\ GotoWith(r, "store", "success") /\ NoFault
       \/ /\ sent' \in {sent, Append(sent, req[r].payload)}
          /\ \/ Fault("reject") /\ GotoWith(r, "store", "success")
             \/ Fault("send") /\ GotoWith(r, "store", "failed")
    /\ UNCHANGED <<approval, compliance, action, stale, confirmed, lost, answers, environment>>

\* The outcome is committed before the graph is resumed.  If the commit fails
\* nothing on record says that the call was made.
StoreResult(r) ==
    /\ At(r, "store")
    /\ \/ /\ action' = [action EXCEPT !.result = req[r].result]
          /\ stale' = FALSE
          /\ Goto(r, "answer") /\ NoFault /\ UNCHANGED lost
       \/ /\ Fault("store")
          /\ lost' = IF req[r].result = "refused" THEN lost ELSE lost + 1
          /\ Goto(r, "undo") /\ UNCHANGED <<action, stale>>
    /\ UNCHANGED <<approval, compliance, sent, confirmed, answers, environment>>

\* The graph is resumed; its answer event and the final status are one
\* transaction.
Answer(r) ==
    /\ At(r, "answer")
    /\ \/ /\ action' = [status |-> IF req[r].decision = "REJECT" THEN "REJECTED"
                                   ELSE "COMPLETED",
                        result |-> req[r].result]
          /\ answers' = answers + 1
          /\ stale' = FALSE
          /\ Reply(r, "completed") /\ NoFault
       \/ Fault("answer") /\ Goto(r, "undo") /\ UNCHANGED <<action, answers, stale>>
    /\ UNCHANGED <<approval, compliance, sent, confirmed, lost, environment>>

\* After a rollback the row is read again and marked FAILED, keeping a stored
\* result; if that write fails too it is only logged.
RecordFailure(r) ==
    /\ At(r, "undo")
    /\ \/ /\ action' = [action EXCEPT !.status = "FAILED"]
          /\ stale' = FALSE /\ NoFault
       \/ Fault("record") /\ UNCHANGED <<action, stale>>
    /\ Reply(r, "failed")
    /\ UNCHANGED <<approval, compliance, sent, confirmed, lost, answers, environment>>

Step(r) ==
    \/ Expire(r) \/ SaveDecision(r) \/ Claim(r) \/ Load(r) \/ VerifyToken(r)
    \/ Send(r) \/ StoreResult(r) \/ Answer(r) \/ RecordFailure(r)

-----------------------------------------------------------------------------
(* The environment *)

\* The worker process of a request stops (or the request is cancelled).
Crash(r) ==
    /\ ~At(r, "idle")
    /\ Fault("crash") /\ Reply(r, None)
    /\ UNCHANGED <<rows, environment>>

TimePasses == ~overdue /\ overdue' = TRUE /\ UNCHANGED <<rows, permitted, faults, req>>

\* A claim gets old.  While its holder runs this happens only as a "slow"
\* fault: the threshold is longer than a whole resume can take.
GoStale ==
    /\ action.status = "EXECUTING" /\ ~stale
    /\ IF \E r \in Requests : req[r].pc \in Holding THEN Fault("slow") ELSE NoFault
    /\ stale' = TRUE
    /\ UNCHANGED <<approval, compliance, action, sent, confirmed, lost, answers,
                   environment, req>>

RoleChange == permitted' = ~permitted /\ UNCHANGED <<rows, overdue, faults, req>>

Next ==
    \/ \E r \in Requests :
          \/ \E u \in Users, d \in Decisions, p \in Payloads : Decide(r, u, d, p)
          \/ \E u \in Users, force \in BOOLEAN : Retry(r, u, force)
          \/ Step(r)
          \/ Crash(r)
    \/ TimePasses \/ GoStale \/ RoleChange

Spec == Init /\ [][Next]_vars

\* What the server does by itself: a running request takes its next step and
\* the clock moves.  Nothing retries a failed resume but its owner.
ServerFairness == (\A r \in Requests : WF_vars(Step(r))) /\ WF_vars(GoStale)

\* An owner who, shown a conversation that is stuck, keeps pressing "retry".
RetryAccepted == RetryRefusal(Owner, TRUE) = None /\ \E r \in Requests : Retry(r, Owner, TRUE)
PersistentOwner == SF_vars(RetryAccepted)

FairSpec == Spec /\ ServerFairness /\ PersistentOwner

-----------------------------------------------------------------------------
(* Properties *)

Holds(r) == req[r].pc \in Holding

RequestType ==
    [pc : Locations, reply : Replies, decision : Decisions \cup {None},
     payload : Payloads, takeOver : {"no", "safe", "confirmed"},
     seen : Results \cup {None, Unread}, result : Results \cup {None}]

\* Every variable holds a value the columns and the request's locals can hold.
TypeOK ==
    /\ approval \in [status : {"WAITING", "APPROVED", "EDITED", "REJECTED", "EXPIRED"},
                     decision : Decisions \cup {None}, payload : Payloads]
    /\ overdue \in BOOLEAN /\ stale \in BOOLEAN /\ permitted \in BOOLEAN
    /\ compliance \in Seq(Decisions)
    /\ action \in [status : Claimable \cup {"EXECUTING"} \cup Spent,
                   result : Results \cup {None}]
    /\ sent \in Seq(Payloads)
    /\ confirmed \in Nat /\ lost \in Nat /\ answers \in Nat /\ faults \in Nat
    /\ req \in [Requests -> RequestType]

\* A message leaves the system only for an approving decision that is on
\* record, and it is the payload the reviewer saw, edits included.
SentOnlyIfApproved ==
    \A i \in DOMAIN sent :
        approval.decision \in Approving /\ sent[i] = approval.payload

\* The approved call is delivered once, plus once more for each takeover the
\* user was warned about and confirmed (api.md: "The call is sent at most once").
\* The code does not keep this: see DeliveriesAccounted.
SentAtMostOnce == Len(sent) <= 1 + confirmed

\* The row keeps the call from running again unasked: it holds an outcome, or the
\* claim under which the call may have been made.
RowGuardsCall == action.result # None \/ action.status = "EXECUTING"

\* Beyond the delivery the row guards, each one was confirmed by the user or is of
\* an attempt whose outcome could not be committed (hitl_resume.py:585), however
\* attempts crash, overlap, are refused or are retried.
DeliveriesAccounted ==
    Len(sent) <= confirmed + lost + (IF RowGuardsCall THEN 1 ELSE 0)

\* No two requests are past the claim at the same time.
OneHolder == \A r, s \in Requests : Holds(r) /\ Holds(s) => r = s

\* A resumed conversation gets one answer, committed together with the final
\* status, and that status is the one the decision calls for.
AnsweredOnce ==
    /\ answers = IF action.status \in Spent THEN 1 ELSE 0
    /\ action.status = "COMPLETED" => approval.decision \in Approving
    /\ action.status = "REJECTED" => approval.decision = "REJECT"

\* The compliance log and the approvals row never disagree: one entry per
\* recorded decision, also when two reviewers race or a commit fails.
DecisionLogged ==
    compliance = IF approval.decision = None THEN <<>> ELSE <<approval.decision>>

\* A user is told that the action "was not carried out" only if it was not, unless
\* the user forced a second attempt or the first one's outcome was lost (api.md:
\* the permission is checked "only when the call hasn't run yet").  The code does
\* not keep this: a retry may act on a copy of the row older than its claim.
RefusalIsTrue == action.result = "refused" /\ confirmed + lost = 0 => sent = <<>>

\* A recorded decision, and the payload it approves, is never replaced.
DecisionIsFinal ==
    [][approval.decision # None =>
         /\ approval'.decision = approval.decision
         /\ approval'.payload = approval.payload]_vars

\* Nothing is sent after the conversation was told how the call ended.
NoSendAfterAnswer == [][sent' # sent => answers = 0]_vars

\* What is on record is what happened: the rows keep their types, the log holds
\* the decision of the approvals row, and the row accounts for what was delivered.
RecordsTrue == TypeOK /\ DecisionLogged /\ DeliveriesAccounted

\* However many requests resume and retry at once, one of them works on the
\* action and the conversation gets one answer (claim_for_resume).
ClaimsHold == OneHolder /\ AnsweredOnce

\* What was decided stays decided, and what was answered stays answered.
SettledForGood == DecisionIsFinal /\ NoSendAfterAnswer

\* Expiry applies only to deciding (api.md): it never undoes a decision.
\* The code does not keep this (see the README).
DecisionStands ==
    [][approval.decision # None => approval'.status = approval.status]_vars

\* A decision reaches the conversation in the end, whatever failed on the way.
DecidedIsAnswered == approval.decision # None ~> action.status \in Spent

=============================================================================
