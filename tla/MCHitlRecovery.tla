--------------------------- MODULE MCHitlRecovery ---------------------------
(***************************************************************************)
(* What an owner who decides and retries can count on, in two parts that   *)
(* share no state: a turn of several pauses (HitlThread), and one approval *)
(* under concurrent requests (HitlApproval).  The properties of each speak *)
(* of its own variables only, so each part moves in behaviours of its own: *)
(* the approval's, in those whose turn ended without a gated call.         *)
(***************************************************************************)
EXTENDS HitlThread

CONSTANTS Requests, Users, Owner, Payloads, Proposed, ApprovalFaults, MaxApprovalFaults

VARIABLES approval, overdue, compliance, action, stale, permitted, delivered,
          confirmed, lost, answers, approvalFaults, req

oneVars == <<approval, overdue, compliance, action, stale, permitted, delivered,
             confirmed, lost, answers, approvalFaults, req>>

One == INSTANCE HitlApproval WITH
    Faults <- ApprovalFaults, MaxFaults <- MaxApprovalFaults,
    sent <- delivered, faults <- approvalFaults

\* A turn that proposed no gated call and is over.
TurnWithoutCalls ==
    /\ thread = [state |-> "ended", pending |-> 0, values |-> <<>>] /\ proposed = <<>>
    /\ row = [k \in Calls |-> NoRow] /\ shown = [k \in Calls |-> NoDraft]
    /\ sent = {} /\ attempt = NoAttempt /\ drifted = FALSE /\ faults = 0

MCInit == One!Init /\ (Init \/ TurnWithoutCalls)

MCNext ==
    \/ Next /\ UNCHANGED oneVars
    \/ TurnWithoutCalls /\ One!Next /\ UNCHANGED vars

MCSpec ==
    /\ MCInit /\ [][MCNext]_<<vars, oneVars>>
    /\ Fairness /\ One!ServerFairness /\ One!PersistentOwner

\* What was sent is on record, confirmed or lost, also when a resume outlives the
\* stale threshold and is taken over (hitl_resume.py:81).
DeliveriesAccounted == One!DeliveriesAccounted

\* A decision reaches the conversation in the end, whatever failed on the way
\* (HitlResumeService.retry).
DecidedIsAnswered == One!DecidedIsAnswered

=============================================================================
