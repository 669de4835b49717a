---------------------------- MODULE ApprovedCall ----------------------------
(***************************************************************************)
(* What the approval of one gated call keeps for its owner, with no         *)
(* requests, rows or faults: a decision is taken once; an approved call is  *)
(* delivered once, and once more for each resend the owner confirmed and    *)
(* each outcome that could not be recorded; a rejected one never; and the   *)
(* conversation gets one answer, after the last delivery.                   *)
(***************************************************************************)
EXTENDS Naturals

CONSTANTS Payloads, Proposed

VARIABLES decision, payload, deliveries, resends, losses, answered

callVars == <<decision, payload, deliveries, resends, losses, answered>>

Undecided == "none"
Decisions == {"APPROVE", "EDIT", "REJECT"}

Init ==
    /\ decision = Undecided /\ payload = Proposed
    /\ deliveries = [p \in Payloads |-> 0]
    /\ resends = 0 /\ losses = 0
    /\ answered = FALSE

Decide(d, p) ==
    /\ decision = Undecided
    /\ d = "EDIT" \/ p = Proposed
    /\ decision' = d /\ payload' = p
    /\ UNCHANGED <<deliveries, resends, losses, answered>>

\* Only the decided payload is ever delivered, so its count is the total.
Deliver ==
    /\ decision \in {"APPROVE", "EDIT"} /\ ~answered
    /\ deliveries[payload] <= resends + losses
    /\ deliveries' = [deliveries EXCEPT ![payload] = @ + 1]
    /\ UNCHANGED <<decision, payload, resends, losses, answered>>

ConfirmResend ==
    /\ decision \in {"APPROVE", "EDIT"} /\ ~answered
    /\ resends' = resends + 1
    /\ UNCHANGED <<decision, payload, deliveries, losses, answered>>

LoseOutcome ==
    /\ decision \in {"APPROVE", "EDIT"} /\ ~answered
    /\ losses' = losses + 1
    /\ UNCHANGED <<decision, payload, deliveries, resends, answered>>

Answer ==
    /\ decision # Undecided /\ ~answered
    /\ answered' = TRUE
    /\ UNCHANGED <<decision, payload, deliveries, resends, losses>>

Next ==
    \/ \E d \in Decisions, p \in Payloads : Decide(d, p)
    \/ Deliver \/ ConfirmResend \/ LoseOutcome \/ Answer

Spec == Init /\ [][Next]_callVars

=============================================================================
