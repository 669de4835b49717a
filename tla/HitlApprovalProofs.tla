-------------------------- MODULE HitlApprovalProofs --------------------------
(***************************************************************************)
(* HitlApproval, proved for any number of requests, users, payloads and    *)
(* faults: its types, that a decision is recorded once together with its   *)
(* compliance entry and never replaced, and that only an approved payload  *)
(* is ever sent; then one claim, every delivery accounted for, one answer, *)
(* and that it implements ApprovedCall, when a claim outlives every        *)
(* resume: the hypothesis of the theorems that need it.                    *)
(***************************************************************************)
EXTENDS MCHitlApproval, FiniteSetTheorems, SequenceTheorems, TLAPS

\* A request that carries a decision past its own commit carries the recorded
\* one, with the payload it approves.
CarriesDecision ==
    \A r \in Requests : req[r].pc \in {"claim"} \cup Holding =>
        /\ req[r].decision = approval.decision
        /\ req[r].payload = approval.payload
        /\ approval.decision # None

\* Only the resume of an approving decision runs the call.
RunsApproved ==
    \A r \in Requests : req[r].pc \in {"verify", "send", "store"} =>
        req[r].decision \in Approving

\* A request about to save is not carrying someone else's decision.
SavesDecision == \A r \in Requests : At(r, "save") => req[r].decision \in Decisions

\* The row can still be decided only while nothing is.
WaitingUndecided == approval.status = "WAITING" => approval.decision = None

IInv ==
    /\ TypeOK
    /\ WaitingUndecided /\ SavesDecision /\ CarriesDecision /\ RunsApproved
    /\ SentOnlyIfApproved /\ DecisionLogged

-----------------------------------------------------------------------------
\* The record a slot holds between requests is well formed.
LEMMA IdleType == \A reply \in Replies : Idle(reply) \in RequestType
  BY ProposedAssumption DEF Idle, RequestType, Locations, None, Unread, Results

LEMMA InitType == Init => TypeOK
  <1> SUFFICES ASSUME Init PROVE TypeOK
    OBVIOUS
  <1> USE DEF Init
  <1>1. approval \in [status : {"WAITING", "APPROVED", "EDITED", "REJECTED", "EXPIRED"},
                      decision : Decisions \cup {None}, payload : Payloads]
    BY ProposedAssumption DEF None
  <1>2. action \in [status : Claimable \cup {"EXECUTING"} \cup Spent,
                    result : Results \cup {None}]
    BY DEF Claimable
  <1>3. req \in [Requests -> RequestType]
    <2>1. None \in Replies
      BY DEF Replies
    <2>2. Idle(None) \in RequestType
      BY <2>1, IdleType
    <2> QED
      BY <2>2
  <1>4. sent \in Seq(Payloads) /\ compliance \in Seq(Decisions)
    OBVIOUS
  <1> QED
    BY <1>1, <1>2, <1>3, <1>4 DEF TypeOK

\* Replying leaves every slot well formed.
LEMMA ReplyType ==
  ASSUME TypeOK, NEW r \in Requests, NEW reply \in Replies, Reply(r, reply)
  PROVE  req' \in [Requests -> RequestType]
  BY IdleType DEF Reply, TypeOK

\* So does moving on, with or without a result.
LEMMA GotoWithType ==
  ASSUME TypeOK, NEW r \in Requests, NEW pc \in Locations,
         NEW result \in Results \cup {None}, GotoWith(r, pc, result)
  PROVE  req' \in [Requests -> RequestType]
  <1>1. req[r] \in RequestType
    BY DEF TypeOK
  <1>2. [req[r] EXCEPT !.pc = pc, !.result = result] \in RequestType
    BY <1>1 DEF RequestType
  <1> QED
    BY <1>2 DEF GotoWith, TypeOK

LEMMA GotoType ==
  ASSUME TypeOK, NEW r \in Requests, NEW pc \in Locations, Goto(r, pc)
  PROVE  req' \in [Requests -> RequestType]
  <1>1. req[r] \in RequestType
    BY DEF TypeOK
  <1>2. [req[r] EXCEPT !.pc = pc] \in RequestType
    BY <1>1 DEF RequestType
  <1> QED
    BY <1>2 DEF Goto, TypeOK

\* A fault is counted; a step without one leaves the count alone.
LEMMA FaultType == TypeOK /\ (NoFault \/ \E k \in FaultKinds : Fault(k)) => faults' \in Nat
  BY DEF TypeOK, NoFault, Fault

\* Every step keeps the types; saving needs to know that it saves a decision.
LEMMA TypeStep == TypeOK /\ SavesDecision /\ [Next]_vars => TypeOK'
  <1> SUFFICES ASSUME TypeOK, SavesDecision, [Next]_vars PROVE TypeOK'
    OBVIOUS
  <1> USE DEF rows, environment
  <1>1. ASSUME NEW r \in Requests, NEW u \in Users, NEW d \in Decisions,
               NEW p \in Payloads, Decide(r, u, d, p)
        PROVE  TypeOK'
    <2>1. CASE Reply(r, "forbidden") \/ Reply(r, "conflict")
      BY <1>1, <2>1, ReplyType, FaultType DEF Decide, TypeOK, Replies
    <2>2. CASE Goto(r, "expire")
      BY <1>1, <2>2, GotoType, FaultType DEF Decide, TypeOK, Locations
    <2>3. CASE req' = [req EXCEPT ![r] = [Idle(None) EXCEPT
                         !.pc = "save", !.decision = d, !.payload = p]]
      <3>1. Idle(None) \in RequestType
        BY IdleType DEF Replies
      <3>2. [Idle(None) EXCEPT !.pc = "save", !.decision = d, !.payload = p] \in RequestType
        BY <3>1 DEF RequestType, Locations
      <3> QED
        BY <1>1, <2>3, <3>2, FaultType DEF Decide, TypeOK
    <2> QED
      BY <1>1, <2>1, <2>2, <2>3 DEF Decide
  <1>2. ASSUME NEW r \in Requests, NEW u \in Users, NEW force \in BOOLEAN,
               Retry(r, u, force)
        PROVE  TypeOK'
    <2>1. CASE RetryRefusal(u, force) # None /\ Reply(r, RetryRefusal(u, force))
      <3>1. RetryRefusal(u, force) \in Replies
        BY DEF RetryRefusal, Replies
      <3> QED
        BY <1>2, <2>1, <3>1, ReplyType, FaultType DEF Retry, TypeOK
    <2>2. CASE RetryRefusal(u, force) = None
      <3> DEFINE take == IF ~(action.status = "EXECUTING" /\ stale) THEN "no"
                         ELSE IF MayHaveSent THEN "confirmed" ELSE "safe"
      <3> DEFINE next == [pc |-> "claim", reply |-> None,
                 decision |-> approval.decision, payload |-> approval.payload,
                 takeOver |-> take, seen |-> action.result, result |-> None]
      <3>1. take \in {"no", "safe", "confirmed"}
        OBVIOUS
      <3> HIDE DEF take
      <3>2. next \in RequestType
        BY <3>1 DEF TypeOK, RequestType, Locations, Replies
      <3>3. req' = [req EXCEPT ![r] = next]
        BY <1>2, <2>2 DEF Retry, take
      <3> HIDE DEF next
      <3> QED
        BY <1>2, <3>2, <3>3, FaultType DEF Retry, TypeOK
    <2> QED
      BY <1>2, <2>1, <2>2 DEF Retry
  <1>3. ASSUME NEW r \in Requests, Expire(r) PROVE TypeOK'
    <2>1. req' \in [Requests -> RequestType]
      BY <1>3, ReplyType DEF Expire, Replies
    <2>2. faults' \in Nat
      BY <1>3, FaultType DEF Expire, FaultKinds
    <2> QED
      BY <1>3, <2>1, <2>2 DEF Expire, TypeOK
  <1>4. ASSUME NEW r \in Requests, SaveDecision(r) PROVE TypeOK'
    <2>1. req' \in [Requests -> RequestType]
      BY <1>4, ReplyType, GotoType DEF SaveDecision, Replies, Locations
    <2>2. faults' \in Nat
      BY <1>4, FaultType DEF SaveDecision, FaultKinds
    <2>3. CASE UNCHANGED <<approval, compliance>>
      BY <1>4, <2>1, <2>2, <2>3 DEF SaveDecision, TypeOK
    <2>4. CASE ~ UNCHANGED <<approval, compliance>>
      <3>1. req[r].decision \in Decisions /\ req[r].payload \in Payloads
        BY <1>4 DEF SaveDecision, SavesDecision, TypeOK, RequestType
      <3>2. StatusOf[req[r].decision] \in {"APPROVED", "EDITED", "REJECTED"}
        BY <3>1 DEF StatusOf, Decisions
      <3>3. approval' = [status   |-> StatusOf[req[r].decision],
                         decision |-> req[r].decision,
                         payload  |-> req[r].payload]
            /\ compliance' = Append(compliance, req[r].decision)
        BY <1>4, <2>4 DEF SaveDecision
      <3>4. approval' \in [status : {"WAITING", "APPROVED", "EDITED", "REJECTED", "EXPIRED"},
                           decision : Decisions \cup {None}, payload : Payloads]
        BY <3>1, <3>2, <3>3
      <3>5. compliance' \in Seq(Decisions)
        BY <3>1, <3>3 DEF TypeOK
      <3> QED
        BY <1>4, <2>1, <2>2, <3>4, <3>5 DEF SaveDecision, TypeOK
    <2> QED
      BY <2>3, <2>4
  <1>5. ASSUME NEW r \in Requests, Claim(r) PROVE TypeOK'
    <2>1. req' \in [Requests -> RequestType]
      BY <1>5, ReplyType, GotoType DEF Claim, Replies, Locations, Holding
    <2>2. faults' \in Nat
      BY <1>5, FaultType DEF Claim, FaultKinds
    <2>3. [action EXCEPT !.status = "EXECUTING"] \in
             [status : Claimable \cup {"EXECUTING"} \cup Spent, result : Results \cup {None}]
      BY DEF TypeOK
    <2>4. action' \in [status : Claimable \cup {"EXECUTING"} \cup Spent,
                      result : Results \cup {None}]
      <3>1. action' = action \/ action' = [action EXCEPT !.status = "EXECUTING"]
        BY <1>5 DEF Claim
      <3> QED
        BY <2>3, <3>1 DEF TypeOK
    <2>5. confirmed' \in Nat
      <3>1. confirmed \in Nat
        BY DEF TypeOK
      <3>2. confirmed' = confirmed \/ confirmed' = confirmed + 1
        BY <1>5, <3>1 DEF Claim
      <3> QED
        BY <3>1, <3>2
    <2>6. stale' \in BOOLEAN
      BY <1>5 DEF Claim, TypeOK
    <2> QED
      BY <1>5, <2>1, <2>2, <2>4, <2>5, <2>6 DEF Claim, TypeOK
  <1>6. ASSUME NEW r \in Requests, Load(r) PROVE TypeOK'
    <2>1. CASE /\ req[r].decision = "REJECT" \/ KnownResult(r) # None
               /\ GotoWith(r, "answer", KnownResult(r))
      <3>1. KnownResult(r) \in Results \cup {None}
        BY DEF KnownResult, TypeOK, RequestType
      <3> QED
        BY <1>6, <2>1, <3>1, GotoWithType, FaultType DEF Load, TypeOK, Locations, Holding, FaultKinds
    <2>2. CASE Goto(r, "verify") \/ Goto(r, "undo")
      BY <1>6, <2>2, GotoType, FaultType DEF Load, TypeOK, Locations, Holding, FaultKinds
    <2>3. CASE GotoWith(r, "store", "refused")
      BY <1>6, <2>3, GotoWithType, FaultType DEF Load, TypeOK, Locations, Holding, Results, FaultKinds
    <2> QED
      BY <1>6, <2>1, <2>2, <2>3 DEF Load
  <1>7. ASSUME NEW r \in Requests, VerifyToken(r) PROVE TypeOK'
    <2>1. req' \in [Requests -> RequestType]
      BY <1>7, GotoType, GotoWithType DEF VerifyToken, Locations, Holding, Results
    <2> QED
      BY <1>7, <2>1 DEF VerifyToken, TypeOK, NoFault
  <1>8. ASSUME NEW r \in Requests, Send(r) PROVE TypeOK'
    <2>1. req' \in [Requests -> RequestType]
      BY <1>8, GotoWithType DEF Send, Locations, Holding, Results
    <2>2. faults' \in Nat
      BY <1>8, FaultType DEF Send, FaultKinds
    <2>3. sent' \in Seq(Payloads)
      <3>1. req[r].payload \in Payloads
        BY DEF TypeOK, RequestType
      <3>2. Append(sent, req[r].payload) \in Seq(Payloads)
        BY <3>1 DEF TypeOK
      <3>3. sent' = sent \/ sent' = Append(sent, req[r].payload)
        BY <1>8 DEF Send
      <3> QED
        BY <3>2, <3>3 DEF TypeOK
    <2> QED
      BY <1>8, <2>1, <2>2, <2>3 DEF Send, TypeOK
  <1>9. ASSUME NEW r \in Requests, StoreResult(r) PROVE TypeOK'
    <2>1. req' \in [Requests -> RequestType]
      BY <1>9, GotoType DEF StoreResult, Locations, Holding
    <2>2. faults' \in Nat
      BY <1>9, FaultType DEF StoreResult, FaultKinds
    <2>3. [action EXCEPT !.result = req[r].result] \in
             [status : Claimable \cup {"EXECUTING"} \cup Spent, result : Results \cup {None}]
      BY DEF TypeOK, RequestType
    <2>4. lost' \in Nat
      <3>1. lost \in Nat
        BY DEF TypeOK
      <3>2. lost' = lost \/ lost' = lost + 1
        BY <1>9 DEF StoreResult
      <3> QED
        BY <3>1, <3>2
    <2> QED
      BY <1>9, <2>1, <2>2, <2>3, <2>4 DEF StoreResult, TypeOK
  <1>10. ASSUME NEW r \in Requests, Answer(r) PROVE TypeOK'
    <2>1. req' \in [Requests -> RequestType]
      BY <1>10, ReplyType, GotoType DEF Answer, Locations, Holding, Replies
    <2>2. faults' \in Nat
      BY <1>10, FaultType DEF Answer, FaultKinds
    <2>3. req[r].result \in Results \cup {None}
      BY DEF TypeOK, RequestType
    <2>4. action' \in [status : Claimable \cup {"EXECUTING"} \cup Spent,
                      result : Results \cup {None}]
      <3>1. \/ action' = action
            \/ action' = [status |-> IF req[r].decision = "REJECT" THEN "REJECTED"
                                     ELSE "COMPLETED", result |-> req[r].result]
        BY <1>10 DEF Answer
      <3> QED
        BY <2>3, <3>1 DEF TypeOK, Spent
    <2>5. answers' \in Nat
      <3>1. answers \in Nat
        BY DEF TypeOK
      <3>2. answers' = answers \/ answers' = answers + 1
        BY <1>10, <3>1 DEF Answer
      <3> QED
        BY <3>1, <3>2
    <2>6. stale' \in BOOLEAN
      BY <1>10 DEF Answer, TypeOK
    <2> QED
      BY <1>10, <2>1, <2>2, <2>4, <2>5, <2>6 DEF Answer, TypeOK
  <1>11. ASSUME NEW r \in Requests, RecordFailure(r) PROVE TypeOK'
    <2>1. req' \in [Requests -> RequestType]
      BY <1>11, ReplyType DEF RecordFailure, Replies
    <2>2. faults' \in Nat
      BY <1>11, FaultType DEF RecordFailure, FaultKinds
    <2>3. [action EXCEPT !.status = "FAILED"] \in
             [status : Claimable \cup {"EXECUTING"} \cup Spent, result : Results \cup {None}]
      BY DEF TypeOK, Claimable
    <2> QED
      BY <1>11, <2>1, <2>2, <2>3 DEF RecordFailure, TypeOK
  <1>12. ASSUME NEW r \in Requests, Crash(r) PROVE TypeOK'
    <2>1. req' \in [Requests -> RequestType]
      BY <1>12, ReplyType DEF Crash, Replies
    <2> QED
      BY <1>12, <2>1, FaultType DEF Crash, TypeOK, FaultKinds
  <1>13. CASE TimePasses \/ GoStale \/ RoleChange
    BY <1>13, FaultType DEF TimePasses, GoStale, RoleChange, TypeOK, FaultKinds
  <1>14. CASE UNCHANGED vars
    BY <1>14 DEF vars, TypeOK
  <1> QED
    BY <1>1, <1>2, <1>3, <1>4, <1>5, <1>6, <1>7, <1>8, <1>9, <1>10, <1>11, <1>12,
       <1>13, <1>14 DEF Next, Step

-----------------------------------------------------------------------------
\* The slot of r becomes idle, or moves on behind the claim with its decision.
MovesOn(r) ==
    /\ \A q \in Requests \ {r} : req'[q] = req[q]
    /\ \/ req'[r].pc = "idle"
       \/ /\ req[r].pc \in {"claim"} \cup Holding /\ req'[r].pc \in Holding
          /\ req'[r].decision = req[r].decision /\ req'[r].payload = req[r].payload
          /\ req'[r].pc \in {"verify", "send", "store"} => req[r].decision \in Approving

\* Moving on disturbs no claim about what requests carry, as long as the
\* recorded decision stays.
LEMMA MovingOn ==
  ASSUME SavesDecision, CarriesDecision, RunsApproved, NEW r \in Requests, MovesOn(r),
         approval'.decision = approval.decision, approval'.payload = approval.payload
  PROVE  SavesDecision' /\ CarriesDecision' /\ RunsApproved'
  BY DEF MovesOn, SavesDecision, CarriesDecision, RunsApproved, At, Holding

LEMMA ReplyMovesOn ==
  ASSUME TypeOK, NEW r \in Requests, NEW reply, Reply(r, reply)
  PROVE  MovesOn(r)
  BY DEF TypeOK, Reply, Idle, MovesOn

LEMMA GotoMovesOn ==
  ASSUME TypeOK, NEW r \in Requests, NEW pc \in Holding, Goto(r, pc),
         req[r].pc \in {"claim"} \cup Holding,
         pc \in {"verify", "send", "store"} => req[r].decision \in Approving
  PROVE  MovesOn(r)
  <1>1. req[r] \in RequestType
    BY DEF TypeOK
  <1>2. req'[r] = [req[r] EXCEPT !.pc = pc] /\ \A q \in Requests \ {r} : req'[q] = req[q]
    BY DEF Goto, TypeOK
  <1> QED
    BY <1>1, <1>2 DEF MovesOn, RequestType

LEMMA GotoWithMovesOn ==
  ASSUME TypeOK, NEW r \in Requests, NEW pc \in Holding, NEW result,
         GotoWith(r, pc, result), req[r].pc \in {"claim"} \cup Holding,
         pc \in {"verify", "send", "store"} => req[r].decision \in Approving
  PROVE  MovesOn(r)
  <1>1. req[r] \in RequestType
    BY DEF TypeOK
  <1>2. req'[r] = [req[r] EXCEPT !.pc = pc, !.result = result]
        /\ \A q \in Requests \ {r} : req'[q] = req[q]
    BY DEF GotoWith, TypeOK
  <1> QED
    BY <1>1, <1>2 DEF MovesOn, RequestType

\* The steps that may change a row or send; every other step leaves the rows alone.
LEMMA RowSteps ==
  ASSUME [Next]_vars
  PROVE  \/ \E r \in Requests : \/ SaveDecision(r) \/ Expire(r) \/ Claim(r) \/ Send(r)
                               \/ StoreResult(r) \/ Answer(r) \/ RecordFailure(r)
         \/ UNCHANGED <<approval, compliance, action, sent, confirmed, lost, answers>>
  <1> DEFINE Kept == UNCHANGED <<approval, compliance, action, sent, confirmed, lost, answers>>
  <1>1. ASSUME NEW r \in Requests, NEW u \in Users, NEW d \in Decisions, NEW p \in Payloads,
               Decide(r, u, d, p)
        PROVE  Kept
    BY <1>1 DEF Decide, rows
  <1>2. ASSUME NEW r \in Requests, NEW u \in Users, NEW force \in BOOLEAN, Retry(r, u, force)
        PROVE  Kept
    BY <1>2 DEF Retry, rows
  <1>3. ASSUME NEW r \in Requests, Load(r) \/ VerifyToken(r) \/ Crash(r) PROVE Kept
    BY <1>3 DEF Load, VerifyToken, Crash, rows
  <1>4. ASSUME TimePasses \/ GoStale \/ RoleChange PROVE Kept
    BY <1>4 DEF TimePasses, GoStale, RoleChange, rows
  <1>5. ASSUME UNCHANGED vars PROVE Kept
    BY <1>5 DEF vars
  <1> HIDE DEF Kept
  <1>6. \/ \E r \in Requests : \/ SaveDecision(r) \/ Expire(r) \/ Claim(r) \/ Send(r)
                              \/ StoreResult(r) \/ Answer(r) \/ RecordFailure(r)
        \/ Kept
    BY <1>1, <1>2, <1>3, <1>4, <1>5 DEF Next, Step
  <1> QED
    BY <1>6 DEF Kept

\* What no step touches stays as it was.
LEMMA RowsKept ==
  ASSUME IInv, UNCHANGED <<approval, compliance, sent>>
  PROVE  WaitingUndecided' /\ SentOnlyIfApproved' /\ DecisionLogged'
  BY DEF IInv, WaitingUndecided, SentOnlyIfApproved, DecisionLogged

\* Every step of a request behind the claim that leaves the rows of this proof
\* alone preserves the invariant.
LEMMA ClaimedStep ==
  ASSUME IInv, NEW r \in Requests,
         Claim(r) \/ Load(r) \/ VerifyToken(r) \/ StoreResult(r) \/ Answer(r)
           \/ RecordFailure(r) \/ Crash(r)
  PROVE  MovesOn(r) /\ UNCHANGED <<approval, compliance, sent>>
  <1> USE DEF IInv, rows, At, Holding
  <1>1. CASE Claim(r)
    BY <1>1, ReplyMovesOn, GotoMovesOn DEF Claim
  <1>2. CASE Load(r)
    <2>1. req[r].decision \in Decisions
      BY <1>2 DEF Load, CarriesDecision, TypeOK, None
    <2>2. req[r].decision # "REJECT" => req[r].decision \in Approving
      BY <2>1 DEF Decisions, Approving
    <2> QED
      BY <1>2, <2>2, GotoMovesOn, GotoWithMovesOn DEF Load
  <1>3. CASE VerifyToken(r)
    BY <1>3, GotoMovesOn, GotoWithMovesOn DEF VerifyToken, RunsApproved
  <1>4. CASE StoreResult(r)
    BY <1>4, GotoMovesOn DEF StoreResult
  <1>5. CASE Answer(r)
    BY <1>5, ReplyMovesOn, GotoMovesOn DEF Answer
  <1>6. CASE RecordFailure(r)
    BY <1>6, ReplyMovesOn DEF RecordFailure
  <1>7. CASE Crash(r)
    BY <1>7, ReplyMovesOn DEF Crash
  <1> QED
    BY <1>1, <1>2, <1>3, <1>4, <1>5, <1>6, <1>7

LEMMA InitInvariant == Init => IInv
  <1>1. Init => WaitingUndecided /\ SavesDecision /\ CarriesDecision /\ RunsApproved
    BY DEF Init, Idle, At, Holding, WaitingUndecided, SavesDecision, CarriesDecision,
           RunsApproved
  <1>2. Init => SentOnlyIfApproved /\ DecisionLogged
    BY DEF Init, SentOnlyIfApproved, DecisionLogged
  <1> QED
    BY <1>1, <1>2, InitType DEF IInv

LEMMA InvariantStep == IInv /\ [Next]_vars => IInv'
  <1> SUFFICES ASSUME IInv, [Next]_vars PROVE IInv'
    OBVIOUS
  <1> USE DEF rows, environment
  <1>0. TypeOK /\ TypeOK'
    BY TypeStep DEF IInv
  <1>1. ASSUME NEW r \in Requests, NEW u \in Users, NEW d \in Decisions,
               NEW p \in Payloads, Decide(r, u, d, p)
        PROVE  IInv'
    <2>1. WaitingUndecided' /\ SentOnlyIfApproved' /\ DecisionLogged'
      BY <1>1, RowsKept DEF Decide
    <2>2. /\ \A q \in Requests \ {r} : req'[q] = req[q]
          /\ req'[r].pc \in {"idle", "expire", "save"}
          /\ req'[r].pc = "save" => req'[r].decision = d
      <3>1. CASE \E reply \in Replies : Reply(r, reply)
        BY <1>0, <3>1 DEF Reply, Idle, TypeOK
      <3>2. CASE Goto(r, "expire")
        <4>1. req[r] \in RequestType
          BY <1>0 DEF TypeOK
        <4> QED
          BY <1>0, <3>2, <4>1 DEF Goto, TypeOK, RequestType
      <3>3. CASE req' = [req EXCEPT ![r] = [Idle(None) EXCEPT
                           !.pc = "save", !.decision = d, !.payload = p]]
        BY <1>0, <3>3 DEF Idle, TypeOK
      <3> QED
        BY <1>1, <3>1, <3>2, <3>3 DEF Decide, Replies
    <2>3. SavesDecision' /\ CarriesDecision' /\ RunsApproved'
      BY <1>1, <2>2 DEF Decide, IInv, SavesDecision, CarriesDecision, RunsApproved, At, Holding
    <2> QED
      BY <1>0, <2>1, <2>3 DEF IInv
  <1>2. ASSUME NEW r \in Requests, NEW u \in Users, NEW force \in BOOLEAN,
               Retry(r, u, force)
        PROVE  IInv'
    <2>1. WaitingUndecided' /\ SentOnlyIfApproved' /\ DecisionLogged'
      BY <1>2, RowsKept DEF Retry
    <2>2. CASE \E reply \in Replies : Reply(r, reply)
      BY <1>0, <1>2, <2>1, <2>2, ReplyMovesOn, MovingOn DEF Retry, IInv
    <2>3. CASE RetryRefusal(u, force) = None
      <3>1. approval.decision # None
        BY <2>3 DEF RetryRefusal, None
      <3>2. /\ \A q \in Requests \ {r} : req'[q] = req[q]
            /\ req'[r].pc = "claim" /\ req'[r].decision = approval.decision
            /\ req'[r].payload = approval.payload
        BY <1>0, <1>2, <2>3 DEF Retry, TypeOK
      <3>3. SavesDecision' /\ CarriesDecision' /\ RunsApproved'
        BY <1>2, <3>1, <3>2 DEF Retry, IInv, SavesDecision, CarriesDecision, RunsApproved, At
      <3> QED
        BY <1>0, <2>1, <3>3 DEF IInv
    <2>4. RetryRefusal(u, force) \in Replies
      BY DEF RetryRefusal, Replies
    <2> QED
      BY <1>2, <2>2, <2>3, <2>4 DEF Retry
  <1>3. ASSUME NEW r \in Requests, Expire(r) PROVE IInv'
    <2>1. approval'.decision = approval.decision /\ approval'.payload = approval.payload
          /\ (approval'.status = "WAITING" => approval.status = "WAITING")
      BY <1>0, <1>3 DEF Expire, TypeOK
    <2>2. SavesDecision' /\ CarriesDecision' /\ RunsApproved'
      BY <1>0, <1>3, <2>1, ReplyMovesOn, MovingOn DEF Expire, IInv
    <2>3. WaitingUndecided' /\ SentOnlyIfApproved' /\ DecisionLogged'
      BY <1>3, <2>1 DEF Expire, IInv, WaitingUndecided, SentOnlyIfApproved, DecisionLogged
    <2> QED
      BY <1>0, <2>2, <2>3 DEF IInv
  <1>4. ASSUME NEW r \in Requests, SaveDecision(r) PROVE IInv'
    <2>1. CASE UNCHANGED <<approval, compliance>> /\ \E reply \in Replies : Reply(r, reply)
      BY <1>0, <1>4, <2>1, ReplyMovesOn, MovingOn, RowsKept DEF SaveDecision, IInv
    <2>2. CASE /\ approval.status = "WAITING" /\ Goto(r, "claim")
               /\ approval' = [status   |-> StatusOf[req[r].decision],
                               decision |-> req[r].decision,
                               payload  |-> req[r].payload]
               /\ compliance' = Append(compliance, req[r].decision)
      <3>1. UNCHANGED sent
        BY <1>4 DEF SaveDecision
      <3>2. req[r].decision \in Decisions /\ approval.decision = None
        BY <1>4, <2>2 DEF SaveDecision, IInv, SavesDecision, WaitingUndecided
      <3>3. compliance = <<>> /\ \A i \in DOMAIN sent : FALSE
        BY <3>2 DEF IInv, DecisionLogged, SentOnlyIfApproved, Approving, None
      <3>4. DecisionLogged' /\ SentOnlyIfApproved'
        BY <2>2, <3>1, <3>2, <3>3 DEF DecisionLogged, SentOnlyIfApproved, Decisions, None
      <3>5. WaitingUndecided'
        BY <2>2, <3>2 DEF WaitingUndecided, StatusOf, Decisions
      <3>6. req'[r] = [req[r] EXCEPT !.pc = "claim"] /\ \A q \in Requests \ {r} : req'[q] = req[q]
        BY <1>0, <2>2 DEF Goto, TypeOK
      <3>7. req'[r].pc = "claim" /\ req'[r].decision = req[r].decision
            /\ req'[r].payload = req[r].payload
        BY <1>0, <3>6 DEF TypeOK, RequestType
      <3>8. \A q \in Requests : req[q].pc \notin {"claim"} \cup Holding
        BY <3>2 DEF IInv, CarriesDecision
      <3>9. SavesDecision'
        BY <2>2, <3>2, <3>6, <3>7 DEF IInv, SavesDecision, At, Decisions
      <3>10. CarriesDecision'
        <4>1. /\ approval'.decision = req[r].decision /\ approval'.payload = req[r].payload
              /\ approval'.decision # None
          BY <2>2, <3>2 DEF Decisions, None
        <4> QED
          BY <3>6, <3>7, <3>8, <4>1 DEF CarriesDecision
      <3>11. RunsApproved'
        BY <2>2, <3>2, <3>6, <3>7, <3>8 DEF IInv, RunsApproved, Holding
      <3> QED
        BY <1>0, <3>4, <3>5, <3>9, <3>10, <3>11 DEF IInv
    <2> QED
      BY <1>4, <2>1, <2>2 DEF SaveDecision, Replies
  <1>5. ASSUME NEW r \in Requests, Send(r) PROVE IInv'
    <2>1. req[r].decision \in Approving /\ req[r].decision = approval.decision
          /\ req[r].payload = approval.payload
      BY <1>5 DEF Send, At, IInv, RunsApproved, CarriesDecision, Holding
    <2>2. MovesOn(r)
      BY <1>0, <1>5, <2>1, GotoWithMovesOn DEF Send, At, Holding
    <2>3. SavesDecision' /\ CarriesDecision' /\ RunsApproved'
      BY <1>5, <2>2, MovingOn DEF Send, IInv
    <2>4. sent' = sent \/ sent' = Append(sent, approval.payload)
      BY <1>5, <2>1 DEF Send
    <2>5. SentOnlyIfApproved'
      <3>1. approval' = approval /\ sent \in Seq(Payloads)
        BY <1>0, <1>5 DEF Send, TypeOK
      <3> QED
        BY <2>1, <2>4, <3>1 DEF IInv, SentOnlyIfApproved
    <2>6. WaitingUndecided' /\ DecisionLogged'
      BY <1>5 DEF Send, IInv, WaitingUndecided, DecisionLogged
    <2> QED
      BY <1>0, <2>3, <2>5, <2>6 DEF IInv
  <1>6. ASSUME NEW r \in Requests,
               Claim(r) \/ Load(r) \/ VerifyToken(r) \/ StoreResult(r) \/ Answer(r)
                 \/ RecordFailure(r) \/ Crash(r)
        PROVE  IInv'
    <2>1. MovesOn(r) /\ UNCHANGED <<approval, compliance, sent>>
      BY <1>6, ClaimedStep
    <2> QED
      BY <1>0, <2>1, MovingOn, RowsKept DEF IInv
  <1>7. CASE TimePasses \/ GoStale \/ RoleChange \/ UNCHANGED vars
    <2>1. UNCHANGED <<approval, compliance, sent, req>>
      BY <1>7 DEF TimePasses, GoStale, RoleChange, vars
    <2> QED
      BY <1>0, <2>1, RowsKept
         DEF IInv, SavesDecision, CarriesDecision, RunsApproved, At
  <1> QED
    BY <1>1, <1>2, <1>3, <1>4, <1>5, <1>6, <1>7 DEF Next, Step

-----------------------------------------------------------------------------
THEOREM Invariance == Spec => []IInv
  BY InitInvariant, InvariantStep, PTL DEF Spec

\* The rows and the requests' locals keep their types in every execution.
THEOREM TypeCorrect == Spec => []TypeOK
  BY Invariance, PTL DEF IInv

\* Whatever the interleaving, crashes and retries, only the payload of a
\* recorded approving decision is ever handed to the external service.
THEOREM SendsAreApproved == Spec => []SentOnlyIfApproved
  BY Invariance, PTL DEF IInv

\* The compliance log holds exactly the recorded decision, in every state.
THEOREM DecisionsAreLogged == Spec => []DecisionLogged
  BY Invariance, PTL DEF IInv

\* No step of any request replaces a recorded decision or what it approves.
THEOREM DecisionsAreFinal == Spec => DecisionIsFinal
  <1>1. IInv /\ [Next]_vars => [approval.decision # None =>
             /\ approval'.decision = approval.decision
             /\ approval'.payload = approval.payload]_vars
    <2> SUFFICES ASSUME IInv, [Next]_vars, approval.decision # None
                 PROVE  approval'.decision = approval.decision
                        /\ approval'.payload = approval.payload
      OBVIOUS
    <2>1. CASE \E r \in Requests : SaveDecision(r)
      BY <2>1 DEF SaveDecision, IInv, WaitingUndecided
    <2>2. CASE \E r \in Requests : Expire(r)
      BY <2>2 DEF Expire, IInv, TypeOK
    <2>3. CASE UNCHANGED approval
      BY <2>3
    <2>4. \/ \E r \in Requests : SaveDecision(r) \/ Expire(r)
          \/ UNCHANGED approval
      BY RowSteps DEF Claim, Send, StoreResult, Answer, RecordFailure
    <2> QED
      BY <2>1, <2>2, <2>3, <2>4
  <1> QED
    BY <1>1, Invariance, PTL DEF Spec, DecisionIsFinal

-----------------------------------------------------------------------------
(* One claim, one send, one answer *)

\* HITL_RESUME_STALE_SECONDS is longer than a resume takes.
ClaimsOutliveResumes == "slow" \notin Faults

-----------------------------------------------------------------------------
(* The claim *)

\* A claim is held only over a fresh EXECUTING row.
HolderExecutes ==
    \A r \in Requests : Holds(r) => action.status = "EXECUTING" /\ ~stale

ClaimInv == IInv /\ OneHolder /\ HolderExecutes /\ AnsweredOnce

-----------------------------------------------------------------------------
\* A step of r leaves the other slots alone.
Elsewhere(r) == \A q \in Requests \ {r} : req'[q] = req[q]

\* Its slot keeps what it carried over the step.
Carried(r) ==
    /\ req'[r].decision = req[r].decision /\ req'[r].payload = req[r].payload
    /\ req'[r].takeOver = req[r].takeOver /\ req'[r].seen = req[r].seen

LEMMA ReplyEffect ==
  ASSUME TypeOK, NEW r \in Requests, NEW reply, Reply(r, reply)
  PROVE  /\ Elsewhere(r) /\ req'[r].pc = "idle"
         /\ req'[r].seen = Unread /\ req'[r].result = None /\ req'[r].takeOver = "no"
  BY DEF TypeOK, Reply, Idle, Elsewhere

LEMMA GotoEffect ==
  ASSUME TypeOK, NEW r \in Requests, NEW pc, Goto(r, pc)
  PROVE  Elsewhere(r) /\ Carried(r) /\ req'[r].pc = pc /\ req'[r].result = req[r].result
  <1>1. req[r] \in RequestType
    BY DEF TypeOK
  <1>2. req'[r] = [req[r] EXCEPT !.pc = pc] /\ Elsewhere(r)
    BY DEF Goto, TypeOK, Elsewhere
  <1> QED
    BY <1>1, <1>2 DEF RequestType, Carried

LEMMA GotoWithEffect ==
  ASSUME TypeOK, NEW r \in Requests, NEW pc, NEW result, GotoWith(r, pc, result)
  PROVE  Elsewhere(r) /\ Carried(r) /\ req'[r].pc = pc /\ req'[r].result = result
  <1>1. req[r] \in RequestType
    BY DEF TypeOK
  <1>2. req'[r] = [req[r] EXCEPT !.pc = pc, !.result = result] /\ Elsewhere(r)
    BY DEF GotoWith, TypeOK, Elsewhere
  <1> QED
    BY <1>1, <1>2 DEF RequestType, Carried

\* Deciding and retrying stop before the claim; what they know of a result is
\* what the row holds.
LEMMA DecideEffect ==
  ASSUME TypeOK, NEW r \in Requests, NEW u \in Users, NEW d \in Decisions,
         NEW p \in Payloads, Decide(r, u, d, p)
  PROVE  /\ Elsewhere(r) /\ req'[r].pc \in {"idle", "expire", "save"}
         /\ req'[r].seen = Unread \/ req'[r].seen = req[r].seen
         /\ req'[r].result = None \/ req'[r].result = req[r].result
         /\ req'[r].pc = "save" => req'[r].takeOver = "no"
  <1>1. CASE \E reply : Reply(r, reply)
    BY <1>1, ReplyEffect
  <1>2. CASE Goto(r, "expire")
    BY <1>2, GotoEffect DEF Carried
  <1>3. CASE req' = [req EXCEPT ![r] = [Idle(None) EXCEPT
                       !.pc = "save", !.decision = d, !.payload = p]]
    BY <1>3 DEF TypeOK, Idle, Elsewhere
  <1> QED
    BY <1>1, <1>2, <1>3 DEF Decide

LEMMA RetryEffect ==
  ASSUME TypeOK, NEW r \in Requests, NEW u \in Users, NEW force \in BOOLEAN,
         Retry(r, u, force)
  PROVE  /\ Elsewhere(r) /\ req'[r].result = None
         /\ \/ req'[r].pc = "idle" /\ req'[r].seen = Unread /\ req'[r].takeOver = "no"
            \/ /\ req'[r].pc = "claim" /\ req'[r].seen = action.result
               /\ req'[r].decision = approval.decision
               /\ req'[r].takeOver = "safe" => ~MayHaveSent
  <1>1. CASE Reply(r, RetryRefusal(u, force))
    BY <1>1, ReplyEffect
  <1>2. CASE req' = [req EXCEPT ![r] = [
                 pc |-> "claim", reply |-> None,
                 decision |-> approval.decision, payload |-> approval.payload,
                 takeOver |-> IF ~(action.status = "EXECUTING" /\ stale) THEN "no"
                              ELSE IF MayHaveSent THEN "confirmed" ELSE "safe",
                 seen |-> action.result, result |-> None]]
    BY <1>2 DEF TypeOK, Elsewhere
  <1> QED
    BY <1>1, <1>2 DEF Retry

\* No slot takes a claim and the row's claim is untouched.
NoNewClaim ==
    /\ \A q \in Requests : req'[q].pc \in Holding => req[q].pc \in Holding
    /\ UNCHANGED <<action, stale>>

LEMMA NoNewClaimKeeps ==
  ASSUME OneHolder, HolderExecutes, NoNewClaim
  PROVE  OneHolder' /\ HolderExecutes'
  BY DEF OneHolder, HolderExecutes, NoNewClaim, Holds

\* The holder is the only one, so a row it leaves has no holder.
LEMMA HolderLeaves ==
  ASSUME OneHolder, NEW r \in Requests, Holds(r), Elsewhere(r), req'[r].pc = "idle"
  PROVE  OneHolder' /\ HolderExecutes'
  BY DEF OneHolder, HolderExecutes, Elsewhere, Holds, Holding

LEMMA ClaimSuccess ==
  ASSUME IInv, HolderExecutes, NEW r \in Requests, Claim(r), CanClaim(r), Goto(r, "load"),
         action' = [action EXCEPT !.status = "EXECUTING"], stale' = FALSE
  PROVE  OneHolder' /\ HolderExecutes'
  <1>1. \A q \in Requests : ~Holds(q)
    <2>1. action.status \in Claimable \/ (action.status = "EXECUTING" /\ stale)
      BY DEF CanClaim
    <2> QED
      BY <2>1 DEF HolderExecutes, Claimable
  <1>2. Elsewhere(r)
    BY GotoEffect DEF IInv
  <1>3. action'.status = "EXECUTING"
    BY DEF IInv, TypeOK
  <1> QED
    BY <1>1, <1>2, <1>3 DEF OneHolder, HolderExecutes, Elsewhere, Holds

\* The claim is exclusive: it is taken only over a row nobody works on.
LEMMA HolderStep ==
  ASSUME ClaimsOutliveResumes, IInv, OneHolder, HolderExecutes, [Next]_vars
  PROVE  OneHolder' /\ HolderExecutes'
  <1> USE DEF rows, environment
  <1>0. TypeOK
    BY DEF IInv
  <1>1. ASSUME NEW r \in Requests, NEW u \in Users, NEW d \in Decisions,
               NEW p \in Payloads, Decide(r, u, d, p)
        PROVE  NoNewClaim
    <2>1. Elsewhere(r) /\ req'[r].pc \notin Holding
      BY <1>0, <1>1, DecideEffect DEF Holding
    <2> QED
      BY <1>1, <2>1 DEF Decide, Elsewhere, NoNewClaim
  <1>2. ASSUME NEW r \in Requests, NEW u \in Users, NEW force \in BOOLEAN, Retry(r, u, force)
        PROVE  NoNewClaim
    <2>1. Elsewhere(r) /\ req'[r].pc \notin Holding
      BY <1>0, <1>2, RetryEffect DEF Holding
    <2> QED
      BY <1>2, <2>1 DEF Retry, Elsewhere, NoNewClaim
  <1>3. ASSUME NEW r \in Requests, Expire(r) \/ SaveDecision(r) \/ Crash(r) PROVE NoNewClaim
    <2>1. Elsewhere(r) /\ req'[r].pc \notin Holding
      BY <1>0, <1>3, ReplyEffect, GotoEffect DEF Expire, SaveDecision, Crash, Holding
    <2> QED
      BY <1>3, <2>1 DEF Expire, SaveDecision, Crash, Elsewhere, NoNewClaim
  <1>4. ASSUME NEW r \in Requests, Load(r) \/ VerifyToken(r) \/ Send(r) PROVE NoNewClaim
    <2>1. Elsewhere(r) /\ req[r].pc \in Holding
      BY <1>0, <1>4, GotoEffect, GotoWithEffect DEF Load, VerifyToken, Send, At, Holding
    <2> QED
      BY <1>4, <2>1 DEF Load, VerifyToken, Send, Elsewhere, NoNewClaim
  <1>5. ASSUME NEW r \in Requests, Claim(r) PROVE OneHolder' /\ HolderExecutes'
    <2>1. CASE UNCHANGED <<action, stale>> /\ \E reply : Reply(r, reply)
      <3>1. Elsewhere(r) /\ req'[r].pc \notin Holding
        BY <1>0, <2>1, ReplyEffect DEF Holding
      <3> QED
        BY <2>1, <3>1, NoNewClaimKeeps DEF Elsewhere, NoNewClaim
    <2>2. CASE CanClaim(r) /\ Goto(r, "load") /\ stale' = FALSE
               /\ action' = [action EXCEPT !.status = "EXECUTING"]
      BY <1>5, <2>2, ClaimSuccess
    <2> QED
      BY <1>5, <2>1, <2>2 DEF Claim
  <1>6. ASSUME NEW r \in Requests, StoreResult(r) PROVE OneHolder' /\ HolderExecutes'
    <2>1. Elsewhere(r) /\ req[r].pc \in Holding
      BY <1>0, <1>6, GotoEffect DEF StoreResult, At, Holding
    <2>2. action'.status = action.status /\ (stale' = FALSE \/ stale' = stale)
      BY <1>0, <1>6 DEF StoreResult, TypeOK
    <2> QED
      BY <1>0, <2>1, <2>2 DEF OneHolder, HolderExecutes, Elsewhere, Holds, TypeOK
  <1>7. ASSUME NEW r \in Requests, Answer(r) \/ RecordFailure(r)
        PROVE  OneHolder' /\ HolderExecutes'
    <2>1. Holds(r)
      BY <1>7 DEF Answer, RecordFailure, At, Holds, Holding
    <2>2. CASE \E reply : Reply(r, reply)
      BY <1>0, <2>1, <2>2, ReplyEffect, HolderLeaves
    <2>3. CASE Goto(r, "undo") /\ UNCHANGED <<action, stale>>
      <3>1. Elsewhere(r)
        BY <1>0, <2>3, GotoEffect
      <3> QED
        BY <2>1, <2>3, <3>1, NoNewClaimKeeps DEF Elsewhere, NoNewClaim, Holds
    <2> QED
      BY <1>7, <2>2, <2>3 DEF Answer, RecordFailure
  <1>8. ASSUME GoStale PROVE OneHolder' /\ HolderExecutes'
    <2>1. \A q \in Requests : ~Holds(q)
      BY <1>8 DEF GoStale, Fault, ClaimsOutliveResumes, Holds
    <2> QED
      BY <1>8, <2>1 DEF GoStale, OneHolder, HolderExecutes, Holds
  <1>9. CASE TimePasses \/ RoleChange \/ UNCHANGED vars
    BY <1>9, NoNewClaimKeeps DEF TimePasses, RoleChange, vars, NoNewClaim
  <1> QED
    BY <1>1, <1>2, <1>3, <1>4, <1>5, <1>6, <1>7, <1>8, <1>9, NoNewClaimKeeps DEF Next, Step

-----------------------------------------------------------------------------
(* The answer *)

\* The only steps that change the status of a row, its answers or its decision.
LEMMA AnsweredStep ==
  ASSUME IInv, HolderExecutes, AnsweredOnce, [Next]_vars
  PROVE  AnsweredOnce'
  <1> USE DEF rows, environment
  <1>0. TypeOK /\ CarriesDecision /\ WaitingUndecided /\ SavesDecision
    BY DEF IInv
  <1>1. ASSUME NEW r \in Requests, SaveDecision(r) PROVE AnsweredOnce'
    <2>1. approval.decision = None \/ UNCHANGED approval
      BY <1>0, <1>1 DEF SaveDecision, WaitingUndecided
    <2>2. UNCHANGED <<action, answers>>
      BY <1>1 DEF SaveDecision
    <2> QED
      BY <2>1, <2>2 DEF AnsweredOnce, Approving, None
  <1>2. ASSUME NEW r \in Requests, Expire(r) PROVE AnsweredOnce'
    <2>1. approval'.decision = approval.decision /\ UNCHANGED <<action, answers>>
      BY <1>0, <1>2 DEF Expire, TypeOK
    <2> QED
      BY <2>1 DEF AnsweredOnce
  <1>3. ASSUME NEW r \in Requests, Claim(r) PROVE AnsweredOnce'
    <2>1. CASE UNCHANGED action
      BY <1>3, <2>1 DEF Claim, AnsweredOnce
    <2>2. CASE CanClaim(r) /\ action' = [action EXCEPT !.status = "EXECUTING"]
      <3>1. action.status \notin Spent /\ action'.status = "EXECUTING"
        BY <1>0, <2>2 DEF CanClaim, Claimable, Spent, TypeOK
      <3> QED
        BY <1>3, <3>1 DEF Claim, AnsweredOnce, Spent
    <2> QED
      BY <1>3, <2>1, <2>2 DEF Claim
  <1>4. ASSUME NEW r \in Requests, StoreResult(r) PROVE AnsweredOnce'
    <2>1. action'.status = action.status /\ UNCHANGED <<approval, answers>>
      BY <1>0, <1>4 DEF StoreResult, TypeOK
    <2> QED
      BY <2>1 DEF AnsweredOnce
  <1>5. ASSUME NEW r \in Requests, Answer(r) PROVE AnsweredOnce'
    <2>1. CASE UNCHANGED <<action, answers>>
      BY <1>5, <2>1 DEF Answer, AnsweredOnce
    <2>2. CASE answers' = answers + 1
               /\ action' = [status |-> IF req[r].decision = "REJECT" THEN "REJECTED"
                                        ELSE "COMPLETED", result |-> req[r].result]
      <3>1. answers = 0
        BY <1>5 DEF Answer, At, HolderExecutes, Holds, Holding, AnsweredOnce, Spent
      <3>2. req[r].decision = approval.decision /\ approval.decision \in Decisions
        BY <1>0, <1>5 DEF Answer, At, CarriesDecision, Holding, TypeOK
      <3> QED
        BY <1>5, <2>2, <3>1, <3>2 DEF Answer, AnsweredOnce, Spent, Decisions, Approving
    <2> QED
      BY <1>5, <2>1, <2>2 DEF Answer
  <1>6. ASSUME NEW r \in Requests, RecordFailure(r) PROVE AnsweredOnce'
    <2>1. action.status = "EXECUTING"
      BY <1>6 DEF RecordFailure, At, HolderExecutes, Holds, Holding
    <2>2. action' = action \/ action'.status = "FAILED"
      BY <1>0, <1>6 DEF RecordFailure, TypeOK
    <2> QED
      BY <1>6, <2>1, <2>2 DEF RecordFailure, AnsweredOnce, Spent
  <1>7. CASE UNCHANGED <<approval, action, answers>>
    BY <1>7 DEF AnsweredOnce
  <1>8. \/ \E r \in Requests : \/ SaveDecision(r) \/ Expire(r) \/ Claim(r) \/ StoreResult(r)
                               \/ Answer(r) \/ RecordFailure(r)
        \/ UNCHANGED <<approval, action, answers>>
    BY RowSteps DEF Send
  <1> QED
    BY <1>1, <1>2, <1>3, <1>4, <1>5, <1>6, <1>7, <1>8

LEMMA ClaimInvInit == Init => ClaimInv
  <1>1. Init => OneHolder /\ HolderExecutes
    BY DEF Init, Idle, Holds, Holding, OneHolder, HolderExecutes
  <1>2. Init => AnsweredOnce
    BY DEF Init, AnsweredOnce, Spent
  <1> QED
    BY <1>1, <1>2, InitInvariant DEF ClaimInv

LEMMA ClaimInvStep ==
  ASSUME ClaimsOutliveResumes
  PROVE  ClaimInv /\ [Next]_vars => ClaimInv'
  <1> SUFFICES ASSUME ClaimInv, [Next]_vars PROVE ClaimInv'
    OBVIOUS
  <1>1. IInv /\ IInv' /\ TypeOK
    BY InvariantStep DEF ClaimInv, IInv
  <1> QED
    BY <1>1, HolderStep, AnsweredStep DEF ClaimInv

\* The invariant of the claim, whatever else fails.
LEMMA ClaimInvariance ==
  ASSUME ClaimsOutliveResumes
  PROVE  Spec => []ClaimInv
  BY ClaimInvInit, ClaimInvStep, PTL DEF Spec

\* If a claim outlives every resume, no two requests work on one action,
\* however many decide and retry at once.
THEOREM ClaimsAreExclusive ==
  ASSUME ClaimsOutliveResumes
  PROVE  Spec => []OneHolder
  BY ClaimInvariance, PTL DEF ClaimInv

\* The conversation gets one answer, committed with the status the decision
\* calls for.
THEOREM AnswersAreGivenOnce ==
  ASSUME ClaimsOutliveResumes
  PROVE  Spec => []AnsweredOnce
  BY ClaimInvariance, PTL DEF ClaimInv

\* Nothing is sent once the conversation was told how the call ended: only a
\* holder sends, and a holder's row has no answer.
THEOREM AnswersAreLast ==
  ASSUME ClaimsOutliveResumes
  PROVE  Spec => NoSendAfterAnswer
  <1>1. ClaimInv /\ [Next]_vars => [sent' # sent => answers = 0]_vars
    <2> SUFFICES ASSUME ClaimInv, [Next]_vars, sent' # sent PROVE answers = 0
      OBVIOUS
    <2>1. PICK r \in Requests : Send(r)
      <3>1. ASSUME NEW r \in Requests, \/ SaveDecision(r) \/ Expire(r) \/ Claim(r)
                                       \/ StoreResult(r) \/ Answer(r) \/ RecordFailure(r)
            PROVE  FALSE
        BY <3>1 DEF SaveDecision, Expire, Claim, StoreResult, Answer, RecordFailure
      <3> QED
        BY <3>1, RowSteps
    <2> QED
      BY <2>1 DEF Send, At, ClaimInv, HolderExecutes, Holds, Holding, AnsweredOnce, Spent
  <1> QED
    BY <1>1, ClaimInvariance, PTL DEF Spec, NoSendAfterAnswer

-----------------------------------------------------------------------------
(* The budget of sends *)

\* Another send is not needed: the call has a result, or was rejected.
Resolved == action.result # None \/ approval.decision = "REJECT"

\* One more send is within what the owner confirmed and what could not be recorded.
Spare == Len(sent) <= confirmed + lost

\* At most one delivery is still unaccounted for.
OneUnaccounted == Len(sent) <= 1 + confirmed + lost

\* What a request between two steps may rely on.
WithinBudget(r) ==
    /\ At(r, "save") => req[r].takeOver = "no"
    /\ At(r, "store") => req[r].result # None /\ (req[r].result = "refused" => Resolved \/ Spare)
    /\ At(r, "answer") => Resolved /\ (req[r].decision # "REJECT" => req[r].result # None)
    /\ req[r].seen \in Results => Resolved
    /\ At(r, "claim") /\ req[r].takeOver = "safe" => Resolved
    /\ At(r, "send") => action.result = None
    /\ req[r].pc \in {"load", "verify", "send", "undo"} => Resolved \/ Spare

SendInv ==
    /\ ClaimInv /\ OneUnaccounted
    /\ action.status # "EXECUTING" => Resolved \/ Spare
    /\ \A r \in Requests : WithinBudget(r)

\* Once no further send is needed, none ever is: results are replaced by results
\* and a decision by none.
LEMMA ResolvedStays ==
  ASSUME SendInv, Resolved, [Next]_vars
  PROVE  Resolved'
  <1> USE DEF rows, environment
  <1>0. TypeOK /\ WaitingUndecided /\ CarriesDecision
    BY DEF SendInv, ClaimInv, IInv
  <1>1. ASSUME NEW r \in Requests, SaveDecision(r) PROVE Resolved'
    BY <1>0, <1>1 DEF SaveDecision, WaitingUndecided, Resolved, None
  <1>2. ASSUME NEW r \in Requests, StoreResult(r) PROVE Resolved'
    <2>1. req[r].result # None
      BY <1>2 DEF StoreResult, SendInv, WithinBudget
    <2>2. action'.result = req[r].result \/ UNCHANGED action
      BY <1>0, <1>2 DEF StoreResult, TypeOK
    <2> QED
      BY <1>2, <2>1, <2>2 DEF StoreResult, Resolved
  <1>3. ASSUME NEW r \in Requests, Answer(r) PROVE Resolved'
    <2>1. req[r].decision = approval.decision
      BY <1>0, <1>3 DEF Answer, At, Holding, CarriesDecision
    <2>2. req[r].decision # "REJECT" => req[r].result # None
      BY <1>3 DEF Answer, SendInv, WithinBudget
    <2> QED
      BY <1>3, <2>1, <2>2 DEF Answer, Resolved
  <1>4. CASE approval'.decision = approval.decision /\ action'.result = action.result
    BY <1>4 DEF Resolved
  <1>5. ASSUME NEW r \in Requests, Expire(r) \/ Claim(r) \/ RecordFailure(r)
        PROVE  approval'.decision = approval.decision /\ action'.result = action.result
    BY <1>0, <1>5 DEF Expire, Claim, RecordFailure, TypeOK
  <1>6. \/ \E r \in Requests : SaveDecision(r) \/ StoreResult(r) \/ Answer(r)
        \/ \E r \in Requests : Expire(r) \/ Claim(r) \/ RecordFailure(r)
        \/ UNCHANGED <<approval, action>>
    BY RowSteps DEF Send
  <1> QED
    BY <1>1, <1>2, <1>3, <1>4, <1>5, <1>6

\* What a slot relies on survives the steps of another one: a step that changes
\* the result or sends is the only holder's.
LEMMA OthersKeepBudget ==
  ASSUME SendInv, NEW r \in Requests, Elsewhere(r), Resolved => Resolved',
         Holds(r) \/ ((Spare => Spare') /\ action'.result = action.result),
         WithinBudget(r)'
  PROVE  \A q \in Requests : WithinBudget(q)'
  <1> SUFFICES ASSUME NEW q \in Requests \ {r} PROVE WithinBudget(q)'
    BY DEF Elsewhere
  <1>1. WithinBudget(q) /\ req'[q] = req[q]
    BY DEF SendInv, Elsewhere
  <1>2. CASE Holds(r)
    <2>1. req[q].pc \notin Holding
      BY <1>2 DEF SendInv, ClaimInv, OneHolder, Holds
    <2> QED
      BY <1>1, <2>1 DEF WithinBudget, At, Holding
  <1>3. CASE (Spare => Spare') /\ action'.result = action.result
    BY <1>1, <1>3 DEF WithinBudget, At
  <1> QED
    BY <1>2, <1>3

\* A slot that becomes idle relies on nothing.
LEMMA IdleWithinBudget ==
  ASSUME TypeOK, NEW r \in Requests, NEW reply, Reply(r, reply)
  PROVE  Elsewhere(r) /\ WithinBudget(r)'
  BY ReplyEffect DEF WithinBudget, At, Unread, Results

\* Steps before the claim: they change neither the row nor what was sent.
LEMMA UnclaimedBudget ==
  ASSUME SendInv, [Next]_vars, NEW r \in Requests, Elsewhere(r), WithinBudget(r)',
         UNCHANGED <<action, sent, confirmed, lost>>
  PROVE  /\ \A q \in Requests : WithinBudget(q)'
         /\ OneUnaccounted' /\ (action'.status # "EXECUTING" => Resolved' \/ Spare')
  BY ResolvedStays, OthersKeepBudget DEF Spare, SendInv, OneUnaccounted

\* The claim is the one place where a takeover is paid for.
LEMMA ClaimBudget ==
  ASSUME SendInv, [Next]_vars, NEW r \in Requests, Claim(r)
  PROVE  /\ \A q \in Requests : WithinBudget(q)'
         /\ OneUnaccounted' /\ (action'.status # "EXECUTING" => Resolved' \/ Spare')
  <1> USE DEF rows, environment
  <1>0. TypeOK
    BY DEF SendInv, ClaimInv, IInv
  <1>1. CASE UNCHANGED <<action, stale, confirmed>> /\ \E reply : Reply(r, reply)
    <2>1. Elsewhere(r) /\ WithinBudget(r)'
      BY <1>0, <1>1, IdleWithinBudget
    <2> QED
      BY <1>1, <2>1, UnclaimedBudget DEF Claim
  <1>2. CASE /\ CanClaim(r) /\ Goto(r, "load")
             /\ action' = [action EXCEPT !.status = "EXECUTING"]
             /\ confirmed' = IF req[r].takeOver = "confirmed" THEN confirmed + 1
                             ELSE confirmed
    <2>1. Elsewhere(r) /\ Carried(r) /\ req'[r].pc = "load"
      BY <1>0, <1>2, GotoEffect
    <2>2. confirmed \in Nat /\ lost \in Nat /\ Len(sent) \in Nat /\ req[r].takeOver \in {"no", "safe", "confirmed"}
      BY <1>0 DEF TypeOK, RequestType
    <2>3. UNCHANGED <<sent, lost>> /\ confirmed' \in Nat /\ confirmed <= confirmed'
      BY <1>2, <2>2 DEF Claim
    <2>4. action'.status = "EXECUTING" /\ action'.result = action.result
      BY <1>0, <1>2 DEF TypeOK
    <2>5. Resolved \/ Spare'
      <3>1. CASE action.status \in Claimable
        BY <2>2, <2>3, <3>1 DEF SendInv, Spare, Claimable
      <3>2. CASE req[r].takeOver = "safe"
        BY <1>2, <3>2 DEF Claim, SendInv, WithinBudget
      <3>3. CASE req[r].takeOver = "confirmed"
        BY <1>2, <2>2, <2>3, <3>3 DEF SendInv, OneUnaccounted, Spare
      <3> QED
        BY <1>2, <2>2, <3>1, <3>2, <3>3 DEF CanClaim
    <2>6. Resolved => Resolved'
      BY ResolvedStays
    <2>7. WithinBudget(r)'
      BY <2>1, <2>5, <2>6 DEF WithinBudget, At, Carried, SendInv
    <2>8. Spare => Spare'
      BY <2>2, <2>3 DEF Spare
    <2>9. OneUnaccounted'
      BY <2>2, <2>3 DEF SendInv, OneUnaccounted
    <2> QED
      BY <2>1, <2>4, <2>6, <2>7, <2>8, <2>9, OthersKeepBudget
  <1> QED
    BY <1>1, <1>2 DEF Claim

\* Behind the claim: the row is EXECUTING, so only what the holder leaves to
\* its own next step, and to whoever retries, matters.
LEMMA HolderBudget ==
  ASSUME SendInv, [Next]_vars, NEW r \in Requests,
         Load(r) \/ VerifyToken(r) \/ Send(r) \/ StoreResult(r) \/ Answer(r) \/ RecordFailure(r)
  PROVE  /\ \A q \in Requests : WithinBudget(q)'
         /\ OneUnaccounted' /\ (action'.status # "EXECUTING" => Resolved' \/ Spare')
  <1> USE DEF rows, environment
  <1>0. TypeOK /\ Holds(r) /\ action.status = "EXECUTING" /\ WithinBudget(r)
    <2>1. Holds(r)
      BY DEF Load, VerifyToken, Send, StoreResult, Answer, RecordFailure, At, Holds, Holding
    <2> QED
      BY <2>1 DEF SendInv, ClaimInv, IInv, HolderExecutes
  <1>a. Resolved => Resolved'
    BY ResolvedStays
  <1>b. req[r] \in RequestType /\ confirmed \in Nat /\ lost \in Nat /\ Len(sent) \in Nat
    BY <1>0 DEF TypeOK
  <1>c. req[r].decision = approval.decision /\ req[r].decision \in Decisions
    BY <1>0, <1>b DEF Holds, SendInv, ClaimInv, IInv, CarriesDecision, RequestType
  <1>d. ASSUME Elsewhere(r), WithinBudget(r)' PROVE \A q \in Requests : WithinBudget(q)'
    BY <1>0, <1>a, <1>d, OthersKeepBudget
  <1>e. ASSUME action'.status = action.status
        PROVE  action'.status # "EXECUTING" => Resolved' \/ Spare'
    BY <1>0, <1>e
  <1>1. CASE Load(r)
    <2>0. Resolved \/ Spare
      BY <1>0, <1>1 DEF Load, At, WithinBudget
    <2>1. KnownResult(r) # None => Resolved
      BY <1>0, <1>b DEF KnownResult, WithinBudget, Resolved, RequestType, None, Unread
    <2>2. req[r].decision = "REJECT" => Resolved
      BY <1>c DEF Resolved
    <2>3. Elsewhere(r) /\ WithinBudget(r)'
      <3>1. CASE /\ req[r].decision = "REJECT" \/ KnownResult(r) # None
                 /\ GotoWith(r, "answer", KnownResult(r))
        <4>1. Elsewhere(r) /\ Carried(r) /\ req'[r].pc = "answer"
              /\ req'[r].result = KnownResult(r)
          BY <1>0, <3>1, GotoWithEffect
        <4> QED
          BY <1>0, <1>a, <2>1, <2>2, <3>1, <4>1 DEF WithinBudget, At, Carried
      <3>2. CASE Goto(r, "verify") \/ Goto(r, "undo")
        <4>1. Elsewhere(r) /\ Carried(r) /\ req'[r].pc \in {"verify", "undo"}
          BY <1>0, <3>2, GotoEffect
        <4>2. Spare => Spare'
          BY <1>1 DEF Load, Spare
        <4> QED
          BY <1>0, <1>a, <2>0, <4>1, <4>2 DEF WithinBudget, At, Carried
      <3>3. CASE GotoWith(r, "store", "refused")
        <4>1. Elsewhere(r) /\ Carried(r) /\ req'[r].pc = "store" /\ req'[r].result = "refused"
          BY <1>0, <3>3, GotoWithEffect
        <4>2. Spare => Spare'
          BY <1>1 DEF Load, Spare
        <4> QED
          BY <1>0, <1>a, <2>0, <4>1, <4>2 DEF WithinBudget, At, Carried, None
      <3> QED
        BY <1>1, <3>1, <3>2, <3>3 DEF Load
    <2> QED
      BY <1>1, <1>d, <1>e, <2>3 DEF Load, SendInv, OneUnaccounted
  <1>2. CASE VerifyToken(r)
    <2>0. Resolved \/ Spare
      BY <1>0, <1>2 DEF VerifyToken, At, WithinBudget
    <2>1. Spare => Spare'
      BY <1>2 DEF VerifyToken, Spare
    <2>2. Elsewhere(r) /\ WithinBudget(r)'
      <3>1. CASE TokenValid(r) /\ Goto(r, "send")
        <4>1. Elsewhere(r) /\ Carried(r) /\ req'[r].pc = "send"
          BY <1>0, <3>1, GotoEffect
        <4>2. action'.result = None
          BY <1>2, <3>1 DEF VerifyToken, TokenValid
        <4> QED
          BY <1>0, <1>a, <2>0, <2>1, <4>1, <4>2 DEF WithinBudget, At, Carried
      <3>2. CASE GotoWith(r, "store", "failed")
        <4>1. Elsewhere(r) /\ Carried(r) /\ req'[r].pc = "store" /\ req'[r].result = "failed"
          BY <1>0, <3>2, GotoWithEffect
        <4> QED
          BY <1>0, <1>a, <4>1 DEF WithinBudget, At, Carried, None
      <3> QED
        BY <1>2, <3>1, <3>2 DEF VerifyToken
    <2> QED
      BY <1>2, <1>d, <1>e, <2>2 DEF VerifyToken, SendInv, OneUnaccounted
  <1>3. CASE Send(r)
    <2>1. Spare
      <3>1. req[r].decision \in Approving
        BY <1>3 DEF Send, At, SendInv, ClaimInv, IInv, RunsApproved
      <3>2. ~Resolved
        BY <1>0, <1>3, <1>c, <3>1 DEF Send, WithinBudget, Resolved, Approving
      <3> QED
        BY <1>0, <1>3, <3>2 DEF Send, At, WithinBudget
    <2>2. Elsewhere(r) /\ Carried(r) /\ req'[r].pc = "store"
          /\ req'[r].result \in {"success", "failed"}
      BY <1>0, <1>3, GotoWithEffect DEF Send
    <2>3. WithinBudget(r)'
      BY <1>0, <1>a, <2>2 DEF WithinBudget, At, Carried, None
    <2>4. Len(sent') <= Len(sent) + 1 /\ Len(sent') \in Nat
      <3>1. sent \in Seq(Payloads) /\ req[r].payload \in Payloads
        BY <1>0, <1>b DEF TypeOK, RequestType
      <3>2. Len(Append(sent, req[r].payload)) = Len(sent) + 1
        BY <3>1
      <3> QED
        BY <1>3, <1>b, <3>2 DEF Send
    <2>5. OneUnaccounted'
      BY <1>3, <1>b, <2>1, <2>4 DEF Send, OneUnaccounted, Spare
    <2> QED
      BY <1>3, <1>d, <1>e, <2>2, <2>3, <2>5 DEF Send
  <1>4. CASE StoreResult(r)
    <2>0. req[r].result # None /\ (req[r].result = "refused" => Resolved \/ Spare)
      BY <1>0, <1>4 DEF StoreResult, WithinBudget
    <2>1. CASE /\ Goto(r, "answer") /\ action' = [action EXCEPT !.result = req[r].result]
               /\ UNCHANGED lost
      <3>1. Elsewhere(r) /\ Carried(r) /\ req'[r].pc = "answer" /\ req'[r].result = req[r].result
        BY <1>0, <2>1, GotoEffect
      <3>2. action'.status = action.status /\ action'.result = req[r].result
        BY <1>0, <2>1 DEF TypeOK
      <3>3. WithinBudget(r)'
        BY <2>0, <3>1, <3>2 DEF WithinBudget, At, Resolved
      <3> QED
        BY <1>4, <1>d, <1>e, <2>1, <3>1, <3>2, <3>3 DEF StoreResult, SendInv, OneUnaccounted
    <2>2. CASE /\ Goto(r, "undo") /\ UNCHANGED action
               /\ lost' = IF req[r].result = "refused" THEN lost ELSE lost + 1
      <3>1. Elsewhere(r) /\ Carried(r) /\ req'[r].pc = "undo"
        BY <1>0, <2>2, GotoEffect
      <3>2. UNCHANGED <<sent, confirmed>>
        BY <1>4 DEF StoreResult
      <3>3. Resolved' \/ Spare'
        <4>1. CASE req[r].result = "refused"
          BY <1>a, <2>0, <2>2, <3>2, <4>1 DEF Spare
        <4>2. CASE req[r].result # "refused"
          BY <1>b, <2>2, <3>2, <4>2 DEF SendInv, OneUnaccounted, Spare
        <4> QED
          BY <4>1, <4>2
      <3>4. OneUnaccounted'
        BY <1>b, <2>2, <3>2 DEF SendInv, OneUnaccounted
      <3>5. WithinBudget(r)'
        BY <1>0, <1>a, <3>1, <3>3 DEF WithinBudget, At, Carried
      <3> QED
        BY <1>d, <3>1, <3>3, <3>4, <3>5
    <2> QED
      BY <1>4, <2>1, <2>2 DEF StoreResult
  <1>5. CASE Answer(r)
    <2>0. Resolved
      BY <1>0, <1>5 DEF Answer, WithinBudget
    <2>1. Elsewhere(r) /\ WithinBudget(r)'
      <3>1. CASE \E reply : Reply(r, reply)
        BY <1>0, <3>1, IdleWithinBudget
      <3>2. CASE Goto(r, "undo")
        <4>1. Elsewhere(r) /\ Carried(r) /\ req'[r].pc = "undo"
          BY <1>0, <3>2, GotoEffect
        <4> QED
          BY <1>a, <2>0, <4>1 DEF WithinBudget, At
      <3> QED
        BY <1>5, <3>1, <3>2 DEF Answer
    <2> QED
      BY <1>5, <1>a, <1>d, <2>0, <2>1 DEF Answer, SendInv, OneUnaccounted
  <1>6. CASE RecordFailure(r)
    <2>0. Resolved \/ Spare
      BY <1>0, <1>6 DEF RecordFailure, At, WithinBudget
    <2>1. Elsewhere(r) /\ WithinBudget(r)'
      BY <1>0, <1>6, IdleWithinBudget DEF RecordFailure
    <2>2. Spare => Spare'
      BY <1>6 DEF RecordFailure, Spare
    <2> QED
      BY <1>6, <1>a, <1>d, <2>0, <2>1, <2>2 DEF RecordFailure, SendInv, OneUnaccounted
  <1> QED
    BY <1>1, <1>2, <1>3, <1>4, <1>5, <1>6

LEMMA SendInvInit == Init => SendInv
  <1> SUFFICES ASSUME Init PROVE SendInv
    OBVIOUS
  <1>1. Len(sent) = 0 /\ confirmed = 0 /\ lost = 0
    BY DEF Init
  <1>2. \A r \in Requests : WithinBudget(r)
    BY DEF Init, Idle, WithinBudget, At, Unread, Results
  <1> QED
    BY <1>1, <1>2, ClaimInvInit DEF SendInv, OneUnaccounted, Spare

LEMMA SendInvStep ==
  ASSUME ClaimsOutliveResumes
  PROVE  SendInv /\ [Next]_vars => SendInv'
  <1> SUFFICES ASSUME SendInv, [Next]_vars PROVE SendInv'
    OBVIOUS
  <1> USE DEF rows, environment
  <1> DEFINE Budget == /\ \A q \in Requests : WithinBudget(q)'
                       /\ OneUnaccounted' /\ (action'.status # "EXECUTING" => Resolved' \/ Spare')
  <1>0. TypeOK /\ ClaimInv'
    BY ClaimInvStep DEF SendInv, ClaimInv, IInv
  <1>a. Resolved => Resolved'
    BY ResolvedStays
  <1>1. ASSUME NEW r \in Requests, NEW u \in Users, NEW d \in Decisions,
               NEW p \in Payloads, Decide(r, u, d, p)
        PROVE  Budget
    <2>1. /\ Elsewhere(r) /\ req'[r].pc \in {"idle", "expire", "save"}
          /\ req'[r].seen = Unread \/ req'[r].seen = req[r].seen
          /\ req'[r].pc = "save" => req'[r].takeOver = "no"
      BY <1>0, <1>1, DecideEffect
    <2>2. WithinBudget(r)'
      BY <1>a, <2>1 DEF WithinBudget, At, SendInv, Unread, Results
    <2> QED
      BY <1>1, <2>1, <2>2, UnclaimedBudget DEF Decide
  <1>2. ASSUME NEW r \in Requests, NEW u \in Users, NEW force \in BOOLEAN, Retry(r, u, force)
        PROVE  Budget
    <2>1. Elsewhere(r) /\ UNCHANGED rows
      BY <1>0, <1>2, RetryEffect DEF Retry
    <2>2. WithinBudget(r)'
      <3>1. \/ req'[r].pc = "idle" /\ req'[r].seen = Unread
            \/ /\ req'[r].pc = "claim" /\ req'[r].seen = action.result
               /\ req'[r].takeOver = "safe" => ~MayHaveSent
        BY <1>0, <1>2, RetryEffect
      <3>2. ~MayHaveSent => Resolved
        BY DEF MayHaveSent, Resolved
      <3> QED
        BY <1>a, <3>1, <3>2 DEF WithinBudget, At, Unread, Results, Resolved, None
    <2> QED
      BY <2>1, <2>2, UnclaimedBudget
  <1>3. ASSUME NEW r \in Requests, Expire(r) \/ Crash(r) PROVE Budget
    <2>1. Elsewhere(r) /\ WithinBudget(r)'
      BY <1>0, <1>3, IdleWithinBudget DEF Expire, Crash
    <2> QED
      BY <1>3, <2>1, UnclaimedBudget DEF Expire, Crash
  <1>4. ASSUME NEW r \in Requests, SaveDecision(r) PROVE Budget
    <2>1. CASE \E reply : Reply(r, reply)
      <3>1. Elsewhere(r) /\ WithinBudget(r)'
        BY <1>0, <2>1, IdleWithinBudget
      <3> QED
        BY <1>4, <3>1, UnclaimedBudget DEF SaveDecision
    <2>2. CASE Goto(r, "claim")
      <3>1. Elsewhere(r) /\ Carried(r) /\ req'[r].pc = "claim"
        BY <1>0, <2>2, GotoEffect
      <3>2. WithinBudget(r)'
        BY <1>4, <1>a, <3>1 DEF SaveDecision, WithinBudget, At, Carried, SendInv
      <3> QED
        BY <1>4, <3>1, <3>2, UnclaimedBudget DEF SaveDecision
    <2> QED
      BY <1>4, <2>1, <2>2 DEF SaveDecision
  <1>5. ASSUME NEW r \in Requests, Claim(r) PROVE Budget
    BY <1>5, ClaimBudget
  <1>6. ASSUME NEW r \in Requests,
               Load(r) \/ VerifyToken(r) \/ Send(r) \/ StoreResult(r) \/ Answer(r)
                 \/ RecordFailure(r)
        PROVE  Budget
    BY <1>6, HolderBudget
  <1>7. CASE TimePasses \/ GoStale \/ RoleChange \/ UNCHANGED vars
    <2>1. UNCHANGED <<approval, action, sent, confirmed, lost, req>>
      BY <1>7 DEF TimePasses, GoStale, RoleChange, vars
    <2>2. (Resolved' <=> Resolved) /\ (Spare' <=> Spare) /\ (OneUnaccounted' <=> OneUnaccounted)
      BY <2>1 DEF Resolved, Spare, OneUnaccounted
    <2>3. \A q \in Requests : WithinBudget(q)' <=> WithinBudget(q)
      BY <2>1, <2>2 DEF WithinBudget, At
    <2> QED
      BY <1>0, <2>1, <2>2, <2>3 DEF SendInv
  <1> QED
    BY <1>0, <1>1, <1>2, <1>3, <1>4, <1>5, <1>6, <1>7 DEF Next, Step, SendInv

\* A delivery the row no longer guards was confirmed or its outcome was lost: a
\* call that was rejected was never delivered.
LEMMA BudgetAccounts == SendInv => DeliveriesAccounted
  <1> SUFFICES ASSUME SendInv PROVE DeliveriesAccounted
    OBVIOUS
  <1>1. confirmed \in Nat /\ lost \in Nat /\ Len(sent) \in Nat /\ sent \in Seq(Payloads)
    BY DEF SendInv, ClaimInv, IInv, TypeOK
  <1>2. CASE RowGuardsCall
    BY <1>1, <1>2 DEF SendInv, OneUnaccounted, DeliveriesAccounted
  <1>3. CASE ~RowGuardsCall
    <2>1. CASE Spare
      BY <1>1, <1>3, <2>1 DEF Spare, DeliveriesAccounted
    <2>2. CASE approval.decision = "REJECT"
      <3>1. \A i \in DOMAIN sent : FALSE
        BY <2>2 DEF SendInv, ClaimInv, IInv, SentOnlyIfApproved, Approving
      <3>2. Len(sent) = 0
        <4>1. DOMAIN sent = 1..Len(sent)
          BY <1>1
        <4>2. 1 \notin 1..Len(sent)
          BY <3>1, <4>1
        <4> QED
          BY <1>1, <4>2
      <3> QED
        BY <1>1, <1>3, <3>2 DEF DeliveriesAccounted
    <2> QED
      BY <1>3, <2>1, <2>2 DEF SendInv, RowGuardsCall, Resolved
  <1> QED
    BY <1>2, <1>3

\* However often an approved call is delivered, each delivery beyond the one its
\* row guards was confirmed by the owner or is of an attempt whose outcome could
\* not be committed: for any number of requests, crashes and failures, if claims
\* outlive resumes.
THEOREM DeliveriesAreAccounted ==
  ASSUME ClaimsOutliveResumes
  PROVE  Spec => []DeliveriesAccounted
  BY SendInvInit, SendInvStep, BudgetAccounts, PTL DEF Spec

\* What is on record is what happened, for any number of requests and any faults
\* but a claim that does not outlive its resume.
THEOREM RecordsAreTrue ==
  ASSUME ClaimsOutliveResumes
  PROVE  Spec => []RecordsTrue
  BY TypeCorrect, DecisionsAreLogged, DeliveriesAreAccounted, PTL DEF RecordsTrue

\* One request works on the action and one answer is given, for any number of
\* requests that resume and retry at once, if claims outlive resumes.
THEOREM ClaimsAreHeld ==
  ASSUME ClaimsOutliveResumes
  PROVE  Spec => []ClaimsHold
  BY ClaimsAreExclusive, AnswersAreGivenOnce, PTL DEF ClaimsHold

\* No step changes a recorded decision, or sends after the answer, if claims
\* outlive resumes.
THEOREM SettledStays ==
  ASSUME ClaimsOutliveResumes
  PROVE  Spec => SettledForGood
  BY DecisionsAreFinal, AnswersAreLast DEF SettledForGood


-----------------------------------------------------------------------------
(* HitlApproval implements ApprovedCall, under MCHitlApproval's mapping:   *)
(* every step of every request is a step of the promise or a stutter.      *)

\* An edit alone carries other parameters; a confirmation is asked for only when
\* a decision approved the call.
AsksRightly ==
    \A r \in Requests :
        /\ At(r, "save") => req[r].decision = "EDIT" \/ req[r].payload = Proposed
        /\ At(r, "claim") /\ req[r].takeOver = "confirmed" => req[r].decision # "REJECT"

\* Only these three actions bring a slot before the claim.
LEMMA AsksRightlyStep == SendInv /\ AsksRightly /\ [Next]_vars => AsksRightly'
  <1> SUFFICES ASSUME SendInv, AsksRightly, [Next]_vars PROVE AsksRightly'
    OBVIOUS
  <1>0. TypeOK
    BY DEF SendInv, ClaimInv, IInv
  <1>a. ASSUME NEW r \in Requests, Elsewhere(r), req'[r].pc \notin {"save", "claim"}
        PROVE  AsksRightly'
    BY <1>a DEF AsksRightly, Elsewhere, At
  <1>1. ASSUME NEW r \in Requests, NEW u \in Users, NEW d \in Decisions,
               NEW p \in Payloads, Decide(r, u, d, p)
        PROVE  AsksRightly'
    <2>1. CASE \E reply : Reply(r, reply)
      BY <1>0, <1>a, <2>1, ReplyEffect
    <2>2. CASE Goto(r, "expire")
      BY <1>0, <1>a, <2>2, GotoEffect
    <2>3. CASE req' = [req EXCEPT ![r] = [Idle(None) EXCEPT
                         !.pc = "save", !.decision = d, !.payload = p]]
      <3>1. Elsewhere(r) /\ req'[r].pc = "save" /\ req'[r].decision = d /\ req'[r].payload = p
        BY <1>0, <2>3 DEF Elsewhere, Idle, TypeOK
      <3>2. d = "EDIT" \/ p = Proposed
        BY <1>1 DEF Decide
      <3> QED
        BY <3>1, <3>2 DEF AsksRightly, Elsewhere, At
    <2> QED
      BY <1>1, <2>1, <2>2, <2>3 DEF Decide
  <1>2. ASSUME NEW r \in Requests, NEW u \in Users, NEW force \in BOOLEAN, Retry(r, u, force)
        PROVE  AsksRightly'
    <2>1. CASE \E reply : Reply(r, reply)
      BY <1>0, <1>a, <2>1, ReplyEffect
    <2>2. CASE req' = [req EXCEPT ![r] = [
                 pc |-> "claim", reply |-> None,
                 decision |-> approval.decision, payload |-> approval.payload,
                 takeOver |-> IF ~(action.status = "EXECUTING" /\ stale) THEN "no"
                              ELSE IF MayHaveSent THEN "confirmed" ELSE "safe",
                 seen |-> action.result, result |-> None]]
      <3>1. /\ Elsewhere(r) /\ req'[r].pc = "claim" /\ req'[r].decision = approval.decision
            /\ req'[r].takeOver = "confirmed" => MayHaveSent
        BY <1>0, <2>2 DEF Elsewhere, TypeOK
      <3> QED
        BY <3>1 DEF AsksRightly, Elsewhere, At, MayHaveSent
    <2> QED
      BY <1>2, <2>1, <2>2 DEF Retry
  <1>3. ASSUME NEW r \in Requests, SaveDecision(r) PROVE AsksRightly'
    <2>1. CASE \E reply : Reply(r, reply)
      BY <1>0, <1>a, <2>1, ReplyEffect
    <2>2. CASE Goto(r, "claim")
      <3>1. Elsewhere(r) /\ Carried(r) /\ req'[r].pc = "claim"
        BY <1>0, <2>2, GotoEffect
      <3>2. req[r].takeOver = "no"
        BY <1>3 DEF SaveDecision, SendInv, WithinBudget
      <3> QED
        BY <3>1, <3>2 DEF AsksRightly, Elsewhere, Carried, At
    <2> QED
      BY <1>3, <2>1, <2>2 DEF SaveDecision
  <1>4. ASSUME NEW r \in Requests,
               \/ Expire(r) \/ Claim(r) \/ Load(r) \/ VerifyToken(r) \/ Send(r)
               \/ StoreResult(r) \/ Answer(r) \/ RecordFailure(r) \/ Crash(r)
        PROVE  AsksRightly'
    <2>1. \/ \E reply : Reply(r, reply)
          \/ \E pc \in Holding : Goto(r, pc)
          \/ \E pc \in Holding : \E result : GotoWith(r, pc, result)
      BY <1>4 DEF Expire, Claim, Load, VerifyToken, Send, StoreResult, Answer, RecordFailure,
                  Crash, Holding
    <2>2. Elsewhere(r) /\ req'[r].pc \in {"idle"} \cup Holding
      BY <1>0, <2>1, ReplyEffect, GotoEffect, GotoWithEffect
    <2> QED
      BY <1>a, <2>2 DEF Holding
  <1>5. CASE TimePasses \/ GoStale \/ RoleChange \/ UNCHANGED vars
    BY <1>5 DEF TimePasses, GoStale, RoleChange, vars, AsksRightly, At
  <1> QED
    BY <1>1, <1>2, <1>3, <1>4, <1>5 DEF Next, Step

-----------------------------------------------------------------------------
(* Counting deliveries *)

\* Where in s the payload p stands.
Places(s, p) == {i \in DOMAIN s : s[i] = p}

LEMMA PlacesFinite ==
  ASSUME NEW s \in Seq(Payloads), NEW p
  PROVE  IsFiniteSet(Places(s, p)) /\ Cardinality(Places(s, p)) \in Nat
  <1>1. IsFiniteSet(1..Len(s))
    BY FS_Interval
  <1>2. Places(s, p) \in SUBSET (1..Len(s))
    BY DEF Places
  <1>3. IsFiniteSet(Places(s, p))
    BY <1>1, <1>2, FS_Subset
  <1> QED
    BY <1>3, FS_CardinalityType

\* A delivery adds one to the count of its payload and to no other.
LEMMA PlacesAppend ==
  ASSUME NEW s \in Seq(Payloads), NEW p \in Payloads, NEW q \in Payloads
  PROVE  Cardinality(Places(Append(s, p), q)) =
           IF q = p THEN Cardinality(Places(s, q)) + 1 ELSE Cardinality(Places(s, q))
  <1> DEFINE n == Len(s) + 1
  <1>1. /\ Append(s, p) \in Seq(Payloads) /\ DOMAIN Append(s, p) = 1..n /\ DOMAIN s = 1..(n - 1)
        /\ n \in Nat /\ Append(s, p)[n] = p /\ \A i \in 1..(n - 1) : Append(s, p)[i] = s[i]
    OBVIOUS
  <1>2. CASE q = p
    <2>1. Places(Append(s, p), q) = Places(s, q) \cup {n} /\ n \notin Places(s, q)
      BY <1>1, <1>2 DEF Places
    <2>2. IsFiniteSet(Places(s, q))
      BY PlacesFinite
    <2>3. Cardinality(Places(s, q) \cup {n}) = Cardinality(Places(s, q)) + 1
      <3> HIDE DEF n
      <3> QED
        BY <2>1, <2>2, FS_AddElement
    <2> QED
      BY <1>2, <2>1, <2>3
  <1>3. CASE q # p
    <2>1. Places(Append(s, p), q) = Places(s, q)
      BY <1>1, <1>3 DEF Places
    <2> QED
      BY <1>3, <2>1
  <1> QED
    BY <1>2, <1>3

\* All deliveries are of one payload, so its count is the number of deliveries.
LEMMA PlacesOfOne ==
  ASSUME NEW s \in Seq(Payloads), NEW p, \A i \in DOMAIN s : s[i] = p
  PROVE  Cardinality(Places(s, p)) = Len(s)
  <1>1. Places(s, p) = 1..Len(s) /\ Len(s) \in Nat
    BY DEF Places
  <1> QED
    BY <1>1, FS_Interval

-----------------------------------------------------------------------------
(* The mapping *)

Answered == action.status \in Spent
Deliveries == [p \in Payloads |-> Cardinality(Places(sent, p))]

\* The variables of the promise, under MCHitlApproval's mapping.
LEMMA Mapping ==
  /\ Promise!Init <=> /\ approval.decision = "none" /\ approval.payload = Proposed
                      /\ Deliveries = [p \in Payloads |-> 0] /\ confirmed = 0 /\ lost = 0
                      /\ Answered = FALSE
  /\ Promise!callVars = <<approval.decision, approval.payload, Deliveries, confirmed, lost,
                          Answered>>
  BY DEF Promise!Init, Promise!callVars, Promise!Undecided, Deliveries, Places, Answered

LEMMA InitImplements == Init => Promise!Init
  <1> SUFFICES ASSUME Init PROVE Promise!Init
    OBVIOUS
  <1>1. \A p \in Payloads : Places(sent, p) = {}
    BY DEF Init, Places
  <1>2. Deliveries = [p \in Payloads |-> 0]
    BY <1>1, FS_EmptySet DEF Deliveries
  <1> QED
    BY <1>2, Mapping DEF Init, None, Answered, Spent

\* The steps of the promise, under the mapping.
LEMMA ActionMapping ==
  /\ \A d, p : Promise!Decide(d, p) <=>
        /\ approval.decision = "none" /\ (d = "EDIT" \/ p = Proposed)
        /\ approval'.decision = d /\ approval'.payload = p
        /\ UNCHANGED <<Deliveries, confirmed, lost, Answered>>
  /\ Promise!Deliver <=>
        /\ approval.decision \in {"APPROVE", "EDIT"} /\ ~Answered
        /\ Deliveries[approval.payload] <= confirmed + lost
        /\ Deliveries' = [Deliveries EXCEPT ![approval.payload] = @ + 1]
        /\ UNCHANGED <<approval.decision, approval.payload, confirmed, lost, Answered>>
  /\ Promise!ConfirmResend <=>
        /\ approval.decision \in {"APPROVE", "EDIT"} /\ ~Answered
        /\ confirmed' = confirmed + 1
        /\ UNCHANGED <<approval.decision, approval.payload, Deliveries, lost, Answered>>
  /\ Promise!LoseOutcome <=>
        /\ approval.decision \in {"APPROVE", "EDIT"} /\ ~Answered
        /\ lost' = lost + 1
        /\ UNCHANGED <<approval.decision, approval.payload, Deliveries, confirmed, Answered>>
  /\ Promise!Answer <=>
        /\ approval.decision # "none" /\ ~Answered /\ Answered' = TRUE
        /\ UNCHANGED <<approval.decision, approval.payload, Deliveries, confirmed, lost>>
  BY DEF Promise!Decide, Promise!Deliver, Promise!ConfirmResend, Promise!LoseOutcome,
         Promise!Answer,
         Promise!Undecided, Deliveries, Places, Answered

\* Steps that leave what the promise sees.
Hidden ==
    /\ approval'.decision = approval.decision /\ approval'.payload = approval.payload
    /\ sent' = sent /\ confirmed' = confirmed /\ lost' = lost /\ (Answered' <=> Answered)

LEMMA HiddenStutters == ASSUME Hidden PROVE UNCHANGED Promise!callVars
  <1>1. Deliveries' = Deliveries
    BY DEF Hidden, Deliveries, Places
  <1>2. Answered' = Answered
    BY DEF Hidden, Answered
  <1> QED
    BY <1>1, <1>2, Mapping DEF Hidden, Promise!callVars, Deliveries, Places, Answered

\* A recorded decision is the promise's; an answer or a confirmation comes once
\* the owner decided, and before the call is answered.
LEMMA StepImplements ==
  SendInv /\ AsksRightly /\ [Next]_vars => [Promise!Next]_(Promise!callVars)
  <1> SUFFICES ASSUME SendInv, AsksRightly, [Next]_vars
               PROVE  Promise!Next \/ UNCHANGED Promise!callVars
    OBVIOUS
  <1> USE DEF rows, environment
  <1>0. TypeOK
    BY DEF SendInv, ClaimInv, IInv
  <1>1. ASSUME NEW r \in Requests, SaveDecision(r) PROVE Promise!Next \/ Hidden
    <2>1. CASE UNCHANGED approval
      BY <1>1, <2>1 DEF SaveDecision, Hidden, Answered
    <2>2. CASE /\ approval.status = "WAITING"
               /\ approval' = [status   |-> StatusOf[req[r].decision],
                               decision |-> req[r].decision, payload |-> req[r].payload]
      <3>1. approval.decision = "none"
        BY <2>2 DEF SendInv, ClaimInv, IInv, WaitingUndecided, None
      <3>2. req[r].decision \in Decisions /\ req[r].payload \in Payloads
        BY <1>0, <1>1 DEF SaveDecision, SendInv, ClaimInv, IInv, SavesDecision, TypeOK, RequestType
      <3>3. req[r].decision = "EDIT" \/ req[r].payload = Proposed
        BY <1>1 DEF SaveDecision, AsksRightly
      <3>4. UNCHANGED <<Deliveries, confirmed, lost, Answered>>
        BY <1>1 DEF SaveDecision, Deliveries, Places, Answered
      <3>5. Promise!Decide(req[r].decision, req[r].payload)
        BY <2>2, <3>1, <3>3, <3>4, ActionMapping
      <3> QED
        BY <3>2, <3>5 DEF Promise!Next, Promise!Decisions, Decisions
    <2> QED
      BY <1>1, <2>1, <2>2 DEF SaveDecision
  <1>2. ASSUME NEW r \in Requests, Expire(r) PROVE Hidden
    BY <1>0, <1>2 DEF Expire, TypeOK, Hidden, Answered
  <1>3. ASSUME NEW r \in Requests, Claim(r) PROVE Promise!Next \/ Hidden
    <2>1. CASE UNCHANGED <<action, confirmed>>
      BY <1>3, <2>1 DEF Claim, Hidden, Answered
    <2>2. CASE /\ CanClaim(r) /\ action' = [action EXCEPT !.status = "EXECUTING"]
               /\ confirmed' = IF req[r].takeOver = "confirmed" THEN confirmed + 1
                               ELSE confirmed
      <3>1. ~Answered /\ ~Answered'
        BY <1>0, <2>2 DEF CanClaim, Claimable, Spent, TypeOK, Answered
      <3>2. CASE req[r].takeOver # "confirmed"
        BY <1>3, <2>2, <3>1, <3>2 DEF Claim, Hidden
      <3>3. CASE req[r].takeOver = "confirmed"
        <4>1. approval.decision \in {"APPROVE", "EDIT"}
          <5>1. req[r].decision = approval.decision /\ approval.decision # None
            BY <1>3 DEF Claim, At, SendInv, ClaimInv, IInv, CarriesDecision
          <5>2. req[r].decision # "REJECT"
            BY <1>3, <3>3 DEF Claim, AsksRightly
          <5> QED
            BY <1>0, <5>1, <5>2 DEF TypeOK, Decisions
        <4>2. UNCHANGED <<approval.decision, approval.payload, Deliveries, lost>>
          BY <1>3 DEF Claim, Deliveries, Places
        <4>3. UNCHANGED Answered
          BY <3>1 DEF Answered
        <4>4. Promise!ConfirmResend
          BY <2>2, <3>1, <3>3, <4>1, <4>2, <4>3, ActionMapping
        <4> QED
          BY <4>4 DEF Promise!Next
      <3> QED
        BY <3>2, <3>3
    <2> QED
      BY <1>3, <2>1, <2>2 DEF Claim
  <1>4. ASSUME NEW r \in Requests, Send(r) PROVE Promise!Next \/ Hidden
    <2>1. CASE UNCHANGED sent
      BY <1>4, <2>1 DEF Send, Hidden, Answered
    <2>2. CASE sent' = Append(sent, req[r].payload)
      <3>1. /\ req[r].decision = approval.decision /\ req[r].payload = approval.payload
            /\ req[r].decision \in {"APPROVE", "EDIT"}
        BY <1>4 DEF Send, At, Holding, SendInv, ClaimInv, IInv, CarriesDecision, RunsApproved,
                    Approving
      <3>2. ~Answered /\ action.result = None
        BY <1>4 DEF Send, At, SendInv, ClaimInv, HolderExecutes, Holds, Holding, Answered, Spent,
                    WithinBudget
      <3>3. Spare
        BY <1>4, <3>1, <3>2 DEF Send, At, SendInv, WithinBudget, Resolved
      <3>4. sent \in Seq(Payloads) /\ approval.payload \in Payloads
        BY <1>0 DEF TypeOK
      <3>5. \A i \in DOMAIN sent : sent[i] = approval.payload
        BY DEF SendInv, ClaimInv, IInv, SentOnlyIfApproved
      <3>6. Deliveries[approval.payload] <= confirmed + lost
        BY <3>3, <3>4, <3>5, PlacesOfOne DEF Deliveries, Spare
      <3>7. Deliveries' = [Deliveries EXCEPT ![approval.payload] = @ + 1]
        <4>1. \A q \in Payloads : Cardinality(Places(sent', q)) =
                 IF q = approval.payload THEN Cardinality(Places(sent, q)) + 1
                 ELSE Cardinality(Places(sent, q))
          BY <2>2, <3>1, <3>4, PlacesAppend
        <4>2. Deliveries' = [q \in Payloads |-> Cardinality(Places(sent', q))]
          BY DEF Deliveries, Places
        <4> QED
          BY <3>4, <4>1, <4>2 DEF Deliveries
      <3>8. UNCHANGED <<approval.decision, approval.payload, confirmed, lost, Answered>>
        BY <1>4 DEF Send, Answered
      <3>9. Promise!Deliver
        BY <3>1, <3>2, <3>6, <3>7, <3>8, ActionMapping
      <3> QED
        BY <3>9 DEF Promise!Next
    <2> QED
      BY <1>4, <2>1, <2>2 DEF Send
  <1>5. ASSUME NEW r \in Requests, StoreResult(r) PROVE Promise!Next \/ Hidden
    <2>1. CASE lost' = lost
      BY <1>0, <1>5, <2>1 DEF StoreResult, TypeOK, Hidden, Answered
    <2>2. CASE lost' = lost + 1 /\ UNCHANGED action
      <3>1. approval.decision \in {"APPROVE", "EDIT"}
        BY <1>5 DEF StoreResult, At, Holding, SendInv, ClaimInv, IInv, CarriesDecision,
                    RunsApproved, Approving
      <3>2. ~Answered
        BY <1>5 DEF StoreResult, At, SendInv, ClaimInv, HolderExecutes, Holds, Holding,
                    Answered, Spent
      <3>3. UNCHANGED <<approval.decision, approval.payload, Deliveries, confirmed, Answered>>
        BY <1>5, <2>2 DEF StoreResult, Deliveries, Places, Answered
      <3>4. Promise!LoseOutcome
        BY <2>2, <3>1, <3>2, <3>3, ActionMapping
      <3> QED
        BY <3>4 DEF Promise!Next
    <2> QED
      BY <1>5, <2>1, <2>2 DEF StoreResult
  <1>6. ASSUME NEW r \in Requests, Answer(r) PROVE Promise!Next \/ Hidden
    <2>1. CASE UNCHANGED action
      BY <1>6, <2>1 DEF Answer, Hidden, Answered
    <2>2. CASE action' = [status |-> IF req[r].decision = "REJECT" THEN "REJECTED"
                                     ELSE "COMPLETED", result |-> req[r].result]
      <3>1. ~Answered /\ Answered' = TRUE
        BY <1>6, <2>2 DEF Answer, At, SendInv, ClaimInv, HolderExecutes, Holds, Holding,
                          Answered, Spent
      <3>2. approval.decision # "none"
        BY <1>6 DEF Answer, At, Holding, SendInv, ClaimInv, IInv, CarriesDecision, None
      <3>3. UNCHANGED <<approval.decision, approval.payload, Deliveries, confirmed, lost>>
        BY <1>6 DEF Answer, Deliveries, Places
      <3>4. Promise!Answer
        BY <3>1, <3>2, <3>3, ActionMapping
      <3> QED
        BY <3>4 DEF Promise!Next
    <2> QED
      BY <1>6, <2>1, <2>2 DEF Answer
  <1>7. ASSUME NEW r \in Requests, RecordFailure(r) PROVE Hidden
    <2>1. action.status = "EXECUTING"
      BY <1>7 DEF RecordFailure, At, SendInv, ClaimInv, HolderExecutes, Holds, Holding
    <2> QED
      BY <1>0, <1>7, <2>1 DEF RecordFailure, TypeOK, Hidden, Answered, Spent
  <1>8. ASSUME UNCHANGED <<approval, action, sent, confirmed, lost>> PROVE Hidden
    BY <1>8 DEF Hidden, Answered
  <1>9. \/ \E r \in Requests : \/ SaveDecision(r) \/ Expire(r) \/ Claim(r) \/ Send(r)
                               \/ StoreResult(r) \/ Answer(r) \/ RecordFailure(r)
        \/ UNCHANGED <<approval, action, sent, confirmed, lost>>
    BY RowSteps
  <1>10. Promise!Next \/ Hidden
    BY <1>1, <1>2, <1>3, <1>4, <1>5, <1>6, <1>7, <1>8, <1>9
  <1>11. Hidden => UNCHANGED Promise!callVars
    BY HiddenStutters
  <1> QED
    BY <1>10, <1>11

\* HitlApproval implements ApprovedCall, for any number of requests, payloads,
\* crashes and faults, if claims outlive resumes: one decision, deliveries of its
\* payload within what was confirmed or could not be recorded, one answer last.
THEOREM PromiseKept ==
  ASSUME ClaimsOutliveResumes
  PROVE  Spec => KeepsPromise
  <1>1. Init => SendInv /\ AsksRightly
    BY SendInvInit DEF Init, Idle, AsksRightly, At
  <1>2. SendInv /\ AsksRightly /\ [Next]_vars => (SendInv /\ AsksRightly)'
    BY SendInvStep, AsksRightlyStep
  <1> QED
    BY <1>1, <1>2, InitImplements, StepImplements, PTL DEF Spec, KeepsPromise, Promise!Spec
=============================================================================
