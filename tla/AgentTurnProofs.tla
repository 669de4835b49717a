-------------------------- MODULE AgentTurnProofs --------------------------
(***************************************************************************)
(* AgentTurn, proved for any model, tools, policies and limits: what a     *)
(* turn may cost, that a proposed answer is shown verified or not at all,  *)
(* and that nothing is begun late.                                         *)
(***************************************************************************)
EXTENDS AgentTurn, TLAPS

-----------------------------------------------------------------------------
(* The inductive invariant *)

Meters == Kinds \cup {"attempt"}
IsMeter(m) == m \in [Meters -> Nat] /\ \A k \in Kinds : m[k] <= Limits[k]

Typed ==
    /\ TypeOK /\ IsMeter(n)
    /\ hist \in [llm : Nat, streak : Nat, unanswered : Nat, verified : SUBSET Answers]

\* Where a decision, or what it led to, is being worked on.
Deciding == {"thinking", "fallback"}
Acting == {"calling", "delegating", "approval"}
Busy == Deciding \cup Acting \cup {"retrieve", "retrieving", "attempt", "judging"}
Pending == pc = "result" /\ result.acts

\* Work is done for a running turn, and one that is closed does not run.
RunningWhenBusy ==
    /\ h.closed => h.status # "running"
    /\ pc \in Busy \/ Pending => h.status = "running"
    /\ pc = "reason" => ~h.closed

\* What is carried out was decided on; an answer of a running turn is the one shown.
DecisionFits ==
    /\ pc \in Acting \/ Pending => h.decision.type = "call"
    /\ pc = "judging" => h.decision.type = "final" /\ h.decision.text # NoText
    /\ pc \in {"result", "judging"} /\ h.status = "running" /\ h.decision.type = "final" =>
          h.shown = h.decision.text

\* Every model call has its iteration, the one under way too.
CallsCounted ==
    hist.llm + (IF pc \in Deciding THEN 1 ELSE 0) <= n["iteration"]

\* An outage nothing made up for closes the turn.
OutageCloses == hist.unanswered <= 1 /\ (hist.unanswered > 0 => h.closed)

\* Equal actions carried out in a row have been counted as repeated, but for the first.
StreakCounted == hist.streak <= n["repeated"] + (IF Pending THEN 0 ELSE 1)

\* A tool call follows a model call of its own, save one: the seed's, or that of the
\* decision that has been carried out.
Fresh == pc \in Deciding \cup {"retrieve", "judging"} \/ (pc = "result" /\ h.status = "running")
ToolsBehind == n["tool"] <= n["iteration"] + (IF Fresh THEN 0 ELSE 1)

TurnInv ==
    /\ Typed /\ RunningWhenBusy /\ DecisionFits
    /\ CallsCounted /\ OutageCloses /\ StreakCounted /\ ToolsBehind
    /\ AnswerVerifiedOrReplaced

-----------------------------------------------------------------------------
(* Decisions, counters and the records of a turn *)

AllDecisions == ValidDecisions \cup InvalidDecisions \cup {NoDecision}

LEMMA DecisionShapes ==
  /\ \A d \in AllDecisions :
        /\ d.text \in Answers \cup {NoText} /\ d.call \in Calls \cup {NoCall}
        /\ d.type \in {"none", "final", "call", "needInput", "fail"}
        /\ d.valid \in BOOLEAN
  /\ \A d \in ValidDecisions :
        /\ d.type \in {"final", "call", "needInput", "fail"}
        /\ d.type = "final" => d.text \in Answers
        /\ d.type = "call" => d.call \in Calls
  <1>1. ASSUME NEW d \in ValidDecisions
        PROVE  /\ d.text \in Answers \cup {NoText} /\ d.call \in Calls \cup {NoCall}
               /\ d.type \in {"final", "call", "needInput", "fail"} /\ d.valid \in BOOLEAN
               /\ d.type = "final" => d.text \in Answers
               /\ d.type = "call" => d.call \in Calls
    <2>1. CASE \E a \in Answers : d = Decision("final", a, NoCall, TRUE)
      BY <2>1 DEF Decision
    <2>2. CASE \E c \in Calls : d = Decision("call", NoText, c, TRUE)
      BY <2>2 DEF Decision
    <2>3. CASE \E t \in {"needInput", "fail"} : d = Decision(t, NoText, NoCall, TRUE)
      BY <2>3 DEF Decision
    <2> QED
      BY <2>1, <2>2, <2>3 DEF ValidDecisions
  <1>2. ASSUME NEW d \in InvalidDecisions
        PROVE  /\ d.text \in Answers \cup {NoText} /\ d.call \in Calls \cup {NoCall}
               /\ d.type \in {"final", "call", "needInput", "fail"} /\ d.valid \in BOOLEAN
    <2>1. CASE \E a \in Answers \cup {NoText} : d = Decision("final", a, NoCall, FALSE)
      BY <2>1 DEF Decision
    <2>2. CASE \E t \in {"call", "needInput", "fail"} : d = Decision(t, NoText, NoCall, FALSE)
      BY <2>2 DEF Decision
    <2> QED
      BY <2>1, <2>2 DEF InvalidDecisions
  <1>3. /\ NoDecision.text = NoText /\ NoDecision.call = NoCall
        /\ NoDecision.type = "none" /\ NoDecision.valid = FALSE
    BY DEF NoDecision, Decision
  <1> QED
    BY <1>1, <1>2, <1>3 DEF AllDecisions

AgentStates ==
    [status : {"running", "partial", "failed"}, closed : BOOLEAN, decision : AllDecisions,
     shown : Answers \cup {NoText, Message}, evidence : BOOLEAN,
     lastAction : Calls \cup {NoCall}, progressed : BOOLEAN]
Results == [status : {"none", "completed", "partial", "failed"}, acts : BOOLEAN]
Gates == [purpose : {"seed", "missing", "insufficient"}, rejected : Answers \cup {NoText},
          summary : {"none", "verified", "unverified"}]
Histories == [llm : Nat, streak : Nat, unanswered : Nat, verified : SUBSET Answers]
Stages == Ended \cup Working \cup {"retrieve", "reason", "attempt", "result", "approval", "judging"}

LEMMA TypedParts ==
  /\ Typed <=> /\ pc \in Stages /\ timeUp \in BOOLEAN /\ IsMeter(n) /\ h \in AgentStates
               /\ result \in Results /\ gate \in Gates /\ hist \in Histories
  /\ Typed' <=> /\ pc' \in Stages /\ timeUp' \in BOOLEAN /\ IsMeter(n') /\ h' \in AgentStates
                /\ result' \in Results /\ gate' \in Gates /\ hist' \in Histories
  <1>1. ASSUME NEW m, IsMeter(m)
        PROVE  DOMAIN m = Kinds \cup {"attempt"} /\ \A k \in Kinds : m[k] \in 0..Limits[k]
    <2>1. DOMAIN m = Kinds \cup {"attempt"} /\ Kinds \subseteq Meters
      BY <1>1 DEF IsMeter, Meters
    <2>2. \A k \in Kinds : m[k] \in Nat /\ m[k] <= Limits[k] /\ Limits[k] \in Nat
      BY <1>1, <2>1, LimitsAssumption DEF IsMeter
    <2> QED
      BY <2>1, <2>2
  <1>2. ASSUME NEW x PROVE x \in Histories => x.verified \subseteq Answers
    BY DEF Histories
  <1> QED
    BY <1>1, <1>2 DEF Typed, TypeOK, AgentStates, AllDecisions, Results, Gates, Histories, Stages

LEMMA BumpMeter ==
  ASSUME NEW m, IsMeter(m), NEW k \in Kinds, m[k] < Limits[k]
  PROVE  /\ IsMeter([m EXCEPT ![k] = @ + 1])
         /\ \A j \in Meters : [m EXCEPT ![k] = @ + 1][j] = IF j = k THEN m[k] + 1 ELSE m[j]
  <1>1. m \in [Meters -> Nat] /\ k \in Meters /\ m[k] \in Nat /\ Limits[k] \in Nat
    BY LimitsAssumption DEF IsMeter, Meters
  <1>2. m[k] + 1 <= Limits[k] /\ m[k] + 1 \in Nat
    BY <1>1
  <1> QED
    BY <1>1, <1>2 DEF IsMeter, Meters

LEMMA CountedMeter ==
  ASSUME IsMeter(n), NEW ks \in SUBSET Meters, \A k \in ks \cap Kinds : n[k] < Limits[k]
  PROVE  /\ IsMeter(Counted(ks))
         /\ \A j \in Meters : Counted(ks)[j] = IF j \in ks THEN n[j] + 1 ELSE n[j]
  <1>1. n \in [Meters -> Nat] /\ DOMAIN n = Meters
    BY DEF IsMeter
  <1>2. \A j \in Meters : Counted(ks)[j] = IF j \in ks THEN n[j] + 1 ELSE n[j]
    BY <1>1 DEF Counted
  <1>3. Counted(ks) \in [Meters -> Nat]
    BY <1>1 DEF Counted
  <1>4. ASSUME NEW k \in Kinds PROVE Counted(ks)[k] <= Limits[k]
    <2>1. n[k] \in Nat /\ Limits[k] \in Nat /\ n[k] <= Limits[k] /\ k \in Meters
      BY <1>1, LimitsAssumption DEF IsMeter, Meters
    <2>2. CASE k \in ks
      BY <1>2, <2>1, <2>2
    <2>3. CASE k \notin ks
      BY <1>2, <2>1, <2>3
    <2> QED
      BY <2>2, <2>3
  <1> QED
    BY <1>2, <1>3, <1>4 DEF IsMeter

LEMMA ProgressMeter ==
  ASSUME IsMeter(n), NEW m, IsMeter(m), m["noProgress"] = n["noProgress"], NEW same \in BOOLEAN
  PROVE  /\ IsMeter(Progress(m, same))
         /\ \A j \in Meters \ {"noProgress"} : Progress(m, same)[j] = m[j]
  <1>1. /\ m \in [Meters -> Nat] /\ "noProgress" \in Kinds /\ "noProgress" \in Meters
        /\ m["noProgress"] \in Nat /\ Limits["noProgress"] \in Nat
        /\ m["noProgress"] <= Limits["noProgress"]
    BY LimitsAssumption DEF IsMeter, Meters, Kinds
  <1> DEFINE v == IF ~same THEN 0 ELSE IF Within("noProgress") THEN m["noProgress"] + 1
                                       ELSE m["noProgress"]
  <1>2. v \in Nat /\ v <= Limits["noProgress"]
    BY <1>1 DEF Within
  <1>3. Progress(m, same) = [m EXCEPT !["noProgress"] = v]
    BY DEF Progress
  <1> HIDE DEF v
  <1> QED
    BY <1>1, <1>2, <1>3 DEF IsMeter, Meters

\* The state a step starts from.
LEMMA Before ==
  ASSUME TurnInv
  PROVE  /\ IsMeter(n) /\ h \in AgentStates /\ result \in Results /\ gate \in Gates
         /\ hist \in Histories /\ pc \in Stages /\ timeUp \in BOOLEAN
         /\ n["iteration"] \in Nat /\ n["tool"] \in Nat /\ n["repeated"] \in Nat
         /\ hist.llm \in Nat /\ hist.streak \in Nat /\ hist.unanswered \in Nat
  <1>1. /\ pc \in Stages /\ timeUp \in BOOLEAN /\ IsMeter(n) /\ h \in AgentStates
        /\ result \in Results /\ gate \in Gates /\ hist \in Histories
    BY TypedParts DEF TurnInv
  <1>2. n["iteration"] \in Nat /\ n["tool"] \in Nat /\ n["repeated"] \in Nat
    BY <1>1 DEF IsMeter, Meters, Kinds
  <1> QED
    BY <1>1, <1>2 DEF Histories

LEMMA InitGood == Init => TurnInv
  <1> SUFFICES ASSUME Init PROVE TurnInv
    OBVIOUS
  <1>1. PICK e \in BOOLEAN :
           h = [status |-> "running", closed |-> FALSE, decision |-> NoDecision,
                shown |-> NoText, evidence |-> e, lastAction |-> NoCall, progressed |-> FALSE]
    BY DEF Init
  <1>2. IsMeter(n)
    BY LimitsAssumption DEF Init, IsMeter, Meters
  <1>3. NoDecision \in AllDecisions /\ NoDecision.type = "none"
    BY DEF AllDecisions, NoDecision, Decision
  <1>4. h \in AgentStates /\ result \in Results /\ gate \in Gates /\ hist \in Histories
    BY <1>1, <1>3 DEF Init, AgentStates, Results, Gates, Histories
  <1>5. Typed
    BY <1>2, <1>4, TypedParts DEF Init, Stages
  <1>6. n["iteration"] = 0 /\ n["tool"] = 0 /\ n["repeated"] = 0
    BY DEF Init, Kinds
  <1> QED
    BY <1>1, <1>3, <1>5, <1>6
       DEF TurnInv, Init, RunningWhenBusy, DecisionFits, CallsCounted, OutageCloses,
           StreakCounted, ToolsBehind, AnswerVerifiedOrReplaced, Deciding, Acting, Busy,
           Pending, Fresh

-----------------------------------------------------------------------------
(* Every step keeps the invariant: retrieval *)

LEMMA TimePassesKeeps ==
  ASSUME TurnInv, TimePasses PROVE TurnInv'
  <1>1. pc' = pc /\ n' = n /\ h' = h /\ result' = result /\ gate' = gate /\ hist' = hist
    BY DEF TimePasses
  <1>2. Typed'
    BY <1>1, Before, TypedParts DEF TimePasses
  <1> QED
    BY <1>1, <1>2
       DEF TurnInv, RunningWhenBusy, DecisionFits, CallsCounted, OutageCloses, StreakCounted,
           ToolsBehind, AnswerVerifiedOrReplaced, Deciding, Acting, Busy, Pending, Fresh

\* An answer that gives way to the fixed message, whatever has been counted meanwhile.
LEMMA RejectKeeps ==
  ASSUME TurnInv, NEW h0 \in AgentStates, h0.closed = h.closed, Reject(h0),
         timeUp' = timeUp, hist' \in Histories, hist'.llm = hist.llm,
         hist'.unanswered = hist.unanswered, hist'.streak = hist.streak,
         pc \notin Deciding, IsMeter(n'), n'["iteration"] = n["iteration"],
         n'["repeated"] = n["repeated"], n'["tool"] \in Nat,
         n'["tool"] <= n["iteration"] + 1
  PROVE  TurnInv'
  <1>1. /\ h' = [h0 EXCEPT !.status = "partial", !.shown = Message]
        /\ result' = [status |-> "partial", acts |-> FALSE]
        /\ gate' = [gate EXCEPT !.summary = "unverified", !.rejected = NoText]
        /\ pc' = "done"
    BY DEF Reject
  <1>2. h' \in AgentStates /\ result' \in Results /\ gate' \in Gates /\ pc' \in Stages
    BY <1>1, Before DEF AgentStates, Results, Gates, Stages, Ended
  <1>3. Typed'
    BY <1>2, Before, TypedParts
  <1>4. h'.status = "partial" /\ h'.shown = Message /\ h'.closed = h.closed
    BY <1>1 DEF AgentStates
  <1>5. gate'.summary = "unverified" /\ result'.acts = FALSE
    BY <1>1, Before DEF Gates
  <1>6. hist'.streak \in Nat /\ n["repeated"] \in Nat /\ n["iteration"] \in Nat /\ hist.llm \in Nat
    BY Before
  <1>7. RunningWhenBusy' /\ DecisionFits' /\ AnswerVerifiedOrReplaced'
    BY <1>1, <1>4, <1>5
       DEF RunningWhenBusy, DecisionFits, AnswerVerifiedOrReplaced, Busy, Deciding, Acting, Pending
  <1>8. CallsCounted' /\ OutageCloses' /\ ToolsBehind'
    BY <1>1, <1>4, <1>6 DEF TurnInv, CallsCounted, OutageCloses, ToolsBehind, Deciding, Fresh
  <1>9. StreakCounted'
    <2>1. hist.streak <= n["repeated"] + 1
      BY Before DEF TurnInv, StreakCounted
    <2> QED
      BY <1>1, <2>1 DEF StreakCounted, Pending
  <1> QED
    BY <1>3, <1>7, <1>8, <1>9 DEF TurnInv

LEMMA StartRetrievalKeeps ==
  ASSUME TurnInv, StartRetrieval PROVE TurnInv'
  <1>1. /\ pc = "retrieve" /\ pc' = "retrieving" /\ n["tool"] < Limits["tool"]
        /\ n' = Counted({"tool"}) /\ UNCHANGED <<timeUp, h, result, gate, hist>>
    BY DEF StartRetrieval, Admitted
  <1>2. /\ IsMeter(n') /\ n'["tool"] = n["tool"] + 1 /\ n'["iteration"] = n["iteration"]
        /\ n'["repeated"] = n["repeated"]
    BY <1>1, Before, CountedMeter DEF Meters, Kinds
  <1>3. Typed'
    BY <1>1, <1>2, Before, TypedParts DEF Stages, Working
  <1>4. ToolsBehind'
    BY <1>1, <1>2, Before DEF TurnInv, ToolsBehind, Fresh, Deciding
  <1> QED
    BY <1>1, <1>2, <1>3, <1>4
       DEF TurnInv, RunningWhenBusy, DecisionFits, CallsCounted, OutageCloses, StreakCounted,
           AnswerVerifiedOrReplaced, Deciding, Acting, Busy, Pending

LEMMA WithoutEvidenceKeeps ==
  ASSUME TurnInv, pc \in {"retrieve", "retrieving"}, NEW st \in {"running", "partial"},
         WithoutEvidence([h EXCEPT !.status = st]), UNCHANGED <<timeUp, n, hist>>
  PROVE  TurnInv'
  <1> DEFINE h0 == [h EXCEPT !.status = st]
  <1>1. /\ h0 \in AgentStates /\ h0.closed = h.closed /\ h0.status = st
        /\ h0.decision = h.decision /\ h0.shown = h.shown
    BY Before DEF AgentStates
  <1>2. ~h.closed /\ h.status = "running" /\ pc \notin Deciding /\ ~Pending
    BY DEF TurnInv, RunningWhenBusy, Busy, Deciding, Pending
  <1>3. n["tool"] <= n["iteration"] + 1 /\ n["tool"] \in Nat
    BY Before DEF TurnInv, ToolsBehind
  <1> HIDE DEF h0
  <1>4. CASE Reject(h0)
    BY <1>1, <1>2, <1>3, <1>4, Before, RejectKeeps
  <1>5. CASE pc' \in {"reason", "raised"} /\ h' = h0 /\ UNCHANGED <<result, gate>>
    <2>1. Typed'
      BY <1>1, <1>5, Before, TypedParts DEF Stages, Ended
    <2> QED
      BY <1>1, <1>2, <1>3, <1>5, <2>1
         DEF TurnInv, RunningWhenBusy, DecisionFits, CallsCounted, OutageCloses, StreakCounted,
           ToolsBehind, AnswerVerifiedOrReplaced, Deciding, Acting, Busy, Pending, Fresh
  <1> QED
    BY <1>4, <1>5 DEF WithoutEvidence, h0

LEMMA RetrievalDeniedKeeps ==
  ASSUME TurnInv, RetrievalDenied PROVE TurnInv'
  <1>1. PICK st \in {"running", "partial"} : st = IF RetrieverAllowed THEN "partial" ELSE h.status
    BY DEF TurnInv, RetrievalDenied, RunningWhenBusy, Busy
  <1>2. /\ pc = "retrieve" /\ WithoutEvidence([h EXCEPT !.status = st])
        /\ UNCHANGED <<timeUp, n, hist>>
    BY <1>1 DEF RetrievalDenied
  <1> QED
    BY <1>2, WithoutEvidenceKeeps

LEMMA NothingRetrievedKeeps ==
  ASSUME TurnInv, NothingRetrieved PROVE TurnInv'
  <1>1. pc = "retrieving" /\ h.status = "running"
    BY DEF TurnInv, NothingRetrieved, RunningWhenBusy, Busy
  <1>2. h = [h EXCEPT !.status = "running"]
    BY <1>1, Before DEF AgentStates
  <1>3. WithoutEvidence([h EXCEPT !.status = "running"]) /\ UNCHANGED <<timeUp, n, hist>>
    BY <1>2 DEF NothingRetrieved
  <1> QED
    BY <1>1, <1>3, WithoutEvidenceKeeps

LEMMA EvidenceRetrievedKeeps ==
  ASSUME TurnInv, NEW same \in BOOLEAN, EvidenceRetrieved(same) PROVE TurnInv'
  <1> DEFINE kept  == Within("evidence")
             count == IF kept THEN Counted({"evidence"}) ELSE n
             after == [h EXCEPT !.evidence = @ \/ kept,
                                !.status = IF kept THEN @ ELSE "partial"]
  <1>1. /\ pc = "retrieving" /\ UNCHANGED <<timeUp, hist>>
        /\ \/ /\ n' = count
              /\ h' = after
              /\ pc' = "reason"
              /\ UNCHANGED <<result, gate>>
           \/ /\ n' = IF kept THEN Progress(count, same) ELSE count
              /\ \/ /\ kept
                    /\ h' = [after EXCEPT !.progressed = TRUE]
                    /\ pc' = "reason"
                    /\ UNCHANGED <<result, gate>>
                 \/ Reject(after)
    BY DEF EvidenceRetrieved
  <1>2. ~h.closed /\ h.status = "running" /\ pc \notin Deciding /\ ~Pending
    BY <1>1 DEF TurnInv, RunningWhenBusy, Busy, Deciding, Pending
  <1>3. /\ IsMeter(count) /\ count["iteration"] = n["iteration"] /\ count["tool"] = n["tool"]
        /\ count["repeated"] = n["repeated"] /\ count["noProgress"] = n["noProgress"]
    BY Before, CountedMeter DEF Meters, Kinds, Within
  <1>4. /\ after \in AgentStates /\ after.closed = h.closed /\ after.decision = h.decision
        /\ after.shown = h.shown
    BY <1>2, Before DEF AgentStates
  <1> HIDE DEF count, after, kept
  <1>5. /\ IsMeter(n') /\ n'["iteration"] = n["iteration"] /\ n'["tool"] = n["tool"]
        /\ n'["repeated"] = n["repeated"]
    <2>1. /\ IsMeter(Progress(count, same))
          /\ \A j \in Meters \ {"noProgress"} : Progress(count, same)[j] = count[j]
      BY <1>3, Before, ProgressMeter
    <2>2. {"iteration", "tool", "repeated"} \subseteq Meters \ {"noProgress"}
      BY DEF Meters, Kinds
    <2> QED
      BY <1>1, <1>3, <2>1, <2>2
  <1>6. n["tool"] <= n["iteration"] + 1 /\ n["tool"] \in Nat
    BY Before DEF TurnInv, ToolsBehind
  <1>7. CASE Reject(after)
    <2>1. hist' = hist /\ timeUp' = timeUp
      BY <1>1
    <2> QED
      BY <1>2, <1>4, <1>5, <1>6, <1>7, <2>1, Before, RejectKeeps
  <1>8. CASE /\ h' = after \/ h' = [after EXCEPT !.progressed = TRUE]
             /\ pc' = "reason" /\ UNCHANGED <<result, gate>>
    <2>1. /\ h' \in AgentStates /\ h'.closed = h.closed
      BY <1>4, <1>8 DEF AgentStates
    <2>2. Typed'
      BY <1>1, <1>5, <1>8, <2>1, Before, TypedParts DEF Stages
    <2> QED
      BY <1>1, <1>2, <1>5, <1>6, <1>8, <2>1, <2>2
         DEF TurnInv, RunningWhenBusy, DecisionFits, CallsCounted, OutageCloses, StreakCounted,
           ToolsBehind, AnswerVerifiedOrReplaced, Deciding, Acting, Busy, Pending, Fresh
  <1> QED
    BY <1>1, <1>7, <1>8

-----------------------------------------------------------------------------
(* Reasoning *)

LEMMA ReasonKeeps ==
  ASSUME TurnInv, Reason PROVE TurnInv'
  <1>1. pc = "reason" /\ ~h.closed /\ UNCHANGED <<timeUp, h, gate, hist>>
    BY DEF TurnInv, Reason, RunningWhenBusy
  <1>2. CASE h.status # "running" /\ Return(h.status, FALSE) /\ n' = n
    <2>1. pc' = "result" /\ result' = [status |-> h.status, acts |-> FALSE]
      BY <1>2 DEF Return
    <2>2. result' \in Results
      <3>1. h.status \in {"running", "partial", "failed"}
        BY Before DEF AgentStates
      <3> QED
        BY <1>2, <2>1, <3>1 DEF Results
    <2>3. Typed'
      BY <1>1, <1>2, <2>1, <2>2, Before, TypedParts DEF Stages
    <2> QED
      BY <1>1, <1>2, <2>1, <2>3, Before
         DEF TurnInv, RunningWhenBusy, DecisionFits, CallsCounted, OutageCloses, StreakCounted,
           ToolsBehind, AnswerVerifiedOrReplaced, Deciding, Acting, Busy, Pending, Fresh
  <1>3. CASE /\ h.status = "running" /\ n' = Counted({"attempt"}) /\ pc' = "attempt"
             /\ result' = result
    <2>1. /\ IsMeter(n') /\ n'["iteration"] = n["iteration"] /\ n'["tool"] = n["tool"]
          /\ n'["repeated"] = n["repeated"]
      BY <1>3, Before, CountedMeter DEF Meters, Kinds
    <2>2. Typed'
      BY <1>1, <1>3, <2>1, Before, TypedParts DEF Stages
    <2> QED
      BY <1>1, <1>3, <2>1, <2>2, Before
         DEF TurnInv, RunningWhenBusy, DecisionFits, CallsCounted, OutageCloses, StreakCounted,
           ToolsBehind, AnswerVerifiedOrReplaced, Deciding, Acting, Busy, Pending, Fresh
  <1> QED
    BY <1>1, <1>2, <1>3 DEF Reason

LEMMA CloseShape ==
  ASSUME TurnInv, NEW st \in {"partial", "failed"}, NEW d \in AllDecisions
  PROVE  /\ Close(st, d) \in AgentStates /\ Close(st, d).status = st /\ Close(st, d).closed
         /\ Close(st, d).decision = d /\ Close(st, d).shown = h.shown
  BY Before DEF Close, AgentStates

\* A turn that is closed returns a result nobody acts on.
LEMMA ClosingKeeps ==
  ASSUME TurnInv, pc \in Deciding \cup {"attempt"}, NEW st \in {"partial", "failed", "completed"},
         h' \in AgentStates, h'.closed, h'.status \in {"partial", "failed"}, Return(st, FALSE),
         timeUp' = timeUp, gate' = gate, IsMeter(n'), n'["iteration"] = n["iteration"],
         n'["repeated"] = n["repeated"], n'["tool"] = n["tool"],
         hist' \in Histories, hist'.streak = hist.streak, hist'.unanswered <= 1,
         pc = "attempt" => hist'.llm = hist.llm,
         pc \in Deciding => hist'.llm = hist.llm + 1
  PROVE  TurnInv'
  <1>1. pc' = "result" /\ result' = [status |-> st, acts |-> FALSE]
    BY DEF Return
  <1>2. result' \in Results
    BY <1>1 DEF Results
  <1>3. Typed'
    BY <1>1, <1>2, Before, TypedParts DEF Stages
  <1>4. n["tool"] <= n["iteration"] + 1
    BY Before DEF TurnInv, ToolsBehind
  <1>5. CallsCounted'
    BY <1>1, Before DEF TurnInv, CallsCounted, Deciding
  <1>6. StreakCounted'
    BY <1>1, Before DEF TurnInv, StreakCounted, Pending, Deciding
  <1>7. ToolsBehind'
    BY <1>1, <1>4, Before DEF ToolsBehind, Fresh, Deciding
  <1> QED
    BY <1>1, <1>3, <1>5, <1>6, <1>7
       DEF TurnInv, RunningWhenBusy, DecisionFits, OutageCloses, AnswerVerifiedOrReplaced,
           Deciding, Acting, Busy, Pending

LEMMA BeginAttemptKeeps ==
  ASSUME TurnInv, BeginAttempt PROVE TurnInv'
  <1>1. pc = "attempt" /\ UNCHANGED <<timeUp, gate, hist>>
    BY DEF BeginAttempt
  <1>2. CASE /\ Admitted("step") /\ Admitted("iteration")
             /\ n' = Counted({"step", "iteration"}) /\ pc' = "thinking" /\ UNCHANGED <<h, result>>
    <2>1. /\ IsMeter(n') /\ n'["iteration"] = n["iteration"] + 1 /\ n'["tool"] = n["tool"]
          /\ n'["repeated"] = n["repeated"]
      BY <1>2, Before, CountedMeter DEF Meters, Kinds, Admitted
    <2>2. Typed'
      BY <1>1, <1>2, <2>1, Before, TypedParts DEF Stages, Working
    <2>3. n["tool"] <= n["iteration"] + 1
      BY <1>1, Before DEF TurnInv, ToolsBehind
    <2>4. ToolsBehind' /\ CallsCounted'
      BY <1>1, <1>2, <2>1, <2>3, Before
         DEF TurnInv, ToolsBehind, CallsCounted, Deciding, Fresh
    <2> QED
      BY <1>1, <1>2, <2>1, <2>2, <2>4
         DEF TurnInv, RunningWhenBusy, DecisionFits, OutageCloses, StreakCounted,
             AnswerVerifiedOrReplaced, Deciding, Acting, Busy, Pending
  <1>3. CASE /\ n' = IF Admitted("step") THEN Counted({"step"}) ELSE n
             /\ h' = Close("partial", h.decision)
             /\ Return("partial", FALSE)
    <2>1. /\ IsMeter(n') /\ n'["iteration"] = n["iteration"] /\ n'["tool"] = n["tool"]
          /\ n'["repeated"] = n["repeated"]
      BY <1>3, Before, CountedMeter DEF Meters, Kinds, Admitted
    <2>2. h' \in AgentStates /\ h'.closed /\ h'.status = "partial"
      BY <1>3, Before, CloseShape DEF AgentStates
    <2>3. hist' \in Histories /\ hist' = hist /\ hist.unanswered <= 1
      BY <1>1, Before DEF TurnInv, OutageCloses
    <2> QED
      BY <1>1, <1>3, <2>1, <2>2, <2>3, ClosingKeeps DEF Deciding
  <1> QED
    BY <1>2, <1>3 DEF BeginAttempt

\* A model call ends without a decision: it is asked again only for an unusable answer.
LEMMA ReasoningFailsKeeps ==
  ASSUME TurnInv, pc \in Deciding, NEW err, NEW enough \in BOOLEAN, NEW outage \in BOOLEAN,
         ReasoningFails(err, enough, outage), outage => ~(Retryable(err) /\ enough)
  PROVE  TurnInv'
  <1>1. /\ UNCHANGED <<timeUp, n, gate>> /\ ~h.closed /\ h.status = "running" /\ ~Pending
        /\ hist' = [hist EXCEPT !.llm = @ + 1, !.unanswered = IF outage THEN @ + 1 ELSE @]
        /\ hist.unanswered = 0
    BY Before DEF TurnInv, ReasoningFails, RunningWhenBusy, OutageCloses, Busy, Deciding, Pending
  <1>2. /\ hist' \in Histories /\ hist'.llm = hist.llm + 1 /\ hist'.streak = hist.streak
        /\ hist'.unanswered = IF outage THEN 1 ELSE 0
    <2>1. PICK a \in Nat, u \in Nat : /\ a = hist.llm + 1
                                      /\ u = IF outage THEN hist.unanswered + 1 ELSE hist.unanswered
      BY <1>1, Before
    <2>2. hist' = [hist EXCEPT !.llm = a, !.unanswered = u]
      BY <1>1, <2>1
    <2>3. u = IF outage THEN 1 ELSE 0
      BY <1>1, <2>1
    <2>4. hist \in Histories
      BY Before
    <2> QED
      BY <2>1, <2>2, <2>3, <2>4 DEF Histories
  <1>3. CASE Retryable(err) /\ enough /\ pc' = "reason" /\ UNCHANGED <<h, result>>
    <2>1. Typed'
      BY <1>1, <1>2, <1>3, Before, TypedParts DEF Stages
    <2>2. ~outage
      BY <1>3
    <2> QED
      BY <1>1, <1>2, <1>3, <2>1, <2>2, Before
         DEF TurnInv, RunningWhenBusy, DecisionFits, CallsCounted, OutageCloses, StreakCounted,
           ToolsBehind, AnswerVerifiedOrReplaced, Deciding, Acting, Busy, Pending, Fresh
  <1>4. CASE h' = Close("failed", h.decision) /\ Return("failed", FALSE)
    <2>1. h' \in AgentStates /\ h'.closed /\ h'.status = "failed"
      BY <1>4, Before, CloseShape DEF AgentStates
    <2>2. /\ timeUp' = timeUp /\ gate' = gate /\ IsMeter(n') /\ n' = n /\ pc # "attempt"
          /\ hist'.unanswered <= 1 /\ pc \in Deciding \cup {"attempt"}
      BY <1>1, <1>2, Before DEF Deciding
    <2>3. "failed" \in {"partial", "failed", "completed"}
      OBVIOUS
    <2> QED
      BY <1>2, <1>4, <2>1, <2>2, <2>3, ClosingKeeps
  <1> QED
    BY <1>3, <1>4 DEF ReasoningFails

LEMMA ProviderStepsKeep ==
  ASSUME TurnInv, NEW enough \in BOOLEAN, NEW fits \in BOOLEAN,
         \/ NotOfSchema(enough) \/ FailsOver(enough, fits)
         \/ \E err \in GroqErrors : PrimaryFails(err, enough)
         \/ \E err \in LocalErrors : FallbackFails(err, enough)
  PROVE  TurnInv'
  <1>1. CASE NotOfSchema(enough)
    BY <1>1, ReasoningFailsKeeps DEF NotOfSchema, Answering, Deciding
  <1>2. CASE FailsOver(enough, fits)
    <2>1. CASE pc' = "fallback" /\ UNCHANGED <<timeUp, n, h, result, gate, hist>>
      <3>1. Typed'
        BY <2>1, Before, TypedParts DEF Stages, Working
      <3>2. pc = "thinking"
        BY <1>2 DEF FailsOver
      <3> QED
        BY <2>1, <3>1, <3>2
           DEF TurnInv, RunningWhenBusy, DecisionFits, CallsCounted, OutageCloses, StreakCounted,
           ToolsBehind, AnswerVerifiedOrReplaced, Deciding, Acting, Busy, Pending, Fresh
    <2>2. CASE ReasoningFails("outage", FALSE, TRUE)
      BY <1>2, <2>2, ReasoningFailsKeeps DEF FailsOver, Deciding
    <2> QED
      BY <1>2, <2>1, <2>2 DEF FailsOver
  <1>3. ASSUME NEW err \in GroqErrors, PrimaryFails(err, enough) PROVE TurnInv'
    BY <1>3, ReasoningFailsKeeps DEF PrimaryFails, Deciding
  <1>4. ASSUME NEW err \in LocalErrors, FallbackFails(err, enough) PROVE TurnInv'
    <2>1. PICK e \in {"other", "outage"} : pc = "fallback" /\ ReasoningFails(e, enough, TRUE)
      BY <1>4 DEF FallbackFails
    <2>2. ~Retryable(e)
      BY DEF Retryable
    <2> QED
      BY <2>1, <2>2, ReasoningFailsKeeps DEF Deciding
  <1> QED
    BY <1>1, <1>2, <1>3, <1>4

-----------------------------------------------------------------------------
(* Decisions *)

LEMMA LlmCalledShape ==
  ASSUME TurnInv, LlmCalled
  PROVE  /\ hist' \in Histories /\ hist'.llm = hist.llm + 1 /\ hist'.streak = hist.streak
         /\ hist'.unanswered = hist.unanswered /\ hist'.verified = hist.verified
  <1>1. hist.llm + 1 \in Nat
    BY Before
  <1> QED
    BY <1>1, Before DEF LlmCalled, Histories

\* The state a decision is made in, and the counters with the decision counted.
LEMMA WhenAnswered ==
  ASSUME TurnInv, Answering
  PROVE  /\ pc \in Deciding /\ pc # "attempt" /\ pc \in Deciding \cup {"attempt"}
         /\ ~h.closed /\ h.status = "running" /\ hist.unanswered = 0
         /\ hist.llm + 1 <= n["iteration"] /\ n["tool"] <= n["iteration"]
         /\ hist.streak <= n["repeated"] + 1
  <1>1. pc \in Deciding /\ pc # "result"
    BY DEF Answering, Deciding
  <1> QED
    BY <1>1, Before
       DEF TurnInv, RunningWhenBusy, OutageCloses, CallsCounted, ToolsBehind, StreakCounted,
           Busy, Deciding, Pending, Fresh

LEMMA CorrectKeeps ==
  ASSUME TurnInv, Answering, NEW d \in AllDecisions, NEW m, IsMeter(m),
         \A k \in {"iteration", "repeated", "tool", "rejected"} : m[k] = n[k],
         Correct(d, m), LlmCalled, UNCHANGED <<timeUp, gate>>
  PROVE  TurnInv'
  <1>1. /\ IsMeter(n') /\ n'["iteration"] = n["iteration"] /\ n'["repeated"] = n["repeated"]
        /\ n'["tool"] = n["tool"]
    <2>1. CASE Admitted("rejected") /\ n' = [m EXCEPT !["rejected"] = @ + 1]
      <3>1. m["rejected"] < Limits["rejected"] /\ "rejected" \in Kinds
        BY <2>1 DEF Admitted, Kinds
      <3>2. /\ IsMeter(n')
            /\ \A j \in Meters : n'[j] = IF j = "rejected" THEN m["rejected"] + 1 ELSE m[j]
        BY <2>1, <3>1, BumpMeter
      <3>3. {"iteration", "repeated", "tool"} \subseteq Meters
        BY DEF Meters, Kinds
      <3> QED
        BY <3>2, <3>3
    <2>2. CASE n' = m
      BY <2>2
    <2> QED
      BY <2>1, <2>2 DEF Correct
  <1>2. /\ hist' \in Histories /\ hist'.llm = hist.llm + 1 /\ hist'.streak = hist.streak
        /\ hist'.unanswered = 0
    BY LlmCalledShape, WhenAnswered
  <1>3. CASE h' = [h EXCEPT !.decision = d] /\ pc' = "attempt" /\ UNCHANGED result
    <2>1. h' \in AgentStates /\ h'.closed = h.closed /\ h'.status = h.status
      BY <1>3, Before DEF AgentStates
    <2>2. Typed'
      BY <1>1, <1>2, <1>3, <2>1, Before, TypedParts DEF Stages
    <2> QED
      BY <1>1, <1>2, <1>3, <2>1, <2>2, Before, WhenAnswered
         DEF TurnInv, RunningWhenBusy, DecisionFits, CallsCounted, OutageCloses, StreakCounted,
           ToolsBehind, AnswerVerifiedOrReplaced, Deciding, Acting, Busy, Pending, Fresh
  <1>4. CASE h' = Close("failed", d) /\ Return("failed", FALSE)
    <2>1. h' \in AgentStates /\ h'.closed /\ h'.status = "failed"
      BY <1>4, CloseShape
    <2>2. "failed" \in {"partial", "failed", "completed"} /\ 0 <= 1
      OBVIOUS
    <2> QED
      BY <1>1, <1>2, <1>4, <2>1, <2>2, WhenAnswered, ClosingKeeps
  <1> QED
    BY <1>3, <1>4 DEF Correct

LEMMA InvalidDecisionKeeps ==
  ASSUME TurnInv, NEW d \in InvalidDecisions, InvalidDecision(d) PROVE TurnInv'
  <1>1. d \in AllDecisions
    BY DEF AllDecisions
  <1>2. Answering /\ Correct(d, n) /\ LlmCalled /\ UNCHANGED <<timeUp, gate>>
    BY DEF InvalidDecision
  <1> QED
    BY <1>1, <1>2, Before, CorrectKeeps

\* The loop breaker: an action let through has been counted as repeated if it is.
LEMMA ActKeeps ==
  ASSUME TurnInv, Answering, NEW d \in ValidDecisions, d.type = "call", NEW m, IsMeter(m),
         \A k \in {"iteration", "repeated", "tool"} : m[k] = n[k],
         Act(d, m), UNCHANGED <<timeUp, gate>>
  PROVE  TurnInv'
  <1> DEFINE v == IF ~Repeats(d.call) THEN 0
                  ELSE IF Within("repeated") THEN m["repeated"] + 1 ELSE m["repeated"]
             s == IF Repeats(d.call) THEN hist.streak ELSE 0
  <1>1. d \in AllDecisions /\ d.call \in Calls
    BY DecisionShapes DEF AllDecisions
  <1>2. n' = [m EXCEPT !["repeated"] = v]
    BY DEF Act
  <1>3. v \in Nat /\ v <= Limits["repeated"]
    <2>1. /\ m["repeated"] \in Nat /\ Limits["repeated"] \in Nat
          /\ m["repeated"] <= Limits["repeated"]
      BY LimitsAssumption DEF IsMeter, Meters, Kinds
    <2> QED
      BY <2>1 DEF Within
  <1>4. hist' = [hist EXCEPT !.llm = @ + 1, !.streak = s]
    BY DEF Act
  <1>5. s \in Nat /\ hist.llm + 1 \in Nat
    BY Before
  <1>6. s <= v + 1 /\ (~Breaks(d.call) => s <= v)
    <2>1. hist.streak <= n["repeated"] + 1 /\ hist.streak \in Nat /\ n["repeated"] \in Nat
      BY Before, WhenAnswered
    <2>2. m["repeated"] = n["repeated"]
      OBVIOUS
    <2> QED
      BY <2>1, <2>2 DEF Breaks
  <1> HIDE DEF v, s
  <1>7. /\ IsMeter(n') /\ n'["iteration"] = n["iteration"] /\ n'["tool"] = n["tool"]
        /\ n'["repeated"] = v
    BY <1>2, <1>3 DEF IsMeter, Meters, Kinds
  <1>8. /\ hist' \in Histories /\ hist'.llm = hist.llm + 1 /\ hist'.streak = s
        /\ hist'.unanswered = 0
    BY <1>4, <1>5, Before, WhenAnswered DEF Histories
  <1>9. CASE Breaks(d.call) /\ h' = Close("partial", d) /\ Return("partial", FALSE)
    <2>1. /\ pc' = "result" /\ result' = [status |-> "partial", acts |-> FALSE]
          /\ result' \in Results
      BY <1>9 DEF Return, Results
    <2>2. h' \in AgentStates /\ h'.closed /\ h'.status = "partial"
      BY <1>1, <1>9, CloseShape
    <2>3. Typed'
      BY <1>7, <1>8, <2>1, <2>2, Before, TypedParts DEF Stages
    <2> QED
      BY <1>3, <1>5, <1>6, <1>7, <1>8, <2>1, <2>2, <2>3, Before, WhenAnswered
         DEF TurnInv, RunningWhenBusy, DecisionFits, CallsCounted, OutageCloses, StreakCounted,
           ToolsBehind, AnswerVerifiedOrReplaced, Deciding, Acting, Busy, Pending, Fresh
  <1>10. CASE /\ ~Breaks(d.call) /\ h' = [h EXCEPT !.decision = d, !.lastAction = d.call]
              /\ Return("completed", TRUE)
    <2>1. /\ pc' = "result" /\ result' = [status |-> "completed", acts |-> TRUE]
          /\ result' \in Results
      BY <1>10 DEF Return, Results
    <2>2. /\ h' \in AgentStates /\ h'.closed = h.closed /\ h'.status = h.status
          /\ h'.decision = d
      BY <1>1, <1>10, Before DEF AgentStates
    <2>3. Typed'
      BY <1>7, <1>8, <2>1, <2>2, Before, TypedParts DEF Stages
    <2>4. hist'.streak <= n'["repeated"]
      BY <1>6, <1>7, <1>8, <1>10
    <2> QED
      BY <1>3, <1>5, <1>7, <1>8, <2>1, <2>2, <2>3, <2>4, Before, WhenAnswered
         DEF TurnInv, RunningWhenBusy, DecisionFits, CallsCounted, OutageCloses, StreakCounted,
           ToolsBehind, AnswerVerifiedOrReplaced, Deciding, Acting, Busy, Pending, Fresh
  <1> QED
    BY <1>9, <1>10 DEF Act

LEMMA ValidDecisionKeeps ==
  ASSUME TurnInv, NEW d \in ValidDecisions, ValidDecision(d) PROVE TurnInv'
  <1>1. Answering /\ UNCHANGED <<timeUp, gate>>
    BY DEF ValidDecision
  <1>2. d \in AllDecisions
    BY DEF AllDecisions
  <1>3. CASE Admitted("decision") /\ Handle(d, Counted({"decision"}))
    <2> DEFINE m == Counted({"decision"})
    <2>1. /\ IsMeter(m)
          /\ \A k \in {"iteration", "repeated", "tool", "rejected"} : m[k] = n[k]
      BY <1>3, Before, CountedMeter DEF Meters, Kinds, Admitted
    <2> HIDE DEF m
    <2>2. CASE /\ d.type = "final" /\ n' = m /\ LlmCalled
               /\ h' = [h EXCEPT !.decision = d, !.shown = d.text]
               /\ Return("completed", FALSE)
      <3>1. d.text \in Answers
        BY <2>2, DecisionShapes
      <3>2. /\ h' \in AgentStates /\ h'.closed = h.closed /\ h'.status = h.status
            /\ h'.decision = d /\ h'.shown = d.text
        BY <1>2, <2>2, <3>1, Before DEF AgentStates
      <3>3. /\ pc' = "result" /\ result' = [status |-> "completed", acts |-> FALSE]
            /\ result' \in Results
        BY <2>2 DEF Return, Results
      <3>4. /\ hist' \in Histories /\ hist'.llm = hist.llm + 1 /\ hist'.streak = hist.streak
            /\ hist'.unanswered = 0
        BY <1>1, <2>2, LlmCalledShape, WhenAnswered
      <3>5. Typed'
        BY <1>1, <2>1, <2>2, <3>2, <3>3, <3>4, Before, TypedParts DEF Stages
      <3> QED
        BY <1>1, <2>1, <2>2, <3>2, <3>3, <3>4, <3>5, Before, WhenAnswered
           DEF TurnInv, RunningWhenBusy, DecisionFits, CallsCounted, OutageCloses, StreakCounted,
           ToolsBehind, AnswerVerifiedOrReplaced, Deciding, Acting, Busy, Pending, Fresh
    <2>3. CASE /\ n' = m /\ LlmCalled
               /\ \E st \in {"completed", "failed"} : Return(st, FALSE)
               /\ \E st \in {"partial", "failed"} :
                     h' = [Close(st, d) EXCEPT !.shown = Message] \/ h' = Close(st, d)
      <3>1. h' \in AgentStates /\ h'.closed /\ h'.status \in {"partial", "failed"}
        BY <1>2, <2>3, CloseShape DEF AgentStates
      <3>2. /\ hist' \in Histories /\ hist'.llm = hist.llm + 1 /\ hist'.streak = hist.streak
            /\ hist'.unanswered = 0 /\ 0 <= 1
        BY <1>1, <2>3, LlmCalledShape, WhenAnswered
      <3> QED
        BY <1>1, <2>1, <2>3, <3>1, <3>2, WhenAnswered, ClosingKeeps
    <2>4. CASE Correct(d, m) /\ LlmCalled
      BY <1>1, <1>2, <2>1, <2>4, CorrectKeeps
    <2>5. CASE d.type = "call" /\ Act(d, m)
      BY <1>1, <2>1, <2>5, ActKeeps
    <2>6. CASE /\ d.type = "needInput" /\ n' = m /\ LlmCalled /\ Return("completed", FALSE)
               /\ h' = [Close("partial", d) EXCEPT !.shown = Message]
      BY <2>3, <2>6
    <2>7. CASE /\ n' = m /\ LlmCalled /\ Return("failed", FALSE)
               /\ h' = [Close("failed", d) EXCEPT !.shown = IF d.type = "fail" THEN Message ELSE @]
      <3>1. h' = [Close("failed", d) EXCEPT !.shown = Message] \/ h' = Close("failed", d)
        BY <1>2, <2>7, CloseShape DEF AgentStates
      <3> QED
        BY <2>3, <2>7, <3>1
    <2> QED
      BY <1>3, <2>2, <2>4, <2>5, <2>6, <2>7 DEF Handle, m
  <1>4. CASE h' = Close("partial", d) /\ Return("partial", FALSE) /\ LlmCalled /\ n' = n
    <2>1. h' \in AgentStates /\ h'.closed /\ h'.status = "partial"
      BY <1>2, <1>4, CloseShape
    <2>2. /\ hist' \in Histories /\ hist'.llm = hist.llm + 1 /\ hist'.streak = hist.streak
          /\ hist'.unanswered = 0 /\ 0 <= 1
      BY <1>1, <1>4, LlmCalledShape, WhenAnswered
    <2>3. IsMeter(n')
      BY <1>4, Before
    <2> QED
      BY <1>1, <1>4, <2>1, <2>2, <2>3, WhenAnswered, ClosingKeeps
  <1> QED
    BY <1>3, <1>4 DEF ValidDecision

-----------------------------------------------------------------------------
(* What a result leads to *)

LEMMA LeaveGateShape ==
  ASSUME TurnInv, LeaveGate
  PROVE  gate' \in Gates /\ gate'.summary = gate.summary
  BY Before DEF LeaveGate, Gates

LEMMA StartCallKeeps ==
  ASSUME TurnInv, StartCall PROVE TurnInv'
  <1> DEFINE c == h.decision.call
  <1>1. /\ Pending /\ pc = "result" /\ \A k \in Budgets(c) : Admitted(k)
        /\ n' = Counted(Budgets(c)) /\ pc' \in Acting
        /\ hist' = [hist EXCEPT !.streak = @ + 1] /\ LeaveGate
        /\ UNCHANGED <<timeUp, h, result>>
    BY DEF StartCall, Pending, Acting
  <1>2. h.status = "running" /\ h.decision.type = "call" /\ ~h.closed
    BY <1>1 DEF TurnInv, RunningWhenBusy, DecisionFits
  <1>3. Budgets(c) \subseteq {"step", "hop", "tool"} /\ {"step", "hop", "tool"} \subseteq Kinds
    BY DEF Budgets, Kinds
  <1>4. /\ IsMeter(n') /\ n'["iteration"] = n["iteration"] /\ n'["repeated"] = n["repeated"]
        /\ n'["tool"] \in Nat /\ n'["tool"] <= n["tool"] + 1
    <2>1. Budgets(c) \in SUBSET Meters /\ \A k \in Budgets(c) \cap Kinds : n[k] < Limits[k]
      BY <1>1, <1>3 DEF Meters, Admitted
    <2>2. /\ IsMeter(n')
          /\ \A j \in Meters : n'[j] = IF j \in Budgets(c) THEN n[j] + 1 ELSE n[j]
      BY <1>1, <2>1, Before, CountedMeter
    <2>3. {"iteration", "repeated", "tool"} \subseteq Meters
      BY DEF Meters, Kinds
    <2> QED
      BY <1>3, <2>2, <2>3, Before
  <1> HIDE DEF c
  <1>5. /\ hist' \in Histories /\ hist'.llm = hist.llm /\ hist'.streak = hist.streak + 1
        /\ hist'.unanswered = hist.unanswered
    <2>1. hist.streak + 1 \in Nat
      BY Before
    <2> QED
      BY <1>1, <2>1, Before DEF Histories
  <1>6. Typed'
    BY <1>1, <1>4, <1>5, Before, LeaveGateShape, TypedParts DEF Stages, Acting, Working
  <1>7. StreakCounted'
    BY <1>1, <1>4, <1>5, Before DEF TurnInv, StreakCounted, Pending, Acting
  <1>8. ToolsBehind'
    BY <1>1, <1>2, <1>4, Before DEF TurnInv, ToolsBehind, Fresh, Acting, Deciding
  <1>9. CallsCounted' /\ OutageCloses'
    BY <1>1, <1>4, <1>5, Before DEF TurnInv, CallsCounted, OutageCloses, Acting, Deciding
  <1> QED
    BY <1>1, <1>2, <1>6, <1>7, <1>8, <1>9
       DEF TurnInv, RunningWhenBusy, DecisionFits, AnswerVerifiedOrReplaced, Acting, Deciding,
           Busy, Pending

LEMMA CallNotAdmittedKeeps ==
  ASSUME TurnInv, CallNotAdmitted PROVE TurnInv'
  <1>1. /\ Pending /\ pc = "result" /\ pc' = "done"
        /\ n' = IF Admitted("step") THEN Counted({"step"}) ELSE n
        /\ h' = [h EXCEPT !.status = "partial"]
        /\ result' = [status |-> "partial", acts |-> FALSE] /\ LeaveGate
        /\ UNCHANGED <<timeUp, hist>>
    BY DEF CallNotAdmitted, Pending
  <1>2. h.status = "running" /\ h.decision.type = "call"
    BY <1>1 DEF TurnInv, RunningWhenBusy, DecisionFits
  <1>3. /\ IsMeter(n') /\ n'["iteration"] = n["iteration"] /\ n'["repeated"] = n["repeated"]
        /\ n'["tool"] = n["tool"]
    BY <1>1, Before, CountedMeter DEF Meters, Kinds, Admitted
  <1>4. /\ h' \in AgentStates /\ h'.status = "partial" /\ h'.closed = h.closed
        /\ h'.decision = h.decision /\ result' \in Results
    BY <1>1, Before DEF AgentStates, Results
  <1>5. Typed'
    BY <1>1, <1>3, <1>4, Before, LeaveGateShape, TypedParts DEF Stages, Ended
  <1> QED
    BY <1>1, <1>2, <1>3, <1>4, <1>5, Before
       DEF TurnInv, RunningWhenBusy, DecisionFits, CallsCounted, OutageCloses, StreakCounted,
           ToolsBehind, AnswerVerifiedOrReplaced, Deciding, Acting, Busy, Pending, Fresh

LEMMA RejectAfterRetryKeeps ==
  ASSUME TurnInv, RejectAfterRetry PROVE TurnInv'
  <1>1. pc = "result" /\ Reject(h) /\ UNCHANGED <<timeUp, n, hist>>
    BY DEF RejectAfterRetry
  <1>2. n["tool"] <= n["iteration"] + 1
    BY Before DEF TurnInv, ToolsBehind
  <1> QED
    BY <1>1, <1>2, Before, RejectKeeps DEF Deciding

LEMMA JudgeKeeps ==
  ASSUME TurnInv, Judge PROVE TurnInv'
  <1>1. /\ pc = "result" /\ h.decision.type = "final" /\ h.decision.text # NoText
        /\ UNCHANGED <<timeUp, n, hist>>
    BY DEF Judge
  <1>2. n["tool"] <= n["iteration"] + 1
    BY Before DEF TurnInv, ToolsBehind
  <1>3. CASE Reject(h)
    BY <1>1, <1>2, <1>3, Before, RejectKeeps DEF Deciding
  <1>4. CASE h.status = "running" /\ pc' = "judging" /\ LeaveGate /\ UNCHANGED <<h, result>>
    <2>1. Typed'
      BY <1>1, <1>4, Before, LeaveGateShape, TypedParts DEF Stages
    <2>2. ~Pending
      BY <1>1 DEF TurnInv, DecisionFits
    <2> QED
      BY <1>1, <1>4, <2>1, <2>2, Before
         DEF TurnInv, RunningWhenBusy, DecisionFits, CallsCounted, OutageCloses, StreakCounted,
           ToolsBehind, AnswerVerifiedOrReplaced, Deciding, Acting, Busy, Pending, Fresh
  <1> QED
    BY <1>3, <1>4 DEF Judge

LEMMA ReturnResultKeeps ==
  ASSUME TurnInv, ReturnResult PROVE TurnInv'
  <1>1. /\ pc = "result" /\ ~result.acts /\ (h.decision.type = "final" => h.decision.text = NoText)
        /\ pc' = "done" /\ LeaveGate /\ UNCHANGED <<timeUp, n, h, result, hist>>
    BY DEF ReturnResult
  <1>2. Typed'
    BY <1>1, Before, LeaveGateShape, TypedParts DEF Stages, Ended
  <1> QED
    BY <1>1, <1>2, Before
       DEF TurnInv, RunningWhenBusy, DecisionFits, CallsCounted, OutageCloses, StreakCounted,
           ToolsBehind, AnswerVerifiedOrReplaced, Deciding, Acting, Busy, Pending, Fresh

-----------------------------------------------------------------------------
(* Tool calls and delegations coming back *)

LEMMA AnsweredKeeps ==
  ASSUME TurnInv, pc \in Acting, UNCHANGED <<timeUp, gate, hist>>, IsMeter(n'),
         \A k \in {"iteration", "repeated", "tool"} : n'[k] = n[k],
         h' \in AgentStates, h'.closed = h.closed, h'.decision = h.decision,
         result' \in Results,
         \/ pc' = "reason" /\ h'.status = h.status
         \/ pc' \in {"done", "errored"}
  PROVE  TurnInv'
  <1>1. h.status = "running" /\ h.decision.type = "call" /\ ~h.closed
    BY DEF TurnInv, RunningWhenBusy, DecisionFits, Busy
  <1>2. Typed'
    BY Before, TypedParts DEF Stages, Ended
  <1> QED
    BY <1>1, <1>2, Before
       DEF TurnInv, RunningWhenBusy, DecisionFits, CallsCounted, OutageCloses, StreakCounted,
           ToolsBehind, AnswerVerifiedOrReplaced, Deciding, Acting, Busy, Pending, Fresh

LEMMA EndTurnKeeps ==
  ASSUME TurnInv, pc \in Acting, UNCHANGED <<timeUp, gate, hist>>, IsMeter(n'),
         \A k \in {"iteration", "repeated", "tool"} : n'[k] = n[k],
         NEW h0 \in AgentStates, h0.closed = h.closed, h0.decision = h.decision,
         NEW st \in {"partial", "failed"}, EndTurn(st, h0)
  PROVE  TurnInv'
  <1>1. /\ h' \in AgentStates /\ h'.closed = h.closed /\ h'.decision = h.decision
        /\ result' \in Results /\ pc' = "done"
    BY DEF EndTurn, AgentStates, Results
  <1> QED
    BY <1>1, AnsweredKeeps

LEMMA LearnKeeps ==
  ASSUME TurnInv, pc \in Acting, UNCHANGED <<timeUp, gate, hist>>,
         NEW m, IsMeter(m), \A k \in {"iteration", "repeated", "tool"} : m[k] = n[k],
         m["evidence"] = n["evidence"], m["noProgress"] = n["noProgress"],
         NEW evident \in BOOLEAN, NEW same \in BOOLEAN, Learn(m, evident, same)
  PROVE  TurnInv'
  <1> DEFINE m1 == [m EXCEPT !["evidence"] = @ + 1]
  <1>1. Within("evidence") =>
           /\ IsMeter(m1) /\ \A k \in {"iteration", "repeated", "tool", "noProgress"} : m1[k] = n[k]
    <2>1. "evidence" \in Kinds /\ {"iteration", "repeated", "tool", "noProgress"} \subseteq Meters
      BY DEF Meters, Kinds
    <2>2. ASSUME Within("evidence")
          PROVE  /\ IsMeter(m1)
                 /\ \A j \in Meters : m1[j] = IF j = "evidence" THEN m["evidence"] + 1 ELSE m[j]
      BY <2>1, <2>2, BumpMeter DEF Within
    <2> HIDE DEF m1
    <2> QED
      BY <2>1, <2>2
  <1>2. Within("evidence") =>
           /\ IsMeter(Progress(m1, same))
           /\ \A k \in {"iteration", "repeated", "tool"} : Progress(m1, same)[k] = n[k]
    <2>1. {"iteration", "repeated", "tool"} \subseteq Meters \ {"noProgress"}
      BY DEF Meters, Kinds
    <2> HIDE DEF m1
    <2> QED
      BY <1>1, <2>1, Before, ProgressMeter
  <1> HIDE DEF m1
  <1>3. CASE /\ Within("evidence") /\ n' = Progress(m1, same) /\ pc' = "reason"
             /\ h' = [h EXCEPT !.evidence = @ \/ evident, !.progressed = TRUE]
             /\ UNCHANGED result
    <2>1. PICK e \in BOOLEAN : h' = [h EXCEPT !.evidence = e, !.progressed = TRUE]
      BY <1>3, Before DEF AgentStates
    <2>2. /\ h' \in AgentStates /\ h'.closed = h.closed /\ h'.decision = h.decision
          /\ h'.status = h.status
      BY <2>1, Before DEF AgentStates
    <2> QED
      BY <1>2, <1>3, <2>2, Before, AnsweredKeeps
  <1>4. CASE /\ n' = IF Within("evidence") THEN m1 ELSE m
             /\ EndTurn("partial", [h EXCEPT !.evidence = @ \/ (evident /\ Within("evidence"))])
    <2>1. PICK e \in BOOLEAN : EndTurn("partial", [h EXCEPT !.evidence = e])
      BY <1>4, Before DEF AgentStates
    <2> DEFINE h0 == [h EXCEPT !.evidence = e]
    <2>2. h0 \in AgentStates /\ h0.closed = h.closed /\ h0.decision = h.decision
      BY Before DEF AgentStates
    <2> HIDE DEF h0
    <2>3. IsMeter(n') /\ \A k \in {"iteration", "repeated", "tool"} : n'[k] = n[k]
      BY <1>1, <1>4
    <2> QED
      BY <2>1, <2>2, <2>3, EndTurnKeeps DEF h0
  <1> QED
    BY <1>3, <1>4 DEF Learn, m1

LEMMA ResultCounted ==
  ASSUME TurnInv, Within("result")
  PROVE  /\ IsMeter(Counted({"result"}))
         /\ \A k \in {"iteration", "repeated", "tool", "evidence", "noProgress"} :
               Counted({"result"})[k] = n[k]
  BY Before, CountedMeter DEF Within, Meters, Kinds

LEMMA ResultsFullKeeps ==
  ASSUME TurnInv, ResultsFull PROVE TurnInv'
  <1>1. pc \in Acting /\ EndTurn("partial", h) /\ UNCHANGED <<timeUp, n, gate, hist>>
    BY DEF ResultsFull, Acting
  <1> QED
    BY <1>1, Before, EndTurnKeeps

LEMMA CallSucceedsKeeps ==
  ASSUME TurnInv, NEW e \in BOOLEAN, NEW s \in BOOLEAN, CallSucceeds(e, s) PROVE TurnInv'
  <1>1. /\ pc \in Acting /\ Within("result") /\ Learn(Counted({"result"}), e, s)
        /\ UNCHANGED <<timeUp, gate, hist>>
    BY DEF CallSucceeds, Acting
  <1> QED
    BY <1>1, ResultCounted, LearnKeeps

LEMMA DelegationReturnsKeeps ==
  ASSUME TurnInv, NEW v \in BOOLEAN, NEW s \in BOOLEAN, DelegationReturns(v, s) PROVE TurnInv'
  <1>1. pc \in Acting /\ Learn(n, v, s) /\ UNCHANGED <<timeUp, gate, hist>>
    BY DEF DelegationReturns, Acting
  <1> QED
    BY <1>1, Before, LearnKeeps

LEMMA CallFailsKeeps ==
  ASSUME TurnInv, NEW s \in BOOLEAN, CallFails(s) PROVE TurnInv'
  <1>1. /\ pc \in Acting /\ Within("result") /\ n' = Progress(Counted({"result"}), s)
        /\ UNCHANGED <<timeUp, gate, hist>>
    BY DEF CallFails, Acting
  <1>2. {"iteration", "repeated", "tool"} \subseteq Meters \ {"noProgress"}
    BY DEF Meters, Kinds
  <1>3. IsMeter(n') /\ \A k \in {"iteration", "repeated", "tool"} : n'[k] = n[k]
    BY <1>1, <1>2, Before, ResultCounted, ProgressMeter
  <1>4. CASE EndTurn("failed", h)
    BY <1>1, <1>3, <1>4, Before, EndTurnKeeps
  <1>5. CASE h' = [h EXCEPT !.progressed = TRUE] /\ pc' = "reason" /\ UNCHANGED result
    <2>1. /\ h' \in AgentStates /\ h'.closed = h.closed /\ h'.decision = h.decision
          /\ h'.status = h.status
      BY <1>5, Before DEF AgentStates
    <2> QED
      BY <1>1, <1>3, <1>5, <2>1, Before, AnsweredKeeps
  <1> QED
    BY <1>4, <1>5 DEF CallFails

LEMMA CallRefusedKeeps ==
  ASSUME TurnInv, CallRefused PROVE TurnInv'
  <1>1. /\ pc \in Acting /\ Within("result") /\ n' = Counted({"result"})
        /\ EndTurn("failed", h) /\ UNCHANGED <<timeUp, gate, hist>>
    BY DEF CallRefused, Acting
  <1> QED
    BY <1>1, Before, ResultCounted, EndTurnKeeps

LEMMA CallErrorsKeeps ==
  ASSUME TurnInv, CallErrors PROVE TurnInv'
  <1>1. pc \in Acting /\ pc' = "errored" /\ UNCHANGED <<timeUp, n, h, result, gate, hist>>
    BY DEF CallErrors, Acting
  <1> QED
    BY <1>1, Before, AnsweredKeeps

-----------------------------------------------------------------------------
(* The answer gate *)

LEMMA JudgedKeeps ==
  ASSUME TurnInv, NEW r \in JudgeReplies, NEW s \in Similarities, Judged(r, s) PROVE TurnInv'
  <1> DEFINE answer == h.decision.text
             v == Evaluation(r, s)
             verified == IF Sound(r, s) THEN hist.verified \cup {answer} ELSE hist.verified
  <1>1. /\ pc = "judging" /\ UNCHANGED timeUp
        /\ hist' = [hist EXCEPT !.verified = verified]
    BY DEF Judged
  <1>2. /\ h.status = "running" /\ ~h.closed /\ h.decision.type = "final"
        /\ answer # NoText /\ h.shown = answer
    BY <1>1 DEF TurnInv, RunningWhenBusy, DecisionFits, Busy
  <1>3. answer \in Answers
    BY <1>2, Before, DecisionShapes DEF AgentStates
  <1>4. /\ hist' \in Histories /\ hist'.verified = verified /\ hist'.llm = hist.llm
        /\ hist'.unanswered = hist.unanswered /\ hist'.streak = hist.streak
    <2>1. hist \in Histories /\ verified \in SUBSET Answers
      BY <1>3, Before DEF Histories
    <2> HIDE DEF verified, answer, v
    <2> QED
      BY <1>1, <2>1 DEF Histories
  <1>5. n["tool"] <= n["iteration"]
    BY <1>1, Before DEF TurnInv, ToolsBehind, Fresh
  <1>6. CASE Reject(h) /\ UNCHANGED n
    BY <1>1, <1>4, <1>5, <1>6, Before, RejectKeeps DEF Deciding
  <1>7. CASE /\ v.scored /\ Sufficient(v)
             /\ gate' = [gate EXCEPT !.summary = "verified"]
             /\ pc' = "done" /\ UNCHANGED <<n, h, result>>
    <2>1. Sound(r, s)
      BY <1>7 DEF Sound, Evaluation, Sufficient, Faithful, Similarities
    <2>2. answer \in hist'.verified
      BY <1>4, <2>1
    <2>3. gate' \in Gates /\ gate'.summary = "verified"
      BY <1>7, Before DEF Gates
    <2>4. Typed'
      BY <1>1, <1>4, <1>7, <2>3, Before, TypedParts DEF Stages, Ended
    <2>5. RunningWhenBusy' /\ DecisionFits'
      BY <1>2, <1>7 DEF RunningWhenBusy, DecisionFits, Deciding, Acting, Busy, Pending
    <2>6. CallsCounted' /\ OutageCloses' /\ StreakCounted' /\ ToolsBehind'
      BY <1>1, <1>4, <1>5, <1>7, Before
         DEF TurnInv, CallsCounted, OutageCloses, StreakCounted, ToolsBehind, Deciding,
             Pending, Fresh
    <2>7. AnswerVerifiedOrReplaced'
      BY <1>2, <1>7, <2>2, <2>3 DEF AnswerVerifiedOrReplaced
    <2> QED
      BY <2>4, <2>5, <2>6, <2>7 DEF TurnInv
  <1>8. CASE /\ Admitted("step") /\ n' = Counted({"step"})
             /\ gate' = [gate EXCEPT !.rejected = h.shown,
                              !.purpose = IF h.evidence THEN "insufficient" ELSE "missing"]
             /\ pc' = "retrieve" /\ UNCHANGED <<h, result>>
    <2>1. gate' \in Gates
      BY <1>2, <1>3, <1>8, Before DEF Gates
    <2>2. /\ IsMeter(n') /\ n'["iteration"] = n["iteration"] /\ n'["repeated"] = n["repeated"]
          /\ n'["tool"] = n["tool"]
      BY <1>8, Before, CountedMeter DEF Meters, Kinds, Admitted
    <2>3. Typed'
      BY <1>1, <1>4, <1>8, <2>1, <2>2, Before, TypedParts DEF Stages
    <2>4. RunningWhenBusy' /\ DecisionFits' /\ AnswerVerifiedOrReplaced'
      BY <1>2, <1>8
         DEF RunningWhenBusy, DecisionFits, AnswerVerifiedOrReplaced, Deciding, Acting, Busy,
             Pending
    <2>5. CallsCounted' /\ OutageCloses' /\ StreakCounted' /\ ToolsBehind'
      BY <1>1, <1>4, <1>5, <1>8, <2>2, Before
         DEF TurnInv, CallsCounted, OutageCloses, StreakCounted, ToolsBehind, Deciding,
             Pending, Fresh
    <2> QED
      BY <2>3, <2>4, <2>5 DEF TurnInv
  <1> QED
    BY <1>6, <1>7, <1>8 DEF Judged

-----------------------------------------------------------------------------
(* The invariant is kept, and what follows *)

LEMMA InvInductive == TurnInv /\ [Next]_vars => TurnInv'
  <1> SUFFICES ASSUME TurnInv, [Next]_vars PROVE TurnInv'
    OBVIOUS
  <1>1. CASE Retrieve
    BY <1>1, StartRetrievalKeeps, RetrievalDeniedKeeps, NothingRetrievedKeeps,
       EvidenceRetrievedKeeps DEF Retrieve
  <1>2. CASE Think
    BY <1>2, ReasonKeeps, BeginAttemptKeeps, ProviderStepsKeep, InvalidDecisionKeeps,
       ValidDecisionKeeps DEF Think
  <1>3. CASE Continue
    BY <1>3, StartCallKeeps, CallNotAdmittedKeeps, RejectAfterRetryKeeps, JudgeKeeps,
       ReturnResultKeeps DEF Continue
  <1>4. CASE Answered
    BY <1>4, ResultsFullKeeps, CallRefusedKeeps, CallErrorsKeeps, CallSucceedsKeeps,
       DelegationReturnsKeeps, CallFailsKeeps DEF Answered
  <1>5. CASE Gate
    BY <1>5, JudgedKeeps DEF Gate
  <1>6. CASE TimePasses
    BY <1>6, TimePassesKeeps
  <1>7. CASE UNCHANGED vars
    <2>1. /\ pc' = pc /\ timeUp' = timeUp /\ n' = n /\ h' = h /\ result' = result
          /\ gate' = gate /\ hist' = hist
      BY <1>7 DEF vars
    <2>2. Typed'
      BY <2>1, Before, TypedParts
    <2> QED
      BY <2>1, <2>2
         DEF TurnInv, RunningWhenBusy, DecisionFits, CallsCounted, OutageCloses, StreakCounted,
           ToolsBehind, AnswerVerifiedOrReplaced, Deciding, Acting, Busy, Pending, Fresh
  <1> QED
    BY <1>1, <1>2, <1>3, <1>4, <1>5, <1>6, <1>7 DEF Next, Step

LEMMA TurnInvariant == Spec => []TurnInv
  <1>1. Init => TurnInv
    BY InitGood
  <1>2. TurnInv /\ [Next]_vars => TurnInv'
    BY InvInductive
  <1> QED
    BY <1>1, <1>2, PTL DEF Spec

\* For any model, tools, policies and limits: a turn whose last decision proposes a FINAL
\* answer shows that answer, verified against evidence, or the fixed message in its place
\* (_gate_final, _reject_unverified).
THEOREM AnswersAreVerified == Spec => []AnswerVerifiedOrReplaced
  <1>1. TurnInv => AnswerVerifiedOrReplaced
    BY DEF TurnInv
  <1> QED
    BY <1>1, TurnInvariant, PTL

\* What a turn may cost, but for when the runtime may raise an error of its own.
Bounded == TypeOK /\ LlmCallsBounded /\ OutagesNotRepeated /\ RepeatBound

\* However many answers are rejected, decisions corrected, calls failed and providers
\* failed over, no limit of the budget is exceeded: model calls stay within
\* max_iterations, an outage is not repeated, the loop breaker holds (build_retry_classifier,
\* LoopBreaker.record_action).
THEOREM TurnsAreBounded == Spec => []Bounded
  <1>1. ASSUME TurnInv PROVE Bounded
    <2>1. n["iteration"] <= Limits["iteration"] /\ n["repeated"] <= Limits["repeated"]
      <3>1. "iteration" \in Kinds /\ "repeated" \in Kinds
        BY DEF Kinds
      <3> QED
        BY <1>1, <3>1, Before DEF IsMeter
    <2>2. Limits["iteration"] \in Nat /\ Limits["repeated"] \in Nat
      BY LimitsAssumption DEF Kinds
    <2>3. LlmCallsBounded
      BY <1>1, <2>1, <2>2, Before DEF TurnInv, CallsCounted, LlmCallsBounded
    <2>4. RepeatBound
      BY <1>1, <2>1, <2>2, Before DEF TurnInv, StreakCounted, RepeatBound
    <2> QED
      BY <1>1, <2>3, <2>4 DEF TurnInv, Typed, OutageCloses, OutagesNotRepeated, Bounded
  <1> QED
    BY <1>1, TurnInvariant, PTL

-----------------------------------------------------------------------------
(* When the runtime raises an error of its own *)

\* The tool budget outlasts the model calls, as the 20 and 10 of AgentExecutionBudget do.
ToolsOutlast == Limits["iteration"] < Limits["tool"]

LEMMA RaisedLate ==
  ASSUME ToolsOutlast, TurnInv, [Next]_vars, RaisesOnlyWhenLate PROVE RaisesOnlyWhenLate'
  <1> SUFFICES ASSUME pc' = "raised" PROVE timeUp'
    BY DEF RaisesOnlyWhenLate
  <1>1. CASE RetrievalDenied
    <2>1. /\ pc = "retrieve" /\ timeUp' = timeUp /\ ~(RetrieverAllowed /\ Admitted("tool"))
          /\ WithoutEvidence([h EXCEPT !.status = IF RetrieverAllowed THEN "partial" ELSE @])
      BY <1>1 DEF RetrievalDenied
    <2>2. h.status = "running" /\ h \in AgentStates
      BY <2>1, Before DEF TurnInv, RunningWhenBusy, Busy
    <2>3. RetrieverAllowed
      <3>1. SUFFICES ASSUME ~RetrieverAllowed PROVE FALSE
        BY PolicyAssumption
      <3>2. WithoutEvidence([h EXCEPT !.status = h.status])
        BY <2>1, <3>1
      <3>3. [h EXCEPT !.status = h.status].status = "running"
        BY <2>2 DEF AgentStates
      <3> QED
        BY <3>2, <3>3 DEF WithoutEvidence, Reject
    <2>4. n["tool"] < Limits["tool"]
      <3>1. n["tool"] <= n["iteration"]
        BY <2>1, Before DEF TurnInv, ToolsBehind, Fresh
      <3>2. /\ n["iteration"] <= Limits["iteration"]
            /\ Limits["iteration"] \in Nat /\ Limits["tool"] \in Nat
        <4>1. "iteration" \in Kinds /\ "tool" \in Kinds
          BY DEF Kinds
        <4> QED
          BY <4>1, Before, LimitsAssumption DEF IsMeter
      <3> QED
        BY <3>1, <3>2, Before DEF ToolsOutlast
    <2> QED
      BY <2>1, <2>3, <2>4, Before DEF Admitted
  <1>2. CASE NothingRetrieved
    <2>1. pc = "retrieving" /\ WithoutEvidence(h)
      BY <1>2 DEF NothingRetrieved
    <2>2. h.status = "running"
      BY <2>1 DEF TurnInv, RunningWhenBusy, Busy
    <2> QED
      BY <2>1, <2>2 DEF WithoutEvidence, Reject
  <1>3. CASE StartRetrieval \/ \E s \in BOOLEAN : EvidenceRetrieved(s)
    BY <1>3 DEF StartRetrieval, EvidenceRetrieved, Reject
  <1>4. CASE Think
    <2>1. CASE Reason
      BY <2>1 DEF Reason, Return, TurnInv, RunningWhenBusy
    <2>2. CASE BeginAttempt
      BY <2>2 DEF BeginAttempt, Return
    <2>3. ASSUME NEW e, NEW t, NEW o, ReasoningFails(e, t, o) PROVE FALSE
      BY <2>3 DEF ReasoningFails, Return
    <2>4. CASE \/ \E e \in GroqErrors, t \in BOOLEAN : PrimaryFails(e, t)
               \/ \E e \in LocalErrors, t \in BOOLEAN : FallbackFails(e, t)
               \/ \E t, f \in BOOLEAN : NotOfSchema(t) \/ FailsOver(t, f)
      BY <2>3, <2>4 DEF PrimaryFails, FallbackFails, NotOfSchema, FailsOver
    <2>5. ASSUME NEW d, NEW m, Correct(d, m) PROVE FALSE
      BY <2>5 DEF Correct, Return
    <2>6. CASE \E d \in InvalidDecisions : InvalidDecision(d)
      BY <2>5, <2>6 DEF InvalidDecision
    <2>7. CASE \E d \in ValidDecisions : ValidDecision(d)
      BY <2>5, <2>7 DEF ValidDecision, Handle, Act, Return
    <2> QED
      BY <1>4, <2>1, <2>2, <2>4, <2>6, <2>7 DEF Think
  <1>5. CASE Continue
    BY <1>5 DEF Continue, StartCall, CallNotAdmitted, RejectAfterRetry, Judge, ReturnResult, Reject
  <1>6. CASE Answered
    BY <1>6 DEF Answered, ResultsFull, CallRefused, CallErrors, CallSucceeds, DelegationReturns,
       CallFails, Learn, EndTurn
  <1>7. CASE Gate
    BY <1>7 DEF Gate, Judged, Reject
  <1>8. CASE TimePasses \/ UNCHANGED vars
    BY <1>8 DEF TimePasses, vars, RaisesOnlyWhenLate
  <1> QED
    BY <1>1, <1>2, <1>3, <1>4, <1>5, <1>6, <1>7, <1>8 DEF Next, Step, Retrieve

\* Where the tool budget outlasts the iterations, the runtime's own errors come up only
\* once the time is up, so all that WorkBounded says of a turn holds (reason,
\* _corrective_retrieval, AgentExecutionBudget).
THEOREM WorkIsBounded == ASSUME ToolsOutlast PROVE Spec => []WorkBounded
  <1>1. Init => RaisesOnlyWhenLate
    BY DEF Init, RaisesOnlyWhenLate
  <1>2. TurnInv /\ RaisesOnlyWhenLate /\ [Next]_vars => RaisesOnlyWhenLate'
    BY RaisedLate
  <1>3. Spec => []RaisesOnlyWhenLate
    BY <1>1, <1>2, TurnInvariant, PTL DEF Spec
  <1>4. Bounded /\ RaisesOnlyWhenLate => WorkBounded
    BY DEF Bounded, WorkBounded
  <1> QED
    BY <1>3, <1>4, TurnsAreBounded, PTL

-----------------------------------------------------------------------------
(* Nothing is begun late *)

LEMMA BegunInTime ==
  ASSUME TurnInv, [Next]_vars, timeUp \/ h.status # "running", pc' # pc PROVE pc' \notin Working
  <1>1. CASE Retrieve
    <2>1. CASE StartRetrieval
      BY <2>1 DEF StartRetrieval, Admitted, TurnInv, RunningWhenBusy, Busy
    <2>2. ASSUME NEW h0, WithoutEvidence(h0) PROVE pc' \notin Working
      BY <2>2 DEF WithoutEvidence, Reject, Working
    <2>3. CASE RetrievalDenied \/ NothingRetrieved
      BY <2>2, <2>3 DEF RetrievalDenied, NothingRetrieved
    <2>4. CASE \E s \in BOOLEAN : EvidenceRetrieved(s)
      BY <2>4 DEF EvidenceRetrieved, Reject, Working
    <2> QED
      BY <1>1, <2>1, <2>3, <2>4 DEF Retrieve
  <1>2. CASE Think
    <2>1. CASE Reason
      BY <2>1 DEF Reason, Return, Working
    <2>2. CASE BeginAttempt
      <3>1. pc = "attempt"
        BY <2>2 DEF BeginAttempt
      <3>2. timeUp
        BY <3>1 DEF TurnInv, RunningWhenBusy, Busy
      <3> QED
        BY <2>2, <3>2 DEF BeginAttempt, Admitted, Return, Working
    <2>3. ASSUME NEW e, NEW t, NEW o, ReasoningFails(e, t, o) PROVE pc' \notin Working
      BY <2>3 DEF ReasoningFails, Return, Working
    <2>4. ASSUME NEW t \in BOOLEAN, NEW f \in BOOLEAN, FailsOver(t, f) PROVE pc' \notin Working
      <3>1. pc = "thinking"
        BY <2>4 DEF FailsOver
      <3>2. timeUp
        BY <3>1 DEF TurnInv, RunningWhenBusy, Busy, Deciding
      <3> QED
        BY <2>3, <2>4, <3>2 DEF FailsOver, TimeLeft
    <2>5. CASE \/ \E e \in GroqErrors, t \in BOOLEAN : PrimaryFails(e, t)
               \/ \E e \in LocalErrors, t \in BOOLEAN : FallbackFails(e, t)
               \/ \E t \in BOOLEAN : NotOfSchema(t)
      BY <2>3, <2>5 DEF PrimaryFails, FallbackFails, NotOfSchema
    <2>6. ASSUME NEW d, NEW m, Correct(d, m) PROVE pc' \notin Working
      BY <2>6 DEF Correct, Return, Working
    <2>7. CASE \E d \in InvalidDecisions : InvalidDecision(d)
      BY <2>6, <2>7 DEF InvalidDecision
    <2>8. CASE \E d \in ValidDecisions : ValidDecision(d)
      BY <2>6, <2>8 DEF ValidDecision, Handle, Act, Return, Working
    <2> QED
      BY <1>2, <2>1, <2>2, <2>4, <2>5, <2>7, <2>8 DEF Think
  <1>3. CASE Continue
    <2>1. CASE StartCall
      <3>1. Pending /\ Admitted("step")
        BY <2>1 DEF StartCall, Pending, Budgets
      <3> QED
        BY <3>1 DEF Admitted, TurnInv, RunningWhenBusy
    <2>2. CASE CallNotAdmitted \/ RejectAfterRetry \/ Judge \/ ReturnResult
      BY <2>2 DEF CallNotAdmitted, RejectAfterRetry, Judge, ReturnResult, Reject, Working
    <2> QED
      BY <1>3, <2>1, <2>2 DEF Continue
  <1>4. CASE Answered
    BY <1>4 DEF Answered, ResultsFull, CallRefused, CallErrors, CallSucceeds, DelegationReturns,
       CallFails, Learn, EndTurn, Working
  <1>5. CASE Gate
    BY <1>5 DEF Gate, Judged, Reject, Working
  <1>6. CASE TimePasses \/ UNCHANGED vars
    BY <1>6 DEF TimePasses, vars
  <1> QED
    BY <1>1, <1>2, <1>3, <1>4, <1>5, <1>6 DEF Next, Step

\* Once the time is up or the turn has ended, no model call, tool call, retrieval or
\* delegation is begun: every one is admitted by the budget just before, and the fallback
\* has the time that remains (reserve_iteration, reserve_tool_call, reserve_agent_hop).
THEOREM NothingIsBegunLate == Spec => NothingStartsLate
  <1> DEFINE A == timeUp \/ h.status # "running" => pc' \notin Working \/ pc' = pc
  <1>1. TurnInv /\ [Next]_vars => [A]_vars
    BY BegunInTime
  <1>2. Spec => [][A]_vars
    BY <1>1, TurnInvariant, PTL DEF Spec
  <1> QED
    BY <1>2 DEF NothingStartsLate
=============================================================================
