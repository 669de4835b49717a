-------------------------- MODULE HitlThreadProofs --------------------------
(***************************************************************************)
(* What a conversation holds, and where its turns stop.  HitlThread, for   *)
(* any number of gated calls and faults: at each pause the graph is told   *)
(* what became of that pause's row, and the rows and the checkpoint agree  *)
(* on what the turn waits for.  ConversationHistory, in the second part, for any   *)
(* number of turns, at once or not, and any limits: summary, prompt and    *)
(* pages lose and repeat nothing but what overlaps and failures explain,   *)
(* and a prompt is trimmed right.                                          *)
(***************************************************************************)
EXTENDS HitlThread, ConversationHistory, FiniteRecursion, SequenceTheorems, TLAPS

-----------------------------------------------------------------------------
(* The inductive invariant *)

\* A row that asks for a decision, is claimed, or can be retried.
Open(k) == row[k].status \in {"PENDING_APPROVAL", "EXECUTING", "FAILED"}
Unasked == \A k \in Calls : row[k] = NoRow

\* The turn's first execution precedes every row, value and call.
FirstExecution ==
    /\ attempt.stage = "none" => attempt = NoAttempt
    /\ attempt.call = 0 /\ attempt.stage # "none" =>
          /\ attempt.stage \in {"graph", "commit"}
          /\ Unasked /\ thread.values = <<>> /\ sent = {}
          /\ attempt.stage = "graph" => thread.state = "new"
    /\ thread.state = "new" => Unasked /\ thread.values = <<>> /\ sent = {} /\ attempt.call = 0

\* An attempt works on the one row that is open, and has claimed it.
ClaimedRow ==
    /\ attempt.call # 0 =>
          /\ row[attempt.call].status = "EXECUTING" /\ row[attempt.call].decision # "none"
          /\ attempt.result = row[attempt.call].result
    /\ \A j, k \in Calls : Open(j) /\ Open(k) => j = k

WaitsForDecision ==
    \A k \in Calls : row[k].status = "PENDING_APPROVAL" =>
        /\ attempt = NoAttempt /\ thread.state = "paused" /\ thread.pending = k
        /\ row[k].result = "none" /\ shown[k] = proposed[k]

\* A paused turn that has asked waits for a row, and no row is ahead of the checkpoint.
PausedWaits ==
    /\ thread.state # "paused" => thread.pending = 0
    /\ thread.state = "paused" =>
          thread.pending = Len(thread.values) + 1 /\ Len(proposed) = thread.pending
    /\ thread.state = "paused" /\ ~Unasked => \E k \in Calls : Open(k)
    /\ thread.state = "paused" => \A k \in Calls : row[k] # NoRow =>
          k <= thread.pending /\ (attempt.stage = "commit" => k < thread.pending)

\* The rows follow the checkpoint: what is open is what the graph waits for.
InStep ==
    /\ attempt.stage # "commit" =>
          \A k \in Calls : Open(k) => thread.state = "paused" /\ thread.pending = k
    /\ attempt.stage = "commit" =>
          \/ attempt.call = Len(thread.values)
          \/ thread.state = "ended" /\ attempt.call = Len(thread.values) + 1

\* What the graph was told at pause i, and what the row of that pause says.
Told(i) ==
    /\ thread.values[i] = [from |-> i, decision |-> row[i].decision, result |-> row[i].result]
    /\ i < Len(thread.values) \/ (thread.state = "paused" /\ attempt.stage # "commit") =>
          row[i].status = "COMPLETED"
    /\ i < Len(thread.values) \/ thread.state = "paused" => row[i].decision = "APPROVE"

SentFits ==
    /\ \A k \in sent :
          \/ k <= Len(thread.values)
          \/ /\ k = Len(thread.values) + 1
             /\ ~(thread.state = "paused" /\ attempt.stage = "commit")
    /\ \A k \in sent : \A j \in 1..(k - 1) :
          row[j].status = "COMPLETED" /\ row[j].decision = "APPROVE"

\* What holds while every advance of the checkpoint was committed with its rows.
Following == InStep /\ (\A i \in DOMAIN thread.values : Told(i)) /\ SentFits

ThreadInv ==
    /\ TypeOK /\ FirstExecution /\ ClaimedRow /\ WaitsForDecision /\ PausedWaits
    /\ ~drifted => Following

-----------------------------------------------------------------------------
(* Shapes *)

Decisions == {"APPROVE", "REJECT"}
Outcomes == Results \cup {"none"}
Values == [from : Calls, decision : Decisions, result : Outcomes]
Threads == [state : {"new", "paused", "ended"}, pending : 0..MaxCalls, values : Seq(Values)]
Statuses == {"absent", "PENDING_APPROVAL", "EXECUTING", "FAILED", "COMPLETED", "REJECTED"}
RowType == [status : Statuses, decision : {"none"} \cup Decisions, result : Outcomes]
Showings == [Calls -> Drafts \cup {NoDraft}]
Attempts == [stage : {"none", "graph", "tool", "commit", "undo"}, call : 0..MaxCalls,
             result : Outcomes]

LEMMA Shapes ==
  /\ TypeOK <=> /\ thread \in Threads /\ row \in [Calls -> RowType] /\ sent \subseteq Calls
                /\ attempt \in Attempts /\ drifted \in BOOLEAN /\ faults \in 0..MaxFaults
                /\ proposed \in Seq(Drafts) /\ shown \in Showings
  /\ TypeOK' <=> /\ thread' \in Threads /\ row' \in [Calls -> RowType] /\ sent' \subseteq Calls
                 /\ attempt' \in Attempts /\ drifted' \in BOOLEAN /\ faults' \in 0..MaxFaults
                 /\ proposed' \in Seq(Drafts) /\ shown' \in Showings
  <1>1. {"none", "APPROVE", "REJECT"} = {"none"} \cup {"APPROVE", "REJECT"}
    OBVIOUS
  <1> QED
    BY <1>1 DEF TypeOK, Threads, Values, RowType, Statuses, Attempts, Outcomes, Decisions,
              Showings

LEMMA RowShapes ==
  /\ NoRow \in RowType /\ PendingRow \in RowType
  /\ NoRow.status = "absent" /\ NoRow.decision = "none" /\ NoRow.result = "none"
  /\ PendingRow.status = "PENDING_APPROVAL" /\ PendingRow.decision = "none"
  /\ PendingRow.result = "none" /\ PendingRow # NoRow
  /\ NoAttempt \in Attempts /\ NoAttempt.stage = "none" /\ NoAttempt.call = 0
  /\ NoAttempt.result = "none"
  BY CallsAssumption
     DEF NoRow, PendingRow, RowType, Statuses, Outcomes, NoAttempt, Attempts, Decisions

LEMMA FaultCounts ==
  ASSUME faults \in 0..MaxFaults, NoFault \/ (\E k \in FaultKinds : Fault(k))
  PROVE  faults' \in 0..MaxFaults
  BY FaultAssumption DEF NoFault, Fault

LEMMA Before ==
  ASSUME ThreadInv
  PROVE  /\ thread \in Threads /\ row \in [Calls -> RowType] /\ sent \subseteq Calls
         /\ attempt \in Attempts /\ drifted \in BOOLEAN /\ faults \in 0..MaxFaults
         /\ proposed \in Seq(Drafts) /\ shown \in Showings
         /\ thread.values \in Seq(Values) /\ Len(thread.values) \in Nat
         /\ DOMAIN thread.values = 1..Len(thread.values)
         /\ \A k \in Calls : k \in Nat /\ k > 0 /\ row[k] \in RowType
         /\ thread.pending \in 0..MaxCalls /\ attempt.call \in 0..MaxCalls /\ MaxCalls \in Nat
         /\ attempt.result \in Outcomes
  <1>1. /\ thread \in Threads /\ row \in [Calls -> RowType] /\ sent \subseteq Calls
        /\ attempt \in Attempts /\ drifted \in BOOLEAN /\ faults \in 0..MaxFaults
        /\ proposed \in Seq(Drafts) /\ shown \in Showings
    BY Shapes DEF ThreadInv
  <1>2. thread.values \in Seq(Values)
    BY <1>1 DEF Threads
  <1>3. Len(thread.values) \in Nat /\ DOMAIN thread.values = 1..Len(thread.values)
    BY <1>2, LenProperties
  <1>4. MaxCalls \in Nat
    BY CallsAssumption
  <1> QED
    BY <1>1, <1>2, <1>3, <1>4 DEF Threads, Attempts, Calls

\* A run proposes a sequence of calls.
LEMMA ProposesShape ==
  ASSUME NEW n \in Nat, Proposes(n)
  PROVE  proposed' \in Seq(Drafts) /\ Len(proposed') = n
  <1>1. proposed' \in [1..n -> Drafts]
    BY DEF Proposes
  <1> QED
    BY <1>1

LEMMA InitGood == Init => ThreadInv
  <1> SUFFICES ASSUME Init PROVE ThreadInv
    OBVIOUS
  <1>1. /\ thread = [state |-> "new", pending |-> 0, values |-> <<>>]
        /\ attempt = [stage |-> "graph", call |-> 0, result |-> "none"]
        /\ row = [k \in Calls |-> NoRow] /\ sent = {} /\ drifted = FALSE /\ faults = 0
    BY DEF Init, NoAttempt
  <1>2. <<>> \in Seq(Values) /\ Len(<<>>) = 0 /\ DOMAIN (<<>>) = {}
    BY EmptySeq, LenProperties
  <1>3. TypeOK
    <2>1. MaxCalls \in Nat /\ MaxFaults \in Nat
      BY CallsAssumption, FaultAssumption
    <2>2. thread \in Threads /\ attempt \in Attempts
      BY <1>1, <1>2, <2>1 DEF Threads, Attempts, Outcomes
    <2>3. row \in [Calls -> RowType]
      BY <1>1, RowShapes
    <2>4. sent \subseteq Calls /\ faults \in 0..MaxFaults
      BY <1>1, <2>1
    <2>5. drifted \in BOOLEAN
      BY <1>1, Zenon
    <2>6. proposed \in Seq(Drafts) /\ shown \in Showings
      BY DEF Init, Showings
    <2> QED
      BY <2>2, <2>3, <2>4, <2>5, <2>6, Shapes
  <1>4. Unasked /\ \A k \in Calls : ~Open(k)
    BY <1>1, RowShapes DEF Unasked, Open
  <1> QED
    BY <1>1, <1>2, <1>3, <1>4
       DEF ThreadInv, FirstExecution, ClaimedRow, WaitsForDecision, PausedWaits, Following,
           InStep, Told, SentFits, Unasked, Open, NoRow

-----------------------------------------------------------------------------
(* Every step keeps the invariant: the graph *)

LEMMA ValuesGrow ==
  ASSUME NEW values \in Seq(Values), NEW v \in Values
  PROVE  /\ Append(values, v) \in Seq(Values) /\ Len(Append(values, v)) = Len(values) + 1
         /\ DOMAIN Append(values, v) = 1..(Len(values) + 1)
         /\ \A i \in 1..Len(values) : Append(values, v)[i] = values[i]
         /\ Append(values, v)[Len(values) + 1] = v
  BY AppendProperties, LenProperties

LEMMA ExecuteGraphKeeps ==
  ASSUME ThreadInv, ExecuteGraph PROVE ThreadInv'
  <1>1. /\ attempt.stage = "graph" /\ attempt.call = 0 /\ UNCHANGED <<row, shown, sent, drifted>>
        /\ Unasked /\ sent = {} /\ thread.state = "new" /\ thread.values = <<>>
    BY DEF ExecuteGraph, ThreadInv, FirstExecution
  <1>2. <<>> \in Seq(Values) /\ Len(<<>>) = 0 /\ DOMAIN (<<>>) = {}
    BY EmptySeq, LenProperties
  <1>3. \A k \in Calls : row[k] = NoRow /\ ~Open(k) /\ row[k].status = "absent"
                         /\ row[k].result = "none"
    BY <1>1, RowShapes DEF Unasked, Open
  <1>4. faults' \in 0..MaxFaults
    BY Before, FaultCounts DEF ExecuteGraph, FaultKinds
  <1>5. CASE /\ attempt' = [attempt EXCEPT !.stage = "commit"]
             /\ \/ PauseAt(<<>>) /\ Proposes(1)
                \/ End(<<>>) /\ Proposes(0)
    <2>1. /\ attempt' \in Attempts /\ attempt'.stage = "commit" /\ attempt'.call = 0
          /\ attempt'.result = attempt.result
      BY <1>1, <1>5, Before DEF Attempts
    <2>2. /\ thread' \in Threads /\ thread'.values = <<>> /\ thread'.state \in {"paused", "ended"}
          /\ thread'.pending = IF thread'.state = "paused" THEN 1 ELSE 0
          /\ proposed' \in Seq(Drafts) /\ Len(proposed') = thread'.pending
      <3>1. CASE PauseAt(<<>>) /\ Proposes(1)
        <4>1. thread' = [state |-> "paused", pending |-> 1, values |-> <<>>] /\ 1 \in 0..MaxCalls
          BY <1>2, <3>1, Before DEF PauseAt
        <4>2. proposed' \in Seq(Drafts) /\ Len(proposed') = 1
          BY <3>1, ProposesShape
        <4> QED
          BY <1>2, <4>1, <4>2 DEF Threads
      <3>2. CASE End(<<>>) /\ Proposes(0)
        <4>1. thread' = [state |-> "ended", pending |-> 0, values |-> <<>>] /\ 0 \in 0..MaxCalls
          BY <3>2, Before DEF End
        <4> QED
          BY <1>2, <3>2, <4>1, ProposesShape DEF Threads
      <3> QED
        BY <1>5, <3>1, <3>2
    <2>3. TypeOK'
      BY <1>1, <1>4, <2>1, <2>2, Before, Shapes
    <2> QED
      BY <1>1, <1>2, <1>3, <2>1, <2>2, <2>3, RowShapes
         DEF ThreadInv, FirstExecution, ClaimedRow, WaitsForDecision, PausedWaits, Following,
           InStep, Told, SentFits, Unasked, Open
  <1>6. CASE attempt' = NoAttempt /\ UNCHANGED <<thread, proposed>>
    <2>1. TypeOK'
      BY <1>1, <1>4, <1>6, Before, RowShapes, Shapes
    <2> QED
      BY <1>1, <1>2, <1>3, <1>6, <2>1, RowShapes
         DEF ThreadInv, FirstExecution, ClaimedRow, WaitsForDecision, PausedWaits, Following,
           InStep, Told, SentFits, Unasked, Open
  <1> QED
    BY <1>5, <1>6 DEF ExecuteGraph

LEMMA ResumeGraphKeeps ==
  ASSUME ThreadInv, ResumeGraph PROVE ThreadInv'
  <1>0. PICK c \in Calls : c = attempt.call
    BY Before DEF ResumeGraph, Calls
  <1> DEFINE value == ResumeValue(c, attempt.result)
             values == Append(thread.values, value)
  <1>1. /\ attempt.stage = "graph" /\ c # 0
        /\ row' = row /\ sent' = sent /\ drifted' = drifted /\ shown' = shown
    BY <1>0 DEF ResumeGraph
  <1>2. /\ c \in Calls /\ row[c].status = "EXECUTING" /\ row[c].decision \in Decisions
        /\ row[c] # NoRow /\ Open(c)
    BY <1>0, <1>1, Before, RowShapes DEF ThreadInv, ClaimedRow, Calls, RowType, Open
  <1>3. \A k \in Calls : row[k].status # "PENDING_APPROVAL" /\ (Open(k) => k = c)
    BY <1>1, <1>2, RowShapes DEF ThreadInv, WaitsForDecision, ClaimedRow
  <1>4. /\ value \in Values /\ value.decision = row[c].decision
        /\ value = [from |-> c, decision |-> row[c].decision, result |-> row[c].result]
    BY <1>0, <1>1, <1>2, Before DEF ResumeValue, Values, ThreadInv, ClaimedRow
  <1> HIDE DEF value
  <1>5. /\ values \in Seq(Values) /\ Len(values) = Len(thread.values) + 1
        /\ DOMAIN values = 1..(Len(thread.values) + 1)
        /\ \A i \in 1..Len(thread.values) : values[i] = thread.values[i]
        /\ values[Len(thread.values) + 1] = value
    BY <1>4, Before, ValuesGrow
  <1> HIDE DEF values
  <1>6. faults' \in 0..MaxFaults
    BY Before, FaultCounts DEF ResumeGraph, FaultKinds
  <1>7. ASSUME NEW s \in {"commit", "undo"}, attempt' = [attempt EXCEPT !.stage = s]
        PROVE  /\ attempt' \in Attempts /\ attempt'.stage = s /\ attempt'.call = c
               /\ attempt'.result = attempt.result /\ attempt' # NoAttempt
    BY <1>0, <1>1, <1>7, Before, RowShapes DEF Attempts
  <1>8. ~drifted => thread.state = "paused" /\ thread.pending = c /\ c = Len(thread.values) + 1
    BY <1>1, <1>2 DEF ThreadInv, Following, InStep, PausedWaits
  <1>9. CASE UNCHANGED <<thread, proposed>> /\ thread.state = "ended" /\ attempt' = [attempt EXCEPT !.stage = "commit"]
    <2>1. TypeOK'
      BY <1>1, <1>6, <1>7, <1>9, Before, Shapes
    <2> QED
      BY <1>1, <1>2, <1>3, <1>7, <1>8, <1>9, <2>1, Before
         DEF ThreadInv, FirstExecution, ClaimedRow, WaitsForDecision, PausedWaits, Unasked, Open
  <1>10. CASE UNCHANGED <<thread, proposed>> /\ attempt' = [attempt EXCEPT !.stage = "undo"]
    <2>1. TypeOK'
      BY <1>1, <1>6, <1>7, <1>10, Before, Shapes
    <2> QED
      BY <1>1, <1>2, <1>3, <1>7, <1>8, <1>10, <2>1, Before
         DEF ThreadInv, FirstExecution, ClaimedRow, WaitsForDecision, PausedWaits, Following,
           InStep, Told, SentFits, Unasked, Open
  <1>11. CASE /\ thread.state = "paused" /\ attempt' = [attempt EXCEPT !.stage = "commit"]
              /\ \/ End(values) /\ Proposes(Len(values))
                 \/ value.decision = "APPROVE" /\ PauseAt(values) /\ Proposes(Len(values) + 1)
    <2>1. /\ thread' \in Threads /\ thread'.values = values /\ thread'.state \in {"paused", "ended"}
          /\ thread'.pending = IF thread'.state = "paused" THEN Len(values) + 1 ELSE 0
          /\ thread'.state = "paused" => value.decision = "APPROVE"
          /\ proposed' \in Seq(Drafts)
          /\ thread'.state = "paused" => Len(proposed') = thread'.pending
      <3>0. Len(values) \in Nat
        BY <1>5, Before
      <3>1. CASE End(values) /\ Proposes(Len(values))
        BY <1>5, <3>0, <3>1, Before, ProposesShape DEF End, Threads
      <3>2. CASE value.decision = "APPROVE" /\ PauseAt(values) /\ Proposes(Len(values) + 1)
        <4>1. proposed' \in Seq(Drafts) /\ Len(proposed') = Len(values) + 1
          BY <3>0, <3>2, ProposesShape
        <4> QED
          BY <1>5, <3>2, <4>1, Before DEF PauseAt, Threads
      <3> QED
        BY <1>11, <3>1, <3>2
    <2>2. TypeOK'
      BY <1>1, <1>6, <1>7, <1>11, <2>1, Before, Shapes
    <2>3. /\ FirstExecution' /\ ClaimedRow' /\ WaitsForDecision'
      BY <1>1, <1>2, <1>3, <1>7, <1>11, <2>1 DEF ThreadInv, FirstExecution, ClaimedRow, WaitsForDecision, Unasked, Open
    <2>4. PausedWaits'
      <3>1. \A k \in Calls : row[k] # NoRow => k <= Len(thread.values) + 1
        BY <1>11 DEF ThreadInv, PausedWaits
      <3>2. \A k \in Calls : row[k] # NoRow => k < Len(values) + 1
        BY <1>5, <3>1, Before
      <3>3. Open(c)'
        BY <1>1, <1>2 DEF Open
      <3> QED
        BY <1>1, <1>2, <1>7, <2>1, <3>2, <3>3, Before DEF PausedWaits
    <2>5. ASSUME ~drifted PROVE Following'
      <3>1. Len(values) = c /\ InStep'
        BY <1>1, <1>5, <1>7, <1>8, <1>11, <2>1, <2>5 DEF InStep
      <3>2. ASSUME NEW i \in 1..Len(thread.values) PROVE Told(i)'
        <4>1. Told(i) /\ i \in Nat /\ values[i] = thread.values[i] /\ thread.state = "paused"
          BY <1>5, <1>11, <2>5, Before DEF ThreadInv, Following
        <4> QED
          BY <1>1, <1>5, <1>7, <1>8, <1>11, <2>1, <2>5, <4>1 DEF Told
      <3>3. Told(c)'
        <4>1. values[c] = value /\ c = Len(values)
          BY <1>5, <1>8, <2>5
        <4> QED
          BY <1>1, <1>4, <1>7, <1>11, <2>1, <4>1 DEF Told
      <3>4. SentFits'
        <4>1. \A k \in sent : k <= Len(values)
          BY <1>5, <1>8, <2>5, Before DEF ThreadInv, Following, SentFits
        <4> QED
          BY <1>1, <1>7, <1>11, <2>1, <2>5, <4>1 DEF ThreadInv, Following, SentFits
      <3>5. \A i \in DOMAIN values : i \in 1..Len(thread.values) \/ i = c
        BY <1>5, <1>8, <2>5, Before
      <3>6. ASSUME NEW i \in DOMAIN values PROVE Told(i)'
        BY <3>2, <3>3, <3>5
      <3>7. \A i \in DOMAIN values : Told(i)'
        BY <3>6
      <3> QED
        BY <2>1, <3>1, <3>4, <3>7 DEF Following
    <2> QED
      BY <1>1, <2>2, <2>3, <2>4, <2>5 DEF ThreadInv
  <1>12. CASE /\ thread.state = "paused" /\ attempt' = [attempt EXCEPT !.stage = "commit"]
              /\ \E n \in 0..Len(thread.values) : End(thread.values) /\ Proposes(n)
    <2>1. /\ thread' \in Threads /\ thread'.values = thread.values /\ thread'.state = "ended"
          /\ thread'.pending = 0
      BY <1>12, Before DEF End, Threads
    <2>2. proposed' \in Seq(Drafts)
      BY <1>12, Before, ProposesShape
    <2>3. TypeOK'
      BY <1>1, <1>6, <1>7, <1>12, <2>1, <2>2, Before, Shapes
    <2>4. /\ FirstExecution' /\ ClaimedRow' /\ WaitsForDecision' /\ PausedWaits'
      BY <1>0, <1>1, <1>2, <1>3, <1>7, <1>12, <2>1
         DEF ThreadInv, FirstExecution, ClaimedRow, WaitsForDecision, PausedWaits, Unasked, Open
    <2>5. ASSUME ~drifted PROVE Following'
      <3>1. c = Len(thread.values) + 1 /\ Following
        BY <1>8, <2>5 DEF ThreadInv
      <3>2. InStep'
        BY <1>7, <1>12, <2>1, <3>1 DEF InStep
      <3>3. ASSUME NEW i \in DOMAIN thread.values PROVE Told(i)'
        BY <1>1, <1>7, <1>12, <2>1, <3>1, <3>3 DEF Following, Told
      <3>4. SentFits'
        BY <1>1, <1>7, <1>12, <2>1, <3>1 DEF Following, SentFits
      <3>5. \A i \in DOMAIN thread'.values : Told(i)'
        BY <2>1, <3>3
      <3> QED
        BY <3>2, <3>4, <3>5 DEF Following
    <2> QED
      BY <1>1, <2>3, <2>4, <2>5 DEF ThreadInv
  <1> QED
    BY <1>0, <1>9, <1>10, <1>11, <1>12 DEF ResumeGraph, value, values

-----------------------------------------------------------------------------
(* The turn's transaction *)

LEMMA Crashed ==
  ASSUME ThreadInv, attempt' = NoAttempt, UNCHANGED <<thread, proposed, row, shown, sent>>,
         drifted' \in BOOLEAN, faults' \in 0..MaxFaults,
         ~drifted' => ~drifted /\ (attempt.stage # "commit" \/ (Unasked /\ thread.values = <<>>))
  PROVE  ThreadInv'
  <1>1. TypeOK'
    BY Before, RowShapes, Shapes
  <1>2. \A k \in Calls : row[k] = NoRow => ~Open(k) /\ row[k].status # "PENDING_APPROVAL"
    BY RowShapes DEF Open
  <1>3. FirstExecution' /\ ClaimedRow' /\ WaitsForDecision' /\ PausedWaits'
    BY <1>1, RowShapes, Before
       DEF ThreadInv, FirstExecution, ClaimedRow, WaitsForDecision, PausedWaits, Unasked, Open
  <1>4. ASSUME ~drifted' PROVE Following'
    <2>1. Following
      BY <1>4 DEF ThreadInv
    <2>2. CASE attempt.stage # "commit"
      BY <2>1, <2>2, RowShapes DEF Following, InStep, Told, SentFits, Open
    <2>3. CASE Unasked /\ thread.values = <<>> /\ attempt.stage = "commit"
      <3>1. Len(thread.values) = 0 /\ DOMAIN thread.values = {}
        BY <2>3, EmptySeq, LenProperties
      <3>2. sent = {}
        <4>1. attempt.call = 0
          BY <2>3, Before, RowShapes DEF ThreadInv, ClaimedRow, Unasked, Calls
        <4> QED
          BY <2>3, <4>1 DEF ThreadInv, FirstExecution
      <3> QED
        BY <1>2, <2>1, <2>3, <3>1, <3>2, RowShapes
           DEF Following, InStep, SentFits, Unasked, Open
    <2> QED
      BY <1>4, <2>2, <2>3
  <1> QED
    BY <1>1, <1>3, <1>4 DEF ThreadInv

LEMMA CrashKeeps ==
  ASSUME ThreadInv, Crash PROVE ThreadInv'
  <1>1. /\ attempt' = NoAttempt /\ UNCHANGED <<thread, proposed, row, shown, sent>>
        /\ drifted' = (drifted \/ attempt.stage = "commit")
    BY DEF Crash
  <1>2. faults' \in 0..MaxFaults
    BY Before, FaultCounts DEF Crash, FaultKinds
  <1>3. /\ drifted' \in BOOLEAN
        /\ ~drifted' =>
              ~drifted /\ (attempt.stage # "commit" \/ (Unasked /\ thread.values = <<>>))
    BY <1>1
  <1> QED
    BY <1>1, <1>2, <1>3, Crashed, Zenon

\* The row of the pause shows the call its run proposed.
LEMMA PreparedShown ==
  ASSUME ThreadInv, ShowPrepared, thread.state = "paused", thread.pending \in Calls
  PROVE  /\ shown' \in Showings /\ shown'[thread.pending] = proposed[thread.pending]
  <1>1. proposed \in Seq(Drafts) /\ Len(proposed) = thread.pending /\ thread.pending \in Nat \ {0}
    BY Before DEF ThreadInv, PausedWaits
  <1>2. proposed[thread.pending] \in Drafts
    BY <1>1
  <1> QED
    BY <1>2, Before DEF ShowPrepared, Showings

LEMMA ChatCommitKeeps ==
  ASSUME ThreadInv, ChatCommit PROVE ThreadInv'
  <1>1. /\ attempt.stage = "commit" /\ attempt.call = 0 /\ attempt' = NoAttempt
        /\ UNCHANGED <<thread, proposed, sent>>
        /\ Unasked /\ sent = {} /\ thread.values = <<>>
    BY DEF ChatCommit, ThreadInv, FirstExecution
  <1>2. faults' \in 0..MaxFaults
    BY Before, FaultCounts DEF ChatCommit, FaultKinds
  <1>3. CASE row' = WithPreparedRow(row) /\ ShowPrepared /\ NoFault /\ UNCHANGED drifted
    <2>1. CASE thread.state # "paused"
      <3>1. UNCHANGED <<row, shown>>
        BY <1>3, <2>1 DEF WithPreparedRow, ShowPrepared
      <3> QED
        BY <1>1, <1>2, <1>3, <3>1, Before, Crashed
    <2>2. CASE thread.state = "paused"
      <3>1. Len(thread.values) = 0 /\ DOMAIN thread.values = {}
        BY <1>1, EmptySeq, LenProperties
      <3>2. thread.pending = 1 /\ 1 \in Calls
        BY <2>2, <3>1, CallsAssumption DEF ThreadInv, PausedWaits, Calls
      <3>3. /\ row' \in [Calls -> RowType] /\ row'[1] = PendingRow
            /\ \A k \in Calls \ {1} : row'[k] = NoRow
        BY <1>1, <1>3, <2>2, <3>2, Before, RowShapes DEF WithPreparedRow, Unasked
      <3>9. shown' \in Showings /\ shown'[1] = proposed[1]
        BY <1>3, <2>2, <3>2, Before, PreparedShown
      <3>4. TypeOK'
        BY <1>1, <1>2, <1>3, <3>3, <3>9, Before, RowShapes, Shapes
      <3>5. \A k \in Calls : Open(k)' <=> k = 1
        BY <3>2, <3>3, RowShapes DEF Open
      <3>6. /\ \A k \in Calls : row'[k].status = "PENDING_APPROVAL" => k = 1
            /\ \A k \in Calls : row'[k].result = "none" /\ (row'[k] # NoRow => k = 1)
        BY <3>2, <3>3, RowShapes
      <3>7. FirstExecution' /\ ClaimedRow' /\ WaitsForDecision' /\ PausedWaits'
        BY <1>1, <2>2, <3>1, <3>2, <3>5, <3>6, <3>9, RowShapes
           DEF ThreadInv, FirstExecution, ClaimedRow, WaitsForDecision, PausedWaits
      <3>8. Following'
        BY <1>1, <2>2, <3>1, <3>2, <3>5, <3>6, RowShapes DEF Following, InStep, SentFits
      <3> QED
        BY <3>4, <3>7, <3>8 DEF ThreadInv
    <2> QED
      BY <2>1, <2>2
  <1>4. CASE drifted' = TRUE /\ UNCHANGED <<row, shown>>
    BY <1>1, <1>2, <1>4, Crashed
  <1> QED
    BY <1>3, <1>4 DEF ChatCommit

LEMMA ResumeCommitKeeps ==
  ASSUME ThreadInv, ResumeCommit PROVE ThreadInv'
  <1>0. PICK c \in Calls : c = attempt.call
    BY Before DEF ResumeCommit, Calls
  <1>1. /\ attempt.stage = "commit" /\ thread' = thread /\ sent' = sent
        /\ proposed' = proposed
    BY DEF ResumeCommit
  <1>2. /\ row[c].status = "EXECUTING" /\ row[c].decision \in Decisions
        /\ row[c] # NoRow /\ Open(c)
    BY <1>0, <1>1, Before, RowShapes DEF ThreadInv, ClaimedRow, Calls, RowType, Open
  <1>3. /\ \A k \in Calls : row[k].status # "PENDING_APPROVAL" /\ (Open(k) => k = c)
        /\ thread.state # "new"
    BY <1>0, <1>1, <1>2, RowShapes, Before
       DEF ThreadInv, WaitsForDecision, ClaimedRow, FirstExecution
  <1>4. faults' \in 0..MaxFaults
    BY Before, FaultCounts DEF ResumeCommit, FaultKinds
  <1>5. CASE /\ row' = [WithPreparedRow(row) EXCEPT ![c].status = FinalStatus(c)]
             /\ attempt' = NoAttempt /\ ShowPrepared /\ UNCHANGED drifted
    <2>0. PICK p \in Nat : p = Len(thread.values) + 1
      BY Before
    <2> DEFINE f == FinalStatus(c)
    <2>1. f \in {"COMPLETED", "REJECTED"} /\ (row[c].decision = "APPROVE" => f = "COMPLETED")
      BY DEF FinalStatus
    <2>2. p \in Nat /\ (thread.state = "paused" => thread.pending = p /\ p \in Calls /\ c < p)
      BY <1>1, <1>2, <2>0, Before DEF ThreadInv, PausedWaits, Calls
    <2> HIDE DEF f
    <2>3. /\ row' \in [Calls -> RowType] /\ row'[c] = [row[c] EXCEPT !.status = f]
          /\ thread.state = "paused" => row'[p] = PendingRow
          /\ \A k \in Calls \ {c} : row'[k] = row[k] \/ (thread.state = "paused" /\ k = p)
      <3>1. CASE thread.state = "paused"
        <4>1. row' = [[row EXCEPT ![p] = PendingRow] EXCEPT ![c].status = f]
          BY <1>5, <2>2, <3>1 DEF WithPreparedRow, f
        <4>2. p # c /\ p \in Calls
          BY <2>2, <3>1, Before
        <4> QED
          BY <2>1, <3>1, <4>1, <4>2, Before, RowShapes DEF RowType, Statuses
      <3>2. CASE thread.state # "paused"
        <4>1. row' = [row EXCEPT ![c].status = f]
          BY <1>5, <3>2 DEF WithPreparedRow, f
        <4> QED
          BY <2>1, <3>2, <4>1, Before DEF RowType, Statuses
      <3> QED
        BY <3>1, <3>2
    <2>4. row'[c].status = f /\ row'[c].decision = row[c].decision /\ row'[c].result = row[c].result
      BY <2>3, Before DEF RowType
    <2>a. /\ shown' \in Showings
          /\ thread.state = "paused" => shown'[p] = proposed[p]
      BY <1>5, <2>2, Before, PreparedShown DEF ShowPrepared
    <2>5. TypeOK'
      BY <1>1, <1>4, <1>5, <2>3, <2>a, Before, RowShapes, Shapes
    <2>6. \A k \in Calls : Open(k)' => thread.state = "paused" /\ k = p
      BY <1>3, <2>1, <2>3, <2>4 DEF Open
    <2>7. thread.state = "paused" => Open(p)' /\ row'[p].result = "none"
      BY <2>3, RowShapes DEF Open
    <2>8. \A k \in Calls : row'[k] # NoRow => row[k] # NoRow \/ (thread.state = "paused" /\ k = p)
      BY <1>2, <2>3
    <2>9. FirstExecution' /\ ClaimedRow'
      BY <1>1, <1>3, <1>5, <2>6, RowShapes DEF FirstExecution, ClaimedRow
    <2>10. WaitsForDecision'
      <3>1. \A k \in Calls : row'[k].status = "PENDING_APPROVAL" => Open(k)'
        BY DEF Open
      <3> QED
        BY <1>1, <1>5, <2>2, <2>6, <2>7, <2>a, <3>1 DEF WaitsForDecision
    <2>11. PausedWaits'
      <3>1. thread.state = "paused" => \A k \in Calls : row[k] # NoRow => k < p
        BY <1>1, <2>2 DEF ThreadInv, PausedWaits
      <3>2. thread.state = "paused" => \A k \in Calls : row'[k] # NoRow => k <= p
        BY <2>2, <2>8, <3>1, Before
      <3>3. thread.state # "paused" => thread.pending = 0
        BY DEF ThreadInv, PausedWaits
      <3>4. thread.state = "paused" => Len(proposed) = p
        BY <2>2 DEF ThreadInv, PausedWaits
      <3> QED
        BY <1>1, <1>3, <1>5, <2>0, <2>2, <2>7, <3>2, <3>3, <3>4, RowShapes DEF PausedWaits
    <2>12. ASSUME ~drifted PROVE Following'
      <3>1. InStep'
        BY <1>1, <1>5, <2>2, <2>6, RowShapes DEF InStep
      <3>2. /\ Following
            /\ c = Len(thread.values) \/ (thread.state = "ended" /\ c = Len(thread.values) + 1)
        BY <1>0, <1>1, <2>12 DEF ThreadInv, Following, InStep
      <3>3. ASSUME NEW i \in DOMAIN thread.values PROVE Told(i)'
        <4>1. Told(i) /\ i \in Nat /\ i \in 1..Len(thread.values) /\ i \in Calls /\ i # p
          <5>1. /\ i \in 1..Len(thread.values) /\ Len(thread.values) \in Nat /\ c \in Nat
                /\ Len(thread.values) <= c /\ c <= MaxCalls /\ MaxCalls \in Nat
            <6>1. /\ i \in 1..Len(thread.values) /\ Len(thread.values) \in Nat
                  /\ c \in 1..MaxCalls /\ MaxCalls \in Nat
              BY <3>3, Before DEF Calls
            <6> QED
              BY <3>2, <6>1
          <5>2. i \in Nat /\ i \in 1..MaxCalls /\ i # p
            BY <2>0, <5>1
          <5>3. Told(i)
            BY <3>2, <3>3 DEF Following
          <5> QED
            BY <5>1, <5>2, <5>3 DEF Calls
        <4>2. CASE i # c
          <5>1. row'[i] = row[i]
            BY <2>3, <4>1, <4>2
          <5>2. i < Len(thread.values) \/ thread.state # "paused"
            BY <3>2, <4>1, <4>2, Before
          <5> QED
            BY <1>1, <4>1, <5>1, <5>2 DEF Told
        <4>3. CASE i = c
          <5>1. thread.state = "paused" => row[i].decision = "APPROVE" /\ row'[i].status = "COMPLETED"
            BY <2>1, <2>4, <4>1, <4>3 DEF Told
          <5>2. /\ ~(i < Len(thread.values)) /\ row'[i].decision = row[i].decision
                /\ row'[i].result = row[i].result
            BY <2>4, <3>2, <4>1, <4>3, Before
          <5> QED
            BY <1>1, <1>5, <4>1, <5>1, <5>2 DEF Told
        <4> QED
          BY <4>2, <4>3
      <3>4. SentFits'
        <4>1. ASSUME NEW k \in sent
              PROVE  /\ k <= Len(thread.values) \/ k = Len(thread.values) + 1
                     /\ thread.state = "paused" => k <= Len(thread.values)
          BY <1>1, <3>2, <4>1 DEF Following, SentFits
        <4>2. ASSUME NEW k \in sent, NEW j \in 1..(k - 1)
              PROVE  row'[j].status = "COMPLETED" /\ row'[j].decision = "APPROVE"
          <5>1. row[j].status = "COMPLETED" /\ row[j].decision = "APPROVE"
            BY <3>2, <4>2 DEF Following, SentFits
          <5>2. k \in Calls /\ j \in Calls /\ j # c
            BY <1>2, <5>1, Before DEF Calls
          <5>3. ~(thread.state = "paused" /\ j = p)
            BY <2>0, <4>1, <5>2, Before
          <5> QED
            BY <2>3, <5>1, <5>2, <5>3
        <4> QED
          BY <1>1, <1>5, <4>1, <4>2, RowShapes DEF SentFits
      <3>5. \A i \in DOMAIN thread.values : Told(i)'
        BY <3>3
      <3> QED
        BY <1>1, <3>1, <3>4, <3>5 DEF Following
    <2> QED
      BY <1>5, <2>5, <2>9, <2>10, <2>11, <2>12 DEF ThreadInv
  <1>6. CASE /\ attempt' = [attempt EXCEPT !.stage = "undo"] /\ drifted' = TRUE
             /\ UNCHANGED <<row, shown>>
    <2>1. /\ attempt' \in Attempts /\ attempt'.stage = "undo" /\ attempt'.call = c
          /\ attempt'.result = attempt.result
          /\ attempt' # NoAttempt
      BY <1>0, <1>6, Before, RowShapes DEF Attempts
    <2>2. TypeOK'
      BY <1>1, <1>4, <1>6, <2>1, Before, Shapes
    <2> QED
      BY <1>0, <1>1, <1>2, <1>3, <1>6, <2>1, <2>2, Before
         DEF ThreadInv, FirstExecution, ClaimedRow, WaitsForDecision, PausedWaits, Unasked, Open
  <1> QED
    BY <1>0, <1>5, <1>6 DEF ResumeCommit

-----------------------------------------------------------------------------
(* The owner's requests *)

\* The open row is claimed, carried on with or marked as failed.
LEMMA RowMoves ==
  ASSUME ThreadInv, attempt.stage # "commit", NEW c \in Calls, Open(c),
         thread' = thread, drifted' = drifted, sent' \in {sent, sent \cup {c}},
         faults' \in 0..MaxFaults,
         NEW v \in RowType, row' = [row EXCEPT ![c] = v],
         v.status \in {"EXECUTING", "FAILED"}, v.decision # "none",
         proposed' = proposed, shown' = shown,
         \/ attempt' = NoAttempt
         \/ /\ attempt' \in Attempts /\ attempt'.call = c /\ v.status = "EXECUTING"
            /\ attempt'.stage \in {"graph", "tool"} /\ attempt'.result = v.result
  PROVE  ThreadInv'
  <1>1. /\ row' \in [Calls -> RowType] /\ row'[c] = v
        /\ \A k \in Calls \ {c} : row'[k] = row[k]
    BY Before
  <1>2. /\ row[c] # NoRow /\ thread.state # "new" /\ c # 0
        /\ \A k \in Calls : Open(k) => k = c
    BY RowShapes DEF ThreadInv, FirstExecution, ClaimedRow, Unasked, Open, Calls
  <1>3. TypeOK'
    BY <1>1, Before, RowShapes, Shapes
  <1>4. /\ \A k \in Calls : Open(k)' <=> k = c
        /\ \A k \in Calls : row'[k].status # "PENDING_APPROVAL"
    BY <1>1, <1>2 DEF Open
  <1>5. FirstExecution' /\ ClaimedRow' /\ WaitsForDecision'
    BY <1>1, <1>2, <1>4, RowShapes DEF FirstExecution, ClaimedRow, WaitsForDecision
  <1>6. PausedWaits'
    <2>1. \A k \in Calls : row'[k] # NoRow => row[k] # NoRow
      BY <1>1, <1>2
    <2>2. attempt'.stage # "commit"
      BY RowShapes
    <2> QED
      BY <1>2, <1>4, <2>1, <2>2 DEF ThreadInv, PausedWaits
  <1>7. ASSUME ~drifted PROVE Following'
    <2>1. Following /\ thread.state = "paused" /\ thread.pending = c /\ attempt'.stage # "commit"
      BY <1>7, RowShapes DEF ThreadInv, Following, InStep
    <2>2. c = Len(thread.values) + 1
      BY <2>1 DEF ThreadInv, PausedWaits
    <2>3. InStep'
      BY <1>4, <2>1 DEF InStep
    <2>4. ASSUME NEW i \in DOMAIN thread.values PROVE Told(i)'
      <3>1. Told(i) /\ i \in Calls \ {c}
        BY <2>1, <2>2, Before DEF Following, Calls
      <3> QED
        BY <1>1, <2>1, <3>1 DEF Told
    <2>5. \A i \in DOMAIN thread.values : Told(i)'
      BY <2>4
    <2>6. SentFits'
      <3>1. \A k \in sent' : k \in sent \/ k = c
        OBVIOUS
      <3>2. \A k \in sent : k <= Len(thread.values) + 1
        BY <2>1, Before DEF Following, SentFits, Calls
      <3>3. ASSUME NEW k \in sent', NEW j \in 1..(k - 1)
            PROVE  row'[j].status = "COMPLETED" /\ row'[j].decision = "APPROVE"
        <4>1. k \in Calls /\ k \in Nat /\ j \in Nat /\ j < k /\ k <= Len(thread.values) + 1
          <5>1. k \in Calls /\ k \in Nat /\ k <= Len(thread.values) + 1
            BY <2>2, <3>1, <3>2, Before
          <5> QED
            BY <5>1
        <4>2. j \in DOMAIN thread.values /\ j \in Calls /\ j # c
          <5>1. /\ j \in 1..(k - 1) /\ c \in Nat /\ Len(thread.values) \in Nat
                /\ c <= MaxCalls /\ MaxCalls \in Nat
            <6>1. c \in 1..MaxCalls /\ MaxCalls \in Nat /\ Len(thread.values) \in Nat
              BY Before DEF Calls
            <6> QED
              BY <3>3, <6>1
          <5>2. j \in 1..Len(thread.values) /\ j \in 1..MaxCalls /\ j # c
            <6>1. ASSUME NEW n \in Nat, c = n + 1, k <= n + 1
                  PROVE  j \in 1..n /\ j \in 1..MaxCalls /\ j # c
              BY <4>1, <5>1, <6>1, SMT
            <6> QED
              BY <2>2, <4>1, <5>1, <6>1
          <5> QED
            BY <5>2, Before DEF Calls
        <4>3. Told(j)
          BY <2>1, <4>2 DEF Following
        <4> QED
          BY <1>1, <2>1, <4>2, <4>3 DEF Told
      <3>4. \A k \in sent' : k <= Len(thread.values) \/ k = Len(thread.values) + 1
        BY <2>1, <2>2, <3>1 DEF Following, SentFits
      <3> QED
        BY <2>1, <3>3, <3>4 DEF SentFits
    <2> QED
      BY <2>3, <2>5, <2>6 DEF Following
  <1> QED
    BY <1>3, <1>5, <1>6, <1>7 DEF ThreadInv

LEMMA RecordFailureKeeps ==
  ASSUME ThreadInv, RecordFailure PROVE ThreadInv'
  <1>0. PICK c \in Calls : c = attempt.call
    BY Before DEF RecordFailure, ThreadInv, FirstExecution, Calls
  <1> DEFINE v == [row[c] EXCEPT !.status = "FAILED"]
  <1>1. /\ attempt.stage # "commit" /\ row' = [row EXCEPT ![c] = v] /\ attempt' = NoAttempt
        /\ thread' = thread /\ drifted' = drifted /\ sent' = sent
        /\ proposed' = proposed /\ shown' = shown
    BY <1>0, Before DEF RecordFailure
  <1>2. Open(c) /\ row[c].decision # "none"
    BY <1>0 DEF ThreadInv, ClaimedRow, Open, Calls
  <1>3. v \in RowType /\ v.status = "FAILED" /\ v.decision = row[c].decision /\ v.result = row[c].result
    BY Before DEF RowType, Statuses
  <1>4. faults' \in 0..MaxFaults
    BY Before, FaultCounts DEF RecordFailure
  <1> HIDE DEF v
  <1> QED
    BY <1>1, <1>2, <1>3, <1>4, RowMoves

LEMMA DecideKeeps ==
  ASSUME ThreadInv, NEW k \in Calls, NEW d \in {"APPROVE", "REJECT"}, Decide(k, d)
  PROVE  ThreadInv'
  <1> DEFINE v == [row[k] EXCEPT !.decision = d, !.status = "EXECUTING"]
  <1>1. /\ attempt = NoAttempt /\ row[k].status = "PENDING_APPROVAL"
        /\ row' = [row EXCEPT ![k] = v]
        /\ attempt' = [stage |-> IF d = "APPROVE" THEN "tool" ELSE "graph",
                       call |-> k, result |-> "none"]
        /\ thread' = thread /\ drifted' = drifted /\ sent' = sent
        /\ proposed' = proposed /\ shown' = shown
    BY Before DEF Decide
  <1>2. Open(k) /\ attempt.stage # "commit" /\ row[k].result = "none"
    BY <1>1, RowShapes DEF Open, ThreadInv, WaitsForDecision
  <1>3. v \in RowType /\ v.status = "EXECUTING" /\ v.decision = d /\ v.result = row[k].result
    BY Before DEF RowType, Statuses, Decisions
  <1>4. faults' \in 0..MaxFaults
    BY Before, FaultCounts DEF Decide
  <1>5. /\ attempt' \in Attempts /\ attempt'.call = k /\ attempt'.stage \in {"graph", "tool"}
        /\ attempt'.result = "none"
    BY <1>1 DEF Attempts, Calls, Outcomes
  <1> HIDE DEF v
  <1> QED
    BY <1>1, <1>2, <1>3, <1>4, <1>5, RowMoves

LEMMA RetryKeeps ==
  ASSUME ThreadInv, NEW k \in Calls, Retry(k) PROVE ThreadInv'
  <1> DEFINE v == [row[k] EXCEPT !.status = "EXECUTING"]
  <1>1. /\ attempt = NoAttempt /\ row[k].status \in {"FAILED", "EXECUTING"}
        /\ row[k].decision # "none" /\ row' = [row EXCEPT ![k] = v]
        /\ \E s \in {"graph", "tool"} :
              attempt' = [stage |-> s, call |-> k, result |-> row[k].result]
        /\ thread' = thread /\ drifted' = drifted /\ sent' = sent
        /\ proposed' = proposed /\ shown' = shown
    BY Before DEF Retry
  <1>2. Open(k) /\ attempt.stage # "commit"
    BY <1>1, RowShapes DEF Open
  <1>3. /\ v \in RowType /\ v.status = "EXECUTING" /\ v.decision = row[k].decision
        /\ v.result = row[k].result /\ row[k].result \in Outcomes
    BY Before DEF RowType, Statuses
  <1>4. faults' \in 0..MaxFaults
    BY Before, FaultCounts DEF Retry
  <1> HIDE DEF v
  <1>5. /\ attempt' \in Attempts /\ attempt'.call = k /\ attempt'.stage \in {"graph", "tool"}
        /\ attempt'.result = row[k].result
    <2>1. PICK s \in {"graph", "tool"} : attempt' = [stage |-> s, call |-> k, result |-> row[k].result]
      BY <1>1
    <2> QED
      BY <1>3, <2>1 DEF Attempts, Calls
  <1> QED
    BY <1>1, <1>2, <1>3, <1>4, <1>5, RowMoves

LEMMA RunToolKeeps ==
  ASSUME ThreadInv, RunTool PROVE ThreadInv'
  <1>0. PICK c \in Calls : c = attempt.call
    BY Before DEF RunTool, ThreadInv, FirstExecution, Calls
  <1>1. PICK result \in Results :
           /\ sent' \in {sent, sent \cup {c}}
           /\ NoFault \/ Fault("reject") \/ Fault("send")
           /\ row' = [row EXCEPT ![c].result = result]
           /\ attempt' = [attempt EXCEPT !.stage = "graph", !.result = result]
    <2>1. \E result \in Results :
             /\ \/ result = "success" /\ sent' = sent \cup {c} /\ NoFault
                \/ result = "success" /\ Fault("reject") /\ sent' \in {sent, sent \cup {c}}
                \/ result = "failed" /\ Fault("send") /\ sent' \in {sent, sent \cup {c}}
             /\ row' = [row EXCEPT ![c].result = result]
             /\ attempt' = [attempt EXCEPT !.stage = "graph", !.result = result]
      BY <1>0, Zenon DEF RunTool
    <2> QED
      BY <2>1, Zenon
  <1> DEFINE v == [row[c] EXCEPT !.result = result]
  <1>2. /\ attempt.stage # "commit" /\ row' = [row EXCEPT ![c] = v]
        /\ thread' = thread /\ drifted' = drifted /\ proposed' = proposed /\ shown' = shown
    BY <1>1, Before DEF RunTool
  <1>3. /\ row[c].status = "EXECUTING" /\ row[c].decision # "none" /\ Open(c)
    BY <1>0 DEF ThreadInv, ClaimedRow, Open, Calls
  <1>4. /\ v \in RowType /\ v.status = row[c].status /\ v.decision = row[c].decision
        /\ v.result = result
    BY Before DEF RowType, Outcomes
  <1>5. faults' \in 0..MaxFaults
    BY <1>1, Before, FaultCounts DEF FaultKinds
  <1>6. /\ attempt' \in Attempts /\ attempt'.call = c /\ attempt'.stage = "graph"
        /\ attempt'.result = result
    BY <1>0, <1>1, Before DEF Attempts, Outcomes
  <1> HIDE DEF v
  <1>7. sent' \in {sent, sent \cup {c}}
    BY <1>1
  <1> QED
    BY <1>2, <1>3, <1>4, <1>5, <1>6, <1>7, RowMoves

-----------------------------------------------------------------------------
(* The invariant is kept, and what follows *)

LEMMA InvInductive == ThreadInv /\ [Next]_vars => ThreadInv'
  <1> SUFFICES ASSUME ThreadInv, [Next]_vars PROVE ThreadInv'
    OBVIOUS
  <1>1. CASE ExecuteGraph \/ ResumeGraph \/ ChatCommit \/ ResumeCommit \/ RecordFailure
    BY <1>1, ExecuteGraphKeeps, ResumeGraphKeeps, ChatCommitKeeps, ResumeCommitKeeps,
       RecordFailureKeeps
  <1>2. CASE RunTool \/ Crash
    BY <1>2, RunToolKeeps, CrashKeeps
  <1>3. CASE \E k \in Calls : Retry(k) \/ \E d \in {"APPROVE", "REJECT"} : Decide(k, d)
    BY <1>3, RetryKeeps, DecideKeeps
  <1>4. CASE UNCHANGED vars
    <2>1. /\ thread' = thread /\ row' = row /\ sent' = sent /\ attempt' = attempt
          /\ drifted' = drifted /\ faults' = faults /\ proposed' = proposed /\ shown' = shown
      BY <1>4 DEF vars
    <2>2. TypeOK'
      BY <2>1, Before, Shapes
    <2> QED
      BY <2>1, <2>2
         DEF ThreadInv, FirstExecution, ClaimedRow, WaitsForDecision, PausedWaits, Following,
           InStep, Told, SentFits, Unasked, Open
  <1> QED
    BY <1>1, <1>2, <1>3, <1>4 DEF Next, Settled

LEMMA ThreadInvariant == Spec => []ThreadInv
  <1> QED
    BY InitGood, InvInductive, PTL DEF Spec

\* For any number of gated calls and faults, and whatever a replay proposes: while no
\* advance of the checkpoint lost its commit, the graph is told at each pause the decision
\* and the outcome of the row of that pause, and the rows' calls are carried out in order
\* (HitlResumeService hands each pause the result of one row).
THEOREM AnswersAreOfTheirRows == Spec => []AnswersFollowRows
  <1>1. ASSUME ThreadInv PROVE AnswersFollowRows
    <2>1. AnsweredByOwnRow
      BY <1>1 DEF ThreadInv, Following, Told, AnsweredByOwnRow
    <2>2. CallsRunInOrder
      BY <1>1 DEF ThreadInv, Following, SentFits, CallsRunInOrder
    <2> QED
      BY <1>1, <2>1, <2>2 DEF ThreadInv, AnswersFollowRows
  <1> QED
    BY <1>1, ThreadInvariant, PTL

\* For any number of gated calls and faults: an approval that can be decided is the one the
\* graph waits for and shows the call of its paused run, and a paused turn that has asked can be decided on or retried, also
\* when a commit was lost (HitlResumeService: prepare() is part of the resume's transaction).
THEOREM ApprovalsFollowGraph == Spec => []ApprovalsMatchGraph
  <1>1. ASSUME ThreadInv PROVE ApprovalsMatchGraph
    <2>1. OpenApprovalIsPending
      BY <1>1 DEF ThreadInv, WaitsForDecision, OpenApprovalIsPending
    <2>2. PausedIsReachable
      BY <1>1 DEF ThreadInv, PausedWaits, PausedIsReachable, Unasked, Open
    <2> QED
      BY <2>1, <2>2 DEF ApprovalsMatchGraph
  <1> QED
    BY <1>1, ThreadInvariant, PTL

-----------------------------------------------------------------------------
(* ConversationHistory: the inductive invariant *)

Stamped == {"saved", "folding", "summarized", "running"}
HistoryTurn == [pc : Stages, summary : Seq(Nat), anchor : Nat, user : Nat, fold : SUBSET Nat,
                recent : SUBSET Nat]

HistoryTyped ==
    /\ clock \in Nat /\ committed \subseteq 1 .. clock
    /\ conversation \in [summary : Seq(Nat), anchor : Nat, archived : BOOLEAN]
    /\ rowLock \in {0} \cup Turns
    /\ turn \in [Turns -> HistoryTurn]
    /\ reader \in [pc : {"idle", "counting", "more", "end"}, offset : Nat,
                   seen : SUBSET Nat, atStart : SUBSET Nat]
    /\ hist \in [late : SUBSET Nat, unfetched : SUBSET Nat, foldFailed : SUBSET Turns,
                 overlapped : BOOLEAN]

\* A turn stamps its message and its answer.
Begun == {t \in Turns : turn[t].pc \notin {"idle", "opened"}}
Answered == {t \in Turns : turn[t].pc = "done"}
Counted == clock <= Cardinality(Begun) + Cardinality(Answered)

Above(S, e) == {f \in S : f > e}

\* A summary stands for the events up to an anchor: enough later ones are seen to
\* be quoted instead, a committed one is no earlier, and each event seen up to
\* it is told, came late or was beyond what was fetched.
Enough(S, a) == a > 0 => Cardinality(Above(S, a)) >= KeepLimit
Reached(C, a) == a > 0 => \E f \in C : f >= a
Covered(S, a, R, h) == \A e \in S : e \in 1 .. a => e \in R \cup h.late \cup h.unfetched
StandsFor(S, C, a, R, h) == Enough(S, a) /\ Reached(C, a) /\ Covered(S, a, R, h)

Listed(s, a) == Increasing(s) /\ Range(s) \subseteq 1 .. a

\* The row, of which C is committed.
RowStands(r, C, h, n) ==
    r.anchor <= n /\ Listed(r.summary, r.anchor)
        /\ StandsFor(C, C, r.anchor, Range(r.summary), h)

\* A turn: what it has as the summary, and what it is about to fold.
Seen(q, C) == C \cup {q.user}
FoldStands(q, C, h) ==
    /\ q.fold # {} /\ q.fold \subseteq Seen(q, C) /\ \A e \in q.fold : e > q.anchor
    /\ StandsFor(Seen(q, C), C, Newest(q.fold), Range(q.summary) \cup q.fold, h)
TurnStands(q, C, h, n) ==
    /\ q.anchor <= n /\ q.user <= n /\ q.recent \subseteq 1 .. n
    /\ q.user > 0 <=> q.pc \in Stamped
    /\ Listed(q.summary, q.anchor)
    /\ StandsFor(Seen(q, C), C, q.anchor, Range(q.summary), h)
    /\ q.pc = "folding" => FoldStands(q, C, h)
    /\ q.recent # {} => q.pc = "running"
    /\ q.recent \cap Range(q.summary) = {}

\* Where nothing overlapped, failed or outgrew a fetch, few enough events are
\* after the anchor to be quoted, and then they are.
Few(S, a) == \A e \in S : e > a => Cardinality(Above(S, e)) < KeepLimit
Complete(t, q, C, h) ==
    ~h.overlapped /\ t \notin h.foldFailed /\ h.unfetched = {} =>
        /\ q.pc = "folding" => Few(Seen(q, C), Newest(q.fold))
        /\ q.pc = "summarized" => Few(Seen(q, C), q.anchor)
        /\ q.pc = "running" => C \subseteq Range(q.summary) \cup q.recent

Alone ==
    ~hist.overlapped =>
        /\ hist.late = {} /\ \A s, t \in Active : s = t
        /\ \A t \in Turns : turn[t].user > 0 => \A e \in committed : e < turn[t].user

Locked == rowLock # 0 => turn[rowLock].pc \in {"summarized", "running"}

\* The client has seen every message it started from that is before its place.
Earlier(C, e) == {f \in C : f < e}
Place(r) ==
    IF r.pc = "counting" THEN r.offset + PageSize ELSE r.offset
Reading(r, C, h) ==
    /\ r.seen \subseteq C
    /\ h.late = {} =>
           /\ r.pc = "idle" => r.atStart = {}
           /\ r.pc = "idle" => r.offset = 0
           /\ r.pc = "end" => r.atStart \subseteq r.seen
           /\ \A e \in r.atStart :
                  e \in C /\ (Cardinality(Earlier(C, e)) < Place(r) => e \in r.seen)

HistoryInv ==
    /\ HistoryTyped /\ Counted /\ Alone /\ Locked
    /\ RowStands(conversation, committed, hist, clock)
    /\ \A t \in Turns : TurnStands(turn[t], committed, hist, clock)
    /\ \A t \in Turns : Complete(t, turn[t], committed, hist)
    /\ Reading(reader, committed, hist)

-----------------------------------------------------------------------------
(* Constants and finite sets of events *)

LEMMA HistoryConstants ==
  /\ TurnCount \in Nat \ {0} /\ KeepLimit \in Nat \ {0} /\ FetchLimit \in Nat \ {0}
  /\ PageSize \in Nat \ {0} /\ KeepLimit < FetchLimit /\ 0 \notin Turns
  /\ IsFiniteSet(Turns) /\ Cardinality(Turns) = TurnCount
  <1>1. /\ TurnCount \in Nat \ {0} /\ KeepLimit \in Nat \ {0} /\ FetchLimit \in Nat \ {0}
        /\ PageSize \in Nat \ {0} /\ KeepLimit < FetchLimit
    BY HistoryAssumption
  <1>2. IsFiniteSet(1 .. TurnCount) /\ Cardinality(1 .. TurnCount) = TurnCount
    BY <1>1, FS_Interval
  <1> QED
    BY <1>1, <1>2 DEF Turns

LEMMA EventsFinite ==
  ASSUME NEW n \in Nat, NEW S, S \subseteq 0 .. n
  PROVE  /\ IsFiniteSet(S) /\ Cardinality(S) \in Nat
         /\ \A e : IsFiniteSet(Above(S, e)) /\ Cardinality(Above(S, e)) \in Nat
         /\ \A e : IsFiniteSet(Earlier(S, e)) /\ Cardinality(Earlier(S, e)) \in Nat
  <1>1. IsFiniteSet(0 .. n)
    BY FS_Interval
  <1>2. ASSUME NEW T, T \subseteq 0 .. n PROVE IsFiniteSet(T) /\ Cardinality(T) \in Nat
    <2>1. IsFiniteSet(T)
      BY <1>1, <1>2, FS_Subset
    <2> QED
      BY <2>1, FS_CardinalityType
  <1>3. \A e : Above(S, e) \subseteq 0 .. n /\ Earlier(S, e) \subseteq 0 .. n
    BY DEF Above, Earlier
  <1> QED
    BY <1>2, <1>3

LEMMA FewerAbove ==
  ASSUME NEW n \in Nat, NEW T, T \subseteq 0 .. n, NEW S, S \subseteq T,
         NEW a \in Nat, NEW b \in Nat, a <= b
  PROVE  /\ Cardinality(Above(S, b)) <= Cardinality(Above(T, a))
         /\ Cardinality(Above(S, b)) \in Nat /\ Cardinality(Above(T, a)) \in Nat
  <1>1. Above(S, b) \in SUBSET Above(T, a)
    <2>1. \A f \in T : f \in Nat
      OBVIOUS
    <2>2. \A f \in S : f > b => f \in T /\ f > a
      BY <2>1
    <2> QED
      BY <2>2 DEF Above
  <1>2. IsFiniteSet(Above(T, a))
    BY EventsFinite
  <1>3. Cardinality(Above(S, b)) <= Cardinality(Above(T, a))
    BY <1>1, <1>2, FS_Subset
  <1>4. S \subseteq 0 .. n
    OBVIOUS
  <1> QED
    BY <1>3, <1>4, EventsFinite

LEMMA ChronologicalIs ==
  ASSUME NEW S, IsFiniteSet(S), S \subseteq Nat
  PROVE  /\ Chronological(S) \in Seq(S) /\ Range(Chronological(S)) = S
         /\ Len(Chronological(S)) = Cardinality(S) /\ Cardinality(S) \in Nat
         /\ Chronological(S) \in [1 .. Cardinality(S) -> S]
         /\ \A i, j \in 1 .. Cardinality(S) : i < j => Chronological(S)[i] < Chronological(S)[j]
  <1> DEFINE R == {p \in Nat \X Nat : p[1] < p[2]}
             Good(s) == \A i, j \in 1 .. Cardinality(S) : i < j => s[i] < s[j]
  <1>1. \A x, y \in Nat : <<x, y>> \in R <=> x < y
    OBVIOUS
  <1>2. TotalOrder(S, R)
    <2> HIDE DEF R
    <2>1. \A i \in S : i \in Nat
      OBVIOUS
    <2>2. \A i \in S : <<i, i>> \notin R
      BY <1>1, <2>1
    <2>3. \A i, j \in S : i # j => <<i, j>> \in R \/ <<j, i>> \in R
      BY <1>1, <2>1
    <2>4. \A i, j, k \in S : <<i, j>> \in R /\ <<j, k>> \in R => <<i, k>> \in R
      BY <1>1, <2>1
    <2> QED
      BY <2>2, <2>3, <2>4 DEF TotalOrder
  <1> HIDE DEF R
  <1>3. PICK s \in Listings(S) : InOrderOf(s, S, R)
    BY <1>2, OrderExists
  <1>4. Listings(S) = SetToSeqs(S)
    BY DEF Listings, SetToSeqs
  <1>5. Good(s)
    <2>1. s \in [1 .. Cardinality(S) -> S]
      BY DEF Listings
    <2>2. \A i \in 1 .. Cardinality(S) : s[i] \in Nat
      BY <2>1
    <2> QED
      BY <1>1, <1>3, <2>2 DEF InOrderOf
  <1>6. Chronological(S) = CHOOSE r \in SetToSeqs(S) : Good(r)
    BY DEF Chronological
  <1> HIDE DEF Good
  <1>7. Chronological(S) \in SetToSeqs(S) /\ Good(Chronological(S))
    BY <1>4, <1>5, <1>6
  <1>8. Good(Chronological(S)) =>
          \A i, j \in 1 .. Cardinality(S) : i < j => Chronological(S)[i] < Chronological(S)[j]
    BY DEF Good
  <1>9. Chronological(S) \in [1 .. Cardinality(S) -> S]
    BY <1>4, <1>7 DEF Listings
  <1> QED
    BY <1>4, <1>7, <1>8, <1>9, ListingsAre

LEMMA FirstAndLast ==
  ASSUME NEW S, IsFiniteSet(S), S \subseteq Nat, S # {}
  PROVE  /\ Newest(S) \in S /\ \A f \in S : f <= Newest(S)
         /\ \E e \in S : \A f \in S : e <= f
  <1> DEFINE c == Chronological(S)
             n == Cardinality(S)
  <1>1. /\ c \in [1 .. n -> S] /\ Range(c) = S /\ n \in Nat
        /\ \A i, j \in 1 .. n : i < j => c[i] < c[j]
    BY ChronologicalIs
  <1>2. n # 0
    BY FS_EmptySet
  <1> HIDE DEF c, n
  <1>3. \A f \in S : \E i \in 1 .. n : c[i] = f
    BY <1>1 DEF Range
  <1>4. 1 \in 1 .. n /\ n \in 1 .. n /\ c[1] \in S /\ c[n] \in S
    BY <1>1, <1>2
  <1>5. ASSUME NEW i \in 1 .. n PROVE c[1] <= c[i] /\ c[i] <= c[n]
    <2>0. c[i] \in S
      BY <1>1
    <2>1. c[1] \in Nat /\ c[i] \in Nat /\ c[n] \in Nat
      BY <1>4, <2>0
    <2>2. (i = 1 \/ c[1] < c[i]) /\ (i = n \/ c[i] < c[n])
      BY <1>1, <1>4
    <2> QED
      BY <2>1, <2>2
  <1>6. \E e \in S : \A f \in S : f <= e
    BY <1>3, <1>4, <1>5
  <1>7. \E e \in S : \A f \in S : e <= f
    BY <1>3, <1>4, <1>5
  <1> QED
    BY <1>6, <1>7 DEF Newest

\* What is folded goes after what was summarised before it.
LEMMA Joined ==
  ASSUME NEW s \in Seq(Nat), NEW a \in Nat, Listed(s, a), NEW F, IsFiniteSet(F), F \subseteq Nat,
         F # {}, \A e \in F : e > a
  PROVE  /\ s \o Chronological(F) \in Seq(Nat)
         /\ Range(s \o Chronological(F)) = Range(s) \cup F
         /\ Listed(s \o Chronological(F), Newest(F))
  <1> DEFINE c == Chronological(F)
             n == Cardinality(F)
             j == s \o c
             b == Newest(F)
  <1>1. /\ c \in [1 .. n -> F] /\ Range(c) = F /\ Len(c) = n /\ n \in Nat
        /\ \A i, k \in 1 .. n : i < k => c[i] < c[k]
    BY ChronologicalIs
  <1>2. b \in F /\ \A f \in F : f <= b
    BY FirstAndLast
  <1> HIDE DEF c, n, b
  <1>3. c \in Seq(Nat) /\ Len(s) \in Nat /\ DOMAIN s = 1 .. Len(s)
    <2>1. c \in [1 .. n -> Nat]
      BY <1>1
    <2> QED
      BY <1>1, <2>1
  <1>4. /\ j \in Seq(Nat) /\ Len(j) = Len(s) + n /\ DOMAIN j = 1 .. Len(s) + n
        /\ \A i \in 1 .. Len(s) : j[i] = s[i]
        /\ \A i \in Len(s) + 1 .. Len(s) + n : j[i] = c[i - Len(s)]
    <2>1. /\ j \in Seq(Nat) /\ Len(j) = Len(s) + Len(c) /\ DOMAIN j = 1 .. Len(s) + Len(c)
          /\ \A i \in 1 .. Len(s) : j[i] = s[i]
          /\ \A i \in Len(s) + 1 .. Len(s) + Len(c) : j[i] = c[i - Len(s)]
      BY <1>3
    <2> QED
      BY <1>1, <2>1
  <1> HIDE DEF j
  <1>5. Range(j) = Range(s) \cup F
    <2>1. ASSUME NEW i \in DOMAIN j PROVE j[i] \in Range(s) \cup F
      <3>1. CASE i <= Len(s)
        <4>1. i \in DOMAIN s /\ j[i] = s[i]
          BY <1>1, <1>3, <1>4, <3>1
        <4> QED
          BY <4>1 DEF Range
      <3>2. CASE i > Len(s)
        <4>2. i - Len(s) \in 1 .. n /\ i \in Len(s) + 1 .. Len(s) + n
          BY <1>1, <1>3, <1>4, <3>2
        <4>1. i - Len(s) \in 1 .. n /\ j[i] = c[i - Len(s)]
          BY <1>4, <4>2
        <4> QED
          BY <1>1, <4>1
      <3> QED
        BY <1>3, <1>4, <3>1, <3>2
    <2>2. ASSUME NEW e \in Range(s) PROVE e \in Range(j)
      <3>1. PICK i \in 1 .. Len(s) : s[i] = e
        BY <1>3 DEF Range
      <3>2. i \in DOMAIN j /\ j[i] = e
        BY <1>1, <1>3, <1>4, <3>1
      <3> QED
        BY <3>2 DEF Range
    <2>3. ASSUME NEW e \in F PROVE e \in Range(j)
      <3>1. PICK i \in 1 .. n : c[i] = e
        BY <1>1 DEF Range
      <3>2. /\ Len(s) + i \in DOMAIN j /\ Len(s) + i \in Len(s) + 1 .. Len(s) + n
            /\ Len(s) + i - Len(s) = i
        BY <1>1, <1>3, <1>4, <3>1
      <3>3. j[Len(s) + i] = e
        BY <1>4, <3>1, <3>2
      <3> QED
        BY <3>2, <3>3 DEF Range
    <2> QED
      BY <2>1, <2>2, <2>3 DEF Range
  <1>6. ASSUME NEW i \in 1 .. Len(j) - 1 PROVE j[i] < j[i + 1]
    <2>1. CASE i < Len(s)
      <3>1. i \in 1 .. Len(s) - 1 /\ i + 1 \in 1 .. Len(s) /\ i \in 1 .. Len(s)
        BY <1>1, <1>3, <1>4, <2>1
      <3>2. s[i] < s[i + 1]
        BY <3>1 DEF Listed, Increasing
      <3>3. j[i] = s[i] /\ j[i + 1] = s[i + 1]
        BY <1>4, <3>1
      <3> QED
        BY <3>2, <3>3
    <2>2. CASE i = Len(s)
      <3>1. i \in 1 .. Len(s) /\ i + 1 \in Len(s) + 1 .. Len(s) + n /\ i + 1 - Len(s) = 1
            /\ 1 \in 1 .. n
        BY <1>1, <1>3, <1>4, <2>2
      <3>5. j[i] = s[i] /\ j[i + 1] = c[i + 1 - Len(s)]
        BY <1>4, <3>1
      <3>2. j[i] = s[i] /\ j[i + 1] = c[1]
        BY <3>1, <3>5
      <3>3. c[1] \in F /\ s[i] \in Range(s)
        BY <1>1, <1>3, <3>1 DEF Range
      <3>4. s[i] \in 1 .. a /\ c[1] > a /\ c[1] \in Nat
        BY <3>3 DEF Listed
      <3> QED
        BY <3>2, <3>4
    <2>3. CASE i > Len(s)
      <3>1. /\ i \in Len(s) + 1 .. Len(s) + n /\ i + 1 \in Len(s) + 1 .. Len(s) + n
            /\ i - Len(s) \in 1 .. n /\ i + 1 - Len(s) \in 1 .. n /\ i - Len(s) < i + 1 - Len(s)
        <4> DEFINE l == Len(s)
        <4>1. l \in Nat /\ n \in Nat /\ i \in Nat /\ i > l /\ i + 1 <= l + n
          BY <1>1, <1>3, <1>4, <2>3
        <4> HIDE DEF l
        <4>2. /\ i \in l + 1 .. l + n /\ i + 1 \in l + 1 .. l + n
              /\ i - l \in 1 .. n /\ i + 1 - l \in 1 .. n /\ i - l < i + 1 - l
          BY <4>1
        <4> QED
          BY <4>2 DEF l
      <3>2. c[i - Len(s)] < c[i + 1 - Len(s)]
        BY <1>1, <3>1
      <3>3. j[i] = c[i - Len(s)] /\ j[i + 1] = c[i + 1 - Len(s)]
        BY <1>4, <3>1
      <3> QED
        BY <3>2, <3>3
    <2>4. i \in Nat /\ Len(s) \in Nat
      BY <1>1, <1>3, <1>4
    <2> QED
      BY <2>1, <2>2, <2>3, <2>4
  <1>7. Range(j) \subseteq 1 .. b
    <2>1. \A e \in F : e \in 1 .. b
      BY <1>2
    <2>2. b > a /\ b \in Nat
      BY <1>2
    <2>3. \A e \in Range(s) : e \in 1 .. b
      BY <2>2 DEF Listed
    <2> QED
      BY <1>5, <2>1, <2>3
  <1>8. Listed(j, b)
    BY <1>6, <1>7 DEF Listed, Increasing
  <1> QED
    BY <1>4, <1>5, <1>8 DEF j, c, b

-----------------------------------------------------------------------------
(* What more committed events leave as it was *)

\* Between two moments: events are added, and one that was passed over is late.
Goes(C, D, h, k) ==
    /\ C \subseteq D /\ h.late \subseteq k.late /\ h.unfetched \subseteq k.unfetched
    /\ \A e \in D \ C : (\E f \in C : f > e) => e \in k.late

LEMMA StillStands ==
  ASSUME NEW n \in Nat, NEW C, NEW D, D \subseteq 0 .. n, NEW h, NEW k, Goes(C, D, h, k),
         NEW S, NEW T, S \subseteq T, T \subseteq 0 .. n, T \ S \subseteq D \ C,
         NEW a \in Nat, NEW R, StandsFor(S, C, a, R, h)
  PROVE  StandsFor(T, D, a, R, k)
  <1>1. Enough(T, a)
    <2>1. Cardinality(Above(S, a)) <= Cardinality(Above(T, a))
          /\ Cardinality(Above(S, a)) \in Nat /\ Cardinality(Above(T, a)) \in Nat
      <3>1. a <= a
        OBVIOUS
      <3> QED
        BY <3>1, FewerAbove
    <2>2. KeepLimit \in Nat
      BY HistoryConstants
    <2> QED
      BY <2>1, <2>2 DEF StandsFor, Enough
  <1>2. Reached(D, a)
    BY DEF StandsFor, Reached, Goes
  <1>3. ASSUME NEW e \in T, e \in 1 .. a PROVE e \in R \cup k.late \cup k.unfetched
    <2>1. CASE e \in S
      BY <1>3, <2>1 DEF StandsFor, Covered, Goes
    <2>2. CASE e \notin S
      <3>1. e \in D \ C
        BY <2>2
      <3>2. PICK f \in C : f >= a
        BY <1>3 DEF StandsFor, Reached
      <3>3. f # e /\ f \in Nat /\ e \in Nat
        BY <3>1, <3>2 DEF Goes
      <3>4. f > e
        BY <1>3, <3>2, <3>3
      <3> QED
        BY <3>1, <3>4 DEF Goes
    <2> QED
      BY <2>1, <2>2
  <1> QED
    BY <1>1, <1>2, <1>3 DEF StandsFor, Covered

LEMMA TurnStillStands ==
  ASSUME NEW n \in Nat, NEW m \in Nat, n <= m, NEW C, NEW D, D \subseteq 0 .. m, NEW h, NEW k,
         Goes(C, D, h, k), NEW q \in HistoryTurn, TurnStands(q, C, h, n)
  PROVE  TurnStands(q, D, k, m)
  <1>1. q.user \in Nat /\ q.anchor \in Nat /\ q.user <= m /\ q.anchor <= m /\ q.recent \subseteq 1 .. m
    BY DEF TurnStands, HistoryTurn
  <1>2. /\ Seen(q, C) \subseteq Seen(q, D) /\ Seen(q, D) \subseteq 0 .. m
        /\ Seen(q, D) \ Seen(q, C) \subseteq D \ C
    <2>1. q.user \in 0 .. m
      BY <1>1
    <2> QED
      BY <2>1 DEF Seen, Goes
  <1>3. StandsFor(Seen(q, D), D, q.anchor, Range(q.summary), k)
    BY <1>1, <1>2, StillStands DEF TurnStands
  <1>4. ASSUME FoldStands(q, C, h) PROVE FoldStands(q, D, k)
    <2>1. q.fold # {} /\ q.fold \subseteq Seen(q, D) /\ q.fold \subseteq 0 .. m
      BY <1>2, <1>4 DEF FoldStands
    <2>2. IsFiniteSet(q.fold)
      BY <2>1, EventsFinite
    <2>3. Newest(q.fold) \in Nat
      BY <2>1, <2>2, FirstAndLast DEF HistoryTurn
    <2> DEFINE R == Range(q.summary) \cup q.fold
               b == Newest(q.fold)
    <2>5. StandsFor(Seen(q, C), C, b, R, h) /\ b \in Nat
      BY <1>4, <2>3 DEF FoldStands
    <2> HIDE DEF R, b
    <2>6. StandsFor(Seen(q, D), D, b, R, k)
      BY <1>2, <2>5, StillStands
    <2>4. StandsFor(Seen(q, D), D, Newest(q.fold), Range(q.summary) \cup q.fold, k)
      BY <2>6 DEF R, b
    <2> QED
      BY <1>4, <2>1, <2>4 DEF FoldStands
  <1> QED
    BY <1>1, <1>3, <1>4 DEF TurnStands

LEMMA RowStillStands ==
  ASSUME NEW n \in Nat, NEW m \in Nat, n <= m, NEW C, NEW D, D \subseteq 0 .. m, NEW h, NEW k,
         Goes(C, D, h, k), NEW r, r.anchor \in Nat, RowStands(r, C, h, n)
  PROVE  RowStands(r, D, k, m)
  <1>1. C \subseteq D
    BY DEF Goes
  <1>2. StandsFor(D, D, r.anchor, Range(r.summary), k)
    BY <1>1, StillStands DEF RowStands
  <1>3. r.anchor <= m
    BY DEF RowStands
  <1> QED
    BY <1>2, <1>3 DEF RowStands

\* The record of a turn that is not under way stands for anything.
LEMMA NothingStands ==
  ASSUME NEW pc \in Stages \ Stamped, NEW C, NEW h, NEW n \in Nat
  PROVE  /\ [NoTurn EXCEPT !.pc = pc] \in HistoryTurn
         /\ [NoTurn EXCEPT !.pc = pc].pc = pc /\ [NoTurn EXCEPT !.pc = pc].user = 0
         /\ TurnStands([NoTurn EXCEPT !.pc = pc], C, h, n)
  <1> DEFINE q == [NoTurn EXCEPT !.pc = pc]
  <1>1. /\ q \in HistoryTurn /\ q.pc = pc /\ q.summary = <<>> /\ q.anchor = 0 /\ q.user = 0
        /\ q.fold = {} /\ q.recent = {}
    <2>1. <<>> \in Seq(Nat)
      OBVIOUS
    <2> QED
      BY <2>1 DEF NoTurn, HistoryTurn
  <1> HIDE DEF q
  <1>2. Listed(q.summary, q.anchor)
    BY <1>1 DEF Listed, Increasing, Range
  <1>3. StandsFor(Seen(q, C), C, q.anchor, Range(q.summary), h)
    BY <1>1 DEF StandsFor, Enough, Reached, Covered
  <1>4. ~(q.user > 0) /\ q.pc \notin Stamped
    BY <1>1
  <1>5. TurnStands(q, C, h, n)
    BY <1>1, <1>2, <1>3, <1>4 DEF TurnStands, Stamped
  <1> QED
    BY <1>1, <1>5 DEF q

-----------------------------------------------------------------------------
(* A step of one turn that commits nothing *)

HistoryKinds == [late : SUBSET Nat, unfetched : SUBSET Nat, foldFailed : SUBSET Turns,
                 overlapped : BOOLEAN]
ActivePcs == Stages \ {"idle", "done", "failed"}
UnstampedPcs == {"idle", "opened"}

Notes ==
    /\ hist' \in HistoryKinds /\ hist'.late = hist.late
    /\ hist.unfetched \subseteq hist'.unfetched /\ hist.foldFailed \subseteq hist'.foldFailed
    /\ hist.overlapped => hist'.overlapped

Stamps(t, q) ==
    /\ clock' = clock \/ (clock' = clock + 1 /\ turn[t].pc = "opened" /\ q.pc = "saved")
    /\ turn[t].pc \notin UnstampedPcs => q.pc \notin UnstampedPcs
    /\ turn[t].pc # "done" /\ q.pc # "done"

KeepsAlone(t, q) ==
    ~hist'.overlapped =>
        /\ t \in Active \/ Active = {} \/ q.pc \notin ActivePcs
        /\ q.user > 0 => \A e \in committed : e < q.user

KeepsLock(t, q) ==
    /\ rowLock' \in {0, t, rowLock}
    /\ rowLock' = t => q.pc \in {"summarized", "running"}

Moves(t, q) ==
    /\ q \in HistoryTurn /\ turn' = [turn EXCEPT ![t] = q]
    /\ UNCHANGED <<committed, conversation, reader>>
    /\ Notes /\ Stamps(t, q) /\ KeepsAlone(t, q) /\ KeepsLock(t, q)
    /\ TurnStands(q, committed, hist', clock') /\ Complete(t, q, committed, hist')

LEMMA HistoryFacts ==
  ASSUME HistoryInv
  PROVE  /\ clock \in Nat /\ committed \subseteq 1 .. clock /\ committed \subseteq 0 .. clock
         /\ conversation \in [summary : Seq(Nat), anchor : Nat, archived : BOOLEAN]
         /\ rowLock \in {0} \cup Turns /\ turn \in [Turns -> HistoryTurn]
         /\ reader \in [pc : {"idle", "counting", "more", "end"}, offset : Nat,
                        seen : SUBSET Nat, atStart : SUBSET Nat]
         /\ hist \in HistoryKinds
         /\ IsFiniteSet(committed)
         /\ \A t \in Turns : turn[t] \in HistoryTurn /\ turn[t].user <= clock
  <1>1. /\ clock \in Nat /\ committed \subseteq 1 .. clock
        /\ conversation \in [summary : Seq(Nat), anchor : Nat, archived : BOOLEAN]
        /\ rowLock \in {0} \cup Turns /\ turn \in [Turns -> HistoryTurn]
        /\ reader \in [pc : {"idle", "counting", "more", "end"}, offset : Nat,
                       seen : SUBSET Nat, atStart : SUBSET Nat]
        /\ hist \in HistoryKinds
    BY DEF HistoryInv, HistoryTyped, HistoryKinds
  <1>2. committed \subseteq 0 .. clock
    BY <1>1
  <1>3. \A t \in Turns : turn[t] \in HistoryTurn
    BY <1>1
  <1>4. \A t \in Turns : turn[t].user <= clock
    BY DEF HistoryInv, TurnStands
  <1> QED
    BY <1>1, <1>2, <1>3, <1>4, EventsFinite

LEMMA CountedFinite ==
  /\ IsFiniteSet(Begun) /\ Cardinality(Begun) \in Nat /\ Cardinality(Begun) <= TurnCount
  /\ IsFiniteSet(Answered) /\ Cardinality(Answered) \in Nat /\ Cardinality(Answered) <= TurnCount
  <1>1. Begun \in SUBSET Turns /\ Answered \in SUBSET Turns
    BY DEF Begun, Answered
  <1>2. IsFiniteSet(Turns) /\ Cardinality(Turns) = TurnCount
    BY HistoryConstants
  <1>3. /\ IsFiniteSet(Begun) /\ Cardinality(Begun) <= TurnCount
        /\ IsFiniteSet(Answered) /\ Cardinality(Answered) <= TurnCount
    BY <1>1, <1>2, FS_Subset
  <1> QED
    BY <1>3, FS_CardinalityType

\* A set that has gained elements, and a member at least.
LEMMA CountGrows ==
  ASSUME NEW T, IsFiniteSet(T), NEW S \in SUBSET T
  PROVE  /\ Cardinality(S) <= Cardinality(T) /\ Cardinality(S) \in Nat /\ Cardinality(T) \in Nat
         /\ \A x \in T \ S : Cardinality(S) + 1 <= Cardinality(T)
  <1>1. /\ IsFiniteSet(S) /\ Cardinality(S) <= Cardinality(T)
        /\ (Cardinality(S) = Cardinality(T) => S = T)
    BY FS_Subset
  <1>2. Cardinality(S) \in Nat /\ Cardinality(T) \in Nat
    BY <1>1, FS_CardinalityType
  <1>3. ASSUME NEW x \in T \ S PROVE Cardinality(S) # Cardinality(T)
    BY <1>1
  <1>4. \A x \in T \ S : Cardinality(S) + 1 <= Cardinality(T)
    <2> TAKE x \in T \ S
    <2>1. Cardinality(S) # Cardinality(T)
      BY <1>3
    <2> QED
      BY <1>1, <1>2, <2>1
  <1> QED
    BY <1>1, <1>2, <1>4

LEMMA MoveCounted ==
  ASSUME HistoryInv, NEW t \in Turns, NEW q \in HistoryTurn, turn' = [turn EXCEPT ![t] = q],
         Stamps(t, q)
  PROVE  Counted' /\ clock' \in Nat /\ clock <= clock'
  <1>1. /\ clock \in Nat /\ turn \in [Turns -> HistoryTurn]
        /\ clock <= Cardinality(Begun) + Cardinality(Answered)
    BY HistoryFacts DEF HistoryInv, Counted
  <1>2. turn'[t] = q /\ \A s \in Turns : s # t => turn'[s] = turn[s]
    BY <1>1
  <1>3. Begun \in SUBSET Begun' /\ Answered' = Answered
    BY <1>2 DEF Begun, Answered, Stamps, UnstampedPcs
  <1>4. IsFiniteSet(Begun') /\ Cardinality(Begun) \in Nat /\ Cardinality(Answered) \in Nat
    <2>1. Begun' \in SUBSET Turns
      BY DEF Begun
    <2> QED
      BY <2>1, HistoryConstants, FS_Subset, CountedFinite
  <1> DEFINE old == Cardinality(Begun)
             new == Cardinality(Begun')
             more == Cardinality(Answered)
  <1>5. old <= new /\ new \in Nat /\ \A x \in Begun' \ Begun : old + 1 <= new
    BY <1>3, <1>4, CountGrows
  <1>6. CASE clock' = clock
    <2>1. clock' <= new + more
      <3> HIDE DEF old, new, more
      <3>1. clock <= old + more /\ old \in Nat /\ more \in Nat
        BY <1>1, <1>4 DEF old, more
      <3> QED
        BY <1>1, <1>5, <1>6, <3>1
    <2> QED
      BY <1>1, <1>3, <1>6, <2>1 DEF Counted
  <1>7. CASE clock' = clock + 1 /\ turn[t].pc = "opened" /\ q.pc = "saved"
    <2>1. t \in Begun' \ Begun
      BY <1>2, <1>7 DEF Begun
    <2>2. clock' <= new + more
      <3>0. old + 1 <= new
        BY <1>5, <2>1
      <3> HIDE DEF old, new, more
      <3>1. clock <= old + more /\ old \in Nat /\ more \in Nat
        BY <1>1, <1>4 DEF old, more
      <3> QED
        BY <1>1, <1>5, <1>7, <3>0, <3>1
    <2> QED
      BY <1>1, <1>3, <1>7, <2>2 DEF Counted
  <1> QED
    BY <1>6, <1>7 DEF Stamps

LEMMA MovesKeep ==
  ASSUME HistoryInv, NEW t \in Turns, NEW q, Moves(t, q)
  PROVE  HistoryInv'
  <1>1. /\ q \in HistoryTurn /\ turn' = [turn EXCEPT ![t] = q]
        /\ committed' = committed /\ conversation' = conversation /\ reader' = reader
        /\ Notes /\ Stamps(t, q) /\ KeepsAlone(t, q) /\ KeepsLock(t, q)
        /\ TurnStands(q, committed, hist', clock') /\ Complete(t, q, committed, hist')
    BY DEF Moves
  <1>2. /\ clock \in Nat /\ committed \subseteq 1 .. clock /\ committed \subseteq 0 .. clock
        /\ turn \in [Turns -> HistoryTurn] /\ rowLock \in {0} \cup Turns
    BY HistoryFacts
  <1>3. turn'[t] = q /\ \A s \in Turns : s # t => turn'[s] = turn[s]
    BY <1>1, <1>2
  <1>4. Counted' /\ clock' \in Nat /\ clock <= clock'
    BY <1>1, MoveCounted
  <1>5. HistoryTyped'
    <2>1. committed' \subseteq 1 .. clock' /\ clock' \in Nat
      BY <1>1, <1>2, <1>4
    <2>2. turn' \in [Turns -> HistoryTurn]
      BY <1>1, <1>2
    <2>3. rowLock' \in {0} \cup Turns
      BY <1>1, <1>2 DEF KeepsLock
    <2>4. hist' \in HistoryKinds
      BY <1>1 DEF Notes
    <2> QED
      BY <1>1, <2>1, <2>2, <2>3, <2>4 DEF HistoryInv, HistoryTyped, HistoryKinds
  <1>6. Goes(committed, committed, hist, hist') /\ committed \subseteq 0 .. clock'
    BY <1>1, <1>2, <1>4 DEF Goes, Notes
  <1>7. RowStands(conversation, committed, hist', clock')
    <2>1. RowStands(conversation, committed, hist, clock) /\ conversation.anchor \in Nat
      BY HistoryFacts DEF HistoryInv
    <2> QED
      BY <1>2, <1>4, <1>6, <2>1, RowStillStands
  <1>8. ASSUME NEW s \in Turns PROVE TurnStands(turn'[s], committed, hist', clock')
    <2>1. CASE s = t
      BY <1>1, <1>3, <2>1
    <2>2. CASE s # t
      <3>1. TurnStands(turn[s], committed, hist, clock) /\ turn[s] \in HistoryTurn
        BY <1>2 DEF HistoryInv
      <3> QED
        BY <1>2, <1>3, <1>4, <1>6, <2>2, <3>1, TurnStillStands
    <2> QED
      BY <2>1, <2>2
  <1>9. ASSUME NEW s \in Turns PROVE Complete(s, turn'[s], committed, hist')
    <2>1. CASE s = t
      BY <1>1, <1>3, <2>1
    <2>2. CASE s # t
      <3>1. Complete(s, turn[s], committed, hist) /\ turn'[s] = turn[s]
        BY <1>3, <2>2 DEF HistoryInv
      <3>2. ~hist'.overlapped => ~hist.overlapped
        BY <1>1 DEF Notes
      <3>3. s \notin hist'.foldFailed => s \notin hist.foldFailed
        BY <1>1 DEF Notes
      <3>4. hist'.unfetched = {} => hist.unfetched = {}
        BY <1>1 DEF Notes
      <3> QED
        BY <3>1, <3>2, <3>3, <3>4 DEF Complete
    <2> QED
      BY <2>1, <2>2
  <1>10. Alone'
    <2> SUFFICES ASSUME ~hist'.overlapped
                 PROVE  /\ hist'.late = {} /\ \A r, s \in Active' : r = s
                        /\ \A s \in Turns : turn'[s].user > 0 =>
                               \A e \in committed : e < turn'[s].user
      BY <1>1 DEF Alone
    <2>1. /\ hist.late = {} /\ \A r, s \in Active : r = s
          /\ \A s \in Turns : turn[s].user > 0 => \A e \in committed : e < turn[s].user
      BY <1>1 DEF HistoryInv, Alone, Notes
    <2>2. /\ t \in Active \/ Active = {} \/ q.pc \notin ActivePcs
          /\ q.user > 0 => \A e \in committed : e < q.user
      BY <1>1 DEF KeepsAlone
    <2>3. hist'.late = {}
      BY <1>1, <2>1 DEF Notes
    <2>4. Active' \subseteq Active \cup {t} /\ (q.pc \notin ActivePcs => Active' \subseteq Active)
      BY <1>1, <1>3 DEF Active, ActivePcs, HistoryTurn
    <2>5. \A r, s \in Active' : r = s
      BY <2>1, <2>2, <2>4
    <2> QED
      BY <1>3, <2>1, <2>2, <2>3, <2>5
  <1>11. Locked'
    <2>1. rowLock # 0 => turn[rowLock].pc \in {"summarized", "running"}
      BY DEF HistoryInv, Locked
    <2>2. rowLock' # 0 => turn'[rowLock'].pc \in {"summarized", "running"}
      BY <1>1, <1>2, <1>3, <2>1 DEF KeepsLock
    <2> QED
      BY <2>2 DEF Locked
  <1>12. Reading(reader, committed, hist')
    BY <1>1 DEF HistoryInv, Reading, Notes, Place
  <1> QED
    BY <1>1, <1>4, <1>5, <1>7, <1>8, <1>9, <1>10, <1>11, <1>12 DEF HistoryInv

-----------------------------------------------------------------------------
(* The steps of a turn that commit nothing *)

\* A turn that has stamped nothing sees what is committed.
LEMMA NothingOwn ==
  ASSUME NEW n \in Nat, NEW C, C \subseteq 1 .. n, NEW a \in Nat, NEW R, NEW h
  PROVE  /\ StandsFor(C, C, a, R, h) => StandsFor(C \cup {0}, C, a, R, h)
         /\ StandsFor(C \cup {0}, C, a, R, h) /\ a <= n => StandsFor(C \cup {n + 1}, C, a, R, h)
  <1>1. Above(C \cup {0}, a) = Above(C, a)
    BY DEF Above
  <1>2. ASSUME Covered(C, a, R, h) PROVE Covered(C \cup {0}, a, R, h)
    BY <1>2 DEF Covered
  <1>3. ASSUME Covered(C \cup {0}, a, R, h), a <= n PROVE Covered(C \cup {n + 1}, a, R, h)
    <2>1. n + 1 \notin 1 .. a
      BY <1>3
    <2> QED
      BY <1>3, <2>1 DEF Covered
  <1>4. ASSUME Enough(C \cup {0}, a) PROVE Enough(C \cup {n + 1}, a)
    <2>1. C \cup {n + 1} \subseteq 0 .. n + 1 /\ C \subseteq C \cup {n + 1} /\ n + 1 \in Nat /\ a <= a
      OBVIOUS
    <2>2. /\ Cardinality(Above(C, a)) <= Cardinality(Above(C \cup {n + 1}, a))
          /\ Cardinality(Above(C, a)) \in Nat /\ Cardinality(Above(C \cup {n + 1}, a)) \in Nat
      BY <2>1, FewerAbove
    <2>3. KeepLimit \in Nat
      BY HistoryConstants
    <2> QED
      BY <1>1, <1>4, <2>2, <2>3 DEF Enough
  <1> QED
    BY <1>1, <1>2, <1>3, <1>4 DEF StandsFor, Enough

\* A step that leaves the clock, the notes and the row's lock alone.
LEMMA QuietNotes ==
  ASSUME HistoryInv, hist' = hist
  PROVE  Notes
  BY HistoryFacts DEF Notes

LEMMA OpenTurnMoves ==
  ASSUME HistoryInv, NEW t \in Turns, OpenTurn(t)
  PROVE  \E q : Moves(t, q)
  <1>1. /\ turn[t].pc = "idle" /\ clock' = clock /\ committed' = committed
        /\ conversation' = conversation /\ rowLock' = rowLock /\ reader' = reader
        /\ hist' = [hist EXCEPT !.overlapped = @ \/ Active # {}]
    BY DEF OpenTurn
  <1>2. /\ clock \in Nat /\ committed \subseteq 1 .. clock /\ hist \in HistoryKinds
        /\ conversation \in [summary : Seq(Nat), anchor : Nat, archived : BOOLEAN]
    BY HistoryFacts
  <1>3. Notes /\ (~hist'.overlapped => Active = {})
    BY <1>1, <1>2 DEF Notes, HistoryKinds
  <1>4. rowLock # t
    BY <1>1, HistoryConstants DEF HistoryInv, Locked
  <1>5. CASE conversation.archived
    <2> DEFINE q == [NoTurn EXCEPT !.pc = "failed"]
    <2>1. turn' = [turn EXCEPT ![t] = q]
      BY <1>5 DEF OpenTurn
    <2>2. /\ q \in HistoryTurn /\ q.pc = "failed" /\ q.user = 0
          /\ TurnStands(q, committed, hist', clock)
      BY <1>2, NothingStands DEF Stages, Stamped
    <2> HIDE DEF q
    <2>3. Stamps(t, q) /\ KeepsAlone(t, q) /\ KeepsLock(t, q) /\ Complete(t, q, committed, hist')
      BY <1>1, <1>3, <1>4, <2>2, HistoryConstants
         DEF Stamps, KeepsAlone, KeepsLock, Complete, UnstampedPcs, ActivePcs
    <2> QED
      BY <1>1, <1>3, <2>1, <2>2, <2>3 DEF Moves
  <1>6. CASE ~conversation.archived
    <2> DEFINE q == [NoTurn EXCEPT !.pc = "opened", !.summary = conversation.summary,
                                   !.anchor = conversation.anchor]
    <2>1. turn' = [turn EXCEPT ![t] = q]
      BY <1>6 DEF OpenTurn
    <2>2. /\ q \in HistoryTurn /\ q.pc = "opened" /\ q.user = 0 /\ q.recent = {}
          /\ q.summary = conversation.summary /\ q.anchor = conversation.anchor
      BY <1>2 DEF NoTurn, HistoryTurn, Stages
    <2> HIDE DEF q
    <2>3. RowStands(conversation, committed, hist, clock)
      BY DEF HistoryInv
    <2>4. StandsFor(Seen(q, committed), committed, q.anchor, Range(q.summary), hist')
      <3>1. StandsFor(committed, committed, q.anchor, Range(q.summary), hist)
        BY <2>2, <2>3 DEF RowStands
      <3>2. StandsFor(committed, committed, q.anchor, Range(q.summary), hist')
        BY <1>3, <3>1 DEF StandsFor, Covered, Notes
      <3>3. q.anchor \in Nat
        BY <2>2 DEF HistoryTurn
      <3> QED
        BY <1>2, <2>2, <3>2, <3>3, NothingOwn DEF Seen
    <2>5. TurnStands(q, committed, hist', clock)
      BY <1>2, <2>2, <2>3, <2>4 DEF TurnStands, RowStands, Stamped
    <2>6. Stamps(t, q) /\ KeepsAlone(t, q) /\ KeepsLock(t, q) /\ Complete(t, q, committed, hist')
      BY <1>1, <1>3, <1>4, <2>2, HistoryConstants
         DEF Stamps, KeepsAlone, KeepsLock, Complete, UnstampedPcs, ActivePcs
    <2> QED
      BY <1>1, <1>3, <2>1, <2>2, <2>5, <2>6 DEF Moves
  <1> QED
    BY <1>5, <1>6

LEMMA SaveMessageMoves ==
  ASSUME HistoryInv, NEW t \in Turns, SaveMessage(t)
  PROVE  \E q : Moves(t, q)
  <1> DEFINE p == turn[t]
             q == [p EXCEPT !.pc = "saved", !.user = clock + 1]
  <1>1. /\ p.pc = "opened" /\ clock' = clock + 1 /\ committed' = committed
        /\ conversation' = conversation /\ rowLock' = rowLock /\ reader' = reader /\ hist' = hist
    BY DEF SaveMessage
  <1>2. /\ clock \in Nat /\ committed \subseteq 1 .. clock /\ hist \in HistoryKinds
        /\ turn \in [Turns -> HistoryTurn] /\ p \in HistoryTurn
    BY HistoryFacts
  <1>3. Notes
    BY <1>1, QuietNotes
  <1>4. rowLock # t
    BY <1>1, HistoryConstants DEF HistoryInv, Locked
  <1>5. turn' = [turn EXCEPT ![t] = q]
    BY <1>2 DEF SaveMessage
  <1>6. /\ q \in HistoryTurn /\ q.pc = "saved" /\ q.user = clock + 1 /\ q.recent = p.recent
        /\ q.summary = p.summary /\ q.anchor = p.anchor
    <2>1. clock + 1 \in Nat
      BY <1>2
    <2> HIDE DEF p
    <2> QED
      BY <1>2, <2>1 DEF HistoryTurn, Stages
  <1>7. TurnStands(p, committed, hist, clock) /\ p.anchor \in Nat /\ p.user \in Nat
    BY <1>2 DEF HistoryInv, HistoryTurn
  <1> HIDE DEF q
  <1>8. /\ p.user = 0 /\ p.recent = {} /\ p.anchor <= clock /\ Listed(p.summary, p.anchor)
        /\ StandsFor(Seen(p, committed), committed, p.anchor, Range(p.summary), hist)
    BY <1>1, <1>7 DEF TurnStands, Stamped
  <1>9. StandsFor(Seen(q, committed), committed, q.anchor, Range(q.summary), hist')
    <2>1. StandsFor(committed \cup {0}, committed, p.anchor, Range(p.summary), hist)
      BY <1>8 DEF Seen
    <2>2. StandsFor(committed \cup {clock + 1}, committed, p.anchor, Range(p.summary), hist)
      BY <1>2, <1>7, <1>8, <2>1, NothingOwn
    <2> QED
      BY <1>1, <1>6, <2>2 DEF Seen
  <1>10. TurnStands(q, committed, hist', clock')
    <2>1. q.anchor <= clock' /\ q.user <= clock' /\ q.user > 0 /\ q.pc \in Stamped /\ q.recent = {}
      BY <1>1, <1>2, <1>6, <1>7, <1>8 DEF Stamped
    <2> QED
      BY <1>6, <1>8, <1>9, <2>1 DEF TurnStands
  <1>11. Stamps(t, q) /\ KeepsLock(t, q) /\ Complete(t, q, committed, hist')
    BY <1>1, <1>4, <1>6, HistoryConstants DEF Stamps, KeepsLock, Complete, UnstampedPcs
  <1>12. KeepsAlone(t, q)
    <2>1. t \in Active
      BY <1>1 DEF Active
    <2>2. \A e \in committed : e < q.user
      BY <1>2, <1>6
    <2> QED
      BY <2>1, <2>2 DEF KeepsAlone
  <1> QED
    BY <1>1, <1>3, <1>5, <1>6, <1>10, <1>11, <1>12 DEF Moves

LEMMA FailMoves ==
  ASSUME HistoryInv, NEW t \in Turns, Fail(t)
  PROVE  \E q : Moves(t, q)
  <1> DEFINE q == [NoTurn EXCEPT !.pc = "failed"]
  <1>1. /\ t \in Active /\ clock' = clock /\ committed' = committed
        /\ conversation' = conversation /\ reader' = reader /\ hist' = hist
        /\ rowLock' = (IF rowLock = t THEN 0 ELSE rowLock)
        /\ turn' = [turn EXCEPT ![t] = q]
    BY DEF Fail, Unlock, ReleaseRow
  <1>2. clock \in Nat /\ committed \subseteq 1 .. clock
    BY HistoryFacts
  <1>3. /\ q \in HistoryTurn /\ q.pc = "failed" /\ q.user = 0
        /\ TurnStands(q, committed, hist', clock)
    BY <1>2, NothingStands DEF Stages, Stamped
  <1> HIDE DEF q
  <1>4. Stamps(t, q) /\ KeepsAlone(t, q) /\ KeepsLock(t, q) /\ Complete(t, q, committed, hist')
    BY <1>1, <1>3, HistoryConstants
       DEF Stamps, KeepsAlone, KeepsLock, Complete, UnstampedPcs, Active
  <1>5. Notes
    BY <1>1, QuietNotes
  <1> QED
    BY <1>1, <1>3, <1>4, <1>5 DEF Moves

\* Where a turn goes on from what it had seen, what it had keeps standing.
LEMMA SameButStage ==
  ASSUME NEW n \in Nat, NEW C, NEW h, NEW p \in HistoryTurn, NEW q \in HistoryTurn,
         TurnStands(p, C, h, n), p.pc \in Stamped \ {"running"}, q.pc \in Stamped \ {"folding"},
         q.summary = p.summary, q.anchor = p.anchor, q.user = p.user, q.recent = {}
  PROVE  TurnStands(q, C, h, n)
  BY DEF TurnStands, Seen

\* The newest of the events to fold has enough after it, since the latest are
\* not folded; all before it are folded too, told already, late or beyond.
LEMMA LatestKept ==
  ASSUME NEW n \in Nat, NEW S, S \subseteq 0 .. n, NEW e \in S, e \notin Latest(S, KeepLimit)
  PROVE  Cardinality(Above(S, e)) >= KeepLimit
  <1>1. ~(Cardinality(Above(S, e)) < KeepLimit)
    BY DEF Latest, Above
  <1>2. Cardinality(Above(S, e)) \in Nat /\ KeepLimit \in Nat
    BY EventsFinite, HistoryConstants
  <1> QED
    BY <1>1, <1>2

Unsummarised(V, a) == {e \in Latest(V, FetchLimit) : e > a}
Folded(V, a) == Unsummarised(V, a) \ Latest(Unsummarised(V, a), KeepLimit)
Unfetched(V, a) == {e \in V : e > a} \ Unsummarised(V, a)

\* A turn that has seen V folds F of it, its notes going from h to k.
FoldBegins(n, C, u, h, k, a, R, V, F) ==
    /\ n \in Nat /\ C \subseteq 1 .. n /\ u \in 0 .. n /\ a \in Nat
    /\ V = C \cup {u} /\ F = Folded(V, a) /\ Covered(V, a, R, h) /\ h.late = k.late
    /\ h.unfetched \cup Unfetched(V, a) = k.unfetched
    /\ ~(Cardinality(Unsummarised(V, a)) <= KeepLimit)
FoldBegun(C, k, a, R, V, F) ==
    /\ F # {} /\ F \subseteq V /\ (\A e \in F : e > a) /\ Newest(F) \in F
    /\ StandsFor(V, C, Newest(F), R \cup F, k)
    /\ k.unfetched = {} => Few(V, Newest(F))

LEMMA FoldStarts ==
  ASSUME NEW n, NEW C, NEW u, NEW h, NEW k, NEW a, NEW R, NEW V, NEW F,
         FoldBegins(n, C, u, h, k, a, R, V, F)
  PROVE  FoldBegun(C, k, a, R, V, F)
  <1>0. /\ n \in Nat /\ C \subseteq 1 .. n /\ u \in 0 .. n /\ a \in Nat
        /\ V = C \cup {u} /\ F = Folded(V, a) /\ Covered(V, a, R, h) /\ h.late = k.late
        /\ h.unfetched \cup Unfetched(V, a) = k.unfetched
        /\ ~(Cardinality(Unsummarised(V, a)) <= KeepLimit)
    BY DEF FoldBegins
  <1> DEFINE T == Unsummarised(V, a)
             b == Newest(F)
  <1>1. V \subseteq 0 .. n /\ T \subseteq V /\ T \subseteq 0 .. n /\ \A e \in V : e \in Nat
    <2>1. V \subseteq 0 .. n
      BY <1>0
    <2>2. T \subseteq V
      BY DEF Unsummarised, Latest
    <2> HIDE DEF T
    <2> QED
      BY <1>0, <2>1, <2>2
  <1>2. F = T \ Latest(T, KeepLimit)
    BY <1>0 DEF Folded
  <1>3. IsFiniteSet(T) /\ Cardinality(T) \in Nat /\ KeepLimit \in Nat \ {0}
    BY <1>0, <1>1, EventsFinite, HistoryConstants
  <1> HIDE DEF T
  <1>4. F \subseteq T /\ F \subseteq 0 .. n /\ IsFiniteSet(F)
    BY <1>0, <1>1, <1>2, EventsFinite
  <1>5. ASSUME NEW e \in T PROVE e \in F <=> Cardinality(Above(T, e)) >= KeepLimit
    <2>1. e \in F => Cardinality(Above(T, e)) >= KeepLimit
      BY <1>0, <1>1, <1>2, LatestKept
    <2>2. Cardinality(Above(T, e)) >= KeepLimit => ~(Cardinality(Above(T, e)) < KeepLimit)
      <3>1. n \in Nat /\ Cardinality(Above(T, e)) \in Nat
        BY <1>0, <1>1, EventsFinite
      <3> QED
        BY <1>3, <3>1
    <2>3. e \in Latest(T, KeepLimit) => Cardinality(Above(T, e)) < KeepLimit
      BY DEF Latest, Above
    <2> QED
      BY <1>2, <2>1, <2>2, <2>3
  <1>6. F # {}
    <2>1. T # {}
      BY <1>0, <1>3, FS_EmptySet DEF T
    <2>2. PICK e \in T : \A f \in T : e <= f
      BY <1>0, <1>1, <1>3, <2>1, FirstAndLast
    <2>3. Above(T, e) = T \ {e}
      <3>1. \A f \in T : f \in Nat
        BY <1>0, <1>1
      <3>2. \A f \in T : f > e <=> f # e
        BY <2>2, <3>1
      <3> QED
        BY <3>2 DEF Above
    <2>4. Cardinality(T \ {e}) = Cardinality(T) - 1
      BY <1>3, FS_RemoveElement
    <2>5. ~(Cardinality(T) <= KeepLimit)
      BY <1>0 DEF T
    <2>6. Cardinality(Above(T, e)) >= KeepLimit
      BY <1>3, <2>3, <2>4, <2>5
    <2> QED
      BY <1>0, <1>5, <2>6
  <1>7. b \in F /\ \A e \in F : e <= b
    BY <1>0, <1>1, <1>4, <1>6, FirstAndLast
  <1>8. b \in T /\ b \in V /\ b \in Nat /\ b > a /\ Cardinality(Above(T, b)) >= KeepLimit
    BY <1>0, <1>1, <1>4, <1>5, <1>7 DEF T, Unsummarised
  <1> HIDE DEF b
  <1>9. Enough(V, b)
    <2>1. /\ Cardinality(Above(T, b)) <= Cardinality(Above(V, b))
          /\ Cardinality(Above(T, b)) \in Nat /\ Cardinality(Above(V, b)) \in Nat
      <3>1. b <= b
        BY <1>0, <1>8
      <3> QED
        BY <1>0, <1>1, <1>8, <3>1, FewerAbove
    <2> QED
      BY <1>0, <1>3, <1>8, <2>1 DEF Enough
  <1>10. Reached(C, b)
    <2>1. Above(T, b) # {}
      BY <1>0, <1>3, <1>8, FS_EmptySet
    <2>2. PICK f \in T : f > b
      BY <1>0, <2>1 DEF Above
    <2>3. f \in V /\ f # b /\ f \in Nat
      BY <1>0, <1>1, <1>8, <2>2
    <2>4. (f \in C /\ f >= b) \/ (b \in C /\ b >= b)
      BY <1>0, <1>8, <2>2, <2>3
    <2> QED
      BY <1>0, <2>4 DEF Reached
  <1>11. ASSUME NEW e \in T, e <= b PROVE e \in F
    <2>1. /\ Cardinality(Above(T, b)) <= Cardinality(Above(T, e))
          /\ Cardinality(Above(T, b)) \in Nat /\ Cardinality(Above(T, e)) \in Nat
      <3>1. e \in Nat /\ T \subseteq T
        BY <1>0, <1>1
      <3> QED
        BY <1>0, <1>1, <1>8, <1>11, <3>1, FewerAbove
    <2>2. Cardinality(Above(T, e)) >= KeepLimit
      BY <1>0, <1>3, <1>8, <2>1
    <2> QED
      BY <1>0, <1>5, <2>2
  <1>12. Covered(V, b, R \cup F, k)
    <2> SUFFICES ASSUME NEW e \in V, e \in 1 .. b
                 PROVE  e \in R \cup F \cup k.late \cup k.unfetched
      BY DEF Covered
    <2>1. CASE e <= a
      <3>1. e \in 1 .. a
        BY <1>0, <1>1, <2>1
      <3> QED
        BY <1>0, <3>1 DEF Covered
    <2>2. CASE e > a /\ e \in T
      BY <1>0, <1>11, <2>2
    <2>3. CASE e > a /\ e \notin T
      BY <1>0, <2>3 DEF Unfetched, T
    <2> QED
      BY <1>0, <1>1, <2>1, <2>2, <2>3
  <1>13. ASSUME k.unfetched = {} PROVE Few(V, b)
    <2>1. \A e \in V : e > a => e \in T
      BY <1>0, <1>13 DEF Unfetched, T
    <2> SUFFICES ASSUME NEW e \in V, e > b PROVE Cardinality(Above(V, e)) < KeepLimit
      BY DEF Few
    <2>2. e \in Nat /\ e > a /\ e \in T /\ ~(e <= b)
      BY <1>0, <1>1, <1>8, <2>1
    <2>3. Above(V, e) = Above(T, e)
      <3>1. \A f \in V : f > e => f \in T
        BY <1>0, <1>1, <2>1, <2>2
      <3> QED
        BY <1>0, <1>1, <3>1 DEF Above
    <2>4. ~(Cardinality(Above(T, e)) >= KeepLimit)
      BY <1>0, <1>5, <1>7, <2>2 DEF b
    <2>5. Cardinality(Above(T, e)) \in Nat
      BY <1>0, <1>1, EventsFinite
    <2> QED
      BY <1>3, <2>3, <2>4, <2>5
  <1>14. F # {} /\ F \subseteq V /\ (\A e \in F : e > a) /\ b \in F
    <2>1. \A e \in T : e > a
      BY DEF T, Unsummarised
    <2> QED
      BY <1>0, <1>1, <1>4, <1>6, <1>7, <2>1 DEF b
  <1>15. StandsFor(V, C, b, R \cup F, k)
    BY <1>0, <1>9, <1>10, <1>12 DEF StandsFor
  <1> QED
    BY <1>13, <1>14, <1>15 DEF b, FoldBegun

\* A tail that is short enough is all there is after the anchor.
LEMMA ShortTail ==
  ASSUME NEW n \in Nat, NEW V, V \subseteq 0 .. n, NEW a \in Nat,
         Cardinality(Unsummarised(V, a)) <= KeepLimit
  PROVE  Few(V, a)
  <1> DEFINE T == Unsummarised(V, a)
  <1>1. /\ KeepLimit \in Nat \ {0} /\ FetchLimit \in Nat \ {0} /\ KeepLimit < FetchLimit
        /\ T \subseteq V /\ T \subseteq 0 .. n /\ IsFiniteSet(T) /\ Cardinality(T) \in Nat
    <2>1. T \subseteq V
      BY DEF Unsummarised, Latest
    <2> HIDE DEF T
    <2>2. T \subseteq 0 .. n
      BY <2>1
    <2> QED
      BY <2>1, <2>2, HistoryConstants, EventsFinite
  <1>2. ASSUME NEW e \in V, e > a PROVE Cardinality(Above(V, e)) < KeepLimit
    <2>0. e \in Nat
      OBVIOUS
    <2>1. /\ IsFiniteSet(Above(V, e)) /\ Cardinality(Above(V, e)) \in Nat /\ e \in Nat
      BY <2>0, EventsFinite
    <2>2. CASE Above(V, e) \subseteq T
      <3>1. e \notin Above(V, e)
        BY <2>1 DEF Above
      <3>2. CASE e \in T
        <4>1. Above(V, e) \in SUBSET T /\ Above(V, e) # T
          BY <2>2, <3>1, <3>2
        <4> HIDE DEF T
        <4>2. /\ Cardinality(Above(V, e)) <= Cardinality(T)
              /\ Cardinality(Above(V, e)) # Cardinality(T)
          BY <1>1, <4>1, FS_Subset
        <4>3. Cardinality(T) <= KeepLimit
          BY DEF T
        <4> QED
          BY <1>1, <2>1, <4>2, <4>3
      <3>3. CASE e \notin T
        <4>1. ~(Cardinality(Above(V, e)) < FetchLimit)
          BY <1>2, <3>3 DEF Unsummarised, Latest, Above
        <4>2. Above(V, e) \in SUBSET T
          BY <2>2
        <4> HIDE DEF T
        <4>3. Cardinality(Above(V, e)) <= Cardinality(T)
          BY <1>1, <4>2, FS_Subset
        <4>4. Cardinality(T) <= KeepLimit
          BY DEF T
        <4> QED
          BY <1>1, <2>1, <4>1, <4>3, <4>4
      <3> QED
        BY <3>2, <3>3
    <2>3. CASE ~(Above(V, e) \subseteq T)
      <3> DEFINE L == {f \in V : f > a /\ f \notin T}
      <3>1. PICK f \in Above(V, e) : f \notin T
        BY <2>3
      <3>2. f \in V /\ f > e /\ f \in Nat
        BY <3>1 DEF Above
      <3>3. f > a
        BY <1>2, <2>1, <3>2
      <3>4. f \in L
        BY <3>1, <3>2, <3>3
      <3>5. IsFiniteSet(L) /\ L \subseteq Nat
        <4>1. L \subseteq 0 .. n
          OBVIOUS
        <4> QED
          BY <4>1, EventsFinite
      <3> HIDE DEF L
      <3>6. Newest(L) \in L /\ \A g \in L : g <= Newest(L)
        BY <3>4, <3>5, FirstAndLast
      <3> DEFINE g == Newest(L)
      <3>7. g \in V /\ g > a /\ g \notin T /\ g \in Nat
        BY <3>5, <3>6 DEF L
      <3>8. ~(Cardinality(Above(V, g)) < FetchLimit)
        BY <3>7 DEF Unsummarised, Latest, Above
      <3>9. Above(V, g) \subseteq T
        <4>1. \A c \in V : c \in Nat
          OBVIOUS
        <4> SUFFICES ASSUME NEW c \in V, c > g, c \notin T PROVE FALSE
          BY DEF Above
        <4>2. c > a
          BY <3>7, <4>1
        <4>3. c \in L
          BY <4>2 DEF L
        <4>4. c <= g
          BY <3>6, <4>3
        <4> QED
          BY <3>7, <4>1, <4>4
      <3>10. Cardinality(Above(V, g)) <= Cardinality(T) /\ Cardinality(Above(V, g)) \in Nat
        <4> HIDE DEF T, g
        <4> QED
          BY <1>1, <3>9, FS_Subset, EventsFinite
      <3>11. Cardinality(T) <= KeepLimit
        OBVIOUS
      <3> HIDE DEF T, g
      <3> QED
        BY <1>1, <3>8, <3>10, <3>11
    <2> QED
      BY <2>2, <2>3
  <1> QED
    BY <1>2 DEF Few

LEMMA SeenWithin ==
  ASSUME NEW n \in Nat, NEW C, C \subseteq 1 .. n, NEW q, q.user \in 1 .. n
  PROVE  Seen(q, C) \subseteq 1 .. n /\ Seen(q, C) \subseteq 0 .. n
  <1>1. Seen(q, C) \subseteq 1 .. n
    BY DEF Seen
  <1> HIDE DEF Seen
  <1> QED
    BY <1>1

\* A turn under way, and the steps that leave everything but its record alone.
LEMMA Going ==
  ASSUME HistoryInv, NEW t \in Turns, turn[t].pc \in Stamped \ {"running"}
  PROVE  /\ clock \in Nat /\ committed \subseteq 1 .. clock /\ hist \in HistoryKinds
         /\ turn \in [Turns -> HistoryTurn] /\ turn[t] \in HistoryTurn /\ t \in Active
         /\ turn[t].recent = {} /\ turn[t].user > 0 /\ turn[t].user \in 0 .. clock
         /\ turn[t].anchor \in Nat /\ turn[t].anchor <= clock
         /\ turn[t].pc \notin UnstampedPcs /\ turn[t].pc # "done"
         /\ TurnStands(turn[t], committed, hist, clock) /\ Complete(t, turn[t], committed, hist)
         /\ StandsFor(Seen(turn[t], committed), committed, turn[t].anchor,
                      Range(turn[t].summary), hist)
         /\ ~hist.overlapped => \A e \in committed : e < turn[t].user
         /\ Seen(turn[t], committed) \subseteq 1 .. clock
         /\ Seen(turn[t], committed) \subseteq 0 .. clock
  <1>1. /\ clock \in Nat /\ committed \subseteq 1 .. clock /\ hist \in HistoryKinds
        /\ turn \in [Turns -> HistoryTurn] /\ turn[t] \in HistoryTurn
    BY HistoryFacts
  <1>2. TurnStands(turn[t], committed, hist, clock) /\ Complete(t, turn[t], committed, hist)
    BY DEF HistoryInv
  <1>3. turn[t].anchor \in Nat /\ turn[t].user \in Nat /\ turn[t].user <= clock
    BY <1>1, <1>2 DEF HistoryTurn, TurnStands
  <1>4. turn[t].user > 0 /\ turn[t].recent = {} /\ turn[t].anchor <= clock
    BY <1>2 DEF TurnStands, Stamped
  <1>5. t \in Active /\ turn[t].pc \notin UnstampedPcs /\ turn[t].pc # "done"
    BY DEF Active, Stamped, UnstampedPcs
  <1>6. ~hist.overlapped => \A e \in committed : e < turn[t].user
    BY <1>4 DEF HistoryInv, Alone
  <1>7. turn[t].user \in 1 .. clock
    BY <1>1, <1>3, <1>4
  <1>8. Seen(turn[t], committed) \subseteq 1 .. clock /\ Seen(turn[t], committed) \subseteq 0 .. clock
    BY <1>1, <1>7, SeenWithin
  <1> QED
    BY <1>1, <1>2, <1>3, <1>4, <1>5, <1>6, <1>8 DEF TurnStands

LEMMA StageMoves ==
  ASSUME HistoryInv, NEW t \in Turns, turn[t].pc \in Stamped \ {"running"}, NEW q \in HistoryTurn,
         turn' = [turn EXCEPT ![t] = q], q.user = turn[t].user, q.pc \in Stamped,
         clock' = clock, UNCHANGED <<committed, conversation, reader>>, Notes, KeepsLock(t, q),
         TurnStands(q, committed, hist', clock), Complete(t, q, committed, hist')
  PROVE  Moves(t, q)
  <1>1. Stamps(t, q)
    BY Going DEF Stamps, Stamped, UnstampedPcs
  <1>2. KeepsAlone(t, q)
    BY Going DEF KeepsAlone, Notes
  <1> QED
    BY <1>1, <1>2 DEF Moves

\* The notes may grow under what a turn stands for.
LEMMA NotesKeepTurn ==
  ASSUME HistoryInv, Notes, NEW q \in HistoryTurn, TurnStands(q, committed, hist, clock)
  PROVE  TurnStands(q, committed, hist', clock)
  <1>1. clock \in Nat /\ committed \subseteq 0 .. clock /\ clock <= clock
    BY HistoryFacts
  <1>2. Goes(committed, committed, hist, hist')
    BY DEF Goes, Notes
  <1> QED
    BY <1>1, <1>2, TurnStillStands

LEMMA FetchTailMoves ==
  ASSUME HistoryInv, NEW t \in Turns, FetchTail(t)
  PROVE  \E q : Moves(t, q)
  <1> DEFINE p == turn[t]
             V == committed \cup {p.user}
             a == p.anchor
  <1>1. /\ p.pc = "saved" /\ clock' = clock /\ committed' = committed
        /\ conversation' = conversation /\ rowLock' = rowLock /\ reader' = reader
    BY DEF FetchTail
  <1>2. /\ Visible(t) = V /\ UnsummarizedTail(t) = Unsummarised(V, a) /\ Seen(p, committed) = V
    BY DEF Visible, UnsummarizedTail, Unsummarised, Seen
  <1>3. p.pc \in Stamped \ {"running"}
    BY <1>1 DEF Stamped
  <1>4. /\ clock \in Nat /\ committed \subseteq 1 .. clock /\ hist \in HistoryKinds
        /\ turn \in [Turns -> HistoryTurn] /\ p \in HistoryTurn /\ p.recent = {}
        /\ p.user \in 0 .. clock /\ a \in Nat /\ TurnStands(p, committed, hist, clock)
        /\ Complete(t, p, committed, hist)
        /\ StandsFor(V, committed, a, Range(p.summary), hist)
    BY <1>2, <1>3, Going
  <1>5. rowLock # t
    BY <1>1, HistoryConstants DEF HistoryInv, Locked
  <1>6. CASE Cardinality(Unsummarised(V, a)) <= KeepLimit
    <2> DEFINE q == [p EXCEPT !.pc = "summarized"]
    <2>1. turn' = [turn EXCEPT ![t] = q] /\ hist' = hist
      BY <1>2, <1>4, <1>6 DEF FetchTail
    <2>2. /\ q \in HistoryTurn /\ q.pc = "summarized" /\ q.summary = p.summary
          /\ q.anchor = p.anchor /\ q.user = p.user /\ q.recent = {}
      <3> HIDE DEF p
      <3> QED
        BY <1>4 DEF HistoryTurn, Stages
    <2> HIDE DEF q
    <2>3. V \subseteq 0 .. clock
      BY <1>2, <1>3, Going
    <2>4. Few(V, a)
      <3> HIDE DEF V, a
      <3> QED
        BY <1>4, <1>6, <2>3, ShortTail
    <2>5. Seen(q, committed) = V
      BY <2>2 DEF Seen
    <2>6. Complete(t, q, committed, hist')
      BY <2>2, <2>4, <2>5 DEF Complete
    <2>7. q.pc \in Stamped \ {"folding"}
      BY <2>2 DEF Stamped
    <2>8. TurnStands(q, committed, hist', clock)
      <3> HIDE DEF p
      <3> QED
        BY <1>3, <1>4, <2>1, <2>2, <2>7, SameButStage
    <2>9. Notes /\ KeepsLock(t, q)
      BY <1>1, <1>5, <2>1, HistoryConstants, QuietNotes DEF KeepsLock
    <2>10. Moves(t, q)
      BY <1>1, <1>3, <2>1, <2>2, <2>6, <2>7, <2>8, <2>9, StageMoves
    <2> QED
      BY <2>10
  <1>7. CASE ~(Cardinality(Unsummarised(V, a)) <= KeepLimit)
    <2> DEFINE F == Folded(V, a)
               q == [p EXCEPT !.pc = "folding", !.fold = F]
               k == [hist EXCEPT !.unfetched = @ \cup Unfetched(V, a)]
    <2>1. turn' = [turn EXCEPT ![t] = q] /\ hist' = k
      BY <1>2, <1>4, <1>7 DEF FetchTail, Folded, Unfetched
    <2>2. /\ k.late = hist.late /\ k.unfetched = hist.unfetched \cup Unfetched(V, a)
          /\ k.foldFailed = hist.foldFailed /\ k.overlapped = hist.overlapped
      BY <1>4 DEF HistoryKinds
    <2> HIDE DEF k
    <2>3. Covered(V, a, Range(p.summary), hist)
      BY <1>4 DEF StandsFor
    <2>4. /\ F # {} /\ F \subseteq V /\ (\A e \in F : e > a) /\ Newest(F) \in F
          /\ StandsFor(V, committed, Newest(F), Range(p.summary) \cup F, k)
          /\ k.unfetched = {} => Few(V, Newest(F))
      <3> DEFINE u == p.user
                 R == Range(p.summary)
      <3>1. FoldBegins(clock, committed, u, hist, k, a, R, V, F)
        BY <1>4, <1>7, <2>2, <2>3 DEF FoldBegins
      <3> HIDE DEF a, u, R, V, F
      <3>2. FoldBegun(committed, k, a, R, V, F)
        BY <3>1, FoldStarts
      <3> QED
        BY <3>2 DEF FoldBegun, R
    <2>5. V \subseteq 0 .. clock
      BY <1>2, <1>3, Going
    <2>6. F \in SUBSET Nat
      BY <2>4, <2>5
    <2> HIDE DEF F
    <2>7. /\ q \in HistoryTurn /\ q.pc = "folding" /\ q.fold = F /\ q.summary = p.summary
          /\ q.anchor = p.anchor /\ q.user = p.user /\ q.recent = {}
      <3> HIDE DEF p
      <3> QED
        BY <1>4, <2>6 DEF HistoryTurn, Stages
    <2> HIDE DEF q
    <2>8. Seen(q, committed) = V
      BY <2>7 DEF Seen
    <2>9. Notes
      <3>1. hist' \in HistoryKinds
        <4>1. V \subseteq Nat
          BY <2>5
        <4>2. Unfetched(V, a) \subseteq Nat
          BY <4>1 DEF Unfetched
        <4> QED
          BY <1>4, <2>1, <4>2 DEF HistoryKinds, k
      <3> QED
        BY <2>1, <2>2, <3>1 DEF Notes
    <2>10. Complete(t, q, committed, hist')
      BY <2>1, <2>4, <2>7, <2>8 DEF Complete
    <2>11. TurnStands(p, committed, hist', clock)
      BY <1>4, <2>9, NotesKeepTurn
    <2>12. FoldStands(q, committed, hist')
      BY <2>1, <2>4, <2>7, <2>8 DEF FoldStands
    <2>13. TurnStands(q, committed, hist', clock)
      <3>1. p.user > 0 /\ q.pc \in Stamped
        BY <1>3, <2>7, Going DEF Stamped
      <3> QED
        BY <1>2, <2>7, <2>8, <2>11, <2>12, <3>1 DEF TurnStands
    <2>14. KeepsLock(t, q) /\ q.pc \in Stamped
      BY <1>1, <1>5, <2>7, HistoryConstants DEF KeepsLock, Stamped
    <2>15. Moves(t, q)
      BY <1>1, <1>3, <2>1, <2>7, <2>9, <2>10, <2>13, <2>14, StageMoves
    <2> QED
      BY <2>15
  <1> QED
    BY <1>6, <1>7

LEMMA StoreSummaryMoves ==
  ASSUME HistoryInv, NEW t \in Turns, StoreSummary(t)
  PROVE  \E q : Moves(t, q)
  <1> DEFINE p == turn[t]
             F == p.fold
             s == p.summary \o Chronological(F)
             q == [p EXCEPT !.pc = "summarized", !.summary = s, !.anchor = Newest(F)]
  <1>1. /\ p.pc = "folding" /\ clock' = clock /\ committed' = committed
        /\ conversation' = conversation /\ rowLock' = t /\ reader' = reader /\ hist' = hist
    BY DEF StoreSummary
  <1>2. p.pc \in Stamped \ {"running"}
    BY <1>1 DEF Stamped
  <1>3. /\ clock \in Nat /\ committed \subseteq 1 .. clock /\ turn \in [Turns -> HistoryTurn]
        /\ p \in HistoryTurn /\ p.recent = {} /\ p.user > 0 /\ p.user \in 0 .. clock
        /\ p.anchor \in Nat /\ TurnStands(p, committed, hist, clock)
        /\ Complete(t, p, committed, hist)
    BY <1>2, Going
  <1>4. turn' = [turn EXCEPT ![t] = q]
    BY <1>3 DEF StoreSummary, PreviousSummary, AnchorOf
  <1>5. FoldStands(p, committed, hist) /\ Listed(p.summary, p.anchor)
    BY <1>1, <1>3 DEF TurnStands
  <1>6. /\ F # {} /\ F \subseteq Seen(p, committed) /\ \A e \in F : e > p.anchor
        /\ StandsFor(Seen(p, committed), committed, Newest(F), Range(p.summary) \cup F, hist)
    BY <1>5 DEF FoldStands
  <1>7. Seen(p, committed) \subseteq 0 .. clock
    BY <1>2, Going
  <1>8. F \subseteq 0 .. clock /\ F \subseteq Nat /\ IsFiniteSet(F)
    <2>1. F \subseteq 0 .. clock /\ clock \in Nat
      BY <1>3, <1>6, <1>7
    <2> HIDE DEF F
    <2>2. IsFiniteSet(F)
      BY <2>1, EventsFinite
    <2> QED
      BY <2>1, <2>2
  <1>9. Newest(F) \in F
    BY <1>6, <1>8, FirstAndLast
  <1>10. s \in Seq(Nat) /\ Range(s) = Range(p.summary) \cup F /\ Listed(s, Newest(F))
    <2>1. p.summary \in Seq(Nat)
      BY <1>3 DEF HistoryTurn
    <2> QED
      BY <1>3, <1>5, <1>6, <1>8, <2>1, Joined
  <1>11. Newest(F) \in Nat /\ Newest(F) <= clock
    BY <1>8, <1>9
  <1> HIDE DEF F, s
  <1>12. /\ q \in HistoryTurn /\ q.pc = "summarized" /\ q.summary = s /\ q.anchor = Newest(F)
         /\ q.user = p.user /\ q.recent = {}
    <2> HIDE DEF p
    <2> QED
      BY <1>3, <1>10, <1>11 DEF HistoryTurn, Stages
  <1> HIDE DEF q
  <1>13. Seen(q, committed) = Seen(p, committed)
    BY <1>12 DEF Seen
  <1>14. q.pc \in Stamped /\ q.user <= clock /\ q.user > 0
    BY <1>3, <1>12 DEF Stamped
  <1>15. TurnStands(q, committed, hist', clock)
    BY <1>1, <1>6, <1>10, <1>11, <1>12, <1>13, <1>14 DEF TurnStands
  <1>16. Complete(t, q, committed, hist')
    BY <1>1, <1>3, <1>12, <1>13 DEF Complete, F
  <1>17. Notes /\ KeepsLock(t, q)
    BY <1>1, <1>12, QuietNotes DEF KeepsLock
  <1>18. Moves(t, q)
    BY <1>1, <1>2, <1>4, <1>12, <1>14, <1>15, <1>16, <1>17, StageMoves
  <1> QED
    BY <1>18

LEMMA SummarizationFailsMoves ==
  ASSUME HistoryInv, NEW t \in Turns, SummarizationFails(t)
  PROVE  \E q : Moves(t, q)
  <1> DEFINE p == turn[t]
             q == [p EXCEPT !.pc = "summarized"]
  <1>1. /\ p.pc = "folding" /\ clock' = clock /\ committed' = committed
        /\ conversation' = conversation /\ rowLock' = rowLock /\ reader' = reader
        /\ hist' = [hist EXCEPT !.foldFailed = @ \cup {t}]
    BY DEF SummarizationFails
  <1>2. p.pc \in Stamped \ {"running"}
    BY <1>1 DEF Stamped
  <1>3. /\ turn \in [Turns -> HistoryTurn] /\ hist \in HistoryKinds
        /\ p \in HistoryTurn /\ p.recent = {} /\ TurnStands(p, committed, hist, clock)
    BY <1>2, Going
  <1>4. turn' = [turn EXCEPT ![t] = q]
    BY <1>3 DEF SummarizationFails
  <1>5. Notes /\ t \in hist'.foldFailed
    BY <1>1, <1>3 DEF Notes, HistoryKinds
  <1>6. /\ q \in HistoryTurn /\ q.pc = "summarized" /\ q.summary = p.summary
        /\ q.anchor = p.anchor /\ q.user = p.user /\ q.recent = {}
    <2> HIDE DEF p
    <2> QED
      BY <1>3 DEF HistoryTurn, Stages
  <1> HIDE DEF q
  <1>7. q.pc \in Stamped \ {"folding"} /\ q.pc \in Stamped
    BY <1>6 DEF Stamped
  <1>8. clock \in Nat
    BY HistoryFacts
  <1>9. TurnStands(q, committed, hist', clock)
    <2>1. TurnStands(p, committed, hist', clock)
      BY <1>3, <1>5, NotesKeepTurn
    <2> HIDE DEF p
    <2> QED
      BY <1>2, <1>3, <1>6, <1>7, <1>8, <2>1, SameButStage
  <1>10. Complete(t, q, committed, hist')
    BY <1>5 DEF Complete
  <1>11. KeepsLock(t, q)
    BY <1>1, <1>6 DEF KeepsLock
  <1>12. Moves(t, q)
    BY <1>1, <1>2, <1>4, <1>5, <1>6, <1>7, <1>9, <1>10, <1>11, StageMoves
  <1> QED
    BY <1>12

LEMMA BuildHistoryMoves ==
  ASSUME HistoryInv, NEW t \in Turns, BuildHistory(t)
  PROVE  \E q : Moves(t, q)
  <1> DEFINE p == turn[t]
             V == Seen(p, committed)
             recent == Latest(V, KeepLimit) \ {p.user}
             q == [p EXCEPT !.pc = "running", !.recent = recent]
  <1>1. /\ p.pc = "summarized" /\ clock' = clock /\ committed' = committed
        /\ conversation' = conversation /\ rowLock' = rowLock /\ reader' = reader /\ hist' = hist
    BY DEF BuildHistory
  <1>2. p.pc \in Stamped \ {"running"}
    BY <1>1 DEF Stamped
  <1>3. /\ clock \in Nat /\ committed \subseteq 1 .. clock /\ turn \in [Turns -> HistoryTurn]
        /\ p \in HistoryTurn /\ p.user > 0 /\ p.user \in 0 .. clock /\ p.anchor \in Nat
        /\ TurnStands(p, committed, hist, clock) /\ Complete(t, p, committed, hist)
        /\ StandsFor(V, committed, p.anchor, Range(p.summary), hist)
        /\ ~hist.overlapped => \A e \in committed : e < p.user
    BY <1>2, Going
  <1>4. turn' = [turn EXCEPT ![t] = q]
    BY <1>3 DEF BuildHistory, Visible, Seen
  <1>5. V \subseteq 1 .. clock /\ V \subseteq 0 .. clock /\ recent \subseteq V
    <2>1. V \subseteq 1 .. clock
      BY <1>2, Going
    <2>2. Latest(V, KeepLimit) \subseteq V
      BY DEF Latest
    <2> QED
      BY <2>1, <2>2
  <1> HIDE DEF V
  <1>6. \A e \in V : e \in recent <=> Cardinality(Above(V, e)) < KeepLimit /\ e # p.user
    BY DEF Latest, Above
  <1> HIDE DEF recent
  <1>7. /\ q \in HistoryTurn /\ q.pc = "running" /\ q.summary = p.summary
        /\ q.anchor = p.anchor /\ q.user = p.user /\ q.recent = recent /\ q.fold = p.fold
    <2>1. recent \subseteq Nat
      BY <1>5
    <2> HIDE DEF p
    <2> QED
      BY <1>3, <2>1 DEF HistoryTurn, Stages
  <1> HIDE DEF q
  <1>8. Listed(p.summary, p.anchor)
    BY <1>3 DEF TurnStands
  <1>9. recent \cap Range(p.summary) = {}
    <2> SUFFICES ASSUME NEW e \in recent, e \in Range(p.summary) PROVE FALSE
      OBVIOUS
    <2>1. e \in 1 .. p.anchor /\ e \in V /\ e \in Nat /\ p.anchor > 0 /\ e <= p.anchor
      BY <1>3, <1>5, <1>8 DEF Listed
    <2>2. /\ Cardinality(Above(V, p.anchor)) <= Cardinality(Above(V, e))
          /\ Cardinality(Above(V, p.anchor)) \in Nat /\ Cardinality(Above(V, e)) \in Nat
      <3>1. V \subseteq V
        OBVIOUS
      <3> QED
        BY <1>3, <1>5, <2>1, <3>1, FewerAbove
    <2>3. Cardinality(Above(V, p.anchor)) >= KeepLimit /\ Cardinality(Above(V, e)) < KeepLimit
      BY <1>3, <1>6, <2>1 DEF StandsFor, Enough
    <2> QED
      BY <2>2, <2>3, HistoryConstants
  <1>10. TurnStands(q, committed, hist', clock)
    <2>1. q.pc \in Stamped /\ q.recent \subseteq 1 .. clock /\ Seen(q, committed) = V
      BY <1>5, <1>7 DEF Stamped, Seen, V
    <2>2. p.user <= clock /\ p.anchor <= clock
      BY <1>3 DEF TurnStands
    <2> QED
      BY <1>1, <1>3, <1>7, <1>8, <1>9, <2>1, <2>2 DEF TurnStands
  <1>11. Complete(t, q, committed, hist')
    <2> SUFFICES ASSUME ~hist.overlapped, t \notin hist.foldFailed, hist.unfetched = {},
                        NEW e \in committed
                 PROVE  e \in Range(p.summary) \cup recent
      BY <1>1, <1>7 DEF Complete
    <2>1. e \in V /\ e < p.user /\ e \in 1 .. clock
      BY <1>3 DEF V, Seen
    <2>2. CASE e <= p.anchor
      <3>1. hist.late = {}
        BY DEF HistoryInv, Alone
      <3>2. e \in 1 .. p.anchor
        BY <1>3, <2>1, <2>2
      <3> QED
        BY <1>3, <2>1, <3>1, <3>2 DEF StandsFor, Covered
    <2>3. CASE e > p.anchor
      <3>1. Few(V, p.anchor)
        BY <1>1, <1>3 DEF Complete, V
      <3> QED
        BY <1>3, <1>6, <2>1, <2>3, <3>1 DEF Few
    <2> QED
      BY <1>3, <2>1, <2>2, <2>3
  <1>12. Notes /\ KeepsLock(t, q) /\ q.pc \in Stamped
    BY <1>1, <1>7, QuietNotes DEF KeepsLock, Stamped
  <1>13. Moves(t, q)
    BY <1>1, <1>2, <1>4, <1>7, <1>10, <1>11, <1>12, StageMoves
  <1> QED
    BY <1>13

-----------------------------------------------------------------------------
(* A turn that commits *)

\* What an answer does, its turn's record before it and the notes after it named.
LEMMA AnswerFacts ==
  ASSUME HistoryInv, NEW t \in Turns, Answer(t)
  PROVE  /\ turn[t].pc = "running" /\ t \in Active
         /\ turn[t].user > 0 /\ turn[t].user \in 1 .. clock
         /\ TurnStands(turn[t], committed, hist, clock)
         /\ clock' = clock + 1 /\ clock' \in Nat /\ reader' = reader
         /\ committed' = committed \cup {turn[t].user, clock + 1}
         /\ committed' \subseteq 1 .. clock' /\ committed' \subseteq 0 .. clock'
         /\ turn' \in [Turns -> HistoryTurn] /\ turn'[t] = [NoTurn EXCEPT !.pc = "done"]
         /\ \A s \in Turns : s # t => turn'[s] = turn[s]
         /\ hist' \in HistoryKinds /\ hist'.unfetched = hist.unfetched
         /\ hist'.foldFailed = hist.foldFailed /\ hist'.overlapped = hist.overlapped
         /\ hist.late \subseteq hist'.late
         /\ (\E e \in committed : e > turn[t].user) => turn[t].user \in hist'.late
         /\ ~(\E e \in committed : e > turn[t].user) => hist'.late = hist.late
         /\ Goes(committed, committed', hist, hist')
  <1>1. /\ turn[t].pc = "running" /\ clock' = clock + 1 /\ reader' = reader
        /\ committed' = committed \cup {turn[t].user, clock + 1}
        /\ turn' = [turn EXCEPT ![t] = [NoTurn EXCEPT !.pc = "done"]]
        /\ hist' = [hist EXCEPT !.late =
               IF \E e \in committed : e > turn[t].user THEN @ \cup {turn[t].user} ELSE @]
    BY DEF Answer
  <1>2. /\ clock \in Nat /\ committed \subseteq 1 .. clock /\ hist \in HistoryKinds
        /\ turn \in [Turns -> HistoryTurn] /\ turn[t] \in HistoryTurn
    BY HistoryFacts
  <1>3. TurnStands(turn[t], committed, hist, clock)
    BY DEF HistoryInv
  <1>4. turn[t].user > 0 /\ turn[t].user \in Nat /\ turn[t].user <= clock
    BY <1>1, <1>2, <1>3 DEF TurnStands, Stamped, HistoryTurn
  <1>5. turn[t].user \in 1 .. clock /\ clock' \in Nat
    BY <1>1, <1>2, <1>4
  <1>6. committed' \subseteq 1 .. clock' /\ committed' \subseteq 0 .. clock'
    BY <1>1, <1>2, <1>5
  <1>7. [NoTurn EXCEPT !.pc = "done"] \in HistoryTurn
    BY <1>2, NothingStands DEF Stages, Stamped
  <1>8. /\ turn' \in [Turns -> HistoryTurn] /\ turn'[t] = [NoTurn EXCEPT !.pc = "done"]
        /\ \A s \in Turns : s # t => turn'[s] = turn[s]
    BY <1>1, <1>2, <1>7
  <1> DEFINE u == turn[t].user
             Passed == \E e \in committed : e > u
  <1>9. /\ hist' \in HistoryKinds /\ hist'.unfetched = hist.unfetched
        /\ hist'.foldFailed = hist.foldFailed /\ hist'.overlapped = hist.overlapped
        /\ hist'.late = IF Passed THEN hist.late \cup {u} ELSE hist.late
    <2>1. hist' = [hist EXCEPT !.late = IF Passed THEN @ \cup {u} ELSE @] /\ u \in Nat
      BY <1>1, <1>4
    <2> HIDE DEF Passed, u
    <2> QED
      BY <1>2, <2>1 DEF HistoryKinds
  <1>10. hist.late \subseteq hist'.late /\ (Passed => u \in hist'.late)
         /\ (~Passed => hist'.late = hist.late)
    <2> HIDE DEF Passed, u
    <2> QED
      BY <1>9
  <1>11. Goes(committed, committed', hist, hist')
    <2>1. ASSUME NEW e \in committed' \ committed, NEW f \in committed, f > e
          PROVE  e \in hist'.late
      <3>1. CASE e = u
        BY <1>10, <2>1, <3>1
      <3>2. CASE e = clock + 1
        <4>1. f \in 1 .. clock
          BY <1>2
        <4> QED
          BY <1>2, <2>1, <3>2, <4>1
      <3> QED
        BY <1>1, <3>1, <3>2
    <2>2. committed \subseteq committed'
      BY <1>1
    <2> QED
      BY <1>9, <1>10, <2>1, <2>2 DEF Goes
  <1>12. t \in Active
    BY <1>1 DEF Active
  <1> QED
    BY <1>1, <1>3, <1>4, <1>5, <1>6, <1>8, <1>9, <1>10, <1>11, <1>12

LEMMA AnswerCounted ==
  ASSUME HistoryInv, NEW t \in Turns, Answer(t)
  PROVE  Counted'
  <1>1. /\ turn[t].pc = "running" /\ clock' = clock + 1 /\ clock \in Nat
        /\ turn'[t] = [NoTurn EXCEPT !.pc = "done"]
        /\ \A s \in Turns : s # t => turn'[s] = turn[s]
    BY AnswerFacts, HistoryFacts
  <1>2. turn'[t].pc = "done"
    BY <1>1 DEF NoTurn
  <1>3. Begun' = Begun /\ Answered \in SUBSET Answered' /\ t \in Answered' \ Answered
    BY <1>1, <1>2 DEF Begun, Answered
  <1>4. IsFiniteSet(Answered') /\ Cardinality(Begun) \in Nat
    <2>1. Answered' \in SUBSET Turns
      BY DEF Answered
    <2> QED
      BY <2>1, HistoryConstants, FS_Subset, CountedFinite
  <1> DEFINE old == Cardinality(Answered)
             new == Cardinality(Answered')
             more == Cardinality(Begun)
  <1>5. old + 1 <= new /\ old \in Nat /\ new \in Nat
    BY <1>3, <1>4, CountGrows
  <1>6. clock <= more + old /\ more \in Nat
    BY <1>4 DEF HistoryInv, Counted
  <1>7. clock' <= more + new
    <2> HIDE DEF old, new, more
    <2> QED
      BY <1>1, <1>5, <1>6
  <1> QED
    BY <1>3, <1>7 DEF Counted

LEMMA AnswerRow ==
  ASSUME HistoryInv, NEW t \in Turns, Answer(t)
  PROVE  /\ conversation' \in [summary : Seq(Nat), anchor : Nat, archived : BOOLEAN]
         /\ RowStands(conversation', committed', hist', clock')
         /\ rowLock' \in {0} \cup Turns /\ Locked'
  <1> DEFINE q == turn[t]
  <1>1. /\ clock \in Nat /\ clock' \in Nat /\ clock <= clock' /\ committed' \subseteq 0 .. clock'
        /\ Goes(committed, committed', hist, hist') /\ q \in HistoryTurn
        /\ TurnStands(q, committed, hist, clock) /\ q.user \in 1 .. clock
        /\ committed' = committed \cup {q.user, clock + 1}
        /\ rowLock \in {0} \cup Turns /\ \A s \in Turns : s # t => turn'[s] = turn[s]
        /\ conversation \in [summary : Seq(Nat), anchor : Nat, archived : BOOLEAN]
    <2>1. clock \in Nat /\ clock' = clock + 1
      BY AnswerFacts, HistoryFacts
    <2>2. clock <= clock'
      BY <2>1
    <2> QED
      BY <2>1, <2>2, AnswerFacts, HistoryFacts
  <1>2. conversation' = RowAfter(t) /\ rowLock' = IF rowLock = t THEN 0 ELSE rowLock
    BY DEF Answer, ReleaseRow
  <1>3. rowLock' \in {0} \cup Turns
    BY <1>1, <1>2
  <1>4. Locked'
    BY <1>1, <1>2 DEF HistoryInv, Locked
  <1>5. CASE rowLock = t
    <2>1. conversation' = [conversation EXCEPT !.summary = q.summary, !.anchor = q.anchor]
      BY <1>2, <1>5 DEF RowAfter
    <2>2. q.summary \in Seq(Nat) /\ q.anchor \in Nat
      BY <1>1 DEF HistoryTurn
    <2> HIDE DEF q
    <2>3. /\ conversation' \in [summary : Seq(Nat), anchor : Nat, archived : BOOLEAN]
          /\ conversation'.summary = q.summary /\ conversation'.anchor = q.anchor
      BY <1>1, <2>1, <2>2
    <2>4. /\ q.anchor <= clock /\ Listed(q.summary, q.anchor)
          /\ StandsFor(Seen(q, committed), committed, q.anchor, Range(q.summary), hist)
      BY <1>1 DEF TurnStands
    <2>5. /\ Seen(q, committed) \subseteq committed' /\ committed' \subseteq committed'
          /\ committed' \ Seen(q, committed) \subseteq committed' \ committed
      BY <1>1 DEF Seen
    <2>6. StandsFor(committed', committed', q.anchor, Range(q.summary), hist')
      <3> DEFINE S == Seen(q, committed)
                 R == Range(q.summary)
                 a == q.anchor
                 D == committed'
                 k == hist'
                 m == clock'
      <3>1. /\ m \in Nat /\ D \subseteq 0 .. m /\ Goes(committed, D, hist, k) /\ S \subseteq D
            /\ D \ S \subseteq D \ committed /\ a \in Nat /\ StandsFor(S, committed, a, R, hist)
        BY <1>1, <2>2, <2>4, <2>5
      <3> HIDE DEF S, R, a, D, k, m
      <3>2. StandsFor(D, D, a, R, k)
        BY <3>1, StillStands
      <3> QED
        BY <3>2 DEF R, a, D, k
    <2>7. q.anchor <= clock'
      BY <1>1, <2>2, <2>4
    <2>8. RowStands(conversation', committed', hist', clock')
      BY <2>3, <2>4, <2>6, <2>7 DEF RowStands
    <2> QED
      BY <1>3, <1>4, <2>3, <2>8
  <1>6. CASE rowLock # t
    <2>1. conversation' = conversation
      BY <1>2, <1>6 DEF RowAfter
    <2>2. RowStands(conversation, committed, hist, clock) /\ conversation.anchor \in Nat
      BY <1>1 DEF HistoryInv
    <2>3. RowStands(conversation, committed', hist', clock')
      BY <1>1, <2>2, RowStillStands
    <2> QED
      BY <1>1, <1>3, <1>4, <2>1, <2>3
  <1> QED
    BY <1>5, <1>6

\* A page's place is by what is committed before an event, which an answer
\* that is not late does not change.
LEMMA AnswerRead ==
  ASSUME HistoryInv, NEW t \in Turns, Answer(t)
  PROVE  Reading(reader, committed', hist')
  <1> DEFINE C == committed
             D == committed'
             u == turn[t].user
  <1>1. /\ clock \in Nat /\ C \subseteq 1 .. clock /\ u \in 1 .. clock /\ D = C \cup {u, clock + 1}
        /\ hist.late \subseteq hist'.late /\ ((\E e \in C : e > u) => u \in hist'.late)
    BY AnswerFacts, HistoryFacts
  <1>2. Reading(reader, C, hist)
    BY DEF HistoryInv
  <1> HIDE DEF C, D, u
  <1>3. ASSUME hist'.late = {}, NEW e \in C PROVE Earlier(D, e) = Earlier(C, e)
    <2>1. ~(e > u) /\ e \in 1 .. clock
      BY <1>1, <1>3
    <2>2. ~(u < e) /\ ~(clock + 1 < e)
      BY <1>1, <2>1
    <2> QED
      BY <1>1, <2>2 DEF Earlier
  <1>4. reader.seen \subseteq D
    BY <1>1, <1>2 DEF Reading
  <1>5. ASSUME hist'.late = {}
        PROVE  /\ reader.pc = "idle" => reader.atStart = {}
               /\ reader.pc = "idle" => reader.offset = 0
               /\ reader.pc = "end" => reader.atStart \subseteq reader.seen
               /\ \A e \in reader.atStart :
                      e \in D /\ (Cardinality(Earlier(D, e)) < Place(reader) => e \in reader.seen)
    <2>1. hist.late = {}
      BY <1>1, <1>5
    <2>2. /\ reader.pc = "idle" => reader.atStart = {}
          /\ reader.pc = "idle" => reader.offset = 0
          /\ reader.pc = "end" => reader.atStart \subseteq reader.seen
          /\ \A e \in reader.atStart :
                 e \in C /\ (Cardinality(Earlier(C, e)) < Place(reader) => e \in reader.seen)
      BY <1>2, <2>1 DEF Reading
    <2>3. \A e \in reader.atStart : e \in C /\ e \in D /\ Earlier(D, e) = Earlier(C, e)
      BY <1>1, <1>3, <1>5, <2>2
    <2> QED
      BY <2>2, <2>3
  <1>6. Reading(reader, D, hist')
    BY <1>4, <1>5 DEF Reading
  <1> QED
    BY <1>6 DEF D

LEMMA AnswerKeeps ==
  ASSUME HistoryInv, NEW t \in Turns, Answer(t)
  PROVE  HistoryInv'
  <1>1. /\ turn[t].pc = "running" /\ t \in Active /\ reader' = reader
        /\ clock' = clock + 1 /\ clock' \in Nat
        /\ committed' \subseteq 1 .. clock' /\ committed' \subseteq 0 .. clock'
        /\ turn' \in [Turns -> HistoryTurn] /\ turn'[t] = [NoTurn EXCEPT !.pc = "done"]
        /\ \A s \in Turns : s # t => turn'[s] = turn[s]
        /\ hist' \in HistoryKinds /\ hist'.overlapped = hist.overlapped
        /\ Goes(committed, committed', hist, hist')
    BY AnswerFacts
  <1>2. /\ clock \in Nat /\ turn \in [Turns -> HistoryTurn]
        /\ reader \in [pc : {"idle", "counting", "more", "end"}, offset : Nat,
                       seen : SUBSET Nat, atStart : SUBSET Nat]
    BY HistoryFacts
  <1>3. /\ conversation' \in [summary : Seq(Nat), anchor : Nat, archived : BOOLEAN]
        /\ RowStands(conversation', committed', hist', clock')
        /\ rowLock' \in {0} \cup Turns /\ Locked'
    BY AnswerRow
  <1>4. HistoryTyped'
    BY <1>1, <1>2, <1>3 DEF HistoryTyped, HistoryKinds
  <1>5. turn'[t].pc = "done" /\ turn'[t].user = 0 /\ TurnStands(turn'[t], committed', hist', clock')
    <2>1. "done" \in Stages \ Stamped
      BY DEF Stages, Stamped
    <2> DEFINE C == committed'
               h == hist'
               n == clock'
               q == [NoTurn EXCEPT !.pc = "done"]
    <2>2. n \in Nat /\ turn'[t] = q
      BY <1>1
    <2> HIDE DEF C, h, n
    <2>3. q.pc = "done" /\ q.user = 0 /\ TurnStands(q, C, h, n)
      BY <2>1, <2>2, NothingStands
    <2> QED
      BY <2>2, <2>3 DEF C, h, n
  <1>6. ASSUME NEW s \in Turns PROVE TurnStands(turn'[s], committed', hist', clock')
    <2>1. CASE s = t
      BY <1>5, <2>1
    <2>2. CASE s # t
      <3>1. TurnStands(turn[s], committed, hist, clock) /\ turn[s] \in HistoryTurn
        BY <1>2 DEF HistoryInv
      <3>2. clock <= clock'
        BY <1>1, <1>2
      <3>3. TurnStands(turn[s], committed', hist', clock')
        BY <1>1, <1>2, <3>1, <3>2, TurnStillStands
      <3> QED
        BY <1>1, <2>2, <3>3
    <2> QED
      BY <2>1, <2>2
  <1>7. ASSUME ~hist.overlapped
        PROVE  /\ hist'.late = {}
               /\ \A s \in Turns : s # t => turn[s].pc \in {"idle", "done", "failed"}
    <2>1. /\ hist.late = {} /\ \A r, s \in Active : r = s
          /\ \A s \in Turns : turn[s].user > 0 => \A e \in committed : e < turn[s].user
      BY <1>7 DEF HistoryInv, Alone
    <2>2. \A s \in Turns : s # t => s \notin Active
      BY <1>1, <2>1
    <2>3. turn[t].user \in 1 .. clock /\ turn[t].user > 0 /\ committed \subseteq 1 .. clock
          /\ (~(\E e \in committed : e > turn[t].user) => hist'.late = hist.late)
      BY AnswerFacts, HistoryFacts
    <2>4. \A e \in committed : ~(e > turn[t].user)
      <3> TAKE e \in committed
      <3>1. e < turn[t].user /\ e \in 1 .. clock /\ turn[t].user \in 1 .. clock
        BY <2>1, <2>3
      <3> QED
        BY <1>2, <3>1
    <2> QED
      BY <2>1, <2>2, <2>3, <2>4 DEF Active
  <1>8. ASSUME NEW s \in Turns PROVE Complete(s, turn'[s], committed', hist')
    <2>1. CASE s = t
      BY <1>5, <2>1 DEF Complete
    <2>2. CASE s # t
      BY <1>1, <1>7, <2>2 DEF Complete
    <2> QED
      BY <2>1, <2>2
  <1>9. Alone'
    <2> SUFFICES ASSUME ~hist'.overlapped
                 PROVE  /\ hist'.late = {} /\ \A r, s \in Active' : r = s
                        /\ \A s \in Turns : turn'[s].user > 0 =>
                               \A e \in committed' : e < turn'[s].user
      BY DEF Alone
    <2>1. /\ hist'.late = {}
          /\ \A s \in Turns : s # t => turn[s].pc \in {"idle", "done", "failed"}
      BY <1>1, <1>7
    <2>2. \A s \in Turns : turn'[s].pc \in {"idle", "done", "failed"}
      BY <1>1, <1>5, <2>1
    <2>3. \A s \in Turns : ~(turn'[s].user > 0)
      <3> TAKE s \in Turns
      <3>1. turn'[s].user > 0 <=> turn'[s].pc \in Stamped
        BY <1>6 DEF TurnStands
      <3> QED
        BY <2>2, <3>1 DEF Stamped
    <2> QED
      BY <2>1, <2>2, <2>3 DEF Active
  <1>10. Counted' /\ Reading(reader, committed', hist')
    BY AnswerCounted, AnswerRead
  <1> QED
    BY <1>1, <1>3, <1>4, <1>6, <1>8, <1>9, <1>10 DEF HistoryInv

-----------------------------------------------------------------------------
(* Archiving, paging, and every step together *)

LEMMA ArchiveKeeps ==
  ASSUME HistoryInv, Archive
  PROVE  HistoryInv'
  <1>1. /\ UNCHANGED <<clock, committed, rowLock, turn, reader, hist>>
        /\ conversation' = [conversation EXCEPT !.archived = TRUE]
    BY DEF Archive
  <1>2. conversation \in [summary : Seq(Nat), anchor : Nat, archived : BOOLEAN]
    BY HistoryFacts
  <1>3. /\ conversation' \in [summary : Seq(Nat), anchor : Nat, archived : BOOLEAN]
        /\ conversation'.summary = conversation.summary /\ conversation'.anchor = conversation.anchor
    BY <1>1, <1>2
  <1>4. HistoryTyped'
    BY <1>1, <1>3 DEF HistoryInv, HistoryTyped
  <1>5. RowStands(conversation', committed, hist, clock)
    BY <1>3 DEF HistoryInv, RowStands
  <1>6. Counted' /\ Alone' /\ Locked'
    BY <1>1 DEF HistoryInv, Counted, Begun, Answered, Alone, Active, Locked
  <1> QED
    BY <1>1, <1>4, <1>5, <1>6 DEF HistoryInv

LEMMA ReaderKeeps ==
  ASSUME HistoryInv, UNCHANGED <<clock, committed, conversation, rowLock, turn, hist>>,
         reader' \in [pc : {"idle", "counting", "more", "end"}, offset : Nat,
                      seen : SUBSET Nat, atStart : SUBSET Nat],
         Reading(reader', committed, hist)
  PROVE  HistoryInv'
  <1>1. HistoryTyped'
    BY DEF HistoryInv, HistoryTyped
  <1>2. Counted' /\ Alone' /\ Locked'
    BY DEF HistoryInv, Counted, Begun, Answered, Alone, Active, Locked
  <1> QED
    BY <1>1, <1>2 DEF HistoryInv

LEMMA ReadPageKeeps ==
  ASSUME HistoryInv, ReadPage
  PROVE  HistoryInv'
  <1> DEFINE r == reader
             C == committed
             page == PageFrom(r.offset)
             first == IF r.pc = "idle" THEN C ELSE r.atStart
             q == [r EXCEPT !.pc = "counting", !.seen = @ \cup page, !.atStart = first]
  <1>1. /\ UNCHANGED <<clock, committed, conversation, rowLock, turn, hist>>
        /\ r.pc \in {"idle", "more"} /\ reader' = q
    BY DEF ReadPage
  <1>2. /\ clock \in Nat /\ C \subseteq 1 .. clock /\ C \subseteq 0 .. clock /\ PageSize \in Nat
        /\ r \in [pc : {"idle", "counting", "more", "end"}, offset : Nat,
                  seen : SUBSET Nat, atStart : SUBSET Nat]
        /\ Reading(r, C, hist)
    BY HistoryFacts, HistoryConstants DEF HistoryInv
  <1>3. page \subseteq C
    BY DEF PageFrom
  <1>4. ASSUME NEW e \in C, Cardinality(Earlier(C, e)) < r.offset + PageSize
        PROVE  e \in page \/ Cardinality(Earlier(C, e)) < r.offset
    <2>1. Cardinality(Earlier(C, e)) \in Nat /\ r.offset \in Nat
      BY <1>2, EventsFinite
    <2>2. Cardinality(Earlier(C, e)) >= r.offset \/ Cardinality(Earlier(C, e)) < r.offset
      BY <2>1
    <2>3. Cardinality(Earlier(C, e)) >= r.offset => e \in page
      BY <1>4 DEF PageFrom, Earlier
    <2> QED
      BY <2>2, <2>3
  <1> HIDE DEF page
  <1>5. first \in SUBSET Nat /\ page \in SUBSET Nat /\ C \in SUBSET Nat
    <2>1. C \in SUBSET Nat
      BY <1>2
    <2> QED
      BY <1>2, <1>3, <2>1
  <1>6. /\ q \in [pc : {"idle", "counting", "more", "end"}, offset : Nat,
                  seen : SUBSET Nat, atStart : SUBSET Nat]
        /\ q.pc = "counting" /\ q.offset = r.offset /\ q.seen = r.seen \cup page
        /\ q.atStart = first
    <2> HIDE DEF r, first
    <2> QED
      BY <1>2, <1>5
  <1> HIDE DEF q
  <1>7. q.seen \subseteq C
    BY <1>2, <1>3, <1>6 DEF Reading
  <1>8. ASSUME hist.late = {}, NEW e \in q.atStart
        PROVE  e \in C /\ (Cardinality(Earlier(C, e)) < Place(q) => e \in q.seen)
    <2>1. Place(q) = r.offset + PageSize
      BY <1>6 DEF Place
    <2>2. CASE r.pc = "idle"
      <3>1. e \in C /\ r.offset = 0
        BY <1>2, <1>6, <1>8, <2>2 DEF Reading
      <3>2. ~(Cardinality(Earlier(C, e)) < 0)
        <4>1. Cardinality(Earlier(C, e)) \in Nat
          BY <1>2, EventsFinite
        <4> QED
          BY <4>1
      <3> QED
        BY <1>4, <1>6, <2>1, <3>1, <3>2
    <2>3. CASE r.pc = "more"
      <3>1. e \in r.atStart
        BY <1>6, <1>8, <2>3
      <3>2. e \in C /\ (Cardinality(Earlier(C, e)) < r.offset => e \in r.seen)
        BY <1>2, <1>8, <2>3, <3>1 DEF Reading, Place
      <3> QED
        BY <1>4, <1>6, <2>1, <3>2
    <2> QED
      BY <1>1, <2>2, <2>3
  <1>9. Reading(q, C, hist)
    BY <1>6, <1>7, <1>8 DEF Reading
  <1> QED
    BY <1>1, <1>6, <1>9, ReaderKeeps

LEMMA CountMessagesKeeps ==
  ASSUME HistoryInv, CountMessages
  PROVE  HistoryInv'
  <1> DEFINE r == reader
             C == committed
  <1>1. /\ UNCHANGED <<clock, committed, conversation, rowLock, turn, hist>> /\ r.pc = "counting"
        /\ reader' = IF HasMore THEN [r EXCEPT !.pc = "more", !.offset = @ + PageSize]
                     ELSE [r EXCEPT !.pc = "end"]
    BY DEF CountMessages
  <1>2. /\ clock \in Nat /\ C \subseteq 0 .. clock /\ PageSize \in Nat
        /\ r \in [pc : {"idle", "counting", "more", "end"}, offset : Nat,
                  seen : SUBSET Nat, atStart : SUBSET Nat]
        /\ Reading(r, C, hist)
    BY HistoryFacts, HistoryConstants DEF HistoryInv
  <1>3. r.offset \in Nat
    BY <1>2
  <1>4. CASE HasMore
    <2> DEFINE q == [r EXCEPT !.pc = "more", !.offset = @ + PageSize]
    <2>1. /\ q \in [pc : {"idle", "counting", "more", "end"}, offset : Nat,
                    seen : SUBSET Nat, atStart : SUBSET Nat]
          /\ q.pc = "more" /\ q.offset = r.offset + PageSize /\ q.seen = r.seen
          /\ q.atStart = r.atStart
      <3> DEFINE n == r.offset + PageSize
      <3>1. q = [r EXCEPT !.pc = "more", !.offset = n] /\ n \in Nat
        BY <1>2, <1>3
      <3>2. r \in [pc : {"idle", "counting", "more", "end"}, offset : Nat,
                   seen : SUBSET Nat, atStart : SUBSET Nat]
        BY <1>2
      <3> HIDE DEF r, n
      <3>3. /\ q \in [pc : {"idle", "counting", "more", "end"}, offset : Nat,
                      seen : SUBSET Nat, atStart : SUBSET Nat]
            /\ q.pc = "more" /\ q.offset = n /\ q.seen = r.seen /\ q.atStart = r.atStart
        BY <3>1, <3>2
      <3> QED
        BY <3>3 DEF n
    <2> HIDE DEF q
    <2>2. Place(q) = Place(r)
      BY <1>1, <2>1 DEF Place
    <2>3. Reading(q, C, hist)
      BY <1>2, <2>1, <2>2 DEF Reading
    <2>4. reader' = q
      BY <1>1, <1>4 DEF q
    <2> QED
      BY <1>1, <2>1, <2>3, <2>4, ReaderKeeps
  <1>5. CASE ~HasMore
    <2> DEFINE q == [r EXCEPT !.pc = "end"]
    <2>1. /\ q \in [pc : {"idle", "counting", "more", "end"}, offset : Nat,
                    seen : SUBSET Nat, atStart : SUBSET Nat]
          /\ q.pc = "end" /\ q.offset = r.offset /\ q.seen = r.seen /\ q.atStart = r.atStart
      <3> HIDE DEF r
      <3> QED
        BY <1>2
    <2> HIDE DEF q
    <2>2. IsFiniteSet(C) /\ Cardinality(C) \in Nat
      BY <1>2, EventsFinite
    <2>3. Cardinality(C) <= r.offset + PageSize
      <3>1. ~(r.offset + PageSize < Cardinality(C))
        BY <1>5 DEF HasMore
      <3> HIDE DEF r, C
      <3> QED
        BY <1>2, <1>3, <2>2, <3>1
    <2>4. ASSUME NEW e \in C PROVE Cardinality(Earlier(C, e)) < r.offset + PageSize
      <3>0. C \subseteq Nat
        BY <1>2
      <3>1. Earlier(C, e) \in SUBSET C /\ e \in C \ Earlier(C, e)
        BY <3>0 DEF Earlier
      <3> HIDE DEF r, C
      <3>2. /\ Cardinality(Earlier(C, e)) + 1 <= Cardinality(C)
            /\ Cardinality(Earlier(C, e)) \in Nat
        BY <2>2, <3>1, CountGrows
      <3> QED
        BY <1>2, <1>3, <2>2, <2>3, <3>2
    <2>5. ASSUME hist.late = {}, NEW e \in q.atStart PROVE e \in C /\ e \in q.seen
      <3>1. e \in C /\ (Cardinality(Earlier(C, e)) < r.offset + PageSize => e \in r.seen)
        BY <1>1, <1>2, <2>1, <2>5 DEF Reading, Place
      <3> QED
        BY <2>1, <2>4, <3>1
    <2>6. q.seen \subseteq C
      BY <1>2, <2>1 DEF Reading
    <2>7. Reading(q, C, hist)
      BY <2>1, <2>5, <2>6 DEF Reading
    <2>8. reader' = q
      BY <1>1, <1>5 DEF q
    <2> QED
      BY <1>1, <2>1, <2>7, <2>8, ReaderKeeps
  <1> QED
    BY <1>4, <1>5

LEMMA HistoryStep ==
  HistoryInv /\ [HistoryNext]_historyVars => HistoryInv'
  <1> SUFFICES ASSUME HistoryInv, [HistoryNext]_historyVars PROVE HistoryInv'
    OBVIOUS
  <1>1. ASSUME NEW t \in Turns, OpenTurn(t) PROVE HistoryInv'
    BY <1>1, OpenTurnMoves, MovesKeep
  <1>2. ASSUME NEW t \in Turns, SaveMessage(t) PROVE HistoryInv'
    BY <1>2, SaveMessageMoves, MovesKeep
  <1>3. ASSUME NEW t \in Turns, FetchTail(t) PROVE HistoryInv'
    BY <1>3, FetchTailMoves, MovesKeep
  <1>4. ASSUME NEW t \in Turns, StoreSummary(t) PROVE HistoryInv'
    BY <1>4, StoreSummaryMoves, MovesKeep
  <1>5. ASSUME NEW t \in Turns, BuildHistory(t) PROVE HistoryInv'
    BY <1>5, BuildHistoryMoves, MovesKeep
  <1>6. ASSUME NEW t \in Turns, Answer(t) PROVE HistoryInv'
    BY <1>6, AnswerKeeps
  <1>7. ASSUME NEW t \in Turns, SummarizationFails(t) PROVE HistoryInv'
    BY <1>7, SummarizationFailsMoves, MovesKeep
  <1>8. ASSUME NEW t \in Turns, Fail(t) PROVE HistoryInv'
    BY <1>8, FailMoves, MovesKeep
  <1>9. CASE UNCHANGED historyVars
    BY <1>9 DEF historyVars, HistoryInv, HistoryTyped, Counted, Begun, Answered, Alone, Active,
                Locked
  <1> QED
    BY <1>1, <1>2, <1>3, <1>4, <1>5, <1>6, <1>7, <1>8, <1>9, ArchiveKeeps, ReadPageKeeps,
       CountMessagesKeeps DEF HistoryNext, Progress

LEMMA HistoryStart ==
  HistoryInit => HistoryInv
  <1> SUFFICES ASSUME HistoryInit PROVE HistoryInv
    OBVIOUS
  <1>1. /\ clock = 0 /\ committed = {} /\ rowLock = 0 /\ reader = NewReader
        /\ conversation = [summary |-> <<>>, anchor |-> 0, archived |-> FALSE]
        /\ turn = [t \in Turns |-> NoTurn]
        /\ hist = [late |-> {}, unfetched |-> {}, foldFailed |-> {}, overlapped |-> FALSE]
    BY DEF HistoryInit
  <1> DEFINE q == [NoTurn EXCEPT !.pc = "idle"]
  <1>2. NoTurn = q
    BY DEF NoTurn
  <1>3. q \in HistoryTurn /\ q.pc = "idle" /\ q.user = 0 /\ TurnStands(q, committed, hist, clock)
    <2>1. "idle" \in Stages \ Stamped /\ 0 \in Nat
      BY DEF Stages, Stamped
    <2> QED
      BY <1>1, <2>1, NothingStands
  <1> HIDE DEF q
  <1>4. \A t \in Turns : turn[t] = q
    BY <1>1, <1>2
  <1>5. /\ conversation.summary = <<>> /\ conversation.anchor = 0
        /\ conversation \in [summary : Seq(Nat), anchor : Nat, archived : BOOLEAN]
    <2>1. <<>> \in Seq(Nat)
      OBVIOUS
    <2> QED
      BY <1>1, <2>1
  <1>6. HistoryTyped
    <2>1. turn \in [Turns -> HistoryTurn]
      BY <1>1, <1>2, <1>3
    <2>2. reader \in [pc : {"idle", "counting", "more", "end"}, offset : Nat,
                      seen : SUBSET Nat, atStart : SUBSET Nat]
      BY <1>1 DEF NewReader
    <2> QED
      BY <1>1, <1>5, <2>1, <2>2 DEF HistoryTyped
  <1>7. Counted
    <2>1. Cardinality(Begun) \in Nat /\ Cardinality(Answered) \in Nat
      BY CountedFinite
    <2> QED
      BY <1>1, <2>1 DEF Counted
  <1>8. RowStands(conversation, committed, hist, clock)
    BY <1>1, <1>5 DEF RowStands, Listed, Increasing, Range, StandsFor, Enough, Reached, Covered
  <1>9. Alone /\ Locked
    BY <1>1, <1>3, <1>4 DEF Alone, Active, Locked
  <1>10. \A t \in Turns : Complete(t, turn[t], committed, hist)
    BY <1>3, <1>4 DEF Complete
  <1>11. Reading(reader, committed, hist)
    BY <1>1 DEF Reading, NewReader
  <1> QED
    BY <1>3, <1>4, <1>6, <1>7, <1>8, <1>9, <1>10, <1>11 DEF HistoryInv

LEMMA HistoryInvariant ==
  HistorySpec => []HistoryInv
  BY HistoryStart, HistoryStep, PTL DEF HistorySpec

LEMMA HistoryTypes ==
  HistoryInv => HistoryTypeOK
  <1> SUFFICES ASSUME HistoryInv PROVE HistoryTypeOK
    OBVIOUS
  <1>1. /\ clock \in Nat /\ committed \subseteq 1 .. clock /\ TurnCount \in Nat
        /\ conversation \in [summary : Seq(Nat), anchor : Nat, archived : BOOLEAN]
        /\ rowLock \in {0} \cup Turns /\ turn \in [Turns -> HistoryTurn]
        /\ reader \in [pc : {"idle", "counting", "more", "end"}, offset : Nat,
                       seen : SUBSET Nat, atStart : SUBSET Nat]
    BY HistoryFacts, HistoryConstants
  <1>2. clock \in 0 .. 2 * TurnCount /\ 1 .. clock \subseteq Events
    <2> DEFINE m == Cardinality(Begun)
               n == Cardinality(Answered)
    <2>1. clock <= m + n /\ m \in Nat /\ n \in Nat /\ m <= TurnCount /\ n <= TurnCount
      BY CountedFinite DEF HistoryInv, Counted
    <2> HIDE DEF m, n
    <2> QED
      BY <1>1, <2>1 DEF Events
  <1>3. /\ conversation.anchor \in {0} \cup Events /\ conversation.archived \in BOOLEAN
        /\ Range(conversation.summary) \subseteq Events
    <2>1. /\ conversation.anchor <= clock /\ conversation.anchor \in Nat
          /\ Range(conversation.summary) \subseteq 1 .. conversation.anchor
      BY <1>1 DEF HistoryInv, RowStands, Listed
    <2>2. conversation.anchor \in {0} \cup (1 .. clock)
          /\ 1 .. conversation.anchor \subseteq 1 .. clock
      BY <1>1, <2>1
    <2> QED
      BY <1>1, <1>2, <2>1, <2>2
  <1>4. rowLock \in {0} \cup Active
    BY <1>1 DEF HistoryInv, Locked, Active
  <1>5. ASSUME NEW t \in Turns
        PROVE  /\ turn[t].pc \in Stages /\ turn[t].user \in {0} \cup Events
               /\ turn[t].recent \subseteq Events
    <2>1. /\ turn[t].pc \in Stages /\ turn[t].user \in Nat /\ turn[t].user <= clock
          /\ turn[t].recent \subseteq 1 .. clock
      BY <1>1 DEF HistoryInv, HistoryTurn, TurnStands
    <2>2. turn[t].user \in {0} \cup (1 .. clock)
      BY <1>1, <2>1
    <2> QED
      BY <1>2, <2>1, <2>2
  <1>6. reader.pc \in {"idle", "counting", "more", "end"} /\ reader.seen \subseteq Events
    BY <1>1, <1>2 DEF HistoryInv, Reading
  <1> QED
    BY <1>1, <1>2, <1>3, <1>4, <1>5, <1>6 DEF HistoryTypeOK

LEMMA HistoryImplies ==
  HistoryInv => HistoryRight
  <1> SUFFICES ASSUME HistoryInv PROVE HistoryRight
    OBVIOUS
  <1>1. HistoryTypeOK
    BY HistoryTypes
  <1>2. RowStands(conversation, committed, hist, clock)
        /\ \A t \in Turns : TurnStands(turn[t], committed, hist, clock)
    BY DEF HistoryInv
  <1>3. NeverTwiceInPrompt
    BY <1>2 DEF NeverTwiceInPrompt, RowStands, TurnStands, Listed
  <1>4. PromptComplete
    BY DEF HistoryInv, Complete, PromptComplete
  <1>5. SkippedOnlyWhenLate
    <2>1. Covered(committed, conversation.anchor, Range(conversation.summary), hist)
      BY <1>2 DEF RowStands, StandsFor
    <2>2. /\ clock \in Nat /\ committed \subseteq 1 .. clock
          /\ conversation \in [summary : Seq(Nat), anchor : Nat, archived : BOOLEAN]
      BY HistoryFacts
    <2>3. \A e \in committed : e <= conversation.anchor => e \in 1 .. conversation.anchor
      BY <2>2
    <2> QED
      BY <2>1, <2>3 DEF SkippedOnlyWhenLate, Covered
  <1>6. PagesComplete
    BY DEF HistoryInv, Reading, PagesComplete
  <1> QED
    BY <1>1, <1>3, <1>4, <1>5, <1>6 DEF HistoryRight

\* Whatever turns overlap, fail or fold at once: nothing is summarised twice or
\* quoted beside a summary that holds it, an event is only missing from the
\* summary if it came late or was beyond what was fetched, a turn that overlapped
\* none has every event in its prompt, and a client that pages to the end has
\* seen every message it started from (ensure_summarized, _build_chat_request,
\* list_page).
THEOREM ConversationsAreRight ==
  HistorySpec => []HistoryRight
  BY HistoryInvariant, HistoryImplies, PTL

-----------------------------------------------------------------------------
(* PromptBudget: what trimming a prompt keeps *)

Items == Seq([score : Int, tokens : Nat])

LEMMA ItemsAre ==
  ASSUME NEW c \in Items
  PROVE  /\ Len(c) \in Nat /\ DOMAIN c = 1 .. Len(c)
         /\ \A i \in DOMAIN c : c[i].score \in Int /\ c[i].tokens \in Nat /\ i \in Nat
  <1> DEFINE R == [score : Int, tokens : Nat]
  <1>1. \A r \in R : r.score \in Int /\ r.tokens \in Nat
    OBVIOUS
  <1>2. c \in Seq(R)
    BY DEF Items
  <1> HIDE DEF R
  <1>3. Len(c) \in Nat /\ DOMAIN c = 1 .. Len(c) /\ \A i \in DOMAIN c : c[i] \in R /\ i \in Nat
    BY <1>2
  <1> QED
    BY <1>1, <1>3

LEMMA UsedIsTotal ==
  ASSUME NEW h, NEW c, NEW n, NEW m
  PROVE  Used(h, c, n, m) = Total(h, (n + 1) .. Len(h)) + Total(Sizes(c), KeptContext(c, m))
  <1>1. MapThenSumSet(LAMBDA i : h[i], (n + 1) .. Len(h)) = Total(h, (n + 1) .. Len(h))
    BY DEF MapThenSumSet, MapThenFoldSet, Total, Sums, Added, Pick, Rest
  <1>2. MapThenSumSet(LAMBDA i : Sizes(c)[i], KeptContext(c, m)) = Total(Sizes(c), KeptContext(c, m))
    BY DEF MapThenSumSet, MapThenFoldSet, Total, Sums, Added, Pick, Rest
  <1> QED
    BY <1>1, <1>2 DEF Used

\* An item's rank is a number less than how many there are, and goes with its score.
LEMMA RanksAre ==
  ASSUME NEW c \in Items
  PROVE  /\ \A i \in DOMAIN c : Rank(c, i) \in Nat /\ Rank(c, i) < Len(c)
         /\ \A i, j \in DOMAIN c : c[i].score < c[j].score => Rank(c, i) <= Rank(c, j)
         /\ \A m : KeptContext(c, m) \subseteq DOMAIN c /\ IsFiniteSet(KeptContext(c, m))
  <1> DEFINE Lower(i) == {j \in DOMAIN c :
                              \/ c[j].score < c[i].score
                              \/ c[j].score = c[i].score /\ j < i}
  <1>1. /\ Len(c) \in Nat /\ DOMAIN c = 1 .. Len(c)
        /\ \A i \in DOMAIN c : c[i].score \in Int /\ c[i].tokens \in Nat /\ i \in Nat
    BY ItemsAre
  <1>2. IsFiniteSet(DOMAIN c) /\ Cardinality(DOMAIN c) = Len(c)
    BY <1>1, FS_Interval
  <1>3. ASSUME NEW i \in DOMAIN c PROVE Rank(c, i) = Cardinality(Lower(i))
    BY DEF Rank
  <1>4. ASSUME NEW i \in DOMAIN c PROVE Lower(i) \in SUBSET DOMAIN c /\ i \in DOMAIN c \ Lower(i)
    BY <1>1
  <1>5. ASSUME NEW i \in DOMAIN c, NEW j \in DOMAIN c, c[i].score < c[j].score
        PROVE  Lower(i) \subseteq Lower(j)
    BY <1>1, <1>5
  <1> HIDE DEF Lower
  <1>6. ASSUME NEW i \in DOMAIN c
        PROVE  Cardinality(Lower(i)) + 1 <= Len(c) /\ Cardinality(Lower(i)) \in Nat
    BY <1>2, <1>4, CountGrows
  <1>7. ASSUME NEW i \in DOMAIN c PROVE Rank(c, i) \in Nat /\ Rank(c, i) < Len(c)
    <2>1. Cardinality(Lower(i)) + 1 <= Len(c) /\ Cardinality(Lower(i)) \in Nat
      BY <1>6
    <2> QED
      BY <1>1, <1>3, <2>1
  <1>8. ASSUME NEW i \in DOMAIN c, NEW j \in DOMAIN c, c[i].score < c[j].score
        PROVE  Rank(c, i) <= Rank(c, j)
    <2>1. Lower(i) \in SUBSET Lower(j)
      BY <1>5, <1>8
    <2>2. IsFiniteSet(Lower(j))
      BY <1>2, <1>4, FS_Subset
    <2>3. Cardinality(Lower(i)) <= Cardinality(Lower(j))
      BY <2>1, <2>2, FS_Subset
    <2> QED
      BY <1>3, <2>3
  <1>9. ASSUME NEW m PROVE KeptContext(c, m) \subseteq DOMAIN c /\ IsFiniteSet(KeptContext(c, m))
    <2>1. KeptContext(c, m) \in SUBSET DOMAIN c
      BY DEF KeptContext
    <2> QED
      BY <1>2, <2>1, FS_Subset
  <1> QED
    BY <1>7, <1>8, <1>9

LEMMA UsedIs ==
  ASSUME NEW h \in Seq(Nat), NEW c \in Items, NEW n \in Nat, NEW m \in Nat
  PROVE  /\ Used(h, c, n, m) \in Int
         /\ n = Len(h) /\ m = Len(c) => Used(h, c, n, m) = 0
  <1> DEFINE S == (n + 1) .. Len(h)
             K == KeptContext(c, m)
  <1>1. Len(h) \in Nat /\ DOMAIN h = 1 .. Len(h) /\ \A i \in 1 .. Len(h) : h[i] \in Int
    <2>1. \A i \in 1 .. Len(h) : h[i] \in Nat
      OBVIOUS
    <2> QED
      BY <2>1
  <1>2. IsFiniteSet(S) /\ \A i \in S : h[i] \in Int
    <2>1. IsFiniteSet(S)
      BY <1>1, FS_Interval
    <2>2. S \subseteq 1 .. Len(h)
      BY <1>1
    <2> HIDE DEF S
    <2> QED
      BY <1>1, <2>1, <2>2
  <1>3. IsFiniteSet(K) /\ \A i \in K : Sizes(c)[i] \in Int
    <2>1. IsFiniteSet(K) /\ K \subseteq DOMAIN c
      BY RanksAre
    <2>2. \A i \in DOMAIN c : c[i].tokens \in Nat
      BY ItemsAre
    <2>3. \A i \in DOMAIN c : Sizes(c)[i] \in Int
      BY <2>2 DEF Sizes
    <2> HIDE DEF K
    <2> QED
      BY <2>1, <2>3
  <1>4. n = Len(h) => S = {}
    BY <1>1
  <1>5. m = Len(c) => K = {}
    <2>1. \A i \in DOMAIN c : Rank(c, i) \in Nat /\ Rank(c, i) < Len(c)
      BY RanksAre
    <2>2. Len(c) \in Nat
      BY ItemsAre
    <2>3. \A i \in DOMAIN c : ~(Rank(c, i) >= Len(c))
      BY <2>1, <2>2
    <2> QED
      BY <2>3 DEF KeptContext
  <1>6. Used(h, c, n, m) = Total(h, S) + Total(Sizes(c), K)
    BY UsedIsTotal
  <1> HIDE DEF S, K
  <1>7. /\ Total(h, S) \in Int /\ (S = {} => Total(h, S) = 0)
        /\ Total(Sizes(c), K) \in Int /\ (K = {} => Total(Sizes(c), K) = 0)
    BY <1>2, <1>3, TotalIsInt
  <1> QED
    BY <1>4, <1>5, <1>6, <1>7

\* The first that fits, or all.
FirstFit(f, N, a, n) ==
    /\ n \in 0 .. N /\ (n < N => f[n] <= a)
    /\ \A k \in 0 .. n - 1 : f[k] > a

\* The loop as the function it computes: from each place, where it ends.
LoopEnds(f, N, a, g) ==
    g = [n \in 0 .. N |-> IF f[n] <= a \/ n = N THEN n ELSE g[n + 1]]

LEMMA LoopExists ==
  ASSUME NEW N \in Nat, NEW f, NEW a
  PROVE  \E g : LoopEnds(f, N, a, g)
  <1> DEFINE I == 0 .. N
             R == {p \in I \X I : p[1] > p[2]}
             Ends(n) == f[n] <= a \/ n = N
             D == [n \in I |-> [g \in [I -> I] |-> IF Ends(n) THEN n ELSE g[n + 1]]]
  <1>1. \A x, y \in I : <<x, y>> \in R <=> x > y
    OBVIOUS
  <1>2. ASSUME NEW n \in I, ~Ends(n) PROVE n + 1 \in I /\ n + 1 > n
    BY <1>2
  <1>3. Transitive(R, I)
    <2> HIDE DEF R
    <2>1. \A x, y, z \in I : x > y /\ y > z => x > z
      OBVIOUS
    <2> HIDE DEF I
    <2> QED
      BY <1>1, <2>1 DEF Transitive
  <1>4. Founded(R, I)
    <2> SUFFICES ASSUME NEW F \in SUBSET I, F # {}
                 PROVE  \E x \in F : \A y \in F : <<y, x>> \notin R
      BY DEF Founded
    <2>1. F \subseteq 0 .. N /\ F \subseteq Nat
      OBVIOUS
    <2>2. IsFiniteSet(F)
      BY <2>1, EventsFinite
    <2>3. Newest(F) \in F /\ \A y \in F : y <= Newest(F)
      BY <2>1, <2>2, FirstAndLast
    <2> HIDE DEF R
    <2>4. \A y \in F : ~(y > Newest(F))
      <3> TAKE y \in F
      <3> DEFINE m == Newest(F)
      <3>1. y \in Nat /\ m \in Nat /\ y <= m
        BY <2>1, <2>3
      <3> HIDE DEF m
      <3>2. ~(y > m)
        BY <3>1
      <3> QED
        BY <3>2 DEF m
    <2>5. \A y \in F : y \in I
      OBVIOUS
    <2> HIDE DEF I
    <2> QED
      BY <1>1, <2>3, <2>4, <2>5
  <1>5. Determines(D, I, I)
    <2>1. 0 \in I
      OBVIOUS
    <2> HIDE DEF I, Ends
    <2>2. ASSUME NEW n \in I, NEW g \in [I -> I] PROVE (IF Ends(n) THEN n ELSE g[n + 1]) \in I
      BY <1>2
    <2>3. D \in [I -> [[I -> I] -> I]]
      BY <2>2
    <2> HIDE DEF D
    <2> QED
      BY <2>1, <2>3, Zenon DEF Determines
  <1>6. Local(D, R, I, I)
    <2> HIDE DEF I, R, Ends
    <2> SUFFICES ASSUME NEW n \in I, NEW g \in [I -> I], NEW h \in [I -> I],
                        \A y \in I : <<y, n>> \in R => g[y] = h[y]
                 PROVE  D[n][g] = D[n][h]
      BY DEF Local
    <2>1. ~Ends(n) => n + 1 \in I /\ <<n + 1, n>> \in R
      BY <1>1, <1>2
    <2> QED
      BY <2>1
  <1>7. PICK g : Solution(g, D, I, I)
    <2> HIDE DEF I, R, D
    <2> QED
      BY <1>3, <1>4, <1>5, <1>6, RecursionDefines
  <1>8. g \in [I -> I] /\ \A n \in I : g[n] = IF Ends(n) THEN n ELSE g[n + 1]
    <2> HIDE DEF I, Ends
    <2> QED
      BY <1>7 DEF Solution
  <1>9. g = [n \in I |-> IF Ends(n) THEN n ELSE g[n + 1]]
    <2> HIDE DEF I, Ends
    <2> QED
      BY <1>8
  <1> QED
    BY <1>9 DEF LoopEnds

LEMMA DroppedIs ==
  ASSUME NEW N \in Nat, NEW f \in [0 .. N -> Int], NEW a \in Int
  PROVE  FirstFit(f, N, a, Dropped(f, N, a))
  <1> DEFINE g == CHOOSE g : LoopEnds(f, N, a, g)
             Right(n) == /\ g[n] \in n .. N /\ (g[n] < N => f[g[n]] <= a)
                         /\ \A k \in n .. g[n] - 1 : f[k] > a
             F == {n \in 0 .. N : ~Right(n)}
  <1>1. Dropped(f, N, a) = g[0]
    BY DEF Dropped, LoopEnds
  <1>2. LoopEnds(f, N, a, g)
    BY LoopExists
  <1>3. \A n \in 0 .. N : g[n] = IF f[n] <= a \/ n = N THEN n ELSE g[n + 1]
    <2> HIDE DEF g
    <2> QED
      BY <1>2 DEF LoopEnds
  <1> HIDE DEF g
  <1>4. F \subseteq 0 .. N /\ F \subseteq Nat
    OBVIOUS
  <1>5. ASSUME F # {} PROVE FALSE
    <2> DEFINE n == Newest(F)
    <2>1. n \in F /\ \A k \in F : k <= n
      <3> HIDE DEF F
      <3>1. IsFiniteSet(F)
        BY <1>4, EventsFinite
      <3> QED
        BY <1>4, <1>5, <3>1, FirstAndLast
    <2> HIDE DEF n
    <2>2. n \in 0 .. N /\ ~Right(n)
      BY <2>1
    <2>3. CASE f[n] <= a \/ n = N
      <3>1. g[n] = n
        BY <1>3, <2>2, <2>3
      <3>2. n \in n .. N /\ (n < N => f[n] <= a) /\ \A k \in n .. n - 1 : f[k] > a
        BY <2>2, <2>3
      <3> QED
        BY <2>2, <3>1, <3>2
    <2>4. CASE ~(f[n] <= a \/ n = N)
      <3>1. n + 1 \in 0 .. N /\ n + 1 \notin F /\ g[n] = g[n + 1]
        <4>1. n + 1 \in 0 .. N /\ ~(n + 1 <= n)
          BY <2>2, <2>4
        <4> HIDE DEF F
        <4> QED
          BY <1>3, <2>1, <2>2, <2>4, <4>1
      <3>2. Right(n + 1)
        BY <3>1
      <3>3. f[n] > a
        BY <2>2, <2>4
      <3>4. g[n] \in n .. N /\ (g[n] < N => f[g[n]] <= a)
        BY <2>2, <3>1, <3>2
      <3>5. \A k \in n .. g[n] - 1 : k = n \/ k \in n + 1 .. g[n + 1] - 1
        BY <2>2, <3>1, <3>4
      <3>6. \A k \in n .. g[n] - 1 : f[k] > a
        BY <3>2, <3>3, <3>5
      <3> QED
        BY <2>2, <3>4, <3>6
    <2> QED
      BY <2>3, <2>4
  <1>6. Right(0)
    <2>1. 0 \in 0 .. N
      OBVIOUS
    <2> QED
      BY <1>5, <2>1
  <1> QED
    BY <1>1, <1>6 DEF FirstFit

LEMMA DropHistoryIs ==
  ASSUME NEW h \in Seq(Nat), NEW c \in Items, NEW a \in Int
  PROVE  /\ DropHistory(h, c, a) \in 0 .. Len(h)
         /\ DropHistory(h, c, a) < Len(h) => Used(h, c, DropHistory(h, c, a), 0) <= a
         /\ \A k \in 0 .. DropHistory(h, c, a) - 1 : Used(h, c, k, 0) > a
  <1> DEFINE N == Len(h)
             f == [k \in 0 .. N |-> Used(h, c, k, 0)]
  <1>1. N \in Nat
    OBVIOUS
  <1>2. \A k \in 0 .. N : Used(h, c, k, 0) \in Int
    BY <1>1, UsedIs
  <1>3. \A k \in 0 .. N : f[k] = Used(h, c, k, 0)
    OBVIOUS
  <1>4. f \in [0 .. N -> Int]
    BY <1>2
  <1>5. DropHistory(h, c, a) = Dropped(f, N, a)
    BY DEF DropHistory
  <1> DEFINE d == DropHistory(h, c, a)
  <1> HIDE DEF N, f
  <1>6. FirstFit(f, N, a, d)
    BY <1>1, <1>4, <1>5, DroppedIs
  <1> HIDE DEF d
  <1>7. /\ d \in 0 .. N /\ (d < N => f[d] <= a)
        /\ \A k \in 0 .. d - 1 : k \in 0 .. N /\ f[k] > a
    BY <1>1, <1>6 DEF FirstFit
  <1>8. /\ d \in 0 .. N /\ (d < N => Used(h, c, d, 0) <= a)
        /\ \A k \in 0 .. d - 1 : Used(h, c, k, 0) > a
    BY <1>3, <1>7
  <1> QED
    BY <1>8 DEF d, N

LEMMA DropContextIs ==
  ASSUME NEW h \in Seq(Nat), NEW c \in Items, NEW n \in Nat, NEW a \in Int
  PROVE  /\ DropContext(h, c, n, a) \in 0 .. Len(c)
         /\ DropContext(h, c, n, a) < Len(c) => Used(h, c, n, DropContext(h, c, n, a)) <= a
         /\ \A k \in 0 .. DropContext(h, c, n, a) - 1 : Used(h, c, n, k) > a
  <1> DEFINE N == Len(c)
             f == [k \in 0 .. N |-> Used(h, c, n, k)]
  <1>1. N \in Nat
    BY ItemsAre
  <1>2. \A k \in 0 .. N : Used(h, c, n, k) \in Int
    BY <1>1, UsedIs
  <1>3. \A k \in 0 .. N : f[k] = Used(h, c, n, k)
    OBVIOUS
  <1>4. f \in [0 .. N -> Int]
    BY <1>2
  <1>5. DropContext(h, c, n, a) = Dropped(f, N, a)
    BY DEF DropContext
  <1> DEFINE d == DropContext(h, c, n, a)
  <1> HIDE DEF N, f
  <1>6. FirstFit(f, N, a, d)
    BY <1>1, <1>4, <1>5, DroppedIs
  <1> HIDE DEF d
  <1>7. /\ d \in 0 .. N /\ (d < N => f[d] <= a)
        /\ \A k \in 0 .. d - 1 : k \in 0 .. N /\ f[k] > a
    BY <1>1, <1>6 DEF FirstFit
  <1>8. /\ d \in 0 .. N /\ (d < N => Used(h, c, n, d) <= a)
        /\ \A k \in 0 .. d - 1 : Used(h, c, n, k) > a
    BY <1>3, <1>7
  <1> QED
    BY <1>8 DEF d, N

\* What fit_to_budget leaves, s tokens being taken already.
FitRight(fit, s, h, c, w) ==
    LET n == fit.history
        m == fit.context
    IN /\ n \in Nat /\ m \in Nat /\ (w - s <= 0 => fit.available = 0)
       /\ w - s > 0 => fit.available > 0 /\ Used(h, c, n, m) <= w - s
       /\ w - s > 0 /\ n > 0 => Used(h, c, n - 1, 0) > w - s
       /\ m > 0 => n = Len(h)
       /\ w - s > 0 /\ m > 0 => Used(h, c, n, m - 1) > w - s

LEMMA FitToBudgetIs ==
  ASSUME NEW h \in Seq(Nat), NEW c \in Items, NEW s \in Int, NEW w \in Int
  PROVE  FitRight(FitToBudget(s, h, c, w), s, h, c, w)
  <1> DEFINE a == w - s
  <1>1. a \in Int /\ Len(h) \in Nat /\ Len(c) \in Nat
    BY ItemsAre
  <1>2. CASE a <= 0
    <2>1. FitToBudget(s, h, c, w) = [available |-> 0, history |-> Len(h), context |-> Len(c)]
      BY <1>2 DEF FitToBudget
    <2> QED
      BY <1>1, <1>2, <2>1 DEF FitRight
  <1>3. CASE ~(a <= 0)
    <2> DEFINE n == DropHistory(h, c, a)
               m == DropContext(h, c, n, a)
    <2>1. FitToBudget(s, h, c, w) = [available |-> a, history |-> n, context |-> m]
      BY <1>3 DEF FitToBudget
    <2>2. /\ n \in 0 .. Len(h) /\ (n < Len(h) => Used(h, c, n, 0) <= a)
          /\ \A k \in 0 .. n - 1 : Used(h, c, k, 0) > a
      BY <1>1, DropHistoryIs
    <2>3. n \in Nat
      BY <1>1, <2>2
    <2> HIDE DEF n, a
    <2>4. /\ m \in 0 .. Len(c) /\ (m < Len(c) => Used(h, c, n, m) <= a)
          /\ \A k \in 0 .. m - 1 : Used(h, c, n, k) > a
      BY <1>1, <2>3, DropContextIs
    <2>5. m \in Nat
      BY <1>1, <2>4
    <2> HIDE DEF m
    <2>6. ASSUME n < Len(h) PROVE m = 0 /\ Used(h, c, n, m) <= a
      <3>1. Used(h, c, n, 0) <= a /\ Used(h, c, n, 0) \in Int
        BY <2>2, <2>3, <2>6, UsedIs
      <3>2. ~(Used(h, c, n, 0) > a)
        BY <1>1, <3>1
      <3>3. 0 \notin 0 .. m - 1
        BY <2>4, <3>2
      <3>4. m = 0
        BY <2>5, <3>3
      <3> QED
        BY <3>1, <3>4
    <2>7. Used(h, c, n, m) <= a
      <3>1. CASE n < Len(h)
        BY <2>6, <3>1
      <3>2. CASE n = Len(h) /\ m = Len(c)
        <4>1. Used(h, c, n, m) = 0
          BY <2>3, <2>5, <3>2, UsedIs
        <4> QED
          BY <1>1, <1>3, <4>1
      <3> QED
        BY <1>1, <2>2, <2>4, <3>1, <3>2
    <2>8. n > 0 => Used(h, c, n - 1, 0) > a
      <3>1. n > 0 => n - 1 \in 0 .. n - 1
        BY <2>3
      <3> QED
        BY <2>2, <3>1
    <2>9. m > 0 => Used(h, c, n, m - 1) > a
      <3>1. m > 0 => m - 1 \in 0 .. m - 1
        BY <2>5
      <3> QED
        BY <2>4, <3>1
    <2>10. m > 0 => n = Len(h)
      <3>1. m > 0 => ~(n < Len(h))
        BY <2>5, <2>6
      <3> QED
        BY <1>1, <2>2, <3>1
    <2>11. a > 0
      BY <1>1, <1>3
    <2> DEFINE fit == FitToBudget(s, h, c, w)
    <2>12. fit.available = a /\ fit.history = n /\ fit.context = m
      BY <2>1
    <2> HIDE DEF fit
    <2>13. FitRight(fit, s, h, c, w)
      BY <2>3, <2>5, <2>7, <2>8, <2>9, <2>10, <2>11, <2>12 DEF FitRight, a
    <2> QED
      BY <2>13 DEF fit
  <1> QED
    BY <1>2, <1>3

LEMMA TrimmedIs ==
  ASSUME NEW h \in Seq(Nat), NEW c \in Items, NEW s \in Int, NEW w \in Int, NEW mem \in Nat
  PROVE  TrimmedRight(Messages(s, mem, h, c, w), s, h, c, w)
  <1> DEFINE p == Messages(s, mem, h, c, w)
             with == FitToBudget(s + mem, h, c, w)
             without == FitToBudget(s, h, c, w)
  <1>1. FitRight(with, s + mem, h, c, w) /\ FitRight(without, s, h, c, w)
    <2>1. s + mem \in Int
      OBVIOUS
    <2> QED
      BY <2>1, FitToBudgetIs
  <1>2. \/ p.memory = 0 /\ p.fit = without
        \/ p.memory = mem /\ p.fit = with
    BY DEF Messages
  <1> HIDE DEF with, without, p
  <1> DEFINE room == w - s - p.memory
             n == p.fit.history
             m == p.fit.context
  <1>3. /\ n \in Nat /\ m \in Nat
        /\ room > 0 => Used(h, c, n, m) <= room
        /\ room > 0 /\ n > 0 => Used(h, c, n - 1, 0) > room
        /\ m > 0 => n = Len(h)
        /\ room > 0 /\ m > 0 => Used(h, c, n, m - 1) > room
    <2>1. CASE p.memory = 0 /\ p.fit = without
      <3>1. room = w - s
        BY <2>1
      <3> QED
        BY <1>1, <2>1, <3>1 DEF FitRight
    <2>2. CASE p.memory = mem /\ p.fit = with
      <3>1. room = w - (s + mem)
        BY <2>2
      <3> QED
        BY <1>1, <2>2, <3>1 DEF FitRight
    <2> QED
      BY <1>2, <2>1, <2>2
  <1>4. \A i \in KeptContext(c, m), j \in DOMAIN c \ KeptContext(c, m) : c[i].score >= c[j].score
    <2> HIDE DEF m
    <2> SUFFICES ASSUME NEW i \in KeptContext(c, m), NEW j \in DOMAIN c \ KeptContext(c, m),
                        ~(c[i].score >= c[j].score)
                 PROVE  FALSE
      OBVIOUS
    <2>1. i \in DOMAIN c /\ Rank(c, i) >= m /\ ~(Rank(c, j) >= m)
      BY DEF KeptContext
    <2>2. c[i].score \in Int /\ c[j].score \in Int
      BY <2>1, ItemsAre
    <2>3. c[i].score < c[j].score
      BY <2>2
    <2>4. Rank(c, i) <= Rank(c, j) /\ Rank(c, i) \in Nat /\ Rank(c, j) \in Nat
      BY <2>1, <2>3, RanksAre
    <2> QED
      BY <1>3, <2>1, <2>4
  <1> HIDE DEF room, n, m
  <1>5. TrimmedRight(p, s, h, c, w)
    BY <1>3, <1>4 DEF TrimmedRight, room, n, m
  <1> QED
    BY <1>5 DEF p

LEMMA HistoryTokensAre ==
  ASSUME HistoryInv, NEW t \in Turns
  PROVE  HistoryTokens(t) \in Seq(Nat)
  <1>1. clock \in Nat /\ turn[t].recent \subseteq 0 .. clock
    <2>1. clock \in Nat /\ turn[t].recent \subseteq 1 .. clock
      BY HistoryFacts DEF HistoryInv, TurnStands
    <2> QED
      BY <2>1
  <1> DEFINE n == Cardinality(turn[t].recent)
             quoted == [i \in 1 .. n |-> 1]
             summary == IF turn[t].summary = <<>> THEN <<>> ELSE <<SummaryTokens>>
  <1>2. n \in Nat
    BY <1>1, EventsFinite
  <1>3. quoted \in Seq(Nat)
    <2> HIDE DEF n
    <2> QED
      BY <1>2
  <1>4. summary \in Seq(Nat)
    BY HistoryAssumption
  <1> HIDE DEF quoted, summary
  <1>5. summary \o quoted \in Seq(Nat)
    BY <1>3, <1>4
  <1> QED
    BY <1>5 DEF HistoryTokens, quoted, summary, n

\* Whatever a conversation holds and a prompt comes with, what fit_to_budget and
\* build_messages leave fits the window, nothing was dropped that would have
\* fitted, context goes only after the last message, and the lowest scores first.
THEOREM PromptsAreTrimmed ==
  HistorySpec => []PromptTrimmed
  <1>1. HistoryInv => PromptTrimmed
    <2> SUFFICES ASSUME HistoryInv, NEW t \in Turns, NEW window \in Windows,
                        NEW memory \in {0, MemoryTokens}, NEW context \in Contexts
                 PROVE  TrimmedRight(Prompt(t, window, memory, context), SystemTokens,
                                     HistoryTokens(t), context, window)
      BY DEF PromptTrimmed
    <2>1. HistoryTokens(t) \in Seq(Nat)
      BY HistoryTokensAre
    <2>2. /\ window \in Int /\ SystemTokens \in Int /\ memory \in Nat /\ context \in Items
      <3>1. window \in Nat /\ SystemTokens \in Nat /\ MemoryTokens \in Nat
        BY HistoryAssumption
      <3>2. context \in Items
        BY HistoryAssumption DEF Items
      <3> QED
        BY <3>1, <3>2
    <2> QED
      BY <2>1, <2>2, TrimmedIs DEF Prompt
  <1> QED
    BY <1>1, HistoryInvariant, PTL
=============================================================================
