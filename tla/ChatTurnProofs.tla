--------------------------- MODULE ChatTurnProofs ---------------------------
(***************************************************************************)
(* ChatTurn, proved for any requests, quotas, estimates, bills, calls side *)
(* by side and faults: tokens are counted once, a request's     *)
(* overshoot is bounded, a refusal is final, a turn is kept whole.         *)
(* Retrieval, what the turn's agents search, for any files, runs, batches, *)
(* searches and faults: the index is what was read, an answer is what the  *)
(* search says of it; and Evaluation: what a grade says of either is so.   *)
(***************************************************************************)
EXTENDS ChatTurn, Evaluation, FiniteRecursion

-----------------------------------------------------------------------------
(* The largest bill *)

LEMMA LargestExists ==
  ASSUME NEW S, S \subseteq Nat, IsFiniteSet(S), S # {}
  PROVE  Max(S) \in S /\ \A y \in S : y <= Max(S)
  <1> DEFINE Above(x) == {y \in S : y >= x}
             Family == {Above(x) : x \in S}
  <1>1. \A v \in S : v \in Nat
    OBVIOUS
  <1>2. PICK T \in Family : \A U \in Family : <<U, T>> \notin StrictSubsetOrdering(S)
    <2>1. Family \in SUBSET SUBSET S /\ Family # {}
      OBVIOUS
    <2> HIDE DEF Family
    <2> QED
      BY <2>1, SubsetsFounded DEF Founded
  <1>3. PICK x \in S : T = Above(x)
    BY <1>2
  <1>4. ASSUME NEW y \in S, y > x PROVE FALSE
    <2>1. x \in Nat /\ y \in Nat /\ x >= x /\ ~(x >= y)
      BY <1>1, <1>4
    <2>2. \A v \in S : v >= y => v >= x
      BY <1>1, <1>4, <2>1
    <2>3. <<Above(y), T>> \in StrictSubsetOrdering(S)
      BY <1>3, <2>1, <2>2 DEF StrictSubsetOrdering
    <2> QED
      BY <1>2, <2>3
  <1>5. \E z \in S : \A y \in S : z >= y
    BY <1>1, <1>4
  <1>6. Max(S) \in S /\ \A y \in S : Max(S) >= y
    BY <1>5 DEF Max
  <1> QED
    BY <1>1, <1>6

LEMMA SizesBounded ==
  /\ PromptSizes \subseteq Nat
  /\ Max(BilledSizes) \in Nat /\ \A b \in BilledSizes : b \in Nat /\ b <= Max(BilledSizes)
  <1>1. BilledSizes \subseteq Nat /\ BilledSizes # {} /\ IsFiniteSet(BilledSizes)
    BY CallAssumption
  <1> QED
    BY <1>1, LargestExists, CallAssumption

-----------------------------------------------------------------------------
(* The inductive invariant *)

TurnRecord ==
    [stage : Stages, day : Days, used : Nat, refused : BOOLEAN, meter : Nat,
     scopeRefused : BOOLEAN, calls : 0..Parallel, made : 0..MaxCalls, tally : Nat]

\* What a turn's calls used is on its meters until it is over, and then recorded
\* or known to be lost; its tally is what its closed scopes used, nothing at first.
Metered(t) ==
    /\ turn[t].tally = turn[t].used
    /\ turn[t].stage \in {"new", "counted"} => turn[t].used = 0
    /\ turn[t].stage # "ended" => spent[t] = turn[t].used + turn[t].meter /\ records[t] = 0
    /\ turn[t].stage \notin Scopes => turn[t].calls = 0 /\ turn[t].meter = 0
    /\ turn[t].stage = "ended" /\ t \notin uncounted => records[t] = spent[t]

OvershootBound == RequestQuota + Parallel * Max(BilledSizes)

\* Each of the calls under way may still be billed the most there is.
WithinBound(t) ==
    /\ turn[t].used + turn[t].meter + turn[t].calls * Max(BilledSizes) <= OvershootBound
    /\ spent[t] <= OvershootBound

\* What a turn has left behind at each stage.
Unsaved == {"new", "counted", "summarizing", "orchestrating", "saving", "failed"}
LeftBehind(t) ==
    /\ turn[t].stage \in Unsaved => events[t] = {} /\ t \notin extracted
    /\ turn[t].stage \in {"new", "counted"} \cup Scopes => client[t] = <<>>
    /\ turn[t].stage \in {"saving", "saved"} =>
          ~turn[t].scopeRefused /\ client[t] \in {<<>>, <<"complete">>}
    /\ turn[t].scopeRefused =>
          /\ events[t] = {} /\ t \notin extracted
          /\ \A i \in DOMAIN client[t] : client[t][i] # "complete"

TurnRight(t) == Metered(t) /\ WithinBound(t) /\ LeftBehind(t)

Balanced ==
    MapThenSumSet(LAMBDA d : dayTokens[d], Days) = MapThenSumSet(LAMBDA t : records[t], Turns)

ChatInv ==
    /\ TypeOK /\ Balanced /\ ReportedOnce /\ AllOrNothing
    /\ \A t \in Turns : TurnRight(t)

-----------------------------------------------------------------------------
(* What the proofs of the actions share *)

LEMMA ProductGrows ==
  ASSUME NEW a \in Nat, NEW b \in Nat, NEW m \in Nat, a <= b
  PROVE  a * m \in Nat /\ b * m \in Nat /\ a * m <= b * m
  <1>1. PICK d \in Nat : b = a + d
    <2>1. b - a \in Nat /\ b = a + (b - a)
      OBVIOUS
    <2> QED
      BY <2>1
  <1>2. a * m \in Nat /\ d * m \in Nat
    OBVIOUS
  <1>3. b * m = a * m + d * m
    BY <1>1
  <1> QED
    BY <1>2, <1>3

LEMMA BoundIsNat == OvershootBound \in Nat /\ RequestQuota <= OvershootBound
  <1>1. RequestQuota \in Nat /\ Parallel \in Nat
    BY QuotaAssumption, CallAssumption
  <1>2. Parallel * Max(BilledSizes) \in Nat
    BY <1>1, SizesBounded, ProductGrows
  <1> QED
    BY <1>1, <1>2 DEF OvershootBound

LEMMA DaysFinite == IsFiniteSet(Days) /\ Days \subseteq Nat
  <1>1. MaxDays \in Nat
    BY BoundAssumption
  <1> QED
    BY <1>1, FS_Interval DEF Days

LEMMA BalancedTotals ==
  /\ Balanced <=> Total(dayTokens, Days) = Total(records, Turns)
  /\ Balanced' <=> Total(dayTokens', Days) = Total(records', Turns)
  <1>1. /\ MapThenSumSet(LAMBDA d : dayTokens[d], Days) = Total(dayTokens, Days)
        /\ MapThenSumSet(LAMBDA t : records[t], Turns) = Total(records, Turns)
    BY DEF MapThenSumSet, MapThenFoldSet, Total, Sums, Added, Pick, Rest
  <1>2. /\ MapThenSumSet(LAMBDA d : dayTokens'[d], Days) = Total(dayTokens', Days)
        /\ MapThenSumSet(LAMBDA t : records'[t], Turns) = Total(records', Turns)
    BY DEF MapThenSumSet, MapThenFoldSet, Total, Sums, Added, Pick, Rest
  <1>3. Balanced <=> Total(dayTokens, Days) = Total(records, Turns)
    BY <1>1 DEF Balanced
  <1>4. Balanced' <=> Total(dayTokens', Days) = Total(records', Turns)
    BY <1>2 DEF Balanced, MapThenSumSet, MapThenFoldSet
  <1> QED
    BY <1>3, <1>4

\* What a step of one turn leaves alone.
Frame(t) ==
    \A u \in Turns \ {t} :
        /\ turn'[u] = turn[u] /\ records'[u] = records[u] /\ events'[u] = events[u]
        /\ client'[u] = client[u] /\ spent'[u] = spent[u]
        /\ u \in extracted' <=> u \in extracted
        /\ u \in uncounted' <=> u \in uncounted

Whole(t) ==
    /\ events[t] \in {{}, {"user", "assistant"}}
    /\ t \in extracted => events[t] # {}
    /\ client[t] = <<"error">> => events[t] = {}

LEMMA AllWhole == /\ AllOrNothing <=> \A t \in Turns : Whole(t)
                  /\ AllOrNothing' <=> \A t \in Turns : Whole(t)'
  BY DEF AllOrNothing, Whole

LEMMA OneTurnsStep ==
  ASSUME ChatInv, NEW t \in Turns, Frame(t), TypeOK', Balanced', ReportedOnce',
         Whole(t)', TurnRight(t)'
  PROVE  ChatInv'
  <1>1. ASSUME NEW u \in Turns, u # t PROVE TurnRight(u)' /\ Whole(u)'
    <2>1. TurnRight(u) /\ Whole(u)
      BY AllWhole DEF ChatInv
    <2>2. /\ turn'[u] = turn[u] /\ records'[u] = records[u] /\ events'[u] = events[u]
          /\ client'[u] = client[u] /\ spent'[u] = spent[u]
          /\ u \in extracted' <=> u \in extracted
          /\ u \in uncounted' <=> u \in uncounted
      BY <1>1 DEF Frame
    <2>3. Metered(u)'
      BY <2>1, <2>2 DEF TurnRight, Metered
    <2>4. WithinBound(u)'
      BY <2>1, <2>2 DEF TurnRight, WithinBound, OvershootBound
    <2>5. LeftBehind(u)'
      BY <2>1, <2>2 DEF TurnRight, LeftBehind
    <2> QED
      BY <2>1, <2>2, <2>3, <2>4, <2>5 DEF TurnRight, Whole
  <1>2. \A u \in Turns : TurnRight(u)' /\ Whole(u)'
    BY <1>1
  <1> QED
    BY <1>2, AllWhole DEF ChatInv

\* A step that changes what is kept of one turn and none of the totals.
LEMMA TurnChanges ==
  ASSUME ChatInv, NEW t \in Turns, NEW r \in TurnRecord, turn' = [turn EXCEPT ![t] = r],
         UNCHANGED <<today, usage, conversation, history>>, minute' \in Nat,
         client' \in [Turns -> Seq({"complete", "error"})],
         \A u \in Turns \ {t} : client'[u] = client[u]
  PROVE  /\ TypeOK' /\ Frame(t) /\ Balanced' /\ ReportedOnce' /\ turn'[t] = r
         /\ (client'[t] = <<"error">> => events[t] = {}) => Whole(t)'
  <1>1. TypeOK /\ AllOrNothing /\ Balanced /\ ReportedOnce
    BY DEF ChatInv
  <1>2. turn'[t] = r /\ \A u \in Turns \ {t} : turn'[u] = turn[u]
    BY <1>1 DEF TypeOK
  <1>3. TypeOK'
    BY <1>1 DEF TypeOK, TurnRecord, usage, conversation, history
  <1>4. Frame(t)
    BY <1>2 DEF Frame, usage, conversation, history
  <1>5. Balanced'
    BY <1>1, BalancedTotals DEF usage
  <1>6. ReportedOnce'
    BY <1>1 DEF ReportedOnce, usage
  <1>7. (client'[t] = <<"error">> => events[t] = {}) => Whole(t)'
    BY <1>1, AllWhole DEF Whole, conversation
  <1> QED
    BY <1>2, <1>3, <1>4, <1>5, <1>6, <1>7

LEMMA TurnIsRecord ==
  ASSUME TypeOK, NEW t \in Turns
  PROVE  turn[t] \in TurnRecord /\ client[t] \in Seq({"complete", "error"})
  BY DEF TypeOK, TurnRecord

LEMMA OverRecord ==
  ASSUME TypeOK, NEW t \in Turns
  PROVE  /\ Over(t) \in TurnRecord
         /\ Over(t).stage = "ended" /\ Over(t).used = 0 /\ Over(t).meter = 0
         /\ Over(t).tally = 0 /\ Over(t).calls = 0
         /\ Over(t).scopeRefused = turn[t].scopeRefused
  <1>1. turn[t].scopeRefused \in BOOLEAN
    BY TurnIsRecord DEF TurnRecord
  <1>2. MaxCalls \in Nat /\ 1 \in Days
    BY BoundAssumption DEF Days
  <1>3. "ended" \in Stages /\ 0 \in 0..Parallel /\ 0 \in 0..MaxCalls
    BY <1>2, CallAssumption DEF Stages
  <1>4. Over(t) = [NewTurn EXCEPT !.stage = "ended", !.scopeRefused = turn[t].scopeRefused]
    BY DEF Over
  <1>5. NewTurn \in [stage : {"new"}, day : Days, used : Nat, refused : BOOLEAN, meter : Nat,
                     scopeRefused : BOOLEAN, calls : 0..Parallel, made : 0..MaxCalls,
                     tally : Nat]
    BY <1>2, <1>3 DEF NewTurn
  <1>6. Over(t) \in TurnRecord
    BY <1>1, <1>3, <1>4, <1>5 DEF TurnRecord
  <1>7. /\ Over(t).stage = "ended" /\ Over(t).used = 0 /\ Over(t).meter = 0
        /\ Over(t).tally = 0 /\ Over(t).calls = 0
        /\ Over(t).scopeRefused = turn[t].scopeRefused
    BY <1>4 DEF NewTurn
  <1> QED
    BY <1>6, <1>7

LEMMA ClosedRecord ==
  ASSUME TypeOK, NEW t \in Turns, NEW stage \in Stages
  PROVE  /\ Closed(t, stage) \in TurnRecord
         /\ Closed(t, stage).stage = stage
         /\ Closed(t, stage).used = turn[t].used + turn[t].meter
         /\ Closed(t, stage).tally = turn[t].tally + turn[t].meter
         /\ Closed(t, stage).meter = 0 /\ Closed(t, stage).calls = 0
         /\ Closed(t, stage).scopeRefused = turn[t].scopeRefused
  <1>1. /\ turn[t] \in TurnRecord
        /\ turn[t].used + turn[t].meter \in Nat /\ turn[t].tally + turn[t].meter \in Nat
    BY TurnIsRecord DEF TurnRecord
  <1>2. 0 \in 0..Parallel
    BY CallAssumption
  <1> QED
    BY <1>1, <1>2 DEF Closed, TurnRecord

\* With no call under way, what was spent within the bound stays within it.
LEMMA QuietWithinBound ==
  ASSUME NEW t \in Turns, turn'[t].calls = 0,
         turn'[t].used \in Nat, turn'[t].meter \in Nat,
         turn'[t].used + turn'[t].meter <= OvershootBound, spent'[t] <= OvershootBound
  PROVE  WithinBound(t)'
  <1>1. turn'[t].calls * Max(BilledSizes) = 0
    BY SizesBounded
  <1>2. OvershootBound \in Nat
    BY BoundIsNat
  <1> QED
    BY <1>1, <1>2 DEF WithinBound, OvershootBound

LEMMA TellTypes ==
  ASSUME TypeOK, NEW t \in Turns, NEW e \in {"complete", "error"}, Tell(t, e)
  PROVE  /\ client' \in [Turns -> Seq({"complete", "error"})]
         /\ \A u \in Turns \ {t} : client'[u] = client[u]
         /\ client'[t] = client[t] \/ client'[t] = Append(client[t], e)
  <1>1. client \in [Turns -> Seq({"complete", "error"})]
    BY DEF TypeOK
  <1>2. client[t] \in Seq({"complete", "error"})
    BY <1>1
  <1>3. Append(client[t], e) \in Seq({"complete", "error"})
    BY <1>2
  <1> QED
    BY <1>1, <1>3 DEF Tell

LEMMA InitGood == Init => ChatInv
  <1> SUFFICES ASSUME Init PROVE ChatInv
    OBVIOUS
  <1> USE DEF Init
  <1>1. MaxCalls \in Nat /\ 1 \in Days /\ DailyQuota \in Nat /\ ReportAt \in 1..DailyQuota
    BY BoundAssumption, QuotaAssumption DEF Days
  <1>2. TypeOK
    BY <1>1, CallAssumption DEF TypeOK, NewTurn, Stages
  <1>3. Balanced
    <2>1. Total(dayTokens, Days) = 0
      BY TotalOfNothing, DaysFinite
    <2>2. Total(records, Turns) = 0
      BY TotalOfNothing, TurnsAssumption
    <2> QED
      BY <2>1, <2>2, BalancedTotals
  <1>4. ReportedOnce
    BY <1>1 DEF ReportedOnce
  <1>5. AllOrNothing
    BY DEF AllOrNothing
  <1>6. ASSUME NEW t \in Turns PROVE TurnRight(t)
    <2>1. turn[t] = NewTurn /\ spent[t] = 0 /\ records[t] = 0 /\ turn[t].calls = 0
      BY DEF NewTurn
    <2>2. Metered(t)
      BY <2>1 DEF Metered, NewTurn, Scopes
    <2>3. WithinBound(t)
      <3>1. turn[t].used = 0 /\ turn[t].meter = 0 /\ turn[t].calls * Max(BilledSizes) = 0
        BY <2>1, SizesBounded DEF NewTurn
      <3> QED
        BY <2>1, <3>1, BoundIsNat, QuotaAssumption DEF WithinBound
    <2>4. LeftBehind(t)
      BY <2>1 DEF LeftBehind, NewTurn, Unsaved
    <2> QED
      BY <2>2, <2>3, <2>4 DEF TurnRight
  <1> QED
    BY <1>2, <1>3, <1>4, <1>5, <1>6 DEF ChatInv

-----------------------------------------------------------------------------
(* Every step keeps the invariant *)

\* The state a step of one turn starts from.
LEMMA Before ==
  ASSUME ChatInv, NEW t \in Turns
  PROVE  /\ TypeOK /\ Metered(t) /\ WithinBound(t) /\ LeftBehind(t) /\ Whole(t)
         /\ turn[t] \in TurnRecord /\ client[t] \in Seq({"complete", "error"})
         /\ client \in [Turns -> Seq({"complete", "error"})] /\ minute \in Nat /\ today \in Days
         /\ spent[t] \in Nat /\ records[t] \in Nat
  BY AllWhole, TurnIsRecord DEF ChatInv, TurnRight, TypeOK

LEMMA CountRequestKeeps ==
  ASSUME ChatInv, NEW t \in Turns, CountRequest(t) PROVE ChatInv'
  <1> DEFINE r == IF minute' > RequestsPerMinute THEN Over(t)
                  ELSE [turn[t] EXCEPT !.stage = "counted", !.day = today]
  <1>1. /\ turn[t].stage = "new" /\ turn' = [turn EXCEPT ![t] = r] /\ minute' \in Nat
        /\ UNCHANGED <<today, usage, conversation, history>> /\ client' = client
    BY Before DEF CountRequest
  <1>2. /\ r \in TurnRecord /\ r.stage \in {"ended", "counted"} /\ r.used = 0 /\ r.meter = 0
        /\ r.tally = 0 /\ r.calls = 0 /\ r.scopeRefused = turn[t].scopeRefused
    <2> DEFINE on == [turn[t] EXCEPT !.stage = "counted", !.day = today]
    <2>1. CASE r = Over(t)
      BY <2>1, Before, OverRecord
    <2>2. CASE r = on
      <3>1. /\ turn[t].used = 0 /\ turn[t].meter = 0 /\ turn[t].tally = 0 /\ turn[t].calls = 0
        <4> HIDE DEF r
        <4> QED
          BY <1>1, Before DEF Metered, Scopes
      <3>2. turn[t] \in TurnRecord /\ "counted" \in Stages /\ today \in Days
        <4> HIDE DEF on, r
        <4> QED
          BY Before DEF Stages
      <3>3. /\ on \in TurnRecord /\ on.stage = "counted" /\ on.used = turn[t].used
            /\ on.meter = turn[t].meter /\ on.tally = turn[t].tally
            /\ on.calls = turn[t].calls /\ on.scopeRefused = turn[t].scopeRefused
        <4> HIDE DEF r
        <4> QED
          BY <3>2 DEF TurnRecord
      <3> HIDE DEF on, r
      <3> QED
        BY <2>2, <3>1, <3>3
    <2>3. r = Over(t) \/ r = on
      OBVIOUS
    <2> HIDE DEF on, r
    <2> QED
      BY <2>1, <2>2, <2>3
  <1> HIDE DEF r
  <1>3. /\ TypeOK' /\ Frame(t) /\ Balanced' /\ ReportedOnce' /\ turn'[t] = r
        /\ (client'[t] = <<"error">> => events[t] = {}) => Whole(t)'
    BY <1>1, <1>2, Before, TurnChanges
  <1>4. Whole(t)'
    BY <1>1, <1>3, Before DEF Whole
  <1>5. Metered(t)'
    <2>1. turn[t].used = 0 /\ turn[t].meter = 0
      BY <1>1, Before DEF Metered, Scopes
    <2>2. spent[t] = turn[t].used + turn[t].meter /\ records[t] = 0
      BY <1>1, Before DEF Metered
    <2>3. spent[t] = 0
      BY <2>1, <2>2
    <2> QED
      BY <1>1, <1>2, <1>3, <2>2, <2>3 DEF Metered, Scopes, usage, history
  <1>6. WithinBound(t)'
    BY <1>1, <1>2, <1>3, Before, BoundIsNat, QuietWithinBound DEF WithinBound, history
  <1>7. LeftBehind(t)'
    BY <1>1, <1>2, <1>3, Before DEF LeftBehind, Unsaved, conversation, Scopes
  <1> QED
    BY <1>3, <1>4, <1>5, <1>6, <1>7, OneTurnsStep DEF TurnRight

LEMMA CheckDailyQuotaKeeps ==
  ASSUME ChatInv, NEW t \in Turns, CheckDailyQuota(t) PROVE ChatInv'
  <1> DEFINE r == IF OverDailyQuota(t) THEN Over(t)
                  ELSE [turn[t] EXCEPT !.stage = "summarizing"]
  <1>1. /\ turn[t].stage = "counted" /\ turn' = [turn EXCEPT ![t] = r] /\ minute' = minute
        /\ UNCHANGED <<today, usage, conversation, history>> /\ client' = client
    BY DEF CheckDailyQuota, clock
  <1>2. /\ r \in TurnRecord /\ r.stage \in {"ended", "summarizing"} /\ r.used = 0 /\ r.meter = 0
        /\ r.tally = 0 /\ r.calls = 0 /\ r.scopeRefused = turn[t].scopeRefused
    <2> DEFINE on == [turn[t] EXCEPT !.stage = "summarizing"]
    <2>1. CASE r = Over(t)
      BY <2>1, Before, OverRecord
    <2>2. CASE r = on
      <3>1. /\ turn[t].used = 0 /\ turn[t].meter = 0 /\ turn[t].tally = 0 /\ turn[t].calls = 0
        <4> HIDE DEF r
        <4> QED
          BY <1>1, Before DEF Metered, Scopes
      <3>2. turn[t] \in TurnRecord /\ "summarizing" \in Stages
        BY Before DEF Stages, Scopes
      <3>3. /\ on \in TurnRecord /\ on.stage = "summarizing" /\ on.used = turn[t].used
            /\ on.meter = turn[t].meter /\ on.tally = turn[t].tally
            /\ on.calls = turn[t].calls /\ on.scopeRefused = turn[t].scopeRefused
        <4> HIDE DEF r
        <4> QED
          BY <3>2 DEF TurnRecord
      <3> HIDE DEF on, r
      <3> QED
        BY <2>2, <3>1, <3>3
    <2>3. r = Over(t) \/ r = on
      OBVIOUS
    <2> HIDE DEF on, r
    <2> QED
      BY <2>1, <2>2, <2>3
  <1> HIDE DEF r
  <1>3. /\ TypeOK' /\ Frame(t) /\ Balanced' /\ ReportedOnce' /\ turn'[t] = r
        /\ (client'[t] = <<"error">> => events[t] = {}) => Whole(t)'
    BY <1>1, <1>2, Before, TurnChanges
  <1>4. Whole(t)'
    BY <1>1, <1>3, Before DEF Whole
  <1>5. Metered(t)'
    <2>1. turn[t].used = 0 /\ turn[t].meter = 0
      BY <1>1, Before DEF Metered, Scopes
    <2>2. spent[t] = turn[t].used + turn[t].meter /\ records[t] = 0
      BY <1>1, Before DEF Metered
    <2>3. spent[t] = 0
      BY <2>1, <2>2
    <2> QED
      BY <1>1, <1>2, <1>3, <2>2, <2>3 DEF Metered, Scopes, usage, history
  <1>6. WithinBound(t)'
    BY <1>1, <1>2, <1>3, Before, BoundIsNat, QuietWithinBound DEF WithinBound, history
  <1>7. LeftBehind(t)'
    BY <1>1, <1>2, <1>3, Before DEF LeftBehind, Unsaved, conversation, Scopes
  <1> QED
    BY <1>3, <1>4, <1>5, <1>6, <1>7, OneTurnsStep DEF TurnRight

\* A call let through is within the quota, whatever its prompt was taken to be,
\* and with it at most Parallel are under way.
LEMMA BeginCallKeeps ==
  ASSUME ChatInv, NEW t \in Turns, BeginCall(t) PROVE ChatInv'
  <1>1. PICK p \in PromptSizes :
          /\ MayCall(t) /\ ~Refuses(t, p)
          /\ turn' = [turn EXCEPT ![t].calls = @ + 1, ![t].made = @ + 1]
          /\ UNCHANGED <<clock, usage, conversation, client, history>>
    BY DEF BeginCall
  <1> DEFINE r == [turn[t] EXCEPT !.calls = @ + 1, !.made = @ + 1]
             k == turn[t].calls
  <1>2. /\ turn' = [turn EXCEPT ![t] = r] /\ minute' = minute
        /\ UNCHANGED <<today, usage, conversation, history>> /\ client' = client
    BY <1>1, Before DEF TypeOK, clock
  <1>3. /\ turn[t].stage \in Scopes /\ k < Parallel /\ k \in Nat /\ turn[t].made < MaxCalls
        /\ turn[t].used + turn[t].meter + p <= RequestQuota
        /\ turn[t].used \in Nat /\ turn[t].meter \in Nat /\ p \in Nat
    <2>1. p \in Nat /\ RequestQuota \in Nat
      BY SizesBounded, QuotaAssumption
    <2>2. turn[t].used \in Nat /\ turn[t].meter \in Nat /\ k \in Nat
      BY Before DEF TurnRecord
    <2>3. turn[t].used + turn[t].meter + p <= RequestQuota
      BY <1>1, <2>1, <2>2 DEF Refuses
    <2> QED
      BY <1>1, <2>1, <2>2, <2>3 DEF MayCall, InScope
  <1>4. turn[t].made + 1 \in 0..MaxCalls /\ k + 1 \in 0..Parallel
    <2>1. turn[t].made \in 0..MaxCalls /\ Parallel \in Nat
      BY Before, CallAssumption DEF TurnRecord
    <2> QED
      BY <1>3, <2>1, BoundAssumption
  <1>5. /\ r \in TurnRecord /\ r.calls = k + 1
        /\ r.stage = turn[t].stage /\ r.used = turn[t].used /\ r.meter = turn[t].meter
        /\ r.tally = turn[t].tally /\ r.scopeRefused = turn[t].scopeRefused
    BY <1>4, Before DEF TurnRecord
  <1> HIDE DEF r
  <1>6. /\ TypeOK' /\ Frame(t) /\ Balanced' /\ ReportedOnce' /\ turn'[t] = r
        /\ (client'[t] = <<"error">> => events[t] = {}) => Whole(t)'
    BY <1>2, <1>5, Before, TurnChanges
  <1>7. Whole(t)'
    BY <1>2, <1>6, Before DEF Whole
  <1>8. Metered(t)'
    BY <1>2, <1>3, <1>5, <1>6, Before DEF Metered, usage, history
  <1>9. WithinBound(t)'
    <2> DEFINE billed == (k + 1) * Max(BilledSizes)
    <2> HIDE DEF k, billed
    <2>1. /\ k + 1 \in Nat /\ Parallel \in Nat /\ k + 1 <= Parallel /\ RequestQuota \in Nat
          /\ Max(BilledSizes) \in Nat
      BY <1>3, SizesBounded, CallAssumption, QuotaAssumption
    <2>2. /\ billed \in Nat /\ billed <= Parallel * Max(BilledSizes)
          /\ Parallel * Max(BilledSizes) \in Nat
      <3>1. \A m \in Nat : (k + 1) * m \in Nat /\ Parallel * m \in Nat
                             /\ (k + 1) * m <= Parallel * m
        BY ONLY <2>1, ProductGrows
      <3> QED
        BY <2>1, <3>1 DEF billed
    <2>3. turn[t].used + turn[t].meter + billed <= OvershootBound
      BY <1>3, <2>1, <2>2 DEF OvershootBound
    <2>4. /\ turn'[t].used = turn[t].used /\ turn'[t].meter = turn[t].meter
          /\ turn'[t].calls = k + 1 /\ spent'[t] = spent[t]
      BY <1>2, <1>5, <1>6 DEF history
    <2>5. turn'[t].used + turn'[t].meter + turn'[t].calls * Max(BilledSizes) <= OvershootBound
      BY <2>3, <2>4 DEF billed
    <2> QED
      BY <2>4, <2>5, Before DEF WithinBound, OvershootBound
  <1>10. LeftBehind(t)'
    BY <1>2, <1>3, <1>5, <1>6, Before DEF LeftBehind, Unsaved, conversation, Scopes
  <1> QED
    BY <1>6, <1>7, <1>8, <1>9, <1>10, OneTurnsStep DEF TurnRight

LEMMA RefuseCallKeeps ==
  ASSUME ChatInv, NEW t \in Turns, RefuseCall(t) PROVE ChatInv'
  <1>1. /\ MayCall(t)
        /\ turn' = [turn EXCEPT ![t].scopeRefused = TRUE, ![t].refused = TRUE,
                                ![t].made = @ + 1]
        /\ UNCHANGED <<clock, usage, conversation, client, history>>
    BY DEF RefuseCall
  <1> DEFINE r == [turn[t] EXCEPT !.scopeRefused = TRUE, !.refused = TRUE, !.made = @ + 1]
  <1>2. /\ turn' = [turn EXCEPT ![t] = r] /\ minute' = minute
        /\ UNCHANGED <<today, usage, conversation, history>> /\ client' = client
    BY <1>1, Before DEF TypeOK, clock
  <1>3. turn[t].stage \in Scopes /\ turn[t].made + 1 \in 0..MaxCalls
    BY <1>1, Before, BoundAssumption DEF MayCall, InScope, TurnRecord
  <1>4. /\ r \in TurnRecord /\ r.calls = turn[t].calls
        /\ r.stage = turn[t].stage /\ r.used = turn[t].used /\ r.meter = turn[t].meter
        /\ r.tally = turn[t].tally
    BY <1>3, Before DEF TurnRecord
  <1> HIDE DEF r
  <1>5. /\ TypeOK' /\ Frame(t) /\ Balanced' /\ ReportedOnce' /\ turn'[t] = r
        /\ (client'[t] = <<"error">> => events[t] = {}) => Whole(t)'
    BY <1>2, <1>4, Before, TurnChanges
  <1>6. Whole(t)'
    BY <1>2, <1>5, Before DEF Whole
  <1>7. Metered(t)'
    BY <1>2, <1>3, <1>4, <1>5, Before DEF Metered, usage, history
  <1>8. WithinBound(t)'
    BY <1>2, <1>4, <1>5, Before DEF WithinBound, OvershootBound, history
  <1>9. LeftBehind(t)'
    BY <1>2, <1>3, <1>4, <1>5, Before DEF LeftBehind, Unsaved, conversation, Scopes
  <1> QED
    BY <1>5, <1>6, <1>7, <1>8, <1>9, OneTurnsStep DEF TurnRight

\* A call that ends is billed no more than was allowed for it.
LEMMA CallEnds ==
  ASSUME ChatInv, NEW t \in Turns, turn[t].calls > 0,
         NEW c \in Nat, c <= Max(BilledSizes),
         turn'[t].calls = turn[t].calls - 1, turn'[t].used = turn[t].used,
         turn'[t].meter = turn[t].meter + c, spent'[t] = spent[t] + c
  PROVE  turn[t].stage \in Scopes /\ WithinBound(t)'
  <1> DEFINE MB     == Max(BilledSizes)
             others == (turn[t].calls - 1) * MB
             now    == turn[t].used + turn[t].meter
  <1>1. /\ turn[t].calls \in Nat /\ turn[t].calls - 1 \in Nat
        /\ turn[t].used \in Nat /\ turn[t].meter \in Nat
    BY Before, CallAssumption DEF TurnRecord
  <1>2. MB \in Nat /\ OvershootBound \in Nat
    BY SizesBounded, BoundIsNat
  <1>3. turn[t].stage \in Scopes
    <2>1. turn[t].calls # 0
      OBVIOUS
    <2> QED
      BY <2>1, Before DEF Metered
  <1>4. spent[t] = now
    BY <1>3, Before DEF Metered, Scopes
  <1>5. others \in Nat /\ turn[t].calls * MB = others + MB
    <2>1. \A n \in Nat, m \in Nat : n * m \in Nat /\ (n + 1) * m = n * m + m
      OBVIOUS
    <2>2. turn[t].calls = (turn[t].calls - 1) + 1
      BY <1>1
    <2> HIDE DEF MB
    <2> QED
      BY <1>1, <1>2, <2>1, <2>2
  <1>6. now + turn[t].calls * MB <= OvershootBound
    BY Before DEF WithinBound
  <1>7. /\ turn'[t].used + turn'[t].meter = now + c /\ spent'[t] = now + c
        /\ turn'[t].calls * MB = others
    BY <1>1, <1>4
  <1>8. now \in Nat /\ c <= MB
    BY <1>1
  <1> HIDE DEF MB, others, now
  <1>9. now + c + others <= OvershootBound /\ now + c <= OvershootBound
    BY <1>2, <1>5, <1>6, <1>8
  <1> QED
    BY <1>3, <1>7, <1>9 DEF WithinBound, OvershootBound, MB

LEMMA CallAnsweredKeeps ==
  ASSUME ChatInv, NEW t \in Turns, CallAnswered(t) PROVE ChatInv'
  <1>1. PICK b \in BilledSizes :
          /\ turn[t].calls > 0
          /\ turn' = [turn EXCEPT ![t].calls = @ - 1, ![t].meter = @ + b]
          /\ spent' = [spent EXCEPT ![t] = @ + b]
          /\ UNCHANGED <<clock, usage, conversation, client, uncounted>>
    BY DEF CallAnswered
  <1> DEFINE r == [turn[t] EXCEPT !.calls = @ - 1, !.meter = @ + b]
  <1>2. b \in Nat /\ b <= Max(BilledSizes)
    BY SizesBounded
  <1>3. /\ turn[t].calls - 1 \in 0..Parallel /\ turn[t].meter + b \in Nat
        /\ turn[t].meter \in Nat /\ turn[t].used \in Nat
    <2>1. turn[t] \in TurnRecord
      BY Before
    <2>2. /\ turn[t].calls \in 0..Parallel /\ turn[t].meter \in Nat /\ turn[t].used \in Nat
      BY <2>1 DEF TurnRecord
    <2>3. Parallel \in Nat
      BY CallAssumption
    <2> QED
      BY <1>1, <1>2, <2>2, <2>3
  <1>4. /\ turn' = [turn EXCEPT ![t] = r] /\ minute' = minute
        /\ UNCHANGED <<today, usage, conversation>> /\ client' = client
        /\ uncounted' = uncounted
    BY <1>1, Before DEF TypeOK, clock
  <1>5. /\ r \in TurnRecord /\ r.calls = turn[t].calls - 1
        /\ r.stage = turn[t].stage /\ r.used = turn[t].used /\ r.meter = turn[t].meter + b
        /\ r.tally = turn[t].tally /\ r.scopeRefused = turn[t].scopeRefused
    BY <1>3, Before DEF TurnRecord
  <1> HIDE DEF r
  <1>6. turn'[t] = r /\ spent'[t] = spent[t] + b
    BY <1>1, <1>4, Before DEF TypeOK
  <1>7. TypeOK'
    <2>1. /\ turn \in [Turns -> TurnRecord] /\ spent \in [Turns -> Nat]
          /\ spent[t] + b \in Nat
      BY <1>2, Before DEF TypeOK, TurnRecord
    <2>2. turn' \in [Turns -> TurnRecord]
      BY <1>4, <1>5, <2>1
    <2>3. spent' \in [Turns -> Nat]
      BY <1>1, <2>1
    <2> QED
      BY <1>1, <1>4, <2>2, <2>3, Before DEF TypeOK, TurnRecord, clock, usage, conversation
  <1>8. Frame(t)
    BY <1>1, <1>4, Before DEF Frame, TypeOK, usage, conversation
  <1>9. Balanced' /\ ReportedOnce'
    BY <1>4, BalancedTotals DEF ChatInv, ReportedOnce, usage
  <1>10. Whole(t)'
    BY <1>4, Before DEF Whole, conversation
  <1>11. turn[t].stage \in Scopes /\ WithinBound(t)'
    BY <1>1, <1>2, <1>5, <1>6, CallEnds
  <1>12. Metered(t)'
    <2>1. /\ spent[t] = turn[t].used + turn[t].meter /\ records[t] = 0 /\ records' = records
          /\ turn[t].stage \in Scopes /\ turn[t].tally = turn[t].used /\ spent[t] \in Nat
      BY <1>4, <1>11, Before DEF Metered, Scopes, usage
    <2>2. spent'[t] = turn'[t].used + turn'[t].meter
      BY <1>2, <1>3, <1>5, <1>6, <2>1
    <2> QED
      BY <1>5, <1>6, <2>1, <2>2 DEF Metered, Scopes
  <1>13. LeftBehind(t)'
    BY <1>4, <1>5, <1>6, <1>11, Before DEF LeftBehind, Unsaved, conversation, Scopes
  <1> QED
    BY <1>7, <1>8, <1>9, <1>10, <1>11, <1>12, <1>13, OneTurnsStep DEF TurnRight

LEMMA CallFailsKeeps ==
  ASSUME ChatInv, NEW t \in Turns, CallFails(t) PROVE ChatInv'
  <1>1. /\ turn[t].calls > 0 /\ turn' = [turn EXCEPT ![t].calls = @ - 1]
        /\ UNCHANGED <<clock, usage, conversation, client, history>>
    BY DEF CallFails
  <1> DEFINE r == [turn[t] EXCEPT !.calls = @ - 1]
  <1>2. /\ turn[t].calls - 1 \in 0..Parallel /\ turn[t].meter \in Nat /\ spent[t] \in Nat
        /\ 0 <= Max(BilledSizes)
    BY <1>1, Before, SizesBounded, CallAssumption DEF TurnRecord
  <1>3. /\ turn' = [turn EXCEPT ![t] = r] /\ minute' = minute
        /\ UNCHANGED <<today, usage, conversation, history>> /\ client' = client
    BY <1>1, Before DEF TypeOK, clock
  <1>4. /\ r \in TurnRecord /\ r.calls = turn[t].calls - 1
        /\ r.stage = turn[t].stage /\ r.used = turn[t].used /\ r.meter = turn[t].meter
        /\ r.tally = turn[t].tally /\ r.scopeRefused = turn[t].scopeRefused
    BY <1>2, Before DEF TurnRecord
  <1> HIDE DEF r
  <1>5. /\ TypeOK' /\ Frame(t) /\ Balanced' /\ ReportedOnce' /\ turn'[t] = r
        /\ (client'[t] = <<"error">> => events[t] = {}) => Whole(t)'
    BY <1>3, <1>4, Before, TurnChanges
  <1>6. Whole(t)'
    BY <1>3, <1>5, Before DEF Whole
  <1>7. turn[t].stage \in Scopes /\ WithinBound(t)'
    <2>1. turn'[t].meter = turn[t].meter + 0 /\ spent'[t] = spent[t] + 0
      BY <1>2, <1>3, <1>4, <1>5 DEF history
    <2> QED
      BY <1>1, <1>2, <1>4, <1>5, <2>1, CallEnds
  <1>8. Metered(t)'
    BY <1>3, <1>4, <1>5, <1>7, Before DEF Metered, usage, history
  <1>9. LeftBehind(t)'
    BY <1>3, <1>4, <1>5, <1>7, Before DEF LeftBehind, Unsaved, conversation, Scopes
  <1> QED
    BY <1>5, <1>6, <1>7, <1>8, <1>9, OneTurnsStep DEF TurnRight

\* A scope closes: its meter goes to the budget and the tally.
LEMMA ScopeCloses ==
  ASSUME ChatInv, NEW t \in Turns, NEW r \in TurnRecord, turn[t].stage # "ended",
         r.stage \notin {"new", "counted", "ended"}, r.used = turn[t].used + turn[t].meter,
         r.tally = turn[t].tally + turn[t].meter, r.meter = 0, r.calls = 0,
         turn'[t] = r, UNCHANGED <<usage, history>>
  PROVE  Metered(t)' /\ WithinBound(t)'
  <1>1. /\ turn[t].used \in Nat /\ turn[t].meter \in Nat
        /\ spent[t] = turn[t].used + turn[t].meter /\ records[t] = 0
        /\ turn[t].tally = turn[t].used
    BY Before DEF TurnRecord, Metered
  <1>2. r.used \in Nat /\ r.used + r.meter = spent[t] /\ r.tally = r.used
    BY <1>1
  <1>3. Metered(t)'
    BY <1>1, <1>2 DEF Metered, usage, history
  <1>4. spent[t] <= OvershootBound
    BY Before DEF WithinBound
  <1> QED
    BY <1>2, <1>3, <1>4, QuietWithinBound DEF history

LEMMA EndSummaryKeeps ==
  ASSUME ChatInv, NEW t \in Turns, EndSummary(t) PROVE ChatInv'
  <1> DEFINE r == [Closed(t, "orchestrating") EXCEPT !.scopeRefused = FALSE]
  <1>1. /\ turn[t].stage = "summarizing" /\ turn' = [turn EXCEPT ![t] = r] /\ minute' = minute
        /\ UNCHANGED <<today, usage, conversation, history>> /\ client' = client
    BY DEF EndSummary, clock
  <1>2. /\ r \in TurnRecord /\ r.stage = "orchestrating"
        /\ r.used = turn[t].used + turn[t].meter /\ r.tally = turn[t].tally + turn[t].meter
        /\ r.meter = 0 /\ r.calls = 0 /\ r.scopeRefused = FALSE
    <2>1. "orchestrating" \in Stages
      BY DEF Stages, Scopes
    <2> DEFINE q == Closed(t, "orchestrating")
    <2>2. /\ q \in TurnRecord /\ q.stage = "orchestrating"
          /\ q.used = turn[t].used + turn[t].meter /\ q.tally = turn[t].tally + turn[t].meter
          /\ q.meter = 0 /\ q.calls = 0
      <3> HIDE DEF r
      <3> QED
        BY <2>1, Before, ClosedRecord
    <2> HIDE DEF q
    <2>3. r = [q EXCEPT !.scopeRefused = FALSE]
      BY DEF q
    <2>4. /\ r \in TurnRecord /\ r.stage = q.stage /\ r.used = q.used /\ r.tally = q.tally
          /\ r.meter = q.meter /\ r.calls = q.calls /\ r.scopeRefused = FALSE
      <3> HIDE DEF r
      <3> QED
        BY <2>2, <2>3 DEF TurnRecord
    <2> HIDE DEF r
    <2> QED
      BY <2>2, <2>4
  <1> HIDE DEF r
  <1>3. /\ TypeOK' /\ Frame(t) /\ Balanced' /\ ReportedOnce' /\ turn'[t] = r
        /\ (client'[t] = <<"error">> => events[t] = {}) => Whole(t)'
    BY <1>1, <1>2, Before, TurnChanges
  <1>4. Whole(t)'
    BY <1>1, <1>3, Before DEF Whole
  <1>5. Metered(t)' /\ WithinBound(t)'
    BY <1>1, <1>2, <1>3, ScopeCloses
  <1>6. LeftBehind(t)'
    BY <1>1, <1>2, <1>3, Before DEF LeftBehind, Unsaved, conversation, Scopes
  <1> QED
    BY <1>3, <1>4, <1>5, <1>6, OneTurnsStep DEF TurnRight

LEMMA ToldSoFar ==
  ASSUME ChatInv, NEW t \in Turns, turn[t].stage = "orchestrating"
  PROVE  client[t] = <<>> /\ events[t] = {} /\ t \notin extracted
  BY Before DEF LeftBehind, Unsaved, Scopes

\* What one more event makes of an empty stream.
LEMMA FirstEvent ==
  ASSUME ChatInv, NEW t \in Turns, client[t] = <<>>, NEW e \in {"complete", "error"},
         Tell(t, e) \/ UNCHANGED client
  PROVE  /\ client' \in [Turns -> Seq({"complete", "error"})]
         /\ \A u \in Turns \ {t} : client'[u] = client[u]
         /\ client'[t] \in {<<>>, <<e>>}
  <1>1. CASE Tell(t, e)
    <2>1. Append(<<>>, e) = <<e>>
      OBVIOUS
    <2> QED
      BY <1>1, <2>1, Before, TellTypes
  <1>2. CASE UNCHANGED client
    BY <1>2, Before
  <1> QED
    BY <1>1, <1>2

LEMMA RespondKeeps ==
  ASSUME ChatInv, NEW t \in Turns, Respond(t) PROVE ChatInv'
  <1>1. /\ turn[t].stage = "orchestrating" /\ minute' = minute
        /\ UNCHANGED <<today, usage, conversation, history>>
    BY DEF Respond, clock
  <1>2. PICK stage \in {"saving", "failed"}, e \in {"complete", "error"} :
          /\ turn' = [turn EXCEPT ![t] = Closed(t, stage)] /\ Tell(t, e)
          /\ stage = "saving" => ~turn[t].scopeRefused
          /\ stage = "failed" => e = "error"
          /\ stage = "saving" => e = "complete"
    BY DEF Respond, Answerable
  <1>3. stage \in Stages
    BY DEF Stages
  <1> DEFINE r == Closed(t, stage)
  <1>4. /\ r \in TurnRecord /\ r.stage = stage
        /\ r.used = turn[t].used + turn[t].meter /\ r.tally = turn[t].tally + turn[t].meter
        /\ r.meter = 0 /\ r.calls = 0 /\ r.scopeRefused = turn[t].scopeRefused
    BY <1>3, Before, ClosedRecord
  <1>5. turn' = [turn EXCEPT ![t] = r]
    BY <1>2
  <1> HIDE DEF r
  <1>6. client[t] = <<>> /\ events[t] = {} /\ t \notin extracted
    BY <1>1, ToldSoFar
  <1>7. /\ client' \in [Turns -> Seq({"complete", "error"})]
        /\ \A u \in Turns \ {t} : client'[u] = client[u]
        /\ client'[t] \in {<<>>, <<e>>}
    BY <1>2, <1>6, FirstEvent
  <1>8. /\ TypeOK' /\ Frame(t) /\ Balanced' /\ ReportedOnce' /\ turn'[t] = r
        /\ (client'[t] = <<"error">> => events[t] = {}) => Whole(t)'
    BY <1>1, <1>4, <1>5, <1>7, Before, TurnChanges
  <1>9. Whole(t)'
    BY <1>6, <1>8
  <1>10. Metered(t)' /\ WithinBound(t)'
    BY <1>1, <1>4, <1>8, ScopeCloses
  <1>11. LeftBehind(t)'
    BY <1>1, <1>2, <1>4, <1>6, <1>7, <1>8 DEF LeftBehind, Unsaved, conversation, Scopes
  <1> QED
    BY <1>8, <1>9, <1>10, <1>11, OneTurnsStep DEF TurnRight

LEMMA OrchestratorFailsKeeps ==
  ASSUME ChatInv, NEW t \in Turns, OrchestratorFails(t) PROVE ChatInv'
  <1> DEFINE r == Closed(t, "failed")
  <1>1. /\ turn[t].stage = "orchestrating" /\ turn' = [turn EXCEPT ![t] = r] /\ minute' = minute
        /\ UNCHANGED <<today, usage, conversation, history>>
        /\ Tell(t, "error") \/ UNCHANGED client
    BY DEF OrchestratorFails, TellError, clock
  <1>2. "failed" \in Stages
    BY DEF Stages
  <1>3. /\ r \in TurnRecord /\ r.stage = "failed"
        /\ r.used = turn[t].used + turn[t].meter /\ r.tally = turn[t].tally + turn[t].meter
        /\ r.meter = 0 /\ r.calls = 0 /\ r.scopeRefused = turn[t].scopeRefused
    BY <1>2, Before, ClosedRecord
  <1> HIDE DEF r
  <1>4. client[t] = <<>> /\ events[t] = {} /\ t \notin extracted
    BY <1>1, ToldSoFar
  <1>5. /\ client' \in [Turns -> Seq({"complete", "error"})]
        /\ \A u \in Turns \ {t} : client'[u] = client[u]
        /\ client'[t] \in {<<>>, <<"error">>}
    BY <1>1, <1>4, FirstEvent
  <1>6. /\ TypeOK' /\ Frame(t) /\ Balanced' /\ ReportedOnce' /\ turn'[t] = r
        /\ (client'[t] = <<"error">> => events[t] = {}) => Whole(t)'
    BY <1>1, <1>3, <1>5, Before, TurnChanges
  <1>7. Whole(t)'
    BY <1>4, <1>6
  <1>8. Metered(t)' /\ WithinBound(t)'
    BY <1>1, <1>3, <1>6, ScopeCloses
  <1>9. LeftBehind(t)'
    BY <1>1, <1>3, <1>4, <1>5, <1>6 DEF LeftBehind, Unsaved, conversation, Scopes
  <1> QED
    BY <1>6, <1>7, <1>8, <1>9, OneTurnsStep DEF TurnRight

LEMMA ClientLeavesKeeps ==
  ASSUME ChatInv, NEW t \in Turns, ClientLeaves(t) PROVE ChatInv'
  <1> DEFINE r == Closed(t, "left")
  <1>1. /\ turn[t].stage \in Scopes \cup {"saving"} /\ turn' = [turn EXCEPT ![t] = r]
        /\ minute' = minute /\ client' = client
        /\ UNCHANGED <<today, usage, conversation, history>>
    BY DEF ClientLeaves, clock
  <1>2. "left" \in Stages
    BY DEF Stages
  <1>3. /\ r \in TurnRecord /\ r.stage = "left"
        /\ r.used = turn[t].used + turn[t].meter /\ r.tally = turn[t].tally + turn[t].meter
        /\ r.meter = 0 /\ r.calls = 0 /\ r.scopeRefused = turn[t].scopeRefused
    BY <1>2, Before, ClosedRecord
  <1> HIDE DEF r
  <1>4. /\ TypeOK' /\ Frame(t) /\ Balanced' /\ ReportedOnce' /\ turn'[t] = r
        /\ (client'[t] = <<"error">> => events[t] = {}) => Whole(t)'
    BY <1>1, <1>3, Before, TurnChanges
  <1>5. Whole(t)'
    BY <1>1, <1>4, Before DEF Whole
  <1>6. Metered(t)' /\ WithinBound(t)'
    BY <1>1, <1>3, <1>4, ScopeCloses DEF Scopes
  <1>7. LeftBehind(t)'
    BY <1>1, <1>3, <1>4, Before DEF LeftBehind, Unsaved, conversation, Scopes
  <1> QED
    BY <1>4, <1>5, <1>6, <1>7, OneTurnsStep DEF TurnRight

LEMMA SaveKeeps ==
  ASSUME ChatInv, NEW t \in Turns, Save(t) PROVE ChatInv'
  <1> DEFINE r == [turn[t] EXCEPT !.stage = "saved"]
  <1>1. /\ turn[t].stage = "saving" /\ turn' = [turn EXCEPT ![t] = r]
        /\ events' = [events EXCEPT ![t] = {"user", "assistant"}]
        /\ extracted' = extracted \cup {t}
        /\ UNCHANGED <<clock, usage, client, history>>
    BY Before DEF Save, TypeOK
  <1>2. /\ r \in TurnRecord /\ r.stage = "saved" /\ r.used = turn[t].used
        /\ r.tally = turn[t].tally /\ r.meter = turn[t].meter /\ r.calls = turn[t].calls
        /\ r.scopeRefused = turn[t].scopeRefused
    BY Before DEF TurnRecord, Stages
  <1> HIDE DEF r
  <1>3. TypeOK'
    BY <1>1, <1>2, Before DEF TypeOK, TurnRecord, clock, usage, history
  <1>4. turn'[t] = r /\ events'[t] = {"user", "assistant"} /\ t \in extracted'
    BY <1>1, Before DEF TypeOK
  <1>5. Frame(t)
    BY <1>1, Before DEF Frame, TypeOK, usage, history
  <1>6. Balanced' /\ ReportedOnce'
    BY <1>1, BalancedTotals DEF ChatInv, ReportedOnce, usage
  <1>7. ~turn[t].scopeRefused /\ client'[t] \in {<<>>, <<"complete">>}
    BY <1>1, Before DEF LeftBehind
  <1>8. Whole(t)'
    <2>1. <<"complete">> # <<"error">> /\ <<>> # <<"error">>
      OBVIOUS
    <2> QED
      BY <1>4, <1>7, <2>1 DEF Whole
  <1>9. Metered(t)'
    BY <1>1, <1>2, <1>4, Before DEF Metered, Scopes, usage, history
  <1>10. WithinBound(t)'
    BY <1>1, <1>2, <1>4, Before DEF WithinBound, OvershootBound, history
  <1>11. LeftBehind(t)'
    BY <1>2, <1>4, <1>7 DEF LeftBehind, Unsaved, Scopes
  <1> QED
    BY <1>3, <1>5, <1>6, <1>8, <1>9, <1>10, <1>11, OneTurnsStep DEF TurnRight

LEMMA SaveFailsKeeps ==
  ASSUME ChatInv, NEW t \in Turns, SaveFails(t) PROVE ChatInv'
  <1> DEFINE r == [turn[t] EXCEPT !.stage = "failed"]
  <1>1. /\ turn[t].stage = "saving" /\ turn' = [turn EXCEPT ![t] = r] /\ minute' = minute
        /\ UNCHANGED <<today, usage, conversation, history>>
        /\ Tell(t, "error") \/ UNCHANGED client
    BY Before DEF SaveFails, TellError, TypeOK, clock
  <1>2. /\ r \in TurnRecord /\ r.stage = "failed" /\ r.used = turn[t].used
        /\ r.tally = turn[t].tally /\ r.meter = turn[t].meter /\ r.calls = turn[t].calls
        /\ r.scopeRefused = turn[t].scopeRefused
    BY Before DEF TurnRecord, Stages
  <1> HIDE DEF r
  <1>3. /\ client' \in [Turns -> Seq({"complete", "error"})]
        /\ \A u \in Turns \ {t} : client'[u] = client[u]
    BY <1>1, Before, TellTypes
  <1>4. events[t] = {} /\ t \notin extracted /\ ~turn[t].scopeRefused
    BY <1>1, Before DEF LeftBehind, Unsaved
  <1>5. /\ TypeOK' /\ Frame(t) /\ Balanced' /\ ReportedOnce' /\ turn'[t] = r
        /\ (client'[t] = <<"error">> => events[t] = {}) => Whole(t)'
    BY <1>1, <1>2, <1>3, Before, TurnChanges
  <1>6. Whole(t)'
    BY <1>4, <1>5
  <1>7. Metered(t)'
    BY <1>1, <1>2, <1>5, Before DEF Metered, Scopes, usage, history
  <1>8. WithinBound(t)'
    BY <1>1, <1>2, <1>5, Before DEF WithinBound, OvershootBound, history
  <1>9. LeftBehind(t)'
    BY <1>1, <1>2, <1>4, <1>5 DEF LeftBehind, Unsaved, conversation, Scopes
  <1> QED
    BY <1>5, <1>6, <1>7, <1>8, <1>9, OneTurnsStep DEF TurnRight

\* A turn that is to be recorded: what it spent is its tally, and not yet recorded.
LEMMA ToRecord ==
  ASSUME ChatInv, NEW t \in Turns, MustRecord(t)
  PROVE  /\ turn[t].tally = spent[t] /\ records[t] = 0 /\ turn[t].tally \in Nat
         /\ turn[t].stage \in {"failed", "saved", "left"}
  <1>1. turn[t].stage \in {"failed", "saved", "left"}
    BY DEF MustRecord
  <1>2. turn[t].stage \notin Scopes /\ turn[t].stage # "ended"
    BY <1>1 DEF Scopes
  <1>3. /\ turn[t].used \in Nat /\ turn[t].meter = 0 /\ turn[t].tally = turn[t].used
        /\ spent[t] = turn[t].used + turn[t].meter /\ records[t] = 0
    BY <1>2, Before DEF Metered, TurnRecord
  <1> QED
    BY <1>1, <1>3

\* The request ends: nothing of it is left but what it spent and left behind.
LEMMA OverRight ==
  ASSUME ChatInv, NEW t \in Turns, turn[t].stage # "ended",
         turn'[t] = Over(t), t \notin uncounted' => records'[t] = spent[t],
         UNCHANGED <<conversation, client, spent>>
  PROVE  TurnRight(t)' /\ Whole(t)'
  <1>1. /\ Over(t).stage = "ended" /\ Over(t).used = 0 /\ Over(t).meter = 0
        /\ Over(t).tally = 0 /\ Over(t).calls = 0
        /\ Over(t).scopeRefused = turn[t].scopeRefused
    BY Before, OverRecord
  <1>2. Metered(t)'
    BY <1>1 DEF Metered
  <1>3. WithinBound(t)'
    <2>1. spent[t] <= OvershootBound /\ 0 + 0 <= OvershootBound
      BY Before, BoundIsNat DEF WithinBound
    <2> QED
      BY <1>1, <2>1, QuietWithinBound
  <1>4. LeftBehind(t)'
    BY <1>1, Before DEF LeftBehind, Unsaved, Scopes, conversation
  <1>5. Whole(t)'
    BY Before DEF Whole, conversation
  <1> QED
    BY <1>2, <1>3, <1>4, <1>5 DEF TurnRight

LEMMA RecordKeeps ==
  ASSUME ChatInv, NEW t \in Turns, Record(t) PROVE ChatInv'
  <1> DEFINE tokens == turn[t].tally
             total  == dayTokens[today] + tokens
  <1>1. /\ MustRecord(t) /\ turn' = [turn EXCEPT ![t] = Over(t)]
        /\ UNCHANGED <<clock, conversation, client, history>>
    BY DEF Record
  <1>2. /\ tokens = spent[t] /\ records[t] = 0 /\ tokens \in Nat
        /\ turn[t].stage \in {"failed", "saved", "left"}
    BY <1>1, ToRecord
  <1>3. /\ dayTokens \in [Days -> Nat] /\ records \in [Turns -> Nat] /\ reports \in [Days -> Nat]
        /\ today \in Days /\ dayTokens[today] \in Nat /\ Over(t) \in TurnRecord
        /\ turn \in [Turns -> TurnRecord]
    BY Before, OverRecord DEF TypeOK, TurnRecord
  <1>4. turn'[t] = Over(t) /\ turn' \in [Turns -> TurnRecord]
        /\ \A u \in Turns \ {t} : turn'[u] = turn[u]
    BY <1>1, <1>3
  <1>5. CASE tokens = 0
    <2>1. UNCHANGED usage
      BY <1>5 DEF Record
    <2>2. TypeOK'
      BY <1>1, <1>4, <2>1, Before DEF TypeOK, TurnRecord, clock, usage, conversation, history
    <2>3. Frame(t)
      BY <1>1, <1>4, <2>1 DEF Frame, usage, conversation, history
    <2>4. Balanced' /\ ReportedOnce'
      BY <2>1, BalancedTotals DEF ChatInv, ReportedOnce, usage
    <2>5. TurnRight(t)' /\ Whole(t)'
      BY <1>1, <1>2, <1>4, <1>5, <2>1, OverRight DEF usage, history
    <2> QED
      BY <2>2, <2>3, <2>4, <2>5, OneTurnsStep
  <1>6. CASE tokens # 0
    <2>1. /\ records' = [records EXCEPT ![t] = tokens]
          /\ dayTokens' = [dayTokens EXCEPT ![today] = total]
          /\ reports' = [reports EXCEPT ![today] =
                             IF Crosses(dayTokens[today], total) THEN @ + 1 ELSE @]
      BY <1>2, <1>6 DEF Record
    <2> HIDE DEF tokens, total
    <2>2. total \in Nat /\ total = dayTokens[today] + tokens
      BY <1>2, <1>3 DEF total
    <2>3. reports' \in [Days -> Nat]
      BY <1>3, <2>1
    <2>4. records' \in [Turns -> Nat] /\ dayTokens' \in [Days -> Nat]
      BY <1>2, <1>3, <2>1, <2>2
    <2>5. TypeOK'
      BY <1>1, <1>4, <2>3, <2>4, Before DEF TypeOK, TurnRecord, clock, conversation, history
    <2>6. records'[t] = tokens /\ \A u \in Turns \ {t} : records'[u] = records[u]
      BY <1>3, <2>1
    <2>7. Frame(t)
      BY <1>1, <1>4, <2>6 DEF Frame, conversation, history
    <2>8. Balanced'
      <3>1. Total(records', Turns) = Total(records, Turns) + tokens
        <4>1. records[t] + tokens = tokens
          BY <1>2
        <4>2. records' = [records EXCEPT ![t] = records[t] + tokens]
          BY <2>1, <4>1, Zenon
        <4>3. records \in [Turns -> Int] /\ tokens \in Int
          BY <1>2, <1>3
        <4>4. Grows(records, records', Turns, t, tokens)
          BY <4>2, <4>3, Zenon DEF Grows
        <4> QED
          BY <4>4, TotalGrows, TurnsAssumption
      <3>2. Total(dayTokens', Days) = Total(dayTokens, Days) + tokens
        <4>1. Grows(dayTokens, dayTokens', Days, today, tokens)
          BY <1>2, <1>3, <2>1, <2>2 DEF Grows
        <4> QED
          BY <4>1, TotalGrows, DaysFinite
      <3>3. Total(dayTokens, Days) = Total(records, Turns)
        BY BalancedTotals DEF ChatInv
      <3> QED
        BY <3>1, <3>2, <3>3, BalancedTotals
    <2>9. ReportedOnce'
      <3>1. ASSUME NEW d \in Days
            PROVE  reports'[d] = IF dayTokens'[d] >= ReportAt THEN 1 ELSE 0
        <4>1. reports[d] = IF dayTokens[d] >= ReportAt THEN 1 ELSE 0
          BY DEF ChatInv, ReportedOnce
        <4>2. CASE d # today
          BY <1>3, <2>1, <4>1, <4>2
        <4>3. CASE d = today
          <5>1. ReportAt \in Nat
            BY QuotaAssumption
          <5>2. /\ dayTokens'[d] = total /\ dayTokens[d] <= total
                /\ reports'[d] = IF Crosses(dayTokens[d], total) THEN reports[d] + 1 ELSE reports[d]
            BY <1>2, <1>3, <2>1, <2>2, <4>3
          <5> QED
            BY <1>3, <2>2, <4>1, <4>3, <5>1, <5>2 DEF Crosses
        <4> QED
          BY <4>2, <4>3
      <3> QED
        BY <3>1 DEF ReportedOnce
    <2>10. TurnRight(t)' /\ Whole(t)'
      BY <1>1, <1>2, <1>4, <2>6, OverRight DEF history
    <2> QED
      BY <2>5, <2>7, <2>8, <2>9, <2>10, OneTurnsStep
  <1> QED
    BY <1>5, <1>6

LEMMA RecordFailsKeeps ==
  ASSUME ChatInv, NEW t \in Turns, RecordFails(t) PROVE ChatInv'
  <1>1. /\ MustRecord(t) /\ turn' = [turn EXCEPT ![t] = Over(t)]
        /\ uncounted' = uncounted \cup {t}
        /\ UNCHANGED <<clock, usage, conversation, client, spent>>
    BY DEF RecordFails
  <1>2. turn[t].stage # "ended"
    BY <1>1 DEF MustRecord
  <1>3. /\ turn'[t] = Over(t) /\ turn' \in [Turns -> TurnRecord]
        /\ \A u \in Turns \ {t} : turn'[u] = turn[u]
    BY <1>1, Before, OverRecord DEF TypeOK, TurnRecord
  <1>4. TypeOK'
    BY <1>1, <1>3, Before DEF TypeOK, TurnRecord, clock, usage, conversation
  <1>5. Frame(t)
    BY <1>1, <1>3 DEF Frame, usage, conversation
  <1>6. Balanced' /\ ReportedOnce'
    BY <1>1, BalancedTotals DEF ChatInv, ReportedOnce, usage
  <1>7. TurnRight(t)' /\ Whole(t)'
    BY <1>1, <1>2, <1>3, OverRight
  <1> QED
    BY <1>4, <1>5, <1>6, <1>7, OneTurnsStep

LEMMA CrashKeeps ==
  ASSUME ChatInv, Crash PROVE ChatInv'
  <1> DEFINE running == {t \in Turns : turn[t].stage \notin {"new", "ended"}}
  <1>1. /\ turn' = [t \in Turns |-> IF t \in running THEN Over(t) ELSE turn[t]]
        /\ uncounted' = uncounted \cup running
        /\ UNCHANGED <<clock, usage, conversation, client, spent>>
    BY DEF Crash
  <1>2. TypeOK
    BY DEF ChatInv
  <1>3. TypeOK'
    <2>1. turn' \in [Turns -> TurnRecord]
      BY <1>1, <1>2, OverRecord, TurnIsRecord
    <2> QED
      BY <1>1, <1>2, <2>1 DEF TypeOK, TurnRecord, clock, usage, conversation
  <1>4. Balanced' /\ ReportedOnce'
    BY <1>1, BalancedTotals DEF ChatInv, ReportedOnce, usage
  <1>5. ASSUME NEW u \in Turns PROVE TurnRight(u)' /\ Whole(u)'
    <2>1. CASE u \in running
      <3>1. turn'[u] = Over(u) /\ u \in uncounted' /\ turn[u].stage # "ended"
        BY <1>1, <2>1
      <3> QED
        BY <1>1, <3>1, OverRight
    <2>2. CASE u \notin running
      <3>1. /\ turn'[u] = turn[u]
            /\ u \in uncounted' <=> u \in uncounted
            /\ records'[u] = records[u] /\ events'[u] = events[u] /\ extracted' = extracted
            /\ client'[u] = client[u] /\ spent'[u] = spent[u]
        BY <1>1, <2>2 DEF usage, conversation
      <3>2. Metered(u)'
        BY <3>1, Before DEF Metered
      <3>3. WithinBound(u)'
        BY <3>1, Before DEF WithinBound, OvershootBound
      <3>4. LeftBehind(u)' /\ Whole(u)'
        BY <3>1, Before DEF LeftBehind, Whole
      <3> QED
        BY <3>2, <3>3, <3>4 DEF TurnRight
    <2> QED
      BY <2>1, <2>2
  <1>6. \A u \in Turns : TurnRight(u)' /\ Whole(u)'
    BY <1>5
  <1> QED
    BY <1>3, <1>4, <1>6, AllWhole DEF ChatInv

\* The clock, and steps that change nothing.
LEMMA ClockKeeps ==
  ASSUME ChatInv, NextMinute \/ NextDay \/ UNCHANGED vars PROVE ChatInv'
  <1>1. /\ UNCHANGED <<turn, usage, conversation, client, history>>
        /\ today' \in Days /\ minute' \in Nat
    <2>1. today \in Days /\ minute \in Nat /\ MaxDays \in Nat
      BY BoundAssumption DEF ChatInv, TypeOK
    <2>2. CASE NextMinute
      BY <2>1, <2>2 DEF NextMinute
    <2>3. CASE NextDay
      BY <2>1, <2>3 DEF NextDay, Days
    <2>4. CASE UNCHANGED vars
      BY <2>1, <2>4 DEF vars, usage, conversation, history
    <2> QED
      BY <2>2, <2>3, <2>4
  <1>2. TypeOK'
    BY <1>1 DEF ChatInv, TypeOK, usage, conversation, history
  <1>3. Balanced' /\ ReportedOnce' /\ AllOrNothing'
    BY <1>1, BalancedTotals DEF ChatInv, ReportedOnce, AllOrNothing, usage, conversation
  <1>4. ASSUME NEW u \in Turns PROVE TurnRight(u)'
    <2>1. Metered(u)'
      BY <1>1, Before DEF Metered, usage, history
    <2>2. WithinBound(u)'
      BY <1>1, Before DEF WithinBound, OvershootBound, history
    <2>3. LeftBehind(u)'
      BY <1>1, Before DEF LeftBehind, conversation
    <2> QED
      BY <2>1, <2>2, <2>3 DEF TurnRight
  <1> QED
    BY <1>2, <1>3, <1>4 DEF ChatInv

LEMMA InvInductive == ChatInv /\ [Next]_vars => ChatInv'
  <1> SUFFICES ASSUME ChatInv, [Next]_vars PROVE ChatInv'
    OBVIOUS
  <1>1. ASSUME NEW t \in Turns, Admission(t) PROVE ChatInv'
    BY <1>1, CountRequestKeeps, CheckDailyQuotaKeeps DEF Admission
  <1>2. ASSUME NEW t \in Turns, Call(t) PROVE ChatInv'
    BY <1>2, BeginCallKeeps, RefuseCallKeeps, CallAnsweredKeeps, CallFailsKeeps DEF Call
  <1>3. ASSUME NEW t \in Turns, Ending(t) PROVE ChatInv'
    BY <1>3, EndSummaryKeeps, RespondKeeps, OrchestratorFailsKeeps, SaveKeeps, SaveFailsKeeps,
       RecordKeeps, RecordFailsKeeps DEF Ending
  <1>4. ASSUME NEW t \in Turns, ClientLeaves(t) PROVE ChatInv'
    BY <1>4, ClientLeavesKeeps
  <1>5. CASE Crash
    BY <1>5, CrashKeeps
  <1>6. CASE NextMinute \/ NextDay \/ UNCHANGED vars
    BY <1>6, ClockKeeps
  <1> QED
    BY <1>1, <1>2, <1>3, <1>4, <1>5, <1>6 DEF Next

-----------------------------------------------------------------------------
(* The properties *)

LEMMA ChatInvariant == Spec => []ChatInv
  <1> QED
    BY InitGood, InvInductive, PTL DEF Spec

LEMMA UsageFollows == ChatInv => UsageRight
  <1> SUFFICES ASSUME ChatInv PROVE UsageRight
    OBVIOUS
  <1>1. ASSUME NEW t \in Turns
        PROVE  /\ turn[t].stage = "ended" /\ t \notin uncounted => records[t] = spent[t]
               /\ spent[t] <= OvershootBound
    BY Before DEF Metered, WithinBound
  <1>2. TokensCountedOnce
    BY <1>1 DEF TokensCountedOnce, Balanced, ChatInv
  <1>3. BudgetOvershoot
    BY <1>1 DEF BudgetOvershoot, OvershootBound
  <1> QED
    BY <1>2, <1>3 DEF UsageRight, ChatInv

LEMMA WholeFollows == ChatInv => TurnWhole
  <1> SUFFICES ASSUME ChatInv PROVE TurnWhole
    OBVIOUS
  <1>1. RefusedTurnHasNoAnswer
    BY Before DEF LeftBehind, RefusedTurnHasNoAnswer
  <1> QED
    BY <1>1 DEF TurnWhole, ChatInv

\* Every token that requests used is counted once, in the buckets of the days and in
\* the rows of the requests, a request passes its quota by no more than the provider
\* bills for the calls made side by side, and a day is reported once, whatever fails on the way
\* (ChatService._record_usage, UsageService._record_request_tokens, UsageMeter.check).
THEOREM UsageIsRight == Spec => []UsageRight
  BY ChatInvariant, UsageFollows, PTL

\* A turn is kept whole or not at all, and one of whose calls was refused not at all
\* (ChatService._persist_assistant_response, _raise_if_refused).
THEOREM TurnsAreWhole == Spec => []TurnWhole
  BY ChatInvariant, WholeFollows, PTL

\* Calls of a request whose quota refused one only end.
LEMMA RefusedCallsEnd ==
  ASSUME ChatInv, [Next]_vars, NEW t \in Turns, turn[t].refused
  PROVE  turn'[t].calls <= turn[t].calls
  <1>1. /\ turn[t] \in TurnRecord /\ turn \in [Turns -> TurnRecord]
        /\ turn[t].calls \in Nat
    BY Before, CallAssumption DEF TypeOK, TurnRecord
  <1>2. turn'[t] = turn[t] => turn'[t].calls <= turn[t].calls
    BY <1>1
  <1>3. turn'[t].calls = 0 => turn'[t].calls <= turn[t].calls
    BY <1>1
  <1>4. turn'[t].calls = turn[t].calls => turn'[t].calls <= turn[t].calls
    BY <1>1
  <1>5. ASSUME NEW u \in Turns, u # t, Admission(u) \/ Call(u) \/ Ending(u) \/ ClientLeaves(u)
        PROVE  turn'[t] = turn[t]
    BY <1>1, <1>5
       DEF Admission, CountRequest, CheckDailyQuota, Call, BeginCall, RefuseCall, CallAnswered,
           CallFails, Ending, EndSummary, Respond, OrchestratorFails, Save, SaveFails, Record,
           RecordFails, ClientLeaves
  <1>6. CASE Admission(t)
    <2>1. turn'[t].calls = 0 \/ turn'[t].calls = turn[t].calls
      <3>1. Over(t).calls = 0
        BY Before, OverRecord
      <3>2. CASE CountRequest(t)
        BY <1>1, <3>1, <3>2 DEF CountRequest, TurnRecord
      <3>3. CASE CheckDailyQuota(t)
        BY <1>1, <3>1, <3>3 DEF CheckDailyQuota, TurnRecord
      <3> QED
        BY <1>6, <3>2, <3>3 DEF Admission
    <2> QED
      BY <1>3, <1>4, <2>1
  <1>7. CASE Call(t)
    <2>1. CASE BeginCall(t)
      BY <2>1 DEF BeginCall, Refuses
    <2>2. CASE RefuseCall(t)
      <3>1. turn'[t].calls = turn[t].calls
        BY <1>1, <2>2 DEF RefuseCall, TurnRecord
      <3> QED
        BY <1>4, <3>1
    <2>3. CASE CallAnswered(t) \/ CallFails(t)
      <3>1. turn'[t].calls = turn[t].calls - 1
        <4>1. CASE CallAnswered(t)
          BY <1>1, <4>1 DEF CallAnswered, TurnRecord
        <4>2. CASE CallFails(t)
          BY <1>1, <4>2 DEF CallFails, TurnRecord
        <4> QED
          BY <2>3, <4>1, <4>2
      <3> QED
        BY <1>1, <3>1
    <2> QED
      BY <1>7, <2>1, <2>2, <2>3 DEF Call
  <1>8. CASE Ending(t) \/ ClientLeaves(t)
    <2>1. CASE EndSummary(t) \/ Respond(t) \/ OrchestratorFails(t) \/ ClientLeaves(t)
      <3>1. turn'[t].calls = 0
        <4>1. PICK stage \in {"orchestrating", "saving", "failed", "left"} :
                 turn'[t] \in {Closed(t, stage), [Closed(t, stage) EXCEPT !.scopeRefused = FALSE]}
          BY <1>1, <2>1 DEF EndSummary, Respond, OrchestratorFails, ClientLeaves
        <4>2. /\ Closed(t, stage).calls = 0
              /\ [Closed(t, stage) EXCEPT !.scopeRefused = FALSE].calls = 0
          BY <1>1 DEF Closed, TurnRecord
        <4> QED
          BY <4>1, <4>2
      <3> QED
        BY <1>3, <3>1
    <2>2. CASE Save(t) \/ SaveFails(t)
      <3>1. turn'[t].calls = turn[t].calls
        BY <1>1, <2>2 DEF Save, SaveFails, TurnRecord
      <3> QED
        BY <1>4, <3>1
    <2>3. CASE Record(t) \/ RecordFails(t)
      <3>1. turn'[t].calls = 0
        BY <1>1, <2>3, Before, OverRecord DEF Record, RecordFails
      <3> QED
        BY <1>3, <3>1
    <2> QED
      BY <1>8, <2>1, <2>2, <2>3 DEF Ending
  <1>9. CASE Crash
    <2>1. turn'[t] = turn[t] \/ turn'[t].calls = 0
      BY <1>9, Before, OverRecord DEF Crash
    <2> QED
      BY <1>2, <1>3, <2>1
  <1>10. CASE NextMinute \/ NextDay \/ UNCHANGED vars
    <2>1. turn' = turn
      BY <1>10 DEF NextMinute, NextDay, vars
    <2> QED
      BY <1>2, <2>1
  <1> QED
    BY <1>2, <1>5, <1>6, <1>7, <1>8, <1>9, <1>10 DEF Next

\* Once the quota refused one of a request's calls, none is begun any more, in this
\* usage scope or the next (RequestTokenBudget.refused).
THEOREM RefusalIsFinal == Spec => RefusedForGood
  <1>1. ChatInv /\ [Next]_vars =>
          [\A t \in Turns : turn[t].refused => turn'[t].calls <= turn[t].calls]_vars
    BY RefusedCallsEnd
  <1> QED
    BY <1>1, ChatInvariant, PTL DEF Spec, RefusedForGood

-----------------------------------------------------------------------------
(* Retrieval: the index, and what a run may hold of the file it has open *)

Texts     == Seq(Int) \cup {Nothing}
Chunkings == {c \in Seq(Seq(Int)) : Len(c) <= MaxChunks}
Contents  == {File(d) : d \in Documents \cup {Nothing}}
Partial   == UNION {[D -> Texts] : D \in SUBSET Sequence}

Working == {"source", "insert", "read", "write", "vector", "commit"}
RunPcs  == Working \cup {"off", "absent", "files", "embed", "done", "killed"}

RunType ==
  [pc : RunPcs, todo : SUBSET Files, failed : SUBSET Files, file : Files \cup {Nothing},
   doc : Documents \cup {Nothing}, chunks : Chunkings, from : Nat, at : Nat, seen : Texts,
   writes : [source : BOOLEAN, text : Partial, vector : Partial]]

IndexShape ==
  /\ disk \in [Files -> Contents]
  /\ text \in [Files -> [Sequence -> Texts]] /\ vector \in [Files -> [Sequence -> Texts]]
  /\ report \in [Files -> Chunkings \cup {Nothing}]
  /\ run \in [Runs -> RunType]
  /\ sources \subseteq Files /\ shared \subseteq Files
  /\ edits \in 0..MaxEdits /\ failures \in 0..MaxFailures

\* The last chunk of the batch under way.
Through(x) == Lesser(x.from + BatchSize, Len(x.chunks))

\* A run has a file open or none; the transaction of a batch holds the vectors of
\* the chunks behind it and some of their texts, all of the file as it was read.
Fits(x) ==
  /\ x.file # Nothing <=> x.pc \in Working \cup {"embed"}
  /\ x.from <= Len(x.chunks) /\ (x.file = Nothing => x.from = 0)
  /\ x.pc \in Working =>
       /\ x.from < Len(x.chunks) /\ x.at > x.from
       /\ x.at <= Through(x) + IF x.pc = "commit" THEN 1 ELSE 0
       /\ x.pc = "commit" => x.at = Through(x) + 1
       /\ DOMAIN x.writes.vector = (x.from + 1)..(x.at - 1)
       /\ DOMAIN x.writes.text
            \subseteq (x.from + 1)..(IF x.pc = "vector" THEN x.at ELSE x.at - 1)
       /\ \A k \in DOMAIN x.writes.text : x.writes.text[k] = x.chunks[k]
       /\ \A k \in DOMAIN x.writes.vector : x.writes.vector[k] = x.chunks[k]
  /\ x.pc \notin {"read", "write", "vector", "commit"} => x.writes = NoWrites

\* A chunk whose text the transaction has written, or found there already.
Written(x, k) == k \in DOMAIN x.writes.text \/ text[x.file][k] = x.chunks[k]

\* Unless the file is shared: earlier batches are in the index, this one is behind
\* the run or in its transaction, and what it read of the row is still so.
Done(x) ==
  x.file \in Files \ shared =>
    /\ \A k \in 1..x.from : text[x.file][k] = x.chunks[k] /\ vector[x.file][k] = x.chunks[k]
    /\ x.pc \in Working => \A k \in (x.from + 1)..(x.at - 1) : Written(x, k)
    /\ x.pc = "vector" => Written(x, x.at)
    /\ x.pc = "write" => x.seen = text[x.file][x.at]

\* Two runs at a file share it, and what is reported of a file is of a closed one.
RunsApart ==
  \A r, o \in Runs : r # o /\ run[r].file = run[o].file => run[r].file \in shared \cup {Nothing}
ReportedIsClosed == \A f \in Files : report[f] # Nothing => \A r \in Runs : run[r].file # f

\* The invariant of ingestion.
IndexInv ==
  /\ IndexShape /\ RunsApart /\ ReportedIsClosed /\ VectorMatchesText /\ ProcessedIsIndexed
  /\ \A r \in Runs : Fits(run[r]) /\ Done(run[r])
-----------------------------------------------------------------------------
LEMMA ThroughIs ==
  ASSUME NEW x \in RunType, x.from <= Len(x.chunks)
  PROVE  /\ Len(x.chunks) \in Nat /\ Len(x.chunks) <= MaxChunks
         /\ DOMAIN x.chunks = 1..Len(x.chunks)
         /\ Through(x) \in Nat /\ Through(x) <= Len(x.chunks)
         /\ x.from < Len(x.chunks) => x.from < Through(x)
         /\ x.from = Len(x.chunks) => Through(x) = x.from
         /\ \A k \in 1..Len(x.chunks) : x.chunks[k] \in Seq(Int) /\ k \in Sequence
  <1>1. x.chunks \in Seq(Seq(Int)) /\ Len(x.chunks) <= MaxChunks /\ x.from \in Nat
    BY DEF RunType, Chunkings
  <1>2. Len(x.chunks) \in Nat /\ DOMAIN x.chunks = 1..Len(x.chunks)
    BY <1>1
  <1>3. \A k \in 1..Len(x.chunks) : x.chunks[k] \in Seq(Int)
    BY <1>1
  <1>4. BatchSize \in Nat \ {0} /\ MaxChunks \in Nat
    BY IndexingAssumption
  <1> QED
    BY <1>1, <1>2, <1>3, <1>4 DEF Through, Lesser, Sequence

LEMMA RunMoves ==
  ASSUME IndexInv, NEW r \in Runs, NEW x \in RunType, run' = [run EXCEPT ![r] = x],
         x.file \in {run[r].file, Nothing}, Fits(x), Done(x),
         UNCHANGED <<disk, sources, text, vector, report, shared>>,
         edits' \in 0..MaxEdits, failures' \in 0..MaxFailures
  PROVE  IndexInv'
  <1>1. run' \in [Runs -> RunType] /\ run'[r] = x /\ \A o \in Runs : o # r => run'[o] = run[o]
    BY DEF IndexInv, IndexShape
  <1>2. IndexShape'
    BY <1>1 DEF IndexInv, IndexShape
  <1>3. \A o \in Runs : run'[o].file \in {run[o].file, Nothing}
    BY <1>1
  <1>4. RunsApart' /\ ReportedIsClosed'
    BY <1>3, IndexingAssumption DEF IndexInv, RunsApart, ReportedIsClosed
  <1>5. VectorMatchesText' /\ ProcessedIsIndexed'
    BY DEF IndexInv, VectorMatchesText, ProcessedIsIndexed
  <1>6. \A o \in Runs : Fits(run[o])' /\ Done(run[o])'
    <2>1. Fits(x)' <=> Fits(x)
      BY DEF Fits, Through
    <2> QED
    BY <1>1 DEF IndexInv, Fits, Done, Written, Through
  <1> QED
    BY <1>2, <1>4, <1>5, <1>6 DEF IndexInv

LEMMA NothingToWrite ==
  /\ <<>> \in Chunkings /\ Nothing \in Texts /\ <<>> \in Partial
  /\ NoWrites \in [source : BOOLEAN, text : Partial, vector : Partial]
  /\ DOMAIN NoWrites.text = {} /\ DOMAIN NoWrites.vector = {}
  <1>1. <<>> \in Seq(Seq(Int)) /\ Len(<<>>) = 0 /\ MaxChunks \in Nat
    BY IndexingAssumption
  <1>2. <<>> \in Chunkings
    BY <1>1 DEF Chunkings
  <1>3. {} \in SUBSET Sequence /\ <<>> \in [{} -> Texts]
    OBVIOUS
  <1>4. <<>> \in Partial
    BY <1>3 DEF Partial
  <1> QED
    BY <1>2, <1>4 DEF NoWrites, Texts

Leaving(x, lost) ==
  [x EXCEPT !.pc = "files", !.failed = @ \cup lost, !.file = Nothing, !.doc = Nothing,
            !.chunks = <<>>, !.from = 0, !.at = 0, !.seen = Nothing, !.writes = NoWrites]

LEMMA LeavingFits ==
  ASSUME NEW x \in RunType, NEW lost \in SUBSET Files
  PROVE  Leaving(x, lost) \in RunType /\ Fits(Leaving(x, lost)) /\ Done(Leaving(x, lost))
         /\ Leaving(x, lost).file = Nothing
  <1> DEFINE y == Leaving(x, lost)
  <1>1. /\ y.pc = "files" /\ y.file = Nothing /\ y.chunks = <<>> /\ y.from = 0
        /\ y.writes = NoWrites
    BY DEF RunType, Leaving
  <1>2. y \in RunType
    BY NothingToWrite DEF RunType, RunPcs, Leaving
  <1>3. Fits(y)
    BY <1>1 DEF Fits, Working
  <1>4. Done(y)
    BY <1>1, IndexingAssumption DEF Done
  <1> QED
    BY <1>1, <1>2, <1>3, <1>4

\* The file under way is given up.
LEMMA LeavingKeeps ==
  ASSUME IndexInv, NEW r \in Runs, NEW lost \in SUBSET Files, run' = Left(r, lost),
         UNCHANGED <<disk, sources, text, vector, report, shared>>,
         edits' \in 0..MaxEdits, failures' \in 0..MaxFailures
  PROVE  IndexInv'
  <1> DEFINE y == Leaving(run[r], lost)
  <1>1. run \in [Runs -> RunType] /\ run[r] \in RunType
    BY DEF IndexInv, IndexShape
  <1>2. run' = [run EXCEPT ![r] = y]
    BY <1>1 DEF Left, Leaving, RunType
  <1>3. y \in RunType /\ Fits(y) /\ Done(y) /\ y.file = Nothing
    BY <1>1, LeavingFits
  <1> HIDE DEF y
  <1> QED
    BY <1>2, <1>3, RunMoves

LEMMA BatchIs ==
  ASSUME IndexInv, NEW r \in Runs
  PROVE  /\ run[r] \in RunType /\ Fits(run[r]) /\ Done(run[r])
         /\ run \in [Runs -> RunType]
         /\ Batch(r) = (run[r].from + 1)..Through(run[r])
         /\ Through(run[r]) \in Nat /\ run[r].from \in Nat /\ run[r].at \in Nat
         /\ Batch(r) # {} <=> run[r].from < Len(run[r].chunks)
         /\ Batch(r) # {} => Min(Batch(r)) = run[r].from + 1 /\ Max(Batch(r)) = Through(run[r])
  <1> DEFINE x == run[r]
             b == (x.from + 1)..Through(x)
  <1>1. x \in RunType /\ Fits(x) /\ Done(x) /\ run \in [Runs -> RunType]
    BY DEF IndexInv, IndexShape
  <1>2. x.from \in Nat /\ x.at \in Nat /\ x.from <= Len(x.chunks)
    BY <1>1 DEF RunType, Fits
  <1>3. /\ Through(x) \in Nat /\ Len(x.chunks) \in Nat
        /\ x.from < Len(x.chunks) => x.from < Through(x)
        /\ x.from = Len(x.chunks) => Through(x) = x.from
    BY <1>1, <1>2, ThroughIs
  <1>4. Batch(r) = b
    BY DEF Batch, Through
  <1>5. ASSUME b # {} PROVE x.from + 1 \in b /\ Through(x) \in b /\ x.from < Len(x.chunks)
    BY <1>2, <1>3, <1>5
  <1>6. ASSUME b # {} PROVE Min(b) = x.from + 1 /\ Max(b) = Through(x)
    <2>1. /\ \A k \in b : k \in Int /\ x.from + 1 <= k /\ k <= Through(x)
          /\ x.from + 1 \in b /\ Through(x) \in b
      BY <1>2, <1>3, <1>5, <1>6
    <2> HIDE DEF b
    <2>2. Min(b) \in b /\ \A k \in b : Min(b) <= k
      BY <2>1 DEF Min
    <2>3. Max(b) \in b /\ \A k \in b : Max(b) >= k
      BY <2>1 DEF Max
    <2>4. Min(b) <= x.from + 1 /\ x.from + 1 <= Min(b) /\ Min(b) \in Int
      BY <2>1, <2>2
    <2>5. Max(b) >= Through(x) /\ Max(b) <= Through(x) /\ Max(b) \in Int
      BY <2>1, <2>3
    <2> QED
      BY <1>2, <1>3, <2>4, <2>5
  <1>7. b # {} <=> x.from < Len(x.chunks)
    <2>1. x.from < Len(x.chunks) => x.from + 1 \in b
      BY <1>2, <1>3
    <2> QED
      BY <1>5, <2>1
  <1> QED
    BY <1>1, <1>2, <1>3, <1>4, <1>6, <1>7

LEMMA EditKeeps ==
  ASSUME IndexInv, NEW f \in Files, Edit(f)
  PROVE  IndexInv'
  <1>1. edits' \in 0..MaxEdits
    BY IndexingAssumption DEF Edit, IndexInv, IndexShape
  <1>2. disk' \in [Files -> Contents]
    <2>1. PICK d \in Revisions \cup {Nothing} : disk' = [disk EXCEPT ![f] = File(d)]
      BY DEF Edit
    <2>2. File(d) \in Contents
      BY <2>1, IndexingAssumption DEF Contents
    <2> QED
      BY <2>1, <2>2 DEF IndexInv, IndexShape
  <1>3. UNCHANGED <<sources, text, vector, run, failures, report, shared>>
    BY DEF Edit
  <1>4. IndexShape'
    BY <1>1, <1>2, <1>3 DEF IndexInv, IndexShape
  <1>5. RunsApart' /\ ReportedIsClosed' /\ VectorMatchesText' /\ ProcessedIsIndexed'
    BY <1>3 DEF IndexInv, RunsApart, ReportedIsClosed, VectorMatchesText, ProcessedIsIndexed
  <1>6. \A r \in Runs : Fits(run[r])' /\ Done(run[r])'
    BY <1>3 DEF IndexInv, Fits, Done, Written, Through
  <1> QED
    BY <1>4, <1>5, <1>6 DEF IndexInv

LEMMA StartRunKeeps ==
  ASSUME IndexInv, NEW r \in Runs, StartRun(r)
  PROVE  IndexInv'
  <1> DEFINE todo == {f \in Files : disk[f] # Nothing}
             x == [run[r] EXCEPT !.pc = "files", !.todo = todo]
  <1>1. run[r] \in RunType /\ Fits(run[r]) /\ run \in [Runs -> RunType] /\ run[r].pc = "off"
    BY BatchIs DEF StartRun
  <1>2. run' = [run EXCEPT ![r] = x]
    BY DEF StartRun
  <1>3. todo \in SUBSET Files
    OBVIOUS
  <1> HIDE DEF todo
  <1>4. x \in RunType /\ x.file = run[r].file /\ x.pc = "files" /\ x.writes = run[r].writes
        /\ x.from = run[r].from /\ x.chunks = run[r].chunks
    BY <1>1, <1>3 DEF RunType, RunPcs
  <1>5. run[r].file = Nothing
    BY <1>1 DEF Fits, Working
  <1> HIDE DEF x
  <1>6. Fits(x) /\ Done(x)
    BY <1>1, <1>4, <1>5, IndexingAssumption DEF Fits, Working, Done
  <1>7. UNCHANGED <<disk, sources, text, vector, edits, failures, report, shared>>
    BY DEF StartRun
  <1>8. edits' \in 0..MaxEdits /\ failures' \in 0..MaxFailures
    BY <1>7 DEF IndexInv, IndexShape
  <1> QED
    BY <1>2, <1>4, <1>6, <1>7, <1>8, RunMoves

LEMMA KillKeeps ==
  ASSUME IndexInv, NEW r \in Runs, Kill(r)
  PROVE  IndexInv'
  <1> DEFINE x == [IdleRun EXCEPT !.pc = "killed"]
  <1>1. x \in RunType /\ x.file = Nothing /\ x.pc = "killed" /\ x.writes = NoWrites
        /\ x.from = 0 /\ x.chunks = <<>>
    BY NothingToWrite DEF RunType, RunPcs, IdleRun
  <1>2. Fits(x) /\ Done(x)
    BY <1>1, IndexingAssumption DEF Fits, Working, Done
  <1>3. run' = [run EXCEPT ![r] = x] /\ UNCHANGED <<disk, sources, text, vector, report, shared>>
    BY DEF Kill
  <1>4. edits' \in 0..MaxEdits /\ failures' \in 0..MaxFailures
    BY IndexingAssumption DEF Kill, IndexInv, IndexShape
  <1> HIDE DEF x
  <1> QED
    BY <1>1, <1>2, <1>3, <1>4, RunMoves

LEMMA GivingUpKeeps ==
  ASSUME IndexInv, NEW r \in Runs, ParseFails(r) \/ BatchFails(r)
  PROVE  IndexInv'
  <1>1. run[r] \in RunType /\ Fits(run[r])
    BY BatchIs
  <1>2. run[r].file \in Files
    BY <1>1 DEF RunType, Fits, Working, ParseFails, BatchFails, InTx
  <1>3. run' = Left(r, {run[r].file}) /\ UNCHANGED <<disk, sources, text, vector, report, shared>>
    BY DEF ParseFails, BatchFails
  <1>4. edits' \in 0..MaxEdits /\ failures' \in 0..MaxFailures
    BY IndexingAssumption DEF ParseFails, BatchFails, IndexInv, IndexShape
  <1>5. {run[r].file} \in SUBSET Files
    BY <1>2
  <1> QED
    BY <1>3, <1>4, <1>5, LeavingKeeps

LEMMA EndRunKeeps ==
  ASSUME IndexInv, NEW r \in Runs, EndRun(r)
  PROVE  IndexInv'
  <1> DEFINE x == [run[r] EXCEPT !.pc = "done"]
  <1>1. run[r] \in RunType /\ Fits(run[r]) /\ run \in [Runs -> RunType] /\ run[r].pc = "files"
    BY BatchIs DEF EndRun
  <1>2. run' = [run EXCEPT ![r] = x]
    BY DEF EndRun
  <1>3. x \in RunType /\ x.file = run[r].file /\ x.pc = "done" /\ x.writes = run[r].writes
        /\ x.from = run[r].from /\ x.chunks = run[r].chunks
    BY <1>1 DEF RunType, RunPcs
  <1>4. run[r].file = Nothing
    BY <1>1 DEF Fits, Working
  <1> HIDE DEF x
  <1>5. Fits(x) /\ Done(x)
    BY <1>1, <1>3, <1>4, IndexingAssumption DEF Fits, Working, Done
  <1>6. UNCHANGED <<disk, sources, text, vector, edits, failures, report, shared>>
    BY DEF EndRun
  <1>7. edits' \in 0..MaxEdits /\ failures' \in 0..MaxFailures
    BY <1>6 DEF IndexInv, IndexShape
  <1> QED
    BY <1>2, <1>3, <1>5, <1>6, <1>7, RunMoves

\* What is on disk is a document with its chunks, or nothing.
LEMMA DiskHas ==
  ASSUME IndexInv, NEW f \in Files, disk[f] # Nothing
  PROVE  disk[f].doc \in Documents /\ disk[f].chunks \in Chunkings
  <1>1. PICK d \in Documents \cup {Nothing} : disk[f] = File(d)
    BY DEF IndexInv, IndexShape, Contents
  <1>2. d \in Documents /\ disk[f] = [doc |-> d, chunks |-> ChunksOf(d)]
    BY <1>1 DEF File
  <1> QED
    BY <1>2, DocumentsAssumption DEF Chunkings

\* A file that is opened is under way from its first chunk, and shared if it was open.
LEMMA OpeningKeeps ==
  ASSUME IndexInv, NEW r \in Runs, NEW f \in Files, NEW x \in RunType,
         x.from = 0 /\ x.writes = NoWrites,
         (x.file = Nothing /\ x.pc = "files") \/ (x.file = f /\ x.pc = "embed"),
         run' = [run EXCEPT ![r] = x], report' = [report EXCEPT ![f] = Nothing],
         shared' = shared \cup {g \in {f} : \E o \in Runs \ {r} : run[o].file = g},
         UNCHANGED <<disk, sources, text, vector, edits, failures>>
  PROVE  IndexInv'
  <1>1. Len(x.chunks) \in Nat /\ f # Nothing
    BY IndexingAssumption DEF RunType, Chunkings
  <1>2. Fits(x) /\ Done(x)
    BY <1>1, IndexingAssumption DEF Fits, Working, Done
  <1>3. run' \in [Runs -> RunType] /\ run'[r] = x /\ \A o \in Runs : o # r => run'[o] = run[o]
    BY DEF IndexInv, IndexShape
  <1>4. report' \in [Files -> Chunkings \cup {Nothing}] /\ shared' \subseteq Files
    BY DEF IndexInv, IndexShape
  <1>5. IndexShape'
    BY <1>3, <1>4 DEF IndexInv, IndexShape
  \* Whoever had the file open already shares it from now on.
  <1>6. ASSUME NEW o \in Runs \ {r}, run[o].file = x.file, x.file # Nothing
         PROVE  x.file \in shared'
    BY <1>6
  <1>7. RunsApart'
    <2> SUFFICES ASSUME NEW p \in Runs, NEW o \in Runs, p # o, run'[p].file = run'[o].file
                 PROVE  run'[p].file \in shared' \cup {Nothing}
      BY DEF RunsApart
    <2>1. CASE p = r
      BY <1>3, <1>6, <2>1
    <2>2. CASE o = r
      BY <1>3, <1>6, <2>2
    <2>3. CASE p # r /\ o # r
      BY <1>3, <2>3 DEF IndexInv, RunsApart
    <2> QED
      BY <2>1, <2>2, <2>3
  <1>8. report'[f] = Nothing /\ \A g \in Files : g # f => report'[g] = report[g]
    BY DEF IndexInv, IndexShape
  <1>9. ReportedIsClosed'
    BY <1>3, <1>8, IndexingAssumption DEF IndexInv, ReportedIsClosed
  <1>10. VectorMatchesText' /\ ProcessedIsIndexed'
    BY <1>8 DEF IndexInv, VectorMatchesText, ProcessedIsIndexed
  <1>11. \A o \in Runs : Fits(run[o])' /\ Done(run[o])'
    <2>1. Fits(x)' <=> Fits(x)
      BY DEF Fits, Through
    <2>2. Done(x)'
      BY <1>1, IndexingAssumption DEF Done, Working
    <2>3. ASSUME NEW o \in Runs, o # r
          PROVE  Fits(run[o])' /\ Done(run[o])'
      <3>1. run'[o] = run[o] /\ Fits(run[o]) /\ Done(run[o])
        BY <1>3, <2>3 DEF IndexInv
      <3>2. Fits(run[o])'
        BY <3>1 DEF Fits, Through
      <3>3. Done(run[o])'
        BY <3>1 DEF Done, Written
      <3> QED
        BY <3>2, <3>3
    <2>4. Fits(run[r])'
      BY <1>2, <1>3, <2>1 DEF Fits, Through
    <2>5. Done(run[r])'
      BY <1>3, <2>2 DEF Done, Written
    <2> QED
      BY <2>3, <2>4, <2>5
  <1> QED
    BY <1>5, <1>7, <1>9, <1>10, <1>11 DEF IndexInv

LEMMA OpenFileKeeps ==
  ASSUME IndexInv, NEW r \in Runs, OpenFile(r)
  PROVE  IndexInv'
  <1>0. /\ run[r] \in RunType /\ run \in [Runs -> RunType] /\ run[r].pc = "files"
        /\ run[r].file = Nothing /\ run[r].from = 0 /\ run[r].writes = NoWrites
        /\ UNCHANGED <<disk, sources, text, vector, edits, failures>>
    <2>1. run[r] \in RunType /\ Fits(run[r]) /\ run \in [Runs -> RunType] /\ run[r].pc = "files"
      BY BatchIs DEF OpenFile
    <2> QED
      BY <2>1 DEF Fits, Working, OpenFile
  <1>1. PICK f \in run[r].todo :
          /\ run' = IF disk[f] = Nothing
                    THEN [run EXCEPT ![r].todo = @ \ {f}, ![r].failed = @ \cup {f}]
                    ELSE [run EXCEPT ![r].pc = "embed", ![r].todo = @ \ {f}, ![r].file = f,
                                     ![r].doc = disk[f].doc, ![r].chunks = disk[f].chunks]
          /\ report' = [report EXCEPT ![f] = Nothing]
          /\ shared' = shared \cup {g \in {f} : \E o \in Runs \ {r} : run[o].file = g}
    BY DEF OpenFile
  <1>2. f \in Files
    BY <1>0, <1>1 DEF RunType
  <1> DEFINE x == IF disk[f] = Nothing
                  THEN [run[r] EXCEPT !.todo = @ \ {f}, !.failed = @ \cup {f}]
                  ELSE [run[r] EXCEPT !.pc = "embed", !.todo = @ \ {f}, !.file = f,
                                      !.doc = disk[f].doc, !.chunks = disk[f].chunks]
  <1>3. run' = [run EXCEPT ![r] = x]
    BY <1>1
  <1>4. x \in RunType
    BY <1>0, <1>2, DiskHas DEF RunType, RunPcs
  <1>5. /\ x.from = 0 /\ x.writes = NoWrites
        /\ (x.file = Nothing /\ x.pc = "files") \/ (x.file = f /\ x.pc = "embed")
    BY <1>0
  <1> HIDE DEF x
  <1> QED
    BY <1>0, <1>1, <1>2, <1>3, <1>4, <1>5, OpeningKeeps

LEMMA UnchangedBounds ==
  ASSUME IndexInv, UNCHANGED <<edits, failures>>
  PROVE  edits' \in 0..MaxEdits /\ failures' \in 0..MaxFailures
  BY DEF IndexInv, IndexShape

\* A transaction begins at the first chunk of its batch.
LEMMA EmbedBatchKeeps ==
  ASSUME IndexInv, NEW r \in Runs, EmbedBatch(r)
  PROVE  IndexInv'
  <1> DEFINE w == run[r]
             x == [w EXCEPT !.pc = "source", !.at = Min(Batch(r))]
  <1>1. /\ w \in RunType /\ Fits(w) /\ Done(w) /\ w.pc = "embed"
        /\ w.from \in Nat /\ Through(w) \in Nat /\ w.from < Len(w.chunks)
        /\ Min(Batch(r)) = w.from + 1
    BY BatchIs DEF EmbedBatch
  <1>2. run' = [run EXCEPT ![r] = x]
    BY DEF EmbedBatch
  <1>3. /\ x \in RunType /\ x.pc = "source" /\ x.at = w.from + 1 /\ x.file = w.file
        /\ x.chunks = w.chunks /\ x.from = w.from /\ x.writes = w.writes
    <2>1. Min(Batch(r)) \in Nat /\ "source" \in RunPcs
      BY <1>1 DEF RunPcs, Working
    <2> QED
      BY <1>1, <2>1 DEF RunType
  <1>4. UNCHANGED <<disk, sources, text, vector, edits, failures, report, shared>>
    BY DEF EmbedBatch
  <1>5. Through(x) = Through(w) /\ Through(w) > w.from
    <2>1. Through(x) = Through(w)
      BY <1>3 DEF Through
    <2> QED
      BY <1>1, <2>1, ThroughIs
  <1> HIDE DEF x, w
  <1>6. Fits(x)
    <2>1. w.writes = NoWrites /\ w.file # Nothing
      BY <1>1 DEF Fits, Working
    <2> QED
      BY <1>1, <1>3, <1>5, <2>1, NothingToWrite DEF Fits, Working
  <1>7. Done(x)
    BY <1>1, <1>3 DEF Done, Working
  <1> QED
    BY <1>2, <1>3, <1>4, <1>6, <1>7, RunMoves, UnchangedBounds DEF w

\* The row of the file is read, or inserted.
LEMMA ReadingRowKeeps ==
  ASSUME IndexInv, NEW r \in Runs, run[r].pc \in {"source", "insert"}, NEW x \in RunType,
         run' = [run EXCEPT ![r] = x], x.pc \in {"read", "insert"},
         x.at = run[r].at, x.file = run[r].file, x.chunks = run[r].chunks, x.from = run[r].from,
         x.writes.text = NoWrites.text, x.writes.vector = NoWrites.vector,
         x.pc = "insert" => x.writes = NoWrites,
         UNCHANGED <<disk, sources, text, vector, edits, failures, report, shared>>
  PROVE  IndexInv'
  <1> DEFINE w == run[r]
  <1>1. /\ w \in RunType /\ Fits(w) /\ Done(w) /\ w.writes = NoWrites
        /\ Through(w) \in Nat /\ w.from \in Nat /\ w.at \in Nat
    BY BatchIs DEF Fits
  <1>2. Through(x) = Through(w)
    BY DEF Through
  <1>3. Fits(x)
    BY <1>1, <1>2, NothingToWrite DEF Fits, Working
  <1>4. Done(x)
    BY <1>1 DEF Done, Working, Written
  <1> QED
    BY <1>3, <1>4, RunMoves, UnchangedBounds

LEMMA ReadSourceKeeps ==
  ASSUME IndexInv, NEW r \in Runs, ReadSource(r)
  PROVE  IndexInv'
  <1> DEFINE w == run[r]
             pc == IF w.file \in sources THEN "read" ELSE "insert"
             x == [w EXCEPT !.pc = pc]
  <1>1. w \in RunType /\ Fits(w) /\ w.pc = "source" /\ pc \in {"read", "insert"} /\ pc \in RunPcs
    BY BatchIs DEF ReadSource, RunPcs, Working
  <1>2. w.writes = NoWrites
    BY <1>1 DEF Fits
  <1>3. /\ run' = [run EXCEPT ![r] = x]
        /\ UNCHANGED <<disk, sources, text, vector, edits, failures, report, shared>>
    BY DEF ReadSource
  <1> HIDE DEF pc
  <1>4. /\ x \in RunType /\ x.pc = pc /\ x.at = w.at /\ x.file = w.file
        /\ x.chunks = w.chunks /\ x.from = w.from /\ x.writes = NoWrites
    BY <1>1, <1>2 DEF RunType
  <1> HIDE DEF x
  <1> QED
    BY <1>1, <1>3, <1>4, ReadingRowKeeps

LEMMA InsertSourceKeeps ==
  ASSUME IndexInv, NEW r \in Runs, InsertSource(r)
  PROVE  IndexInv'
  <1> DEFINE w == run[r]
             x == [w EXCEPT !.pc = "read", !.writes.source = TRUE]
  <1>1. w \in RunType /\ Fits(w) /\ w.pc = "insert" /\ "read" \in RunPcs
    BY BatchIs DEF InsertSource, RunPcs, Working
  <1>2. w.writes = NoWrites /\ w.file \in Files
    BY <1>1 DEF Fits, Working, RunType
  <1>3. UNCHANGED <<disk, sources, text, vector, edits, failures, report, shared>>
    BY DEF InsertSource
  <1>4. CASE run' = Left(r, {w.file})
    <2>1. {w.file} \in SUBSET Files
      BY <1>2
    <2> QED
      BY <1>3, <1>4, <2>1, LeavingKeeps, UnchangedBounds
  <1>5. CASE run' = [run EXCEPT ![r] = x]
    <2>1. /\ x \in RunType /\ x.pc = "read" /\ x.at = w.at /\ x.file = w.file
          /\ x.chunks = w.chunks /\ x.from = w.from
          /\ x.writes.text = w.writes.text /\ x.writes.vector = w.writes.vector
      BY <1>1 DEF RunType
    <2> HIDE DEF x
    <2> QED
      BY <1>1, <1>2, <1>3, <1>5, <2>1, ReadingRowKeeps
  <1>6. run' = Left(r, {w.file}) \/ run' = [run EXCEPT ![r] = x]
    <2>1. run' = IF w.file \in sources THEN Left(r, {w.file})
                 ELSE [run EXCEPT ![r].pc = "read", ![r].writes.source = TRUE]
      BY DEF InsertSource
    <2> QED
      BY <2>1
  <1> QED
    BY <1>4, <1>5, <1>6

LEMMA OneMore ==
  ASSUME NEW p \in Partial, NEW k \in Sequence, NEW v \in Texts
  PROVE  /\ Put(p, k, v) \in Partial /\ DOMAIN Put(p, k, v) = DOMAIN p \cup {k}
         /\ Put(p, k, v)[k] = v /\ \A j \in DOMAIN p : j # k => Put(p, k, v)[j] = p[j]
  <1> DEFINE q == [j \in {k} \cup DOMAIN p |-> IF j = k THEN v ELSE p[j]]
  <1>1. PICK D \in SUBSET Sequence : p \in [D -> Texts]
    BY DEF Partial
  <1>2. Put(p, k, v) = q
    BY DEF Put, Overlaid
  <1>3. D \cup {k} \in SUBSET Sequence /\ q \in [D \cup {k} -> Texts]
    BY <1>1
  <1>4. q \in Partial
    BY <1>3 DEF Partial
  <1> QED
    BY <1>1, <1>2, <1>3, <1>4

\* The chunk a transaction is at.
LEMMA ChunkAt ==
  ASSUME IndexInv, NEW r \in Runs, run[r].pc \in {"read", "write", "vector"}
  PROVE  /\ run[r] \in RunType /\ Fits(run[r]) /\ Done(run[r])
         /\ run[r].file \in Files /\ run[r].at \in Sequence /\ run[r].at \in Nat
         /\ run[r].at \in 1..Len(run[r].chunks)
         /\ run[r].from \in Nat /\ run[r].from < run[r].at /\ run[r].at <= Through(run[r])
         /\ Through(run[r]) \in Nat
         /\ run[r].chunks[run[r].at] \in Texts
         /\ run[r].writes.text \in Partial /\ run[r].writes.vector \in Partial
  <1> DEFINE w == run[r]
  <1>1. /\ w \in RunType /\ Fits(w) /\ Done(w) /\ Through(w) \in Nat /\ w.from \in Nat
        /\ w.at \in Nat
    BY BatchIs
  <1>2. w.file \in Files /\ w.from < w.at /\ w.at <= Through(w) /\ w.from <= Len(w.chunks)
    BY <1>1 DEF Fits, Working, RunType
  <1>3. Len(w.chunks) \in Nat /\ Through(w) <= Len(w.chunks)
        /\ \A k \in 1..Len(w.chunks) : w.chunks[k] \in Seq(Int) /\ k \in Sequence
    BY <1>1, <1>2, ThroughIs
  <1>4. w.at \in 1..Len(w.chunks)
    BY <1>1, <1>2, <1>3
  <1> QED
    BY <1>1, <1>2, <1>3, <1>4 DEF Texts, RunType

LEMMA ReadChunkKeeps ==
  ASSUME IndexInv, NEW r \in Runs, ReadChunk(r)
  PROVE  IndexInv'
  <1> DEFINE w == run[r]
             x == [w EXCEPT !.pc = "write", !.seen = text[w.file][w.at]]
  <1>1. /\ w.pc = "read" /\ run' = [run EXCEPT ![r] = x]
        /\ UNCHANGED <<disk, sources, text, vector, edits, failures, report, shared>>
    BY DEF ReadChunk
  <1>2. /\ w \in RunType /\ Fits(w) /\ Done(w) /\ w.file \in Files /\ w.at \in Sequence
        /\ w.from \in Nat /\ w.at \in Nat /\ w.from < w.at /\ w.at <= Through(w)
        /\ Through(w) \in Nat
    BY <1>1, ChunkAt
  <1>3. /\ x \in RunType /\ x.pc = "write" /\ x.seen = text[w.file][w.at] /\ x.at = w.at
        /\ x.file = w.file /\ x.chunks = w.chunks /\ x.from = w.from /\ x.writes = w.writes
    <2>1. text[w.file][w.at] \in Texts /\ "write" \in RunPcs
      BY <1>2 DEF IndexInv, IndexShape, RunPcs, Working
    <2> QED
      BY <1>2, <2>1 DEF RunType
  <1> HIDE DEF x
  <1>4. Through(x) = Through(w)
    BY <1>3 DEF Through
  <1>5. Fits(x)
    BY <1>1, <1>2, <1>3, <1>4 DEF Fits, Working
  <1>6. Done(x)
    BY <1>1, <1>2, <1>3 DEF Done, Working, Written
  <1> QED
    BY <1>1, <1>3, <1>5, <1>6, RunMoves, UnchangedBounds

LEMMA WriteChunkKeeps ==
  ASSUME IndexInv, NEW r \in Runs, WriteChunk(r)
  PROVE  IndexInv'
  <1> DEFINE w == run[r]
             mine == w.chunks[w.at]
             after == IF w.seen = mine THEN w.writes.text
                      ELSE Put(w.writes.text, w.at, mine)
             x == [w EXCEPT !.pc = "vector", !.seen = Nothing, !.writes.text = after]
  <1>1. /\ w.pc = "write"
        /\ run' = Left(r, {w.file}) \/ run' = [run EXCEPT ![r] = x]
        /\ UNCHANGED <<disk, sources, text, vector, edits, failures, report, shared>>
    BY DEF WriteChunk
  <1>2. /\ w \in RunType /\ Fits(w) /\ Done(w) /\ w.file \in Files /\ w.at \in Sequence
        /\ w.from \in Nat /\ w.at \in Nat /\ w.from < w.at /\ w.at <= Through(w)
        /\ Through(w) \in Nat /\ mine \in Texts /\ w.writes.text \in Partial
    BY <1>1, ChunkAt
  <1>3. CASE run' = Left(r, {w.file})
    <2>1. {w.file} \in SUBSET Files
      BY <1>2
    <2> QED
      BY <1>1, <1>3, <2>1, LeavingKeeps, UnchangedBounds
  <1>4. CASE run' = [run EXCEPT ![r] = x]
    <2>1. /\ after \in Partial
          /\ w.seen # mine => w.at \in DOMAIN after /\ after[w.at] = mine
          /\ w.seen = mine => after = w.writes.text
          /\ DOMAIN w.writes.text \subseteq DOMAIN after
          /\ DOMAIN after \subseteq DOMAIN w.writes.text \cup {w.at}
          /\ \A j \in DOMAIN w.writes.text : j # w.at => after[j] = w.writes.text[j]
      <3> DEFINE p == w.writes.text
      <3>1. /\ Put(p, w.at, mine) \in Partial /\ DOMAIN Put(p, w.at, mine) = DOMAIN p \cup {w.at}
            /\ Put(p, w.at, mine)[w.at] = mine
            /\ \A j \in DOMAIN p : j # w.at => Put(p, w.at, mine)[j] = p[j]
        BY <1>2, OneMore
      <3> QED
        BY <1>2, <3>1
    <2> HIDE DEF after
    <2>2. /\ x \in RunType /\ x.pc = "vector" /\ x.at = w.at /\ x.file = w.file
          /\ x.chunks = w.chunks /\ x.from = w.from /\ x.writes.text = after
          /\ x.writes.vector = w.writes.vector
      <3>1. "vector" \in RunPcs /\ Nothing \in Texts
        BY DEF RunPcs, Working, Texts
      <3> QED
        BY <1>2, <2>1, <3>1 DEF RunType
    <2> HIDE DEF x
    <2>3. Through(x) = Through(w)
      BY <2>2 DEF Through
    <2>4. DOMAIN w.writes.text \subseteq (w.from + 1)..(w.at - 1)
          /\ \A k \in DOMAIN w.writes.text : w.writes.text[k] = w.chunks[k]
      BY <1>1, <1>2 DEF Fits, Working
    <2>5. \A k \in DOMAIN after : after[k] = w.chunks[k]
      BY <1>2, <2>1, <2>4
    <2>6. DOMAIN after \subseteq (w.from + 1)..w.at
      BY <1>2, <2>1, <2>4
    <2>7. Fits(x)
      BY <1>1, <1>2, <2>2, <2>3, <2>5, <2>6 DEF Fits, Working
    <2>8. Done(x)
      BY <1>1, <1>2, <2>1, <2>2 DEF Done, Working, Written
    <2> QED
      BY <1>1, <1>4, <2>2, <2>7, <2>8, RunMoves, UnchangedBounds
  <1> QED
    BY <1>1, <1>3, <1>4

LEMMA WriteVectorKeeps ==
  ASSUME IndexInv, NEW r \in Runs, WriteVector(r)
  PROVE  IndexInv'
  <1> DEFINE w == run[r]
             after == Put(w.writes.vector, w.at, w.chunks[w.at])
             pc == IF w.at + 1 \in Batch(r) THEN "read" ELSE "commit"
             x == [w EXCEPT !.writes.vector = after, !.at = w.at + 1, !.pc = pc]
  <1>1. /\ w.pc = "vector" /\ run' = [run EXCEPT ![r] = x]
        /\ UNCHANGED <<disk, sources, text, vector, edits, failures, report, shared>>
    BY DEF WriteVector
  <1>2. /\ w \in RunType /\ Fits(w) /\ Done(w) /\ w.file \in Files /\ w.at \in Sequence
        /\ w.from \in Nat /\ w.at \in Nat /\ w.from < w.at /\ w.at <= Through(w)
        /\ Through(w) \in Nat /\ w.chunks[w.at] \in Texts /\ w.writes.vector \in Partial
    BY <1>1, ChunkAt
  <1>3. /\ pc \in {"read", "commit"} /\ pc \in RunPcs
        /\ pc = "read" <=> w.at + 1 <= Through(w)
    <2>1. Batch(r) = (w.from + 1)..Through(w)
      BY BatchIs
    <2>2. pc \in {"read", "commit"} /\ pc \in RunPcs
      BY DEF RunPcs, Working
    <2> QED
      BY <1>2, <2>1, <2>2
  <1>4. /\ after \in Partial /\ after[w.at] = w.chunks[w.at]
        /\ DOMAIN after = DOMAIN w.writes.vector \cup {w.at}
        /\ \A j \in DOMAIN w.writes.vector : j # w.at => after[j] = w.writes.vector[j]
    <2> DEFINE p == w.writes.vector
               c == w.chunks[w.at]
    <2>1. p \in Partial /\ w.at \in Sequence /\ c \in Texts
      BY <1>2
    <2> HIDE DEF p, c
    <2>2. /\ Put(p, w.at, c) \in Partial /\ DOMAIN Put(p, w.at, c) = DOMAIN p \cup {w.at}
          /\ Put(p, w.at, c)[w.at] = c
          /\ \A j \in DOMAIN p : j # w.at => Put(p, w.at, c)[j] = p[j]
      BY <2>1, OneMore
    <2> QED
      BY <2>2 DEF p, c
  <1> HIDE DEF after, pc
  <1>5. /\ x \in RunType /\ x.pc = pc /\ x.at = w.at + 1 /\ x.file = w.file
        /\ x.chunks = w.chunks /\ x.from = w.from /\ x.writes.text = w.writes.text
        /\ x.writes.vector = after
    <2>1. w.at + 1 \in Nat
      BY <1>2
    <2> QED
      BY <1>2, <1>3, <1>4, <2>1 DEF RunType
  <1> HIDE DEF x
  <1>6. Through(x) = Through(w)
    BY <1>5 DEF Through
  <1>7. /\ DOMAIN w.writes.vector = (w.from + 1)..(w.at - 1)
        /\ DOMAIN w.writes.text \subseteq (w.from + 1)..w.at
        /\ \A k \in DOMAIN w.writes.text : w.writes.text[k] = w.chunks[k]
        /\ \A k \in DOMAIN w.writes.vector : w.writes.vector[k] = w.chunks[k]
        /\ w.from < Len(w.chunks)
    BY <1>1, <1>2 DEF Fits, Working
  <1>8. DOMAIN after = (w.from + 1)..w.at /\ \A k \in DOMAIN after : after[k] = w.chunks[k]
    BY <1>2, <1>4, <1>7
  <1>9. Fits(x)
    <2>1. x.at - 1 = w.at
      BY <1>2, <1>5
    <2>2. x.file # Nothing /\ x.pc \in Working /\ x.pc \in {"read", "commit"} /\ x.pc # "vector"
      BY <1>2, <1>3, <1>5, IndexingAssumption DEF Working
    <2>3. x.from < Len(x.chunks) /\ x.from <= Len(x.chunks) /\ x.at > x.from
      <3>1. Len(w.chunks) \in Nat
        BY <1>2 DEF RunType, Chunkings
      <3> QED
        BY <1>2, <1>5, <1>7, <3>1
    <2>4. x.at <= Through(x) + (IF x.pc = "commit" THEN 1 ELSE 0)
          /\ (x.pc = "commit" => x.at = Through(x) + 1)
      BY <1>2, <1>3, <1>5, <1>6
    <2>5. /\ DOMAIN x.writes.vector = (x.from + 1)..(x.at - 1)
          /\ DOMAIN x.writes.text \subseteq (x.from + 1)..(x.at - 1)
      BY <1>5, <1>7, <1>8, <2>1
    <2>6. /\ \A k \in DOMAIN x.writes.text : x.writes.text[k] = x.chunks[k]
          /\ \A k \in DOMAIN x.writes.vector : x.writes.vector[k] = x.chunks[k]
      BY <1>5, <1>7, <1>8
    <2> QED
      BY <2>2, <2>3, <2>4, <2>5, <2>6 DEF Fits
  <1>10. Done(x)
    <2> SUFFICES ASSUME x.file \in Files \ shared PROVE Done(x)
      BY DEF Done
    <2>1. /\ \A k \in 1..w.from : text[w.file][k] = w.chunks[k] /\ vector[w.file][k] = w.chunks[k]
          /\ \A k \in (w.from + 1)..(w.at - 1) : Written(w, k)
          /\ Written(w, w.at)
      BY <1>1, <1>2, <1>5 DEF Done, Working
    <2>2. \A k \in (w.from + 1)..w.at : k \in (w.from + 1)..(w.at - 1) \/ k = w.at
      BY <1>2
    <2>3. \A k \in (w.from + 1)..w.at : Written(w, k)
      BY <2>1, <2>2
    <2>4. x.at - 1 = w.at
      BY <1>2, <1>5
    <2>5. \A k \in (x.from + 1)..(x.at - 1) : Written(x, k)
      BY <1>5, <2>3, <2>4 DEF Written
    <2>6. x.pc \notin {"vector", "write"}
      BY <1>3, <1>5
    <2> QED
      BY <1>5, <2>1, <2>5, <2>6 DEF Done
  <1> QED
    BY <1>1, <1>5, <1>9, <1>10, RunMoves, UnchangedBounds

\* Rows written over a table of all the chunks of a file.
LEMMA OverlaidIs ==
  ASSUME NEW p \in Partial, NEW table \in [Sequence -> Texts]
  PROVE  /\ Overlaid(p, table) \in [Sequence -> Texts] /\ DOMAIN p \subseteq Sequence
         /\ \A k \in Sequence : Overlaid(p, table)[k] = IF k \in DOMAIN p THEN p[k] ELSE table[k]
  <1>1. PICK D \in SUBSET Sequence : p \in [D -> Texts]
    BY DEF Partial
  <1>2. DOMAIN p \cup DOMAIN table = Sequence
    BY <1>1
  <1> QED
    BY <1>1, <1>2 DEF Overlaid

\* A transaction that ends has written its batch, texts with vectors.
LEMMA CommitKeeps ==
  ASSUME IndexInv, NEW r \in Runs, Commit(r)
  PROVE  IndexInv'
  <1> DEFINE w == run[r]
             f == w.file
             x == [w EXCEPT !.pc = "embed", !.from = Through(w), !.at = 0, !.writes = NoWrites]
  <1>1. /\ w \in RunType /\ Fits(w) /\ Done(w) /\ w.pc = "commit" /\ run \in [Runs -> RunType]
        /\ w.from \in Nat /\ w.at \in Nat /\ Through(w) \in Nat
        /\ UNCHANGED <<disk, edits, failures, report, shared>>
    BY BatchIs DEF Commit
  <1>2. /\ f \in Files /\ w.from < Len(w.chunks) /\ w.at = Through(w) + 1
        /\ DOMAIN w.writes.vector = (w.from + 1)..(w.at - 1)
        /\ DOMAIN w.writes.text \subseteq (w.from + 1)..(w.at - 1)
        /\ \A k \in DOMAIN w.writes.text : w.writes.text[k] = w.chunks[k]
        /\ \A k \in DOMAIN w.writes.vector : w.writes.vector[k] = w.chunks[k]
    BY <1>1 DEF Fits, Working, RunType
  <1>3. /\ Len(w.chunks) \in Nat /\ Through(w) <= Len(w.chunks) /\ w.from < Through(w)
        /\ Len(w.chunks) <= MaxChunks
        /\ \A k \in 1..Len(w.chunks) : w.chunks[k] \in Seq(Int) /\ k \in Sequence
    BY <1>1, <1>2, ThroughIs
  <1>4. w.at - 1 = Through(w)
    BY <1>1, <1>2
  <1>5. run' = [run EXCEPT ![r] = x] /\ sources' = sources \cup {f}
        /\ text' = [text EXCEPT ![f] = Overlaid(w.writes.text, text[f])]
        /\ vector' = [vector EXCEPT ![f] = Overlaid(w.writes.vector, vector[f])]
    <2>1. Max(Batch(r)) = Through(w)
      BY <1>1, <1>2, BatchIs
    <2> QED
      BY <2>1 DEF Commit
  <1>6. /\ x \in RunType /\ x.pc = "embed" /\ x.file = f /\ x.chunks = w.chunks
        /\ x.from = Through(w) /\ x.writes = NoWrites /\ x.at = 0
    BY <1>1, NothingToWrite DEF RunType, RunPcs
  <1>7. w.writes.text \in Partial /\ w.writes.vector \in Partial
        /\ text \in [Files -> [Sequence -> Texts]] /\ vector \in [Files -> [Sequence -> Texts]]
    BY <1>1 DEF RunType, IndexInv, IndexShape
  <1>8. /\ text' \in [Files -> [Sequence -> Texts]] /\ vector' \in [Files -> [Sequence -> Texts]]
        /\ \A g \in Files : g # f => text'[g] = text[g] /\ vector'[g] = vector[g]
        /\ \A k \in Sequence :
             /\ text'[f][k] = IF k \in DOMAIN w.writes.text THEN w.chunks[k] ELSE text[f][k]
             /\ vector'[f][k] = IF k \in DOMAIN w.writes.vector THEN w.chunks[k] ELSE vector[f][k]
    <2>1. /\ Overlaid(w.writes.text, text[f]) \in [Sequence -> Texts]
          /\ \A k \in Sequence : Overlaid(w.writes.text, text[f])[k] =
               IF k \in DOMAIN w.writes.text THEN w.writes.text[k] ELSE text[f][k]
      <3> DEFINE p == w.writes.text
                 table == text[f]
      <3>1. p \in Partial /\ table \in [Sequence -> Texts]
        BY <1>2, <1>7
      <3> HIDE DEF p, table
      <3>2. /\ Overlaid(p, table) \in [Sequence -> Texts]
            /\ \A k \in Sequence : Overlaid(p, table)[k] = IF k \in DOMAIN p THEN p[k] ELSE table[k]
        BY <3>1, OverlaidIs
      <3> QED
        BY <3>2 DEF p, table
    <2>2. /\ Overlaid(w.writes.vector, vector[f]) \in [Sequence -> Texts]
          /\ \A k \in Sequence : Overlaid(w.writes.vector, vector[f])[k] =
                                   IF k \in DOMAIN w.writes.vector THEN w.writes.vector[k]
                                   ELSE vector[f][k]
      <3> DEFINE p == w.writes.vector
                 table == vector[f]
      <3>1. p \in Partial /\ table \in [Sequence -> Texts]
        BY <1>2, <1>7
      <3> HIDE DEF p, table
      <3>2. /\ Overlaid(p, table) \in [Sequence -> Texts]
            /\ \A k \in Sequence : Overlaid(p, table)[k] = IF k \in DOMAIN p THEN p[k] ELSE table[k]
        BY <3>1, OverlaidIs
      <3> QED
        BY <3>2 DEF p, table
    <2> QED
      BY <1>2, <1>5, <1>7, <2>1, <2>2
  <1> HIDE DEF x
  <1>9. run' \in [Runs -> RunType] /\ run'[r] = x /\ \A o \in Runs : o # r => run'[o] = run[o]
    BY <1>1, <1>5, <1>6
  <1>10. IndexShape'
    BY <1>1, <1>2, <1>5, <1>8, <1>9 DEF IndexInv, IndexShape
  <1>11. RunsApart' /\ ReportedIsClosed'
    <2>1. \A o \in Runs : run'[o].file = run[o].file
      BY <1>6, <1>9
    <2> QED
      BY <1>1, <2>1 DEF IndexInv, RunsApart, ReportedIsClosed
  \* What an unshared file has up to here is the chunks read from it.
  <1>12. ASSUME f \notin shared
         PROVE  /\ \A k \in 1..Through(w) : text'[f][k] = w.chunks[k] /\ vector'[f][k] = w.chunks[k]
                /\ \A k \in Sequence : k > Through(w) => /\ text'[f][k] = text[f][k]
                                                         /\ vector'[f][k] = vector[f][k]
    <2>1. /\ \A k \in 1..w.from : text[f][k] = w.chunks[k] /\ vector[f][k] = w.chunks[k]
          /\ \A k \in (w.from + 1)..Through(w) :
               k \in DOMAIN w.writes.text \/ text[f][k] = w.chunks[k]
      BY <1>1, <1>2, <1>4, <1>12 DEF Done, Working, Written
    <2> DEFINE a == w.from
               z == Through(w)
               dt == DOMAIN w.writes.text
               dv == DOMAIN w.writes.vector
               chunks == w.chunks
               textWas == text[f]
               textIs == text'[f]
               vectorWas == vector[f]
               vectorIs == vector'[f]
    <2>2. \A k \in 1..z : k \in Sequence
      BY <1>1, <1>3
    <2>3. /\ a \in Nat /\ z \in Nat /\ a < z /\ Sequence \subseteq Nat
          /\ dv = (a + 1)..z /\ dt \subseteq (a + 1)..z
      BY <1>1, <1>2, <1>3, <1>4 DEF Sequence
    <2>4. \A k \in Sequence : /\ textIs[k] = IF k \in dt THEN chunks[k] ELSE textWas[k]
                              /\ vectorIs[k] = IF k \in dv THEN chunks[k] ELSE vectorWas[k]
      BY <1>8
    <2>5. /\ \A k \in 1..a : textWas[k] = chunks[k] /\ vectorWas[k] = chunks[k]
          /\ \A k \in (a + 1)..z : k \in dt \/ textWas[k] = chunks[k]
      BY <2>1
    <2> HIDE DEF a, z, dt, dv, chunks, textWas, textIs, vectorWas, vectorIs
    <2>6. \A k \in 1..z : k \in 1..a \/ k \in (a + 1)..z
      BY <2>3
    <2>7. \A k \in 1..z : textIs[k] = chunks[k] /\ vectorIs[k] = chunks[k]
      BY <2>2, <2>3, <2>4, <2>5, <2>6
    <2>8. \A k \in Sequence : k > z => k \notin dt /\ k \notin dv
      BY <2>3
    <2>9. \A k \in Sequence : k > z => textIs[k] = textWas[k] /\ vectorIs[k] = vectorWas[k]
      BY <2>4, <2>8
    <2> QED
      BY <2>7, <2>9 DEF z, chunks, textWas, textIs, vectorWas, vectorIs
  <1>13. VectorMatchesText'
    <2> SUFFICES ASSUME NEW g \in Files, g \notin shared PROVE vector'[g] = text'[g]
      BY <1>1 DEF VectorMatchesText
    <2>1. vector[g] = text[g]
      BY DEF IndexInv, VectorMatchesText
    <2>2. CASE g # f
      BY <1>8, <2>1, <2>2
    <2>3. CASE g = f
      <3>1. \A k \in Sequence : k \in 1..Through(w) \/ k > Through(w)
        BY <1>1 DEF Sequence
      <3>2. \A k \in Sequence : vector'[f][k] = text'[f][k]
        BY <1>12, <2>1, <2>3, <3>1
      <3> QED
        BY <1>2, <1>8, <2>3, <3>2
    <2> QED
      BY <2>2, <2>3
  <1>14. ProcessedIsIndexed'
    <2>1. \A g \in Files : report[g] # Nothing => g # f
      BY DEF IndexInv, ReportedIsClosed
    <2> QED
      BY <1>1, <1>8, <2>1 DEF IndexInv, ProcessedIsIndexed
  <1>15. Fits(x)
    BY <1>2, <1>3, <1>6, IndexingAssumption DEF Fits, Working
  <1>16. ASSUME NEW o \in Runs PROVE Fits(run[o])' /\ Done(run[o])'
    <2>1. CASE o = r
      <3>1. run'[o] = x
        BY <1>9, <2>1
      <3>2. Fits(run[o])'
        BY <1>15, <3>1 DEF Fits, Through
      <3>3. Done(run[o])'
        BY <1>1, <1>2, <1>6, <1>12, <3>1 DEF Done, Working
      <3> QED
        BY <3>2, <3>3
    <2>2. CASE o # r
      <3>1. run'[o] = run[o] /\ Fits(run[o]) /\ Done(run[o])
        BY <1>9, <2>2 DEF IndexInv
      <3>2. run[o].file \in Files \ shared => run[o].file # f
        BY <1>2, <2>2, IndexingAssumption DEF IndexInv, RunsApart
      <3>3. Fits(run[o])'
        BY <3>1 DEF Fits, Through
      <3>4. Done(run[o])'
        BY <1>1, <1>8, <3>1, <3>2 DEF Done, Written
      <3> QED
        BY <3>3, <3>4
    <2> QED
      BY <2>1, <2>2
  <1> QED
    BY <1>10, <1>11, <1>13, <1>14, <1>16 DEF IndexInv

\* A file whose chunks are over is in the index from the first to the last.
LEMMA FinishFileKeeps ==
  ASSUME IndexInv, NEW r \in Runs, FinishFile(r)
  PROVE  IndexInv'
  <1> DEFINE w == run[r]
             f == w.file
             x == Leaving(w, {})
  <1>1. /\ w \in RunType /\ Fits(w) /\ Done(w) /\ w.pc = "embed" /\ run \in [Runs -> RunType]
        /\ UNCHANGED <<disk, sources, text, vector, edits, failures, shared>>
        /\ report' = [g \in Files |-> IF g = f /\ g \notin shared THEN w.chunks ELSE report[g]]
        /\ Batch(r) = {}
    BY BatchIs DEF FinishFile
  <1>2. f \in Files /\ w.from = Len(w.chunks) /\ w.chunks \in Chunkings
        /\ DOMAIN w.chunks = 1..Len(w.chunks)
    <2>1. f \in Files /\ w.from <= Len(w.chunks) /\ w.chunks \in Chunkings /\ w.from \in Nat
      BY <1>1 DEF Fits, Working, RunType
    <2>2. ~(w.from < Len(w.chunks))
      BY <1>1, BatchIs
    <2>3. Len(w.chunks) \in Nat /\ DOMAIN w.chunks = 1..Len(w.chunks)
      BY <1>1, <2>1, ThroughIs
    <2> QED
      BY <2>1, <2>2, <2>3
  <1>3. run' = [run EXCEPT ![r] = x]
    BY <1>1 DEF FinishFile, Left, Leaving, RunType
  <1>4. x \in RunType /\ Fits(x) /\ Done(x) /\ x.file = Nothing
    BY <1>1, LeavingFits
  <1> HIDE DEF x
  <1>5. run' \in [Runs -> RunType] /\ run'[r] = x /\ \A o \in Runs : o # r => run'[o] = run[o]
    BY <1>1, <1>3, <1>4
  <1>6. report' \in [Files -> Chunkings \cup {Nothing}]
    BY <1>1, <1>2 DEF IndexInv, IndexShape
  <1>7. IndexShape'
    BY <1>1, <1>5, <1>6 DEF IndexInv, IndexShape
  <1>8. RunsApart'
    BY <1>1, <1>4, <1>5 DEF IndexInv, RunsApart
  <1>9. ReportedIsClosed'
    <2> SUFFICES ASSUME NEW g \in Files, report'[g] # Nothing, NEW o \in Runs PROVE run'[o].file # g
      BY DEF ReportedIsClosed
    <2>1. CASE o = r
      BY <1>4, <1>5, <2>1, IndexingAssumption
    <2>2. CASE o # r /\ ~(g = f /\ g \notin shared)
      <3>1. report'[g] = report[g]
        BY <1>1, <2>2
      <3> QED
        BY <1>5, <2>2, <3>1 DEF IndexInv, ReportedIsClosed
    <2>3. CASE o # r /\ g = f /\ g \notin shared
      BY <1>2, <1>5, <2>3, IndexingAssumption DEF IndexInv, RunsApart
    <2> QED
      BY <2>1, <2>2, <2>3
  <1>10. VectorMatchesText'
    BY <1>1 DEF IndexInv, VectorMatchesText
  <1>11. ProcessedIsIndexed'
    <2> SUFFICES ASSUME NEW g \in Files, report'[g] # Nothing, NEW k \in DOMAIN report'[g]
                 PROVE  text[g][k] = report'[g][k] /\ vector[g][k] = text[g][k]
      BY <1>1 DEF ProcessedIsIndexed
    <2>1. CASE g = f /\ g \notin shared
      <3>1. report'[g] = w.chunks /\ k \in 1..w.from
        BY <1>1, <1>2, <2>1
      <3> QED
        BY <1>1, <1>2, <2>1, <3>1 DEF Done
    <2>2. CASE ~(g = f /\ g \notin shared)
      <3>1. report'[g] = report[g]
        BY <1>1, <2>2
      <3> QED
        BY <3>1 DEF IndexInv, ProcessedIsIndexed
    <2> QED
      BY <2>1, <2>2
  <1>12. \A o \in Runs : Fits(run[o])' /\ Done(run[o])'
    <2>1. \A o \in Runs : Fits(run'[o]) /\ Done(run'[o])
      BY <1>4, <1>5 DEF IndexInv
    <2> QED
      BY <1>1, <2>1 DEF Fits, Done, Written, Through
  <1> QED
    BY <1>7, <1>8, <1>9, <1>10, <1>11, <1>12 DEF IndexInv

-----------------------------------------------------------------------------
(* Sorting, and the scores of the fusion *)

Ahead(P, score) ==
  {x \in P \X P : score[x[1]] > score[x[2]]
                    \/ (score[x[1]] = score[x[2]] /\ x[1] < x[2])}

LEMMA BestFirstIs ==
  ASSUME NEW P, IsFiniteSet(P), P \subseteq Nat, NEW score, \A i \in P : score[i] \in Int
  PROVE  LET p == BestFirst(P, score)
         IN /\ p \in Seq(P) /\ Len(p) = Cardinality(P) /\ DOMAIN p = 1..Cardinality(P)
            /\ Cardinality(P) \in Nat
            /\ \A k, l \in DOMAIN p : p[k] = p[l] => k = l
            /\ \A k, l \in DOMAIN p : k < l => score[p[k]] >= score[p[l]]
  <1> DEFINE R == Ahead(P, score)
             p == BestFirst(P, score)
  <1>1. \A i, j \in P : <<i, j>> \in R
                          <=> (score[i] > score[j] \/ (score[i] = score[j] /\ i < j))
    BY DEF Ahead
  <1>2. \A i \in P : i \in Nat /\ score[i] \in Int
    OBVIOUS
  <1> HIDE DEF R
  <1>3. TotalOrder(P, R)
    BY <1>1, <1>2 DEF TotalOrder
  <1>4. PICK q \in Listings(P) : InOrderOf(q, P, R)
    BY <1>3, OrderExists
  <1>5. q \in SetToSeqs(P) /\ \A i \in 1..Cardinality(P) : q[i] \in P
    BY <1>4 DEF Listings, SetToSeqs
  <1>6. \A i, j \in 1..Cardinality(P) : i < j =>
           score[q[i]] > score[q[j]] \/ (score[q[i]] = score[q[j]] /\ q[i] < q[j])
    BY <1>1, <1>4, <1>5 DEF InOrderOf
  <1>7. /\ p \in SetToSeqs(P)
        /\ \A i, j \in 1..Cardinality(P) : i < j =>
             score[p[i]] > score[p[j]] \/ (score[p[i]] = score[p[j]] /\ p[i] < p[j])
    BY <1>5, <1>6 DEF BestFirst
  <1> HIDE DEF p
  <1>8. p \in Listings(P)
    BY <1>7 DEF Listings, SetToSeqs
  <1>9. /\ p \in Seq(P) /\ Len(p) = Cardinality(P) /\ DOMAIN p = 1..Cardinality(P)
        /\ Cardinality(P) \in Nat /\ \A k, l \in DOMAIN p : p[k] = p[l] => k = l
    BY <1>8, ListingsAre
  <1>10. \A k \in DOMAIN p : p[k] \in P /\ score[p[k]] \in Int
    <2>1. \A k \in DOMAIN p : p[k] \in P
      BY <1>9
    <2> QED
      BY <1>2, <2>1
  <1>11. \A k, l \in DOMAIN p : k < l => score[p[k]] >= score[p[l]]
    BY <1>7, <1>9, <1>10
  <1> QED
    BY <1>9, <1>11 DEF p

\* The denominators of the reciprocals, and their product.
Depths == 1..FusionCandidates
Times(g, s) == IF s = {} THEN 1 ELSE (RrfK + Pick(s)) * g[Rest(s)]
Products == CHOOSE g : g = [s \in SUBSET Depths |-> Times(g, s)]

LEMMA UnitIs == Unit = Products[Depths]
  BY DEF Unit, FoldSet, MapThenFoldSet, Products, Times, Depths, Pick, Rest

LEMMA PositiveProduct ==
  ASSUME NEW a \in Nat \ {0}, NEW b \in Nat \ {0}
  PROVE  a * b \in Nat \ {0}
  OBVIOUS

LEMMA DepthsAre ==
  /\ IsFiniteSet(Depths) /\ Depths \subseteq Nat
  /\ \A r \in Depths : RrfK + r \in Nat \ {0} /\ RrfK + 1 <= RrfK + r /\ RrfK + r <= 2 * RrfK + 1
  <1>1. FusionCandidates \in Nat \ {0} /\ RrfK \in Nat \ {0} /\ FusionCandidates <= RrfK + 1
    BY RetrievalAssumption
  <1>2. IsFiniteSet(Depths)
    BY <1>1, FS_Interval DEF Depths
  <1> QED
    BY <1>1, <1>2 DEF Depths

LEMMA ProductsStep ==
  ASSUME NEW s \in SUBSET Depths
  PROVE  Products[s] = Times(Products, s)
  <1> DEFINE I == SUBSET Depths
             R == StrictSubsetOrdering(Depths)
             V == Nat \ {0}
             D == [u \in I |-> [g \in [I -> V] |-> Times(g, u)]]
  <1>1. D \in [I -> [[I -> V] -> V]]
    <2>1. ASSUME NEW u \in I, NEW g \in [I -> V] PROVE Times(g, u) \in V
      <3>1. CASE u = {}
        BY <3>1 DEF Times
      <3>2. CASE u # {}
        <4>1. Pick(u) \in Depths /\ Rest(u) \in I
          BY <3>2, RestIsLess
        <4>2. RrfK + Pick(u) \in Nat \ {0} /\ g[Rest(u)] \in Nat \ {0}
          BY <4>1, DepthsAre
        <4>3. (RrfK + Pick(u)) * g[Rest(u)] \in Nat \ {0}
          BY ONLY <4>2, PositiveProduct
        <4> QED
          BY <3>2, <4>3 DEF Times
      <3> QED
        BY <3>1, <3>2
    <2> HIDE DEF I, V
    <2> QED
      BY <2>1
  <1>2. Local(D, R, I, V)
    <2> SUFFICES ASSUME NEW u \in I, NEW g \in [I -> V], NEW h \in [I -> V],
                        \A y \in I : <<y, u>> \in R => g[y] = h[y]
                 PROVE  Times(g, u) = Times(h, u)
      <3> HIDE DEF I, R, V
      <3> QED
        BY DEF Local
    <2> QED
      BY RestIsLess DEF Times
  <1>3. Founded(R, I) /\ Transitive(R, I) /\ Determines(D, I, V)
    <2>1. Founded(R, I) /\ Transitive(R, I)
      BY DepthsAre, SubsetsFounded
    <2>2. V # {}
      <3>1. 1 \in V
        OBVIOUS
      <3> HIDE DEF V
      <3> QED
        BY <3>1, Zenon
    <2> HIDE DEF I, R, D, V
    <2> QED
      BY <1>1, <2>1, <2>2, Zenon DEF Determines
  <1>4. PICK g \in [I -> V] : \A u \in I : g[u] = Times(g, u)
    <2>1. \E g : Solution(g, D, I, V)
      <3> HIDE DEF I, R, D, V
      <3> QED
        BY <1>2, <1>3, RecursionDefines
    <2> HIDE DEF I, V
    <2> QED
      BY <2>1 DEF Solution
  <1>5. g = [u \in I |-> Times(g, u)]
    <2> HIDE DEF I, V
    <2> QED
      BY <1>4
  <1>6. Products = [u \in I |-> Times(Products, u)]
    BY <1>5 DEF Products
  <1> QED
    BY <1>6

\* The unit is a multiple of every denominator.
LEMMA UnitDivides ==
  /\ Unit \in Nat \ {0}
  /\ \A r \in Depths : \E c \in Nat : Unit = (RrfK + r) * c
  <1> DEFINE Right(s) == /\ Products[s] \in Nat \ {0}
                         /\ \A r \in s : \E c \in Nat : Products[s] = (RrfK + r) * c
             F == {s \in SUBSET Depths : ~Right(s)}
  <1>1. ASSUME F # {} PROVE FALSE
    <2>1. PICK s \in F : \A u \in F : <<u, s>> \notin StrictSubsetOrdering(Depths)
      <3>1. F \in SUBSET SUBSET Depths
        OBVIOUS
      <3> HIDE DEF F
      <3> QED
        BY <1>1, <3>1, DepthsAre, SubsetsFounded DEF Founded
    <2>2. s \in SUBSET Depths /\ ~Right(s) /\ Products[s] = Times(Products, s)
      BY ProductsStep
    <2>3. CASE s = {}
      BY <2>2, <2>3 DEF Times
    <2>4. CASE s # {}
      <3> DEFINE a == RrfK + Pick(s)
                 b == Products[Rest(s)]
      <3>1. Pick(s) \in s /\ Pick(s) \in Depths /\ Rest(s) \in SUBSET Depths /\ Right(Rest(s))
        BY <2>1, <2>2, <2>4, RestIsLess
      <3>2. a \in Nat \ {0} /\ b \in Nat \ {0} /\ Products[s] = a * b
        BY <2>2, <2>4, <3>1, DepthsAre DEF Times
      <3>3. a * b \in Nat \ {0}
        BY ONLY <3>2, PositiveProduct
      <3>4. ASSUME NEW r \in s PROVE \E c \in Nat : Products[s] = (RrfK + r) * c
        <4>1. CASE r = Pick(s)
          BY <3>2, <4>1
        <4>2. CASE r # Pick(s)
          <5>1. r \in Rest(s) /\ r \in Depths
            BY <2>2, <4>2 DEF Rest
          <5>2. PICK c \in Nat : b = (RrfK + r) * c
            BY <3>1, <5>1
          <5>3. RrfK + r \in Nat
            BY <5>1, DepthsAre
          <5> DEFINE d == RrfK + r
          <5>4. a \in Nat /\ d \in Nat /\ c \in Nat /\ Products[s] = a * (d * c)
            BY <3>2, <5>2, <5>3
          <5> HIDE DEF a, b, d
          <5>5. a * (d * c) = d * (a * c) /\ a * c \in Nat
            BY <5>4
          <5> QED
            BY <5>4, <5>5 DEF d
        <4> QED
          BY <4>1, <4>2
      <3> QED
        BY <2>2, <3>2, <3>3, <3>4
    <2> QED
      BY <2>3, <2>4
  <1>2. Right(Depths)
    BY <1>1
  <1> QED
    BY <1>2, UnitIs

-----------------------------------------------------------------------------
(* The index, whatever happens to it *)

LEMMA IndexStarts ==
  ASSUME NEW start \in [Files -> Documents \cup {Nothing}],
         NEW earlier \in [Files -> Documents \cup {Nothing}],
         NEW active \in SUBSET Runs, NEW edited \in 0..MaxEdits, NEW failed \in 0..MaxFailures,
         IndexInit(start, earlier, active, edited, failed)
  PROVE  IndexInv
  <1>1. disk \in [Files -> Contents]
    BY DEF IndexInit, Contents
  <1>2. text \in [Files -> [Sequence -> Texts]] /\ vector = text
    <2>1. ASSUME NEW f \in Files, NEW k \in Sequence
          PROVE  IndexedBefore(File(earlier[f]))[k] \in Texts
      <3>1. CASE File(earlier[f]) # Nothing /\ k <= Len(File(earlier[f]).chunks)
        <4>1. earlier[f] \in Documents /\ File(earlier[f]).chunks = ChunksOf(earlier[f])
          BY <3>1 DEF File
        <4> DEFINE chunks == ChunksOf(earlier[f])
        <4>2. chunks \in Seq(Seq(Int))
          BY <4>1, DocumentsAssumption
        <4> HIDE DEF chunks
        <4>3. k \in Nat \ {0}
          BY IndexingAssumption DEF Sequence
        <4>4. chunks[k] \in Seq(Int)
          BY <3>1, <4>1, <4>2, <4>3 DEF chunks
        <4> QED
          BY <3>1, <4>1, <4>4 DEF IndexedBefore, Texts, chunks
      <3>2. CASE ~(File(earlier[f]) # Nothing /\ k <= Len(File(earlier[f]).chunks))
        BY <3>2 DEF IndexedBefore, Texts
      <3> QED
        BY <3>1, <3>2
    <2>2. \A f \in Files : IndexedBefore(File(earlier[f])) \in [Sequence -> Texts]
      <3> TAKE f \in Files
      <3>1. IndexedBefore(File(earlier[f]))
              = [k \in Sequence |-> IndexedBefore(File(earlier[f]))[k]]
        BY DEF IndexedBefore
      <3> QED
        BY <2>1, <3>1
    <2> QED
      BY <2>2 DEF IndexInit
  <1>3. IdleRun \in RunType /\ [IdleRun EXCEPT !.pc = "absent"] \in RunType
    BY NothingToWrite DEF IdleRun, RunType, RunPcs
  <1>4. run \in [Runs -> RunType]
    BY <1>3 DEF IndexInit
  <1>5. \A r \in Runs : run[r].file = Nothing /\ Fits(run[r]) /\ Done(run[r])
    <2> TAKE r \in Runs
    <2>1. /\ run[r].file = Nothing /\ run[r].pc \in {"off", "absent"}
          /\ run[r].from = 0 /\ run[r].chunks = <<>> /\ run[r].writes = NoWrites
      BY DEF IndexInit, IdleRun
    <2>2. Nothing \notin Files /\ Len(<<>>) = 0
      BY IndexingAssumption
    <2> QED
      BY <2>1, <2>2 DEF Fits, Done, Working
  <1>6. /\ report \in [Files -> Chunkings \cup {Nothing}] /\ \A f \in Files : report[f] = Nothing
        /\ sources \subseteq Files /\ shared \subseteq Files
        /\ edits \in 0..MaxEdits /\ failures \in 0..MaxFailures
    BY DEF IndexInit
  <1> QED
    BY <1>1, <1>2, <1>4, <1>5, <1>6
      DEF IndexInv, IndexShape, RunsApart, ReportedIsClosed, VectorMatchesText, ProcessedIsIndexed

LEMMA IndexStands ==
  ASSUME IndexInv, UNCHANGED indexVars
  PROVE  IndexInv'
  <1>1. UNCHANGED <<disk, sources, text, vector, run, edits, failures, report, shared>>
    BY DEF indexVars
  <1>2. \A r \in Runs : Fits(run[r])' /\ Done(run[r])'
    BY <1>1 DEF IndexInv, Fits, Done, Written, Through
  <1> QED
    BY <1>1, <1>2 DEF IndexInv, IndexShape, RunsApart, ReportedIsClosed, VectorMatchesText,
                      ProcessedIsIndexed

LEMMA IndexMoves ==
  ASSUME IndexInv, IndexNext
  PROVE  IndexInv'
  <1>1. CASE \E f \in Files : Edit(f)
    BY <1>1, EditKeeps
  <1>2. CASE \E r \in Runs : StartRun(r)
    BY <1>2, StartRunKeeps
  <1>3. CASE \E r \in Runs : BatchFails(r)
    BY <1>3, GivingUpKeeps
  <1>4. CASE \E r \in Runs : Kill(r)
    BY <1>4, KillKeeps
  <1>5. CASE \E r \in Runs : Proceed(r)
    <2> PICK r \in Runs : Proceed(r)
      BY <1>5
    <2>1. CASE OpenFile(r)
      BY <2>1, OpenFileKeeps
    <2>2. CASE EmbedBatch(r)
      BY <2>2, EmbedBatchKeeps
    <2>3. CASE ParseFails(r)
      BY <2>3, GivingUpKeeps
    <2>4. CASE ReadSource(r)
      BY <2>4, ReadSourceKeeps
    <2>5. CASE InsertSource(r)
      BY <2>5, InsertSourceKeeps
    <2>6. CASE ReadChunk(r)
      BY <2>6, ReadChunkKeeps
    <2>7. CASE WriteChunk(r)
      BY <2>7, WriteChunkKeeps
    <2>8. CASE WriteVector(r)
      BY <2>8, WriteVectorKeeps
    <2>9. CASE Commit(r)
      BY <2>9, CommitKeeps
    <2>10. CASE FinishFile(r)
      BY <2>10, FinishFileKeeps
    <2>11. CASE EndRun(r)
      BY <2>11, EndRunKeeps
    <2> QED
      BY <2>1, <2>2, <2>3, <2>4, <2>5, <2>6, <2>7, <2>8, <2>9, <2>10, <2>11 DEF Proceed
  <1> QED
    BY <1>1, <1>2, <1>3, <1>4, <1>5 DEF IndexNext

LEMMA IndexIsTyped ==
  ASSUME IndexInv
  PROVE  IndexTypeOK
  <1>1. \A f \in Files : disk[f] = Nothing \/ disk[f].doc \in Documents
    BY DiskHas
  <1>2. \A f \in Files : report[f] = Nothing \/ Len(report[f]) <= MaxChunks
    BY DEF IndexInv, IndexShape, Chunkings
  <1>3. ASSUME NEW r \in Runs
        PROVE  /\ run[r].pc \in {"off", "absent", "files", "embed", "source", "insert", "read",
                                 "write", "vector", "commit", "done", "killed"}
               /\ run[r].failed \subseteq Files /\ run[r].todo \subseteq Files
               /\ run[r].file = Nothing \/ run[r].file \in Files
    BY DEF IndexInv, IndexShape, RunType, RunPcs, Working
  <1> QED
    BY <1>1, <1>2, <1>3 DEF IndexTypeOK, IndexInv, IndexShape

LEMMA IndexSteps ==
  ASSUME IndexInv, [RetrievalNext]_retrievalVars
  PROVE  IndexInv'
  <1>1. CASE IndexNext
    BY <1>1, IndexMoves
  <1>2. CASE UNCHANGED indexVars
    BY <1>2, IndexStands
  <1>3. IndexNext \/ UNCHANGED indexVars
    BY DEF RetrievalNext, retrievalVars, SearchNext, SearchStep, Ask, EmbedQuery, EmbedQueryFails,
           CacheExpires, VectorSearch, KeywordSearch, VectorSearchFails, KeywordSearchFails,
           Fuse, Rerank, RerankFails, CancelSearch
  <1> QED
    BY <1>1, <1>2, <1>3

-----------------------------------------------------------------------------
(* The searches: what each has lost, and what it may answer *)

RowSet     == [id : Files \X Sequence, text : Texts]
RowLists   == {rows \in Seq(RowSet) : Len(rows) <= FusionCandidates}
Lost       == {"embedding", "vector", "keyword", "reranker"}
Modes      == {"none", "blank", "full", "keyword_only", "vector_only", "no_rerank"}
SearchPcs  == Ended \cup {"idle", "absent", "embed", "search", "rerank"}

SearchType ==
  [pc : SearchPcs, failed : SUBSET Lost, waiting : SUBSET {"vector", "word"},
   byVector : RowLists, byWord : RowLists, fused : Seq(RowSet), result : Seq(RowSet),
   mode : Modes]

\* One component lost at most.
Light == {{}, {"embedding"}, {"vector"}, {"keyword"}}

\* What a search knows at each point: what failed, and what is still awaited.
Told(x) ==
  /\ x.pc \in {"idle", "absent", "embed"} =>
       x.failed = {} /\ x.waiting = {"vector", "word"} /\ x.mode = "none"
  /\ x.pc = "search" =>
       /\ x.failed \subseteq {"embedding", "vector", "keyword"}
       /\ SemanticDown(x.failed) => "vector" \notin x.waiting
       /\ "keyword" \in x.failed => "word" \notin x.waiting
       /\ "embedding" \notin x.failed \/ "vector" \notin x.failed
  /\ x.pc = "rerank" => x.failed \in Light /\ x.mode = Mode(x.failed)
  /\ x.pc = "results" => \/ x.failed \in Light /\ x.mode = Mode(x.failed)
                         \/ x.failed = {"reranker"} /\ x.mode = "no_rerank"
  /\ x.pc = "no_results" => \/ x.failed = {} /\ x.mode = "blank"
                            \/ x.failed \in Light /\ x.mode = Mode(x.failed)
  /\ x.pc = "unavailable" =>
       \/ x.failed \in {{"embedding", "keyword"}, {"vector", "keyword"}}
       \/ x.failed \in {l \cup {"reranker"} : l \in Light \ {{}}}

Has(rows, id) == \E i \in DOMAIN rows : rows[i].id = id
Distinct(rows) == \A i, j \in DOMAIN rows : rows[i].id = rows[j].id => i = j

\* One row per chunk, those that both stores found ahead of the others.
Ranked(x) ==
  /\ x.pc \in {"idle", "absent", "embed", "search"} => x.fused = <<>>
  /\ x.pc \in {"idle", "absent", "embed", "search", "rerank"} => x.result = <<>>
  /\ Distinct(x.fused) /\ Distinct(x.result) /\ Len(x.result) <= TopK
  /\ \A i, j \in DOMAIN x.fused :
       /\ Has(x.byVector, x.fused[j].id) /\ Has(x.byWord, x.fused[j].id)
       /\ ~(Has(x.byVector, x.fused[i].id) /\ Has(x.byWord, x.fused[i].id))
       => j < i

\* Where the rows come from: none from a vector store that is lost, none that was
\* not fused, and the fused order when nothing reranked them.
Drawn(x) ==
  /\ x.pc \in {"idle", "absent", "embed"} => x.byVector = <<>>
  /\ x.pc = "search" /\ "vector" \in x.waiting => x.byVector = <<>>
  /\ SemanticDown(x.failed) => x.byVector = <<>>
  /\ x.byVector = <<>> => Range(x.fused) \subseteq Range(x.byWord)
  /\ Range(x.result) \subseteq Range(x.fused)
  /\ x.mode = "no_rerank" => x.result = Prefix(x.fused, TopK)

\* The invariant of the searches.
SearchInv ==
  /\ search \in [Searches -> SearchType]
  /\ cached \subseteq Queries /\ faults \in 0..MaxFaults
  /\ \A s \in Searches : Told(search[s]) /\ Ranked(search[s]) /\ Drawn(search[s])

LEMMA SearchMoves ==
  ASSUME SearchInv, NEW s \in Searches, NEW x \in SearchType, search' = [search EXCEPT ![s] = x],
         Told(x), Ranked(x), Drawn(x), cached' \subseteq Queries, faults' \in 0..MaxFaults
  PROVE  SearchInv'
  <1>1. /\ search' \in [Searches -> SearchType]
        /\ \A o \in Searches : search'[o] = x \/ search'[o] = search[o]
    BY DEF SearchInv
  <1>2. \A o \in Searches : Told(search[o])' /\ Ranked(search[o])' /\ Drawn(search[o])'
    <2>1. \A o \in Searches : Told(search[o]) /\ Ranked(search[o]) /\ Drawn(search[o])
      BY DEF SearchInv
    <2> QED
      BY <1>1, <2>1
  <1> QED
    BY <1>1, <1>2 DEF SearchInv

LEMMA SearchHas ==
  ASSUME SearchInv, NEW s \in Searches
  PROVE  /\ search[s] \in SearchType /\ Told(search[s]) /\ Ranked(search[s])
         /\ Drawn(search[s])
         /\ faults \in 0..MaxFaults /\ cached \subseteq Queries
         /\ faults < MaxFaults => faults + 1 \in 0..MaxFaults
         /\ QueryOf[s] \in Queries
  BY RetrievalAssumption DEF SearchInv

LEMMA SearchStarts ==
  ASSUME NEW asking \in SUBSET Searches, SearchInit(asking)
  PROVE  SearchInv
  <1>1. <<>> \in RowLists /\ Len(<<>>) = 0 /\ TopK \in Nat /\ 0 \in 0..MaxFaults
    BY RetrievalAssumption DEF RowLists
  <1>2. ASSUME NEW x, x \in {IdleSearch, [IdleSearch EXCEPT !.pc = "absent"]}
        PROVE  x \in SearchType /\ Told(x) /\ Ranked(x) /\ Drawn(x)
    <2>1. /\ x.pc \in {"idle", "absent"} /\ x.failed = {} /\ x.waiting = {"vector", "word"}
          /\ x.mode = "none" /\ x.fused = <<>> /\ x.result = <<>> /\ x.byVector = <<>>
      BY <1>2 DEF IdleSearch
    <2>2. x \in SearchType
      <3>1. <<>> \in Seq(RowSet) /\ {"vector", "word"} \in SUBSET {"vector", "word"}
            /\ {} \in SUBSET Lost /\ "none" \in Modes
            /\ "idle" \in SearchPcs /\ "absent" \in SearchPcs
        BY DEF Modes, SearchPcs
      <3>2. IdleSearch \in SearchType
        BY <1>1, <3>1 DEF IdleSearch, SearchType
      <3>3. [IdleSearch EXCEPT !.pc = "absent"] \in SearchType
        BY <3>1, <3>2 DEF SearchType
      <3> QED
        BY <1>2, <3>2, <3>3
    <2>3. Told(x) /\ Ranked(x)
      BY <1>1, <2>1 DEF Told, Ranked, Distinct
    <2>4. Drawn(x)
      BY <2>1 DEF Drawn, Range
    <2> QED
      BY <2>2, <2>3, <2>4
  <1>3. \A s \in Searches : search[s] \in {IdleSearch, [IdleSearch EXCEPT !.pc = "absent"]}
    BY DEF SearchInit
  <1>4. search \in [Searches -> SearchType]
    BY <1>2, <1>3 DEF SearchInit
  <1> QED
    BY <1>1, <1>2, <1>3, <1>4 DEF SearchInv, SearchInit

LEMMA AskKeeps ==
  ASSUME SearchInv, NEW s \in Searches, Ask(s)
  PROVE  SearchInv'
  <1> DEFINE w == search[s]
  <1>1. PICK blank \in BOOLEAN :
          search' = [search EXCEPT ![s].pc = IF blank THEN "no_results" ELSE "embed",
                                   ![s].mode = IF blank THEN "blank" ELSE @]
    BY DEF Ask
  <1> DEFINE x == [w EXCEPT !.pc = IF blank THEN "no_results" ELSE "embed",
                            !.mode = IF blank THEN "blank" ELSE @]
  <1>2. /\ w \in SearchType /\ Told(w) /\ Ranked(w) /\ Drawn(w) /\ w.pc = "idle"
        /\ UNCHANGED <<cached, faults>> /\ faults \in 0..MaxFaults /\ cached \subseteq Queries
    BY SearchHas DEF Ask
  <1>3. search' = [search EXCEPT ![s] = x]
    BY <1>1, <1>2 DEF SearchInv
  <1>4. /\ x \in SearchType /\ x.pc = (IF blank THEN "no_results" ELSE "embed")
        /\ x.mode = (IF blank THEN "blank" ELSE w.mode) /\ x.failed = w.failed
        /\ x.waiting = w.waiting /\ x.fused = w.fused /\ x.result = w.result
        /\ x.byVector = w.byVector /\ x.byWord = w.byWord
    BY <1>2 DEF SearchType, SearchPcs, Modes, Ended
  <1> HIDE DEF x, w
  <1>5. Told(x) /\ Ranked(x)
    BY <1>2, <1>4 DEF Told, Ranked
  <1>6. Drawn(x)
    BY <1>2, <1>4 DEF Drawn, Told, Ranked, SemanticDown
  <1> QED
    BY <1>2, <1>3, <1>4, <1>5, <1>6, SearchMoves

LEMMA EmbedQueryKeeps ==
  ASSUME SearchInv, NEW s \in Searches, EmbedQuery(s)
  PROVE  SearchInv'
  <1> DEFINE w == search[s]
             x == [w EXCEPT !.pc = "search"]
  <1>1. /\ w \in SearchType /\ Told(w) /\ Ranked(w) /\ Drawn(w) /\ w.pc = "embed"
        /\ faults' \in 0..MaxFaults /\ cached' \subseteq Queries
    BY SearchHas DEF EmbedQuery, RememberQuery
  <1>2. search' = [search EXCEPT ![s] = x]
    BY DEF EmbedQuery
  <1>3. /\ x \in SearchType /\ x.pc = "search" /\ x.mode = w.mode /\ x.failed = w.failed
        /\ x.waiting = w.waiting /\ x.fused = w.fused /\ x.result = w.result
        /\ x.byVector = w.byVector /\ x.byWord = w.byWord
    BY <1>1 DEF SearchType, SearchPcs, Ended
  <1> HIDE DEF x, w
  <1>4. Told(x) /\ Ranked(x)
    BY <1>1, <1>3 DEF Told, Ranked, SemanticDown
  <1>5. Drawn(x)
    BY <1>1, <1>3 DEF Drawn, Told, Ranked, SemanticDown
  <1> QED
    BY <1>1, <1>2, <1>3, <1>4, <1>5, SearchMoves

LEMMA EmbedQueryFailsKeeps ==
  ASSUME SearchInv, NEW s \in Searches, EmbedQueryFails(s)
  PROVE  SearchInv'
  <1> DEFINE w == search[s]
             x == [w EXCEPT !.pc = "search", !.failed = {"embedding"}, !.waiting = {"word"}]
  <1>1. /\ w \in SearchType /\ Told(w) /\ Ranked(w) /\ Drawn(w) /\ w.pc = "embed"
        /\ faults' \in 0..MaxFaults /\ cached' \subseteq Queries
    BY SearchHas DEF EmbedQueryFails
  <1>2. search' = [search EXCEPT ![s] = x]
    BY DEF EmbedQueryFails
  <1>3. /\ x \in SearchType /\ x.pc = "search" /\ x.mode = w.mode /\ x.failed = {"embedding"}
        /\ x.waiting = {"word"} /\ x.fused = w.fused /\ x.result = w.result
        /\ x.byVector = w.byVector /\ x.byWord = w.byWord
    BY <1>1 DEF SearchType, SearchPcs, Ended, Lost
  <1> HIDE DEF x, w
  <1>4. Told(x) /\ Ranked(x)
    BY <1>1, <1>3 DEF Told, Ranked, SemanticDown
  <1>5. Drawn(x)
    BY <1>1, <1>3 DEF Drawn, Told, Ranked, SemanticDown
  <1> QED
    BY <1>1, <1>2, <1>3, <1>4, <1>5, SearchMoves

LEMMA CancelSearchKeeps ==
  ASSUME SearchInv, NEW s \in Searches, CancelSearch(s)
  PROVE  SearchInv'
  <1> DEFINE w == search[s]
             x == [w EXCEPT !.pc = "cancelled"]
  <1>1. /\ w \in SearchType /\ Told(w) /\ Ranked(w) /\ Drawn(w)
        /\ faults' \in 0..MaxFaults /\ cached' \subseteq Queries
    BY SearchHas DEF CancelSearch
  <1>2. search' = [search EXCEPT ![s] = x]
    BY DEF CancelSearch
  <1>3. /\ x \in SearchType /\ x.pc = "cancelled" /\ x.mode = w.mode /\ x.failed = w.failed
        /\ x.fused = w.fused /\ x.result = w.result
        /\ x.byVector = w.byVector /\ x.byWord = w.byWord
    BY <1>1 DEF SearchType, SearchPcs, Ended
  <1> HIDE DEF x, w
  <1>4. Told(x) /\ Ranked(x)
    BY <1>1, <1>3 DEF Told, Ranked
  <1>5. Drawn(x)
    BY <1>1, <1>3 DEF Drawn, Told, Ranked, SemanticDown
  <1> QED
    BY <1>1, <1>2, <1>3, <1>4, <1>5, SearchMoves

LEMMA VectorSearchFailsKeeps ==
  ASSUME SearchInv, NEW s \in Searches, VectorSearchFails(s)
  PROVE  SearchInv'
  <1> DEFINE w == search[s]
             x == [w EXCEPT !.waiting = @ \ {"vector"}, !.failed = @ \cup {"vector"}]
  <1>1. /\ w \in SearchType /\ Told(w) /\ Ranked(w) /\ Drawn(w)
        /\ w.pc = "search" /\ "vector" \in w.waiting
        /\ faults' \in 0..MaxFaults /\ cached' \subseteq Queries
    BY SearchHas DEF VectorSearchFails
  <1>2. search' = [search EXCEPT ![s] = x]
    BY <1>1 DEF VectorSearchFails, SearchInv
  <1>3. /\ x \in SearchType /\ x.pc = "search" /\ x.mode = w.mode
        /\ x.failed = w.failed \cup {"vector"} /\ x.waiting = w.waiting \ {"vector"}
        /\ x.fused = w.fused /\ x.result = w.result
        /\ x.byVector = w.byVector /\ x.byWord = w.byWord
    BY <1>1 DEF SearchType, Lost
  <1> HIDE DEF x, w
  <1>4. Told(x)
    BY <1>1, <1>3 DEF Told, SemanticDown
  <1>5. Ranked(x)
    BY <1>1, <1>3 DEF Ranked
  <1>6. Drawn(x)
    BY <1>1, <1>3 DEF Drawn, Told, Ranked, SemanticDown
  <1> QED
    BY <1>1, <1>2, <1>3, <1>4, <1>5, <1>6, SearchMoves

LEMMA KeywordSearchFailsKeeps ==
  ASSUME SearchInv, NEW s \in Searches, KeywordSearchFails(s)
  PROVE  SearchInv'
  <1> DEFINE w == search[s]
             x == [w EXCEPT !.waiting = @ \ {"word"}, !.failed = @ \cup {"keyword"}]
  <1>1. /\ w \in SearchType /\ Told(w) /\ Ranked(w) /\ Drawn(w) /\ w.pc = "search"
        /\ faults' \in 0..MaxFaults /\ cached' \subseteq Queries
    BY SearchHas DEF KeywordSearchFails
  <1>2. search' = [search EXCEPT ![s] = x]
    BY <1>1 DEF KeywordSearchFails, SearchInv
  <1>3. /\ x \in SearchType /\ x.pc = "search" /\ x.mode = w.mode
        /\ x.failed = w.failed \cup {"keyword"} /\ x.waiting = w.waiting \ {"word"}
        /\ x.fused = w.fused /\ x.result = w.result
        /\ x.byVector = w.byVector /\ x.byWord = w.byWord
    BY <1>1 DEF SearchType, Lost
  <1> HIDE DEF x, w
  <1>4. Told(x)
    BY <1>1, <1>3 DEF Told, SemanticDown
  <1>5. Ranked(x)
    BY <1>1, <1>3 DEF Ranked
  <1>6. Drawn(x)
    BY <1>1, <1>3 DEF Drawn, Told, Ranked, SemanticDown
  <1> QED
    BY <1>1, <1>2, <1>3, <1>4, <1>5, <1>6, SearchMoves

\* What a store answers: rows of the index, at most as many as it is asked for.
LEMMA RowsAre ==
  ASSUME IndexInv, NEW ids \in SUBSET (Files \X Sequence), NEW p \in Rankings(ids),
         Cardinality(ids) <= FusionCandidates
  PROVE  Rows(p) \in RowLists
  <1> DEFINE n == Cardinality(ids)
             row == [i \in 1..n |-> [id |-> p[i], text |-> text[p[i][1]][p[i][2]]]]
  <1>1. n \in Nat
    <2>1. IsFiniteSet(Sequence)
      BY IndexingAssumption, FS_Interval DEF Sequence
    <2>2. IsFiniteSet(Files \X Sequence)
      BY <2>1, IndexingAssumption, FS_Product
    <2>3. IsFiniteSet(ids)
      BY <2>2, FS_Subset
    <2> QED
      BY <2>3, FS_CardinalityType
  <1>2. p \in [1..n -> ids] /\ n <= FusionCandidates
    BY DEF Rankings
  <1> HIDE DEF n
  <1>3. Len(p) = n
    BY <1>1, <1>2
  <1>4. Rows(p) = row
    BY <1>3 DEF Rows
  <1>5. ASSUME NEW i \in 1..n
        PROVE  [id |-> p[i], text |-> text[p[i][1]][p[i][2]]] \in RowSet
    <2>1. p[i] \in Files \X Sequence
      BY <1>1, <1>2
    <2>2. text[p[i][1]][p[i][2]] \in Texts
      BY <2>1 DEF IndexInv, IndexShape
    <2> QED
      BY <2>1, <2>2 DEF RowSet
  <1>6. row \in [1..n -> RowSet]
    BY <1>5
  <1> HIDE DEF row
  <1>7. row \in Seq(RowSet) /\ Len(row) = n
    BY <1>1, <1>6
  <1> QED
    BY <1>2, <1>4, <1>7 DEF RowLists

LEMMA VectorSearchKeeps ==
  ASSUME IndexInv, SearchInv, NEW s \in Searches, VectorSearch(s)
  PROVE  SearchInv'
  <1> DEFINE w == search[s]
  <1>1. PICK p \in Neighbours :
          search' = [search EXCEPT ![s].byVector = Rows(p), ![s].waiting = @ \ {"vector"}]
    BY DEF VectorSearch
  <1> DEFINE rows == Rows(p)
             x == [w EXCEPT !.byVector = rows, !.waiting = @ \ {"vector"}]
  <1>2. /\ w \in SearchType /\ Told(w) /\ Ranked(w) /\ Drawn(w) /\ w.pc = "search"
        /\ "vector" \in w.waiting
        /\ faults' \in 0..MaxFaults /\ cached' \subseteq Queries
    BY SearchHas DEF VectorSearch
  <1>3. search' = [search EXCEPT ![s] = x]
    BY <1>1, <1>2 DEF SearchInv
  <1>4. rows \in RowLists
    <2>1. PICK ids \in Some(Searchable) : p \in Rankings(ids)
      BY DEF Neighbours
    <2>2. ids \in SUBSET (Files \X Sequence) /\ Cardinality(ids) <= FusionCandidates
      BY DEF Some, Searchable
    <2> QED
      BY <2>1, <2>2, RowsAre
  <1> HIDE DEF rows
  <1>5. /\ x \in SearchType /\ x.pc = "search" /\ x.failed = w.failed /\ x.mode = w.mode
        /\ x.waiting = w.waiting \ {"vector"} /\ x.byVector = rows
        /\ x.fused = w.fused /\ x.result = w.result /\ x.byWord = w.byWord
    BY <1>2, <1>4 DEF SearchType
  <1> HIDE DEF x, w
  <1>6. Told(x)
    BY <1>2, <1>5 DEF Told
  <1>7. Ranked(x)
    BY <1>2, <1>5 DEF Ranked
  <1>8. Drawn(x)
    BY <1>2, <1>5 DEF Drawn, Told, Ranked, SemanticDown, Range
  <1> QED
    BY <1>2, <1>3, <1>5, <1>6, <1>7, <1>8, SearchMoves

LEMMA KeywordSearchKeeps ==
  ASSUME IndexInv, SearchInv, NEW s \in Searches, KeywordSearch(s)
  PROVE  SearchInv'
  <1> DEFINE w == search[s]
  <1>1. PICK p \in Matches :
          search' = [search EXCEPT ![s].byWord = Rows(p), ![s].waiting = @ \ {"word"}]
    BY DEF KeywordSearch
  <1> DEFINE rows == Rows(p)
             x == [w EXCEPT !.byWord = rows, !.waiting = @ \ {"word"}]
  <1>2. /\ w \in SearchType /\ Told(w) /\ Ranked(w) /\ Drawn(w) /\ w.pc = "search"
        /\ faults' \in 0..MaxFaults /\ cached' \subseteq Queries
    BY SearchHas DEF KeywordSearch
  <1>3. search' = [search EXCEPT ![s] = x]
    BY <1>1, <1>2 DEF SearchInv
  <1>4. rows \in RowLists
    <2>1. PICK ids \in Some(Readable) : p \in Rankings(ids)
      BY DEF Matches
    <2>2. ids \in SUBSET (Files \X Sequence) /\ Cardinality(ids) <= FusionCandidates
      BY DEF Some, Readable
    <2> QED
      BY <2>1, <2>2, RowsAre
  <1> HIDE DEF rows
  <1>5. /\ x \in SearchType /\ x.pc = "search" /\ x.failed = w.failed /\ x.mode = w.mode
        /\ x.waiting = w.waiting \ {"word"} /\ x.byVector = w.byVector
        /\ x.fused = w.fused /\ x.result = w.result
    BY <1>2, <1>4 DEF SearchType
  <1> HIDE DEF x, w
  <1>6. Told(x)
    BY <1>2, <1>5 DEF Told
  <1>7. Ranked(x)
    BY <1>2, <1>5 DEF Ranked
  <1>8. Drawn(x)
    BY <1>2, <1>5 DEF Drawn, Told, Ranked, SemanticDown, Range
  <1> QED
    BY <1>2, <1>3, <1>5, <1>6, <1>7, <1>8, SearchMoves

LEMMA CacheExpiresKeeps ==
  ASSUME SearchInv, NEW q \in Queries, CacheExpires(q)
  PROVE  SearchInv'
  BY DEF SearchInv, CacheExpires

\* The head of a list.
LEMMA PrefixIs ==
  ASSUME NEW S, NEW rows \in Seq(S), NEW n \in Nat
  PROVE  /\ Prefix(rows, n) \in Seq(S) /\ Len(Prefix(rows, n)) <= n
         /\ Len(Prefix(rows, n)) = Lesser(n, Len(rows))
         /\ Len(Prefix(rows, n)) \in Nat /\ Len(Prefix(rows, n)) <= Len(rows)
         /\ DOMAIN Prefix(rows, n) = 1..Len(Prefix(rows, n))
         /\ DOMAIN Prefix(rows, n) \subseteq DOMAIN rows
         /\ \A i \in DOMAIN Prefix(rows, n) : Prefix(rows, n)[i] = rows[i]
  <1> DEFINE m == Lesser(n, Len(rows))
  <1>1. m \in 0..Len(rows) /\ m <= n /\ m \in Nat
    BY DEF Lesser
  <1>2. Prefix(rows, n) = SubSeq(rows, 1, m)
    BY DEF Prefix
  <1> HIDE DEF m
  <1>3. /\ SubSeq(rows, 1, m) \in Seq(S) /\ Len(SubSeq(rows, 1, m)) = m
        /\ DOMAIN SubSeq(rows, 1, m) = 1..m
        /\ \A i \in 1..m : SubSeq(rows, 1, m)[i] = rows[i]
    BY <1>1
  <1>4. 1..m \subseteq DOMAIN rows
    BY <1>1
  <1> QED
    BY <1>1, <1>2, <1>3, <1>4 DEF m

LEMMA PrefixDistinct ==
  ASSUME NEW rows \in Seq(RowSet), Distinct(rows), NEW n \in Nat
  PROVE  Distinct(Prefix(rows, n))
  BY PrefixIs DEF Distinct

LEMMA PrefixRange ==
  ASSUME NEW rows \in Seq(RowSet), NEW n \in Nat
  PROVE  Range(Prefix(rows, n)) \subseteq Range(rows)
  BY PrefixIs DEF Range

LEMMA RerankFailsKeeps ==
  ASSUME SearchInv, NEW s \in Searches, RerankFails(s)
  PROVE  SearchInv'
  <1> DEFINE w == search[s]
             full == (w.mode = "full")
             head == Prefix(w.fused, TopK)
             x == [w EXCEPT !.failed = @ \cup {"reranker"},
                     !.pc = IF full THEN "results" ELSE "unavailable",
                     !.mode = IF full THEN "no_rerank" ELSE @,
                     !.result = IF full THEN head ELSE @]
  <1>1. /\ w \in SearchType /\ Told(w) /\ Ranked(w) /\ Drawn(w) /\ w.pc = "rerank"
        /\ faults' \in 0..MaxFaults /\ cached' \subseteq Queries /\ TopK \in Nat
    BY SearchHas, RetrievalAssumption DEF RerankFails
  <1>2. search' = [search EXCEPT ![s] = x]
    BY <1>1 DEF RerankFails, SearchInv
  <1>3. /\ head \in Seq(RowSet) /\ Distinct(head) /\ Len(head) <= TopK
        /\ Range(head) \subseteq Range(w.fused)
    <2>1. w.fused \in Seq(RowSet) /\ Distinct(w.fused)
      BY <1>1 DEF SearchType, Ranked
    <2> QED
      BY <1>1, <2>1, PrefixIs, PrefixDistinct, PrefixRange
  <1>4. full \in BOOLEAN /\ (full <=> w.mode = "full")
    OBVIOUS
  <1> HIDE DEF head, full
  <1>5. /\ x \in SearchType /\ x.pc = (IF full THEN "results" ELSE "unavailable")
        /\ x.failed = w.failed \cup {"reranker"}
        /\ x.mode = (IF full THEN "no_rerank" ELSE w.mode)
        /\ x.result = (IF full THEN head ELSE w.result)
        /\ x.fused = w.fused /\ x.byVector = w.byVector /\ x.byWord = w.byWord
    BY <1>1, <1>3, <1>4 DEF SearchType, SearchPcs, Ended, Lost, Modes
  <1> HIDE DEF x, w
  <1>6. w.failed \in Light /\ w.mode = Mode(w.failed)
    BY <1>1 DEF Told
  <1>7. full <=> w.failed = {}
    BY <1>4, <1>6 DEF Light, Mode, SemanticDown
  <1>8. Told(x)
    BY <1>5, <1>6, <1>7 DEF Told
  <1>9. Ranked(x)
    BY <1>1, <1>3, <1>4, <1>5 DEF Ranked
  <1>10. Drawn(x)
    <2>1. full => x.result = Prefix(x.fused, TopK)
      BY <1>5 DEF head
    <2>2. w.mode # "no_rerank"
      BY <1>6 DEF Mode
    <2>3. SemanticDown(x.failed) <=> SemanticDown(w.failed)
      BY <1>5 DEF SemanticDown
    <2>4. w.pc = "rerank" /\ Drawn(w)
      BY <1>1
    <2>5. x.mode = "no_rerank" => full
      BY <1>5, <2>2
    <2>6. Range(x.result) \subseteq Range(x.fused)
      BY <1>3, <1>5, <2>4 DEF Drawn
    <2>7. x.pc \in {"results", "unavailable"}
      BY <1>5
    <2> QED
      BY <1>5, <2>1, <2>3, <2>4, <2>5, <2>6, <2>7 DEF Drawn
  <1> QED
    BY <1>1, <1>2, <1>5, <1>8, <1>9, <1>10, SearchMoves

-----------------------------------------------------------------------------
(* Reciprocal rank fusion: found by both stores is ahead of found by one *)

LEMMA ExactQuotient ==
  ASSUME NEW a \in Nat \ {0}, NEW c \in Nat
  PROVE  (a * c) \div a = c
  OBVIOUS

LEMMA MultipleGrows ==
  ASSUME NEW a \in Nat, NEW b \in Nat, NEW c \in Nat, a <= b
  PROVE  a * c <= b * c /\ a * c \in Nat /\ b * c \in Nat
  OBVIOUS

LEMMA ReciprocalIs ==
  ASSUME NEW rows \in RowLists, NEW id
  PROVE  /\ Reciprocal(rows, id) \in Nat
         /\ ~Has(rows, id) => Reciprocal(rows, id) = 0
         /\ Has(rows, id) => /\ Reciprocal(rows, id) # 0
                             /\ Unit <= (2 * RrfK + 1) * Reciprocal(rows, id)
         /\ (RrfK + 1) * Reciprocal(rows, id) <= Unit
  <1> DEFINE ranks == {r \in DOMAIN rows : rows[r].id = id}
  <1>1. FusionCandidates \in Nat \ {0} /\ RrfK \in Nat \ {0} /\ Unit \in Nat \ {0}
    BY RetrievalAssumption, UnitDivides
  <1>2. ranks \in SUBSET Depths /\ (ranks = {} <=> ~Has(rows, id))
    <2>1. rows \in Seq(RowSet) /\ Len(rows) <= FusionCandidates
      BY DEF RowLists
    <2>2. DOMAIN rows = 1..Len(rows) /\ Len(rows) \in Nat
      BY <2>1
    <2>3. DOMAIN rows \subseteq Depths
      BY <1>1, <2>1, <2>2 DEF Depths
    <2> QED
      BY <2>3 DEF Has
  <1>3. Reciprocal(rows, id) = IF ranks = {} THEN 0 ELSE Unit \div (RrfK + Min(ranks))
    BY DEF Reciprocal
  <1> HIDE DEF ranks
  <1>4. CASE ranks = {}
    BY <1>1, <1>2, <1>3, <1>4
  <1>5. CASE ranks # {}
    <2>1. Min(ranks) \in ranks
      <3>1. \E x \in ranks : \A y \in ranks : x <= y
        BY <1>2, <1>5, LeastExists, DepthsAre, FS_Subset
      <3> QED
        BY <3>1 DEF Min
    <2> DEFINE d == RrfK + Min(ranks)
    <2>2. d \in Nat \ {0} /\ RrfK + 1 <= d /\ d <= 2 * RrfK + 1
      BY <1>2, <2>1, DepthsAre
    <2>3. PICK c \in Nat : Unit = d * c
      BY <1>2, <2>1, UnitDivides
    <2>4. Reciprocal(rows, id) = Unit \div d
      BY <1>3, <1>5
    <2> HIDE DEF d
    <2>5. Reciprocal(rows, id) = c
      BY <2>2, <2>3, <2>4, ExactQuotient
    <2>6. c # 0
      BY <1>1, <2>2, <2>3
    <2>7. d * c <= (2 * RrfK + 1) * c
      BY <1>1, <2>2, MultipleGrows
    <2>8. (RrfK + 1) * c <= d * c
      BY <1>1, <2>2, MultipleGrows
    <2> QED
      BY <1>2, <1>5, <2>3, <2>5, <2>6, <2>7, <2>8
  <1> QED
    BY <1>4, <1>5

\* Two reciprocals within the depth of the searches are more than one.
LEMMA TwoOutweighOne ==
  ASSUME NEW k \in Nat, NEW u \in Nat, NEW a \in Nat, NEW b \in Nat, NEW c \in Nat,
         u <= (2 * k + 1) * a, u <= (2 * k + 1) * b, (k + 1) * c <= u, a # 0
  PROVE  c < a + b
  <1> SUFFICES ASSUME a + b <= c PROVE FALSE
    OBVIOUS
  <1>1. (2 * k + 1) * (a + b) <= (2 * k + 1) * c
    <2>1. a + b \in Nat /\ 2 * k + 1 \in Nat
      OBVIOUS
    <2>2. (a + b) * (2 * k + 1) <= c * (2 * k + 1)
      BY <2>1, MultipleGrows
    <2> QED
      BY <2>2
  <1>2. (2 * k + 1) * (a + b) = (2 * k + 1) * a + (2 * k + 1) * b
    OBVIOUS
  <1>3. 2 * ((k + 1) * c) = (2 * k + 1) * c + c
    OBVIOUS
  <1>4. (2 * k + 1) * a \in Nat /\ (2 * k + 1) * b \in Nat /\ (2 * k + 1) * c \in Nat
        /\ (k + 1) * c \in Nat /\ (2 * k + 1) * (a + b) \in Nat
    OBVIOUS
  <1>5. c <= 0
    <2> DEFINE pa == (2 * k + 1) * a
               pb == (2 * k + 1) * b
               pc == (2 * k + 1) * c
               ps == (2 * k + 1) * (a + b)
               pu == (k + 1) * c
    <2>1. /\ pa \in Nat /\ pb \in Nat /\ pc \in Nat /\ ps \in Nat /\ pu \in Nat
          /\ ps <= pc /\ ps = pa + pb /\ 2 * pu = pc + c /\ u <= pa /\ u <= pb /\ pu <= u
      BY <1>1, <1>2, <1>3, <1>4
    <2> HIDE DEF pa, pb, pc, ps, pu
    <2> QED
      BY <2>1
  <1> QED
    BY <1>5

LEMMA BothOutscore ==
  ASSUME NEW v \in RowLists, NEW w \in RowLists, NEW i, NEW j,
         Has(v, j), Has(w, j), ~(Has(v, i) /\ Has(w, i))
  PROVE  RrfScore(v, w, i) < RrfScore(v, w, j)
  <1> DEFINE vi == Reciprocal(v, i)
             wi == Reciprocal(w, i)
             vj == Reciprocal(v, j)
             wj == Reciprocal(w, j)
  <1>1. vi \in Nat /\ wi \in Nat /\ vj \in Nat /\ wj \in Nat
    BY ReciprocalIs
  <1>2. /\ vj # 0 /\ Unit <= (2 * RrfK + 1) * vj /\ Unit <= (2 * RrfK + 1) * wj
        /\ (RrfK + 1) * vi <= Unit /\ (RrfK + 1) * wi <= Unit
        /\ RrfK \in Nat /\ Unit \in Nat
    BY ReciprocalIs, UnitDivides, RetrievalAssumption
  <1>3. vi = 0 \/ wi = 0
    BY ReciprocalIs
  <1>4. RrfScore(v, w, i) = vi + wi /\ RrfScore(v, w, j) = vj + wj
    BY DEF RrfScore
  <1> HIDE DEF vi, wi, vj, wj
  <1>5. vi < vj + wj
    BY ONLY <1>1, <1>2, TwoOutweighOne
  <1>6. wi < vj + wj
    BY ONLY <1>1, <1>2, TwoOutweighOne
  <1> QED
    BY <1>1, <1>3, <1>4, <1>5, <1>6

\* What the fusion returns: a row per chunk, both-found ones first, and something
\* whenever the vector store did.
LEMMA FusedIs ==
  ASSUME NEW v \in RowLists, NEW w \in RowLists
  PROVE  /\ Fused(v, w) \in Seq(RowSet) /\ Distinct(Fused(v, w))
         /\ \A i, j \in DOMAIN Fused(v, w) :
              /\ Has(v, Fused(v, w)[j].id) /\ Has(w, Fused(v, w)[j].id)
              /\ ~(Has(v, Fused(v, w)[i].id) /\ Has(w, Fused(v, w)[i].id))
              => j < i
         /\ v # <<>> => Fused(v, w) # <<>>
         /\ v = <<>> => Range(Fused(v, w)) \subseteq Range(w)
  <1> DEFINE all == v \o w
             P == FirstMet(all)
             score == [i \in DOMAIN all |-> RrfScore(v, w, all[i].id)]
             order == BestFirst(P, score)
             fused == [k \in DOMAIN order |-> all[order[k]]]
  <1>1. /\ all \in Seq(RowSet) /\ DOMAIN all = 1..Len(all) /\ Len(all) \in Nat
        /\ v # <<>> => Len(all) # 0
        /\ v = <<>> => all = w
    BY DEF RowLists
  <1>2. Fused(v, w) = fused
    BY DEF Fused
  <1> HIDE DEF all
  <1>3. /\ P \subseteq DOMAIN all /\ P \subseteq Nat /\ IsFiniteSet(P)
        /\ \A i, j \in P : all[i].id = all[j].id => i = j
        /\ Len(all) # 0 => P # {}
    <2>1. P \subseteq 1..Len(all) /\ P \subseteq Nat
      BY <1>1 DEF FirstMet
    <2>2. IsFiniteSet(P)
      <3>1. IsFiniteSet(1..Len(all))
        BY <1>1, FS_Interval
      <3> QED
        BY <2>1, <3>1, FS_Subset
    <2>3. ASSUME NEW i \in P, NEW j \in P, all[i].id = all[j].id, i < j PROVE FALSE
      <3>1. i \in 1..(j - 1)
        BY <2>1, <2>3
      <3> QED
        BY <2>3, <3>1 DEF FirstMet
    <2>4. \A i, j \in P : all[i].id = all[j].id => i = j
      <3> SUFFICES ASSUME NEW i \in P, NEW j \in P, all[i].id = all[j].id, i # j PROVE FALSE
        OBVIOUS
      <3>1. i < j \/ j < i
        BY <2>1
      <3> QED
        BY <2>3, <3>1
    <2>5. Len(all) # 0 => 1 \in P
      <3>1. \A k : k \notin 1..(1 - 1)
        OBVIOUS
      <3> QED
        BY <1>1, <3>1 DEF FirstMet
    <2> QED
      BY <1>1, <2>1, <2>2, <2>4, <2>5
  <1> HIDE DEF P
  <1>4. \A i \in P : score[i] \in Int /\ score[i] = RrfScore(v, w, all[i].id)
    <2> TAKE i \in P
    <2>1. RrfScore(v, w, all[i].id) \in Int
      BY ReciprocalIs DEF RrfScore
    <2> QED
      BY <1>3, <2>1
  <1> HIDE DEF score
  <1>5. /\ order \in Seq(P) /\ DOMAIN order = 1..Cardinality(P) /\ Cardinality(P) \in Nat
        /\ \A k, l \in DOMAIN order : order[k] = order[l] => k = l
        /\ \A k, l \in DOMAIN order : k < l => score[order[k]] >= score[order[l]]
    BY <1>3, <1>4, BestFirstIs
  <1> HIDE DEF order
  <1>6. \A k \in DOMAIN order :
          order[k] \in P /\ fused[k] = all[order[k]] /\ all[order[k]] \in RowSet
    <2>1. \A k \in DOMAIN order : order[k] \in P
      BY <1>5
    <2> QED
      BY <1>1, <1>3, <2>1
  <1>7. DOMAIN fused = DOMAIN order
    OBVIOUS
  <1>8. fused \in Seq(RowSet)
    <2> DEFINE n == Cardinality(P)
    <2>1. fused \in [1..n -> RowSet]
      BY <1>5, <1>6
    <2> HIDE DEF fused, n
    <2> QED
      BY <1>5, <2>1 DEF n
  <1> HIDE DEF fused
  <1>9. Distinct(fused)
    BY <1>3, <1>5, <1>6, <1>7 DEF Distinct
  <1>10. ASSUME NEW i \in DOMAIN fused, NEW j \in DOMAIN fused,
                Has(v, fused[j].id), Has(w, fused[j].id),
                ~(Has(v, fused[i].id) /\ Has(w, fused[i].id))
         PROVE  j < i
    <2>1. score[order[i]] < score[order[j]]
      <3>1. RrfScore(v, w, fused[i].id) < RrfScore(v, w, fused[j].id)
        BY <1>10, BothOutscore
      <3> QED
        BY <1>4, <1>6, <1>7, <3>1
    <2>2. i \in Nat /\ j \in Nat /\ i # j
      BY <1>5, <1>7, <1>10
    <2>3. score[order[i]] \in Int /\ score[order[j]] \in Int
      BY <1>4, <1>6, <1>7
    <2>4. ~(i < j)
      BY <1>5, <1>7, <2>1, <2>3
    <2> QED
      BY <2>2, <2>4
  <1>11. v # <<>> => fused # <<>>
    <2> SUFFICES ASSUME v # <<>> PROVE fused # <<>>
      OBVIOUS
    <2>1. Cardinality(P) # 0
      BY <1>1, <1>3, FS_EmptySet
    <2>2. 1 \in DOMAIN fused
      BY <1>5, <1>7, <2>1
    <2> QED
      BY <2>2
  <1>12. v = <<>> => Range(fused) \subseteq Range(w)
    <2> SUFFICES ASSUME v = <<>>, NEW k \in DOMAIN fused PROVE fused[k] \in Range(w)
      BY DEF Range
    <2>1. order[k] \in DOMAIN all /\ fused[k] = all[order[k]] /\ all = w
      BY <1>1, <1>3, <1>6, <1>7
    <2> QED
      BY <2>1 DEF Range
  <1> QED
    BY <1>2, <1>8, <1>9, <1>10, <1>11, <1>12

LEMMA FuseKeeps ==
  ASSUME SearchInv, NEW s \in Searches, Fuse(s)
  PROVE  SearchInv'
  <1> DEFINE w == search[s]
             fused == Fused(w.byVector, w.byWord)
             down == SemanticDown(w.failed) /\ "keyword" \in w.failed
             next == IF down THEN "unavailable" ELSE IF fused = <<>> THEN "no_results" ELSE "rerank"
             x == [w EXCEPT !.mode = Mode(w.failed), !.fused = fused, !.pc = next]
  <1>1. /\ w \in SearchType /\ Told(w) /\ Ranked(w) /\ Drawn(w) /\ w.pc = "search" /\ w.waiting = {}
        /\ faults' \in 0..MaxFaults /\ cached' \subseteq Queries
    BY SearchHas DEF Fuse
  <1>2. search' = [search EXCEPT ![s] = x]
    BY <1>1 DEF Fuse, SearchInv
  <1>3. /\ fused \in Seq(RowSet) /\ Distinct(fused)
        /\ \A i, j \in DOMAIN fused :
             /\ Has(w.byVector, fused[j].id) /\ Has(w.byWord, fused[j].id)
             /\ ~(Has(w.byVector, fused[i].id) /\ Has(w.byWord, fused[i].id))
             => j < i
        /\ w.byVector = <<>> => Range(fused) \subseteq Range(w.byWord)
    <2> DEFINE u == w.byVector
               v == w.byWord
    <2>1. u \in RowLists /\ v \in RowLists
      BY <1>1 DEF SearchType
    <2> HIDE DEF u, v
    <2>2. /\ Fused(u, v) \in Seq(RowSet) /\ Distinct(Fused(u, v))
          /\ \A i, j \in DOMAIN Fused(u, v) :
               /\ Has(u, Fused(u, v)[j].id) /\ Has(v, Fused(u, v)[j].id)
               /\ ~(Has(u, Fused(u, v)[i].id) /\ Has(v, Fused(u, v)[i].id))
               => j < i
          /\ u = <<>> => Range(Fused(u, v)) \subseteq Range(v)
      BY <2>1, FusedIs
    <2> QED
      BY <2>2 DEF u, v
  <1> HIDE DEF fused
  <1>4. Mode(w.failed) \in Modes /\ next \in SearchPcs
    BY DEF Mode, Modes, SearchPcs, Ended
  <1>5. next = "unavailable" <=> down
    OBVIOUS
  <1>6. next = "no_results" => ~down /\ fused = <<>>
    OBVIOUS
  <1>7. next = "rerank" => ~down
    OBVIOUS
  <1>8. next \in {"unavailable", "no_results", "rerank"}
    OBVIOUS
  <1> HIDE DEF next
  <1>9. /\ x \in SearchType /\ x.pc = next /\ x.mode = Mode(w.failed) /\ x.fused = fused
        /\ x.failed = w.failed /\ x.result = w.result
        /\ x.byVector = w.byVector /\ x.byWord = w.byWord
    BY <1>1, <1>3, <1>4 DEF SearchType
  <1> HIDE DEF x, w
  <1>10. /\ w.failed \subseteq {"embedding", "vector", "keyword"}
         /\ "embedding" \notin w.failed \/ "vector" \notin w.failed
    BY <1>1 DEF Told
  <1>11. ~down => w.failed \in Light
    BY <1>10 DEF Light, SemanticDown
  <1>12. down => w.failed \in {{"embedding", "keyword"}, {"vector", "keyword"}}
    BY <1>10 DEF SemanticDown
  <1> HIDE DEF down
  <1>13. Told(x)
    BY <1>5, <1>6, <1>7, <1>8, <1>9, <1>11, <1>12 DEF Told
  <1>14. Ranked(x)
    BY <1>1, <1>3, <1>8, <1>9 DEF Ranked
  <1>15. Drawn(x)
    <2>1. Mode(w.failed) # "no_rerank"
      BY DEF Mode
    <2>2. w.pc = "search" /\ Drawn(w) /\ w.result = <<>>
      BY <1>1 DEF Ranked
    <2>3. Range(x.result) = {}
      BY <1>9, <2>2 DEF Range
    <2> QED
      BY <1>3, <1>8, <1>9, <2>1, <2>2, <2>3 DEF Drawn
  <1> QED
    BY <1>1, <1>2, <1>9, <1>13, <1>14, <1>15, SearchMoves

LEMMA CombinedIsInt ==
  ASSUME NEW ce \in Int, NEW rank \in Int, NEW n \in Int
  PROVE  Combined(ce, rank, n) \in Int
  <1> DEFINE span == Greater(n - 1, 1)
  <1>1. span \in Int /\ RetrievalWeight \in Int
    BY RetrievalAssumption DEF Greater
  <1>2. Combined(ce, rank, n) = (10 - RetrievalWeight) * ce * span
                                  + 2 * RetrievalWeight * (span - (rank - 1))
    BY DEF Combined
  <1> HIDE DEF span
  <1>3. (10 - RetrievalWeight) * ce \in Int
    BY <1>1
  <1>4. (10 - RetrievalWeight) * ce * span \in Int
    BY <1>1, <1>3
  <1>5. 2 * RetrievalWeight * (span - (rank - 1)) \in Int
    BY <1>1
  <1> QED
    BY <1>2, <1>4, <1>5

LEMMA RerankKeeps ==
  ASSUME SearchInv, NEW s \in Searches, Rerank(s)
  PROVE  SearchInv'
  <1> DEFINE w == search[s]
             pool == Prefix(w.fused, FusionCandidates)
             n == Len(pool)
  <1>1. PICK ce \in [1..n -> 0..2] :
          LET order == BestFirst(1..n, [i \in 1..n |-> Combined(ce[i], i, n)])
          IN search' = [search EXCEPT ![s].pc = "results",
                          ![s].result = Prefix([k \in 1..n |-> pool[order[k]]], TopK)]
    BY DEF Rerank
  <1> DEFINE score == [i \in 1..n |-> Combined(ce[i], i, n)]
             rows == [k \in 1..n |-> pool[BestFirst(1..n, score)[k]]]
             head == Prefix(rows, TopK)
             x == [w EXCEPT !.pc = "results", !.result = head]
  <1>2. /\ w \in SearchType /\ Told(w) /\ Ranked(w) /\ Drawn(w) /\ w.pc = "rerank"
        /\ faults' \in 0..MaxFaults /\ cached' \subseteq Queries
        /\ TopK \in Nat /\ FusionCandidates \in Nat
    BY SearchHas, RetrievalAssumption DEF Rerank
  <1>3. search' = [search EXCEPT ![s] = x]
    BY <1>1
  <1>4. w.fused \in Seq(RowSet) /\ Distinct(w.fused)
    BY <1>2 DEF SearchType, Ranked
  <1>5. /\ pool \in Seq(RowSet) /\ Distinct(pool) /\ n \in Nat
        /\ Range(pool) \subseteq Range(w.fused)
    BY <1>2, <1>4, PrefixIs, PrefixDistinct, PrefixRange
  <1> HIDE DEF pool
  <1>6. \A i \in 1..n : score[i] \in Int
    <2> TAKE i \in 1..n
    <2>1. ce[i] \in Int /\ i \in Int /\ n \in Int
      BY <1>5
    <2> DEFINE c == ce[i]
    <2> HIDE DEF n, c
    <2>2. Combined(c, i, n) \in Int
      BY <2>1, CombinedIsInt DEF c
    <2> QED
      BY <2>2 DEF c
  <1> HIDE DEF score
  <1>7. rows \in Seq(RowSet) /\ Distinct(rows) /\ Range(rows) \subseteq Range(pool)
    <2> DEFINE order == BestFirst(1..n, score)
    <2>1. n \in Nat /\ Len(pool) = n /\ DOMAIN pool = 1..n
      BY <1>5
    <2> HIDE DEF n
    <2>2. IsFiniteSet(1..n) /\ Cardinality(1..n) = n /\ 1..n \subseteq Nat
      BY <2>1, FS_Interval
    <2>3. /\ order \in Seq(1..n) /\ DOMAIN order = 1..n
          /\ \A k, l \in DOMAIN order : order[k] = order[l] => k = l
      BY <1>6, <2>2, BestFirstIs
    <2>4. rows = [k \in 1..n |-> pool[order[k]]]
      OBVIOUS
    <2> HIDE DEF order, rows
    <2>5. order \in [1..n -> 1..n]
      <3>1. \A k \in 1..n : order[k] \in 1..n
        BY <2>1, <2>3
      <3>2. order = [k \in DOMAIN order |-> order[k]]
        BY <2>3
      <3> QED
        BY <2>3, <3>1, <3>2
    <2>6. \A k \in 1..n : pool[order[k]] \in RowSet
      BY <1>5, <2>1, <2>5
    <2>7. rows \in [1..n -> RowSet] /\ \A k \in 1..n : rows[k] = pool[order[k]]
      BY <2>4, <2>6
    \* In another order, and nothing twice that was not.
    <2>8. rows \in Seq(RowSet)
      BY <2>1, <2>7
    <2>9. Distinct(rows)
      <3> SUFFICES ASSUME NEW i \in 1..n, NEW j \in 1..n, rows[i].id = rows[j].id PROVE i = j
        BY <2>7 DEF Distinct
      <3>1. pool[order[i]].id = pool[order[j]].id /\ order[i] \in 1..n /\ order[j] \in 1..n
        BY <2>5, <2>7
      <3>2. order[i] = order[j]
        BY <1>5, <2>1, <3>1 DEF Distinct
      <3> QED
        BY <2>3, <3>2
    <2>10. Range(rows) \subseteq Range(pool)
      <3> SUFFICES ASSUME NEW k \in 1..n PROVE rows[k] \in Range(pool)
        BY <2>7 DEF Range
      <3> QED
        BY <2>1, <2>5, <2>7 DEF Range
    <2> QED
      BY <2>8, <2>9, <2>10
  <1> HIDE DEF rows
  <1>8. /\ head \in Seq(RowSet) /\ Distinct(head) /\ Len(head) <= TopK
        /\ Range(head) \subseteq Range(w.fused)
    BY <1>2, <1>5, <1>7, PrefixIs, PrefixDistinct, PrefixRange
  <1> HIDE DEF head
  <1>9. /\ x \in SearchType /\ x.pc = "results" /\ x.mode = w.mode /\ x.fused = w.fused
        /\ x.failed = w.failed /\ x.result = head
        /\ x.byVector = w.byVector /\ x.byWord = w.byWord
    BY <1>2, <1>8 DEF SearchType, SearchPcs, Ended
  <1> HIDE DEF x, w
  <1>10. Told(x)
    BY <1>2, <1>9 DEF Told
  <1>11. Ranked(x)
    BY <1>2, <1>8, <1>9 DEF Ranked
  <1>12. Drawn(x)
    <2>1. w.pc = "rerank" /\ Drawn(w) /\ w.mode # "no_rerank"
      BY <1>2 DEF Told, Mode
    <2> QED
      BY <1>8, <1>9, <2>1 DEF Drawn
  <1> QED
    BY <1>2, <1>3, <1>9, <1>10, <1>11, <1>12, SearchMoves

LEMMA SearchSteps ==
  ASSUME IndexInv, SearchInv, [RetrievalNext]_retrievalVars
  PROVE  SearchInv'
  <1>1. CASE UNCHANGED searchVars
    BY <1>1 DEF searchVars, SearchInv
  <1>2. CASE UNCHANGED retrievalVars
    BY <1>1, <1>2 DEF retrievalVars
  <1>3. CASE \E q \in Queries : CacheExpires(q)
    BY <1>3, CacheExpiresKeeps
  <1>4. ASSUME NEW s \in Searches,
               \/ Ask(s) \/ SearchStep(s) \/ EmbedQueryFails(s) \/ VectorSearchFails(s)
               \/ KeywordSearchFails(s) \/ RerankFails(s) \/ CancelSearch(s)
        PROVE  SearchInv'
    <2>1. CASE Ask(s)
      BY <2>1, AskKeeps
    <2>2. CASE EmbedQuery(s)
      BY <2>2, EmbedQueryKeeps
    <2>3. CASE VectorSearch(s)
      BY <2>3, VectorSearchKeeps
    <2>4. CASE KeywordSearch(s)
      BY <2>4, KeywordSearchKeeps
    <2>5. CASE Fuse(s)
      BY <2>5, FuseKeeps
    <2>6. CASE Rerank(s)
      BY <2>6, RerankKeeps
    <2>7. CASE EmbedQueryFails(s)
      BY <2>7, EmbedQueryFailsKeeps
    <2>8. CASE VectorSearchFails(s)
      BY <2>8, VectorSearchFailsKeeps
    <2>9. CASE KeywordSearchFails(s)
      BY <2>9, KeywordSearchFailsKeeps
    <2>10. CASE RerankFails(s)
      BY <2>10, RerankFailsKeeps
    <2>11. CASE CancelSearch(s)
      BY <2>11, CancelSearchKeeps
    <2> QED
      BY <1>4, <2>1, <2>2, <2>3, <2>4, <2>5, <2>6, <2>7, <2>8, <2>9, <2>10, <2>11 DEF SearchStep
  <1> QED
    BY <1>1, <1>2, <1>3, <1>4 DEF RetrievalNext, SearchNext

-----------------------------------------------------------------------------
(* What the index and the searches keep *)

LEMMA RetrievalTyped ==
  ASSUME IndexInv, SearchInv
  PROVE  RetrievalTypeOK
  <1>1. IndexTypeOK
    BY IndexIsTyped
  <1>2. ASSUME NEW s \in Searches
        PROVE  /\ search[s].pc \in Ended \cup {"idle", "absent", "embed", "search", "rerank"}
               /\ search[s].waiting \subseteq {"vector", "word"}
               /\ search[s].failed \subseteq {"embedding", "vector", "keyword", "reranker"}
               /\ search[s].mode \in {"none", "blank", "full", "keyword_only", "vector_only",
                                      "no_rerank"}
    BY DEF SearchInv, SearchType, SearchPcs, Lost, Modes
  <1> QED
    BY <1>1, <1>2 DEF RetrievalTypeOK, SearchInv

LEMMA PairCounts ==
  ASSUME NEW a, NEW b, a # b
  PROVE  Cardinality({a, b}) = 2 /\ Cardinality({a}) = 1 /\ Cardinality({}) = 0
  <1>1. IsFiniteSet({a}) /\ Cardinality({a}) = 1 /\ Cardinality({}) = 0
    BY FS_Singleton, FS_EmptySet
  <1>2. Cardinality({a} \cup {b}) = 2
    BY <1>1, FS_AddElement
  <1>3. {a, b} = {a} \cup {b}
    OBVIOUS
  <1> QED
    BY <1>1, <1>2, <1>3

LEMMA LostCounts ==
  /\ \A l \in Light : Cardinality(l) <= 1
  /\ Cardinality({"reranker"}) <= 1 /\ Cardinality({}) <= 1
  /\ Cardinality({"embedding", "keyword"}) = 2 /\ Cardinality({"vector", "keyword"}) = 2
  /\ \A l \in Light \ {{}} : Cardinality(l \cup {"reranker"}) = 2
  <1>1. /\ Cardinality({"embedding", "keyword"}) = 2 /\ Cardinality({"vector", "keyword"}) = 2
        /\ Cardinality({"embedding", "reranker"}) = 2 /\ Cardinality({"vector", "reranker"}) = 2
        /\ Cardinality({"keyword", "reranker"}) = 2
    BY PairCounts
  <1>2. /\ Cardinality({}) = 0 /\ Cardinality({"embedding"}) = 1 /\ Cardinality({"vector"}) = 1
        /\ Cardinality({"keyword"}) = 1 /\ Cardinality({"reranker"}) = 1
    BY FS_Singleton, FS_EmptySet
  <1>3. ASSUME NEW l \in Light \ {{}} PROVE Cardinality(l \cup {"reranker"}) = 2
    <2>1. l \in {{"embedding"}, {"vector"}, {"keyword"}}
      BY DEF Light
    <2>2. /\ {"embedding"} \cup {"reranker"} = {"embedding", "reranker"}
          /\ {"vector"} \cup {"reranker"} = {"vector", "reranker"}
          /\ {"keyword"} \cup {"reranker"} = {"keyword", "reranker"}
      OBVIOUS
    <2> QED
      BY <1>1, <2>1, <2>2
  <1>4. ASSUME NEW l \in Light PROVE Cardinality(l) <= 1
    BY <1>2 DEF Light
  <1> QED
    BY <1>1, <1>2, <1>3, <1>4

LEMMA SearchIsRight ==
  ASSUME SearchInv
  PROVE  SearchRight
  <1>1. ASSUME NEW s \in Searches
        PROVE  search[s] \in SearchType /\ Told(search[s]) /\ Ranked(search[s])
    BY SearchHas
  <1>2. OneFailureTolerated
    <2> SUFFICES ASSUME NEW s \in Searches
                 PROVE  /\ search[s].pc \in {"results", "no_results"}
                             => Cardinality(search[s].failed) <= 1
                        /\ search[s].pc = "unavailable" => Cardinality(search[s].failed) = 2
      BY DEF OneFailureTolerated
    <2>1. CASE search[s].pc \in {"results", "no_results"}
      <3>1. search[s].failed \in Light \/ search[s].failed \in {{"reranker"}, {}}
        BY <1>1, <2>1 DEF Told
      <3>2. Cardinality(search[s].failed) <= 1
        BY <3>1, LostCounts
      <3> QED
        BY <2>1, <3>2
    <2>2. CASE search[s].pc = "unavailable"
      <3>1. \/ search[s].failed \in {{"embedding", "keyword"}, {"vector", "keyword"}}
            \/ search[s].failed \in {l \cup {"reranker"} : l \in Light \ {{}}}
        BY <1>1, <2>2 DEF Told
      <3> QED
        BY <2>2, <3>1, LostCounts
    <2> QED
      BY <2>1, <2>2
  <1>3. FusionRight
    <2> SUFFICES ASSUME NEW s \in Searches
          PROVE  LET fused == search[s].fused
                     both(k) == /\ \E i \in DOMAIN search[s].byVector :
                                       search[s].byVector[i].id = fused[k].id
                                /\ \E i \in DOMAIN search[s].byWord :
                                       search[s].byWord[i].id = fused[k].id
                 IN /\ \A i, j \in DOMAIN fused : fused[i].id = fused[j].id => i = j
                    /\ \A i, j \in DOMAIN fused : both(j) /\ ~both(i) => j < i
                    /\ IsInjective([i \in DOMAIN search[s].result |-> search[s].result[i].id])
                    /\ Len(search[s].result) <= TopK
      BY DEF FusionRight
    <2> DEFINE x == search[s]
    <2>1. Ranked(x)
      BY <1>1
    <2>2. \A i, j \in DOMAIN x.fused : x.fused[i].id = x.fused[j].id => i = j
      BY <2>1 DEF Ranked, Distinct
    <2>3. \A i, j \in DOMAIN x.fused :
            /\ Has(x.byVector, x.fused[j].id) /\ Has(x.byWord, x.fused[j].id)
            /\ ~(Has(x.byVector, x.fused[i].id) /\ Has(x.byWord, x.fused[i].id))
            => j < i
      BY <2>1 DEF Ranked
    <2>4. IsInjective([i \in DOMAIN x.result |-> x.result[i].id])
      BY <2>1 DEF Ranked, Distinct, IsInjective
    <2>5. Len(x.result) <= TopK
      BY <2>1 DEF Ranked
    <2> QED
      BY <2>2, <2>3, <2>4, <2>5 DEF Has
  <1>4. EvaluatedModeIsTheMode
    <2> SUFFICES ASSUME NEW s \in Searches,
                        search[s].pc \in {"results", "no_results", "unavailable"},
                        search[s].mode # "blank"
                 PROVE  ModeUsed(search[s].failed, search[s].pc = "unavailable")
                          = IF search[s].pc = "unavailable" THEN "unavailable"
                            ELSE search[s].mode
      BY DEF EvaluatedModeIsTheMode
    <2>1. CASE search[s].pc = "unavailable"
      BY <2>1 DEF ModeUsed
    <2>2. CASE search[s].pc \in {"results", "no_results"}
      <3> DEFINE lost == search[s].failed
      <3>1. \/ lost \in Light /\ search[s].mode = Mode(lost)
            \/ lost = {"reranker"} /\ search[s].mode = "no_rerank"
        BY <1>1, <2>2 DEF Told
      <3> HIDE DEF lost
      <3>2. CASE lost \in Light /\ search[s].mode = Mode(lost)
        <4>1. "reranker" \notin lost
          BY <3>2 DEF Light
        <4>2. ModeUsed(lost, FALSE) = Mode(lost)
          BY <4>1 DEF ModeUsed, Mode
        <4> QED
          BY <2>2, <3>2, <4>2 DEF lost
      <3>3. CASE lost = {"reranker"} /\ search[s].mode = "no_rerank"
        <4>1. ModeUsed(lost, FALSE) = "no_rerank"
          BY <3>3 DEF ModeUsed, SemanticDown
        <4> QED
          BY <2>2, <3>3, <4>1 DEF lost
      <3> QED
        BY <3>1, <3>2, <3>3
    <2> QED
      BY <2>1, <2>2
  <1> QED
    BY <1>2, <1>3, <1>4 DEF SearchRight

\* The whole invariant of the index and of the searches beside it.
LEMMA RetrievalIsInvariant == RetrievalSpec => [](IndexInv /\ SearchInv)
  <1>1. RetrievalInit => IndexInv /\ SearchInv
    BY IndexStarts, SearchStarts DEF RetrievalInit
  <1>2. IndexInv /\ SearchInv /\ [RetrievalNext]_retrievalVars => (IndexInv /\ SearchInv)'
    BY IndexSteps, SearchSteps
  <1> QED
    BY <1>1, <1>2, PTL DEF RetrievalSpec

\* Whatever overlaps, fails, is edited or killed, a text and its vector stand
\* together and a file reported as processed is whole (rag_index_persistence.py:202,
\* ingest_offline.py:297).
THEOREM IndexStaysRight == RetrievalSpec => []IndexRight
  <1>1. IndexInv /\ SearchInv => IndexRight
    BY RetrievalTyped DEF IndexRight, IndexInv
  <1> QED
    BY <1>1, RetrievalIsInvariant, PTL

\* Whatever fails, and when, and whatever ingestion does meanwhile: a search names
\* the mode it ran in, gives up exactly when two components are lost, and ranks what
\* both stores found first, however little the approximate index found (hybrid_retriever.py:299, :333, :391; rag/README.md:111).
THEOREM SearchesAreRight == RetrievalSpec => []SearchRight
  <1>1. IndexInv /\ SearchInv => SearchRight
    BY SearchIsRight
  <1> QED
    BY <1>1, RetrievalIsInvariant, PTL


-----------------------------------------------------------------------------
(* The grades *)

Found(case, results) ==
  \E i \in DOMAIN Prefix(results, TopK) : Relevant(case, Prefix(results, TopK)[i])
Hits(case, results) ==
  {i \in DOMAIN Prefix(results, TopK) : Relevant(case, Prefix(results, TopK)[i])}

LEMMA GradedLists ==
  ASSUME NEW case \in EvalCases, NEW results \in EvalResults
  PROVE  /\ case.evidence \in Seq(Range(case.evidence))
         /\ case.sources \in Seq(Range(case.sources))
         /\ Len(Listed(case)) \in Nat /\ DOMAIN Listed(case) = 1..Len(Listed(case))
         /\ results \in Seq(Range(results)) /\ DOMAIN results = 1..Len(results)
         /\ Len(results) \in Nat
         /\ Basis(case) = "none" => Listed(case) = <<>>
         /\ Basis(case) # "none" => Listed(case) # <<>> /\ Len(Listed(case)) # 0
  BY EvaluationAssumption DEF Listed, Basis

LEMMA FirstIs ==
  ASSUME NEW results \in EvalResults
  PROVE  LET first == Prefix(results, TopK)
         IN /\ Len(first) \in Nat /\ DOMAIN first = 1..Len(first) /\ Len(first) <= TopK
            /\ Len(first) = Lesser(TopK, Len(results)) /\ TopK \in Nat \ {0}
            /\ first = <<>> <=> Len(first) = 0
            /\ Len(first) = 0 <=> results = <<>>
            /\ DOMAIN first \subseteq DOMAIN results
            /\ \A i \in DOMAIN first : first[i] = results[i]
  <1> DEFINE S == Range(results)
             first == Prefix(results, TopK)
  <1>1. results \in Seq(S) /\ TopK \in Nat /\ TopK # 0 /\ Len(results) \in Nat
    BY EvaluationAssumption, RetrievalAssumption
  <1> HIDE DEF S
  <1>2. /\ first \in Seq(S) /\ Len(first) <= TopK /\ Len(first) = Lesser(TopK, Len(results))
        /\ Len(first) \in Nat /\ DOMAIN first = 1..Len(first)
        /\ DOMAIN first \subseteq DOMAIN results /\ \A i \in DOMAIN first : first[i] = results[i]
    BY <1>1, PrefixIs
  <1> HIDE DEF first
  <1>3. first = <<>> <=> Len(first) = 0
    BY <1>2
  <1>4. Len(first) = 0 <=> results = <<>>
    BY <1>1, <1>2 DEF Lesser
  <1> QED
    BY <1>1, <1>2, <1>3, <1>4 DEF first

LEMMA HitsAre ==
  ASSUME NEW case \in EvalCases, NEW results \in EvalResults
  PROVE  /\ IsFiniteSet(Hits(case, results)) /\ Cardinality(Hits(case, results)) \in Nat
         /\ Cardinality(Hits(case, results)) = 0 <=> ~Found(case, results)
  <1> DEFINE first == Prefix(results, TopK)
  <1>1. DOMAIN first = 1..Len(first) /\ Len(first) \in Nat
    BY FirstIs
  <1>2. IsFiniteSet(DOMAIN first) /\ Hits(case, results) \in SUBSET DOMAIN first
    BY <1>1, FS_Interval DEF Hits
  <1>3. IsFiniteSet(Hits(case, results))
    BY <1>2, FS_Subset
  <1>4. Hits(case, results) = {} <=> ~Found(case, results)
    BY DEF Hits, Found
  <1> QED
    BY <1>3, <1>4, FS_EmptySet, FS_CardinalityType

LEMMA Cancelled ==
  ASSUME NEW h \in Nat, NEW l \in Nat, NEW n \in Nat \ {0}
  PROVE  h * n >= l * n <=> h >= l
  <1>1. ASSUME h >= l PROVE h * n >= l * n
    BY <1>1
  <1>2. ASSUME h < l PROVE h * n < l * n
    <2>1. h + 1 <= l /\ (h + 1) * n <= l * n
      BY <1>2
    <2>2. (h + 1) * n = h * n + n
      OBVIOUS
    <2>3. h * n \in Nat /\ l * n \in Nat
      OBVIOUS
    <2> QED
      BY <2>1, <2>2, <2>3
  <1>3. h * n \in Nat /\ l * n \in Nat
    OBVIOUS
  <1> QED
    BY <1>1, <1>2, <1>3

\* The bar is lowered to what the case lists, when that is below three fifths.
LEMMA PrecisionIs ==
  ASSUME NEW case \in EvalCases, NEW results \in EvalResults
  PROVE  LET n == Len(Prefix(results, TopK))
             h == Cardinality(Hits(case, results))
             l == Len(Listed(case))
             metric == PrecisionAtK(case, results)
         IN IF n = 0 \/ Basis(case) = "none" THEN metric = NoMetric
            ELSE /\ metric.score = Fraction(h, n)
                 /\ metric.passed <=> IF 3 * n >= 5 * l THEN h >= l ELSE 5 * h >= 3 * n
  <1> DEFINE first == Prefix(results, TopK)
             n == Len(first)
             h == Cardinality(Hits(case, results))
             l == Len(Listed(case))
             ceiling == Smaller(One, Fraction(l, n))
             bar == Smaller(PassThreshold, ceiling)
  <1>1. n \in Nat /\ h \in Nat /\ l \in Nat /\ (first = <<>> <=> n = 0)
    BY FirstIs, HitsAre, GradedLists
  <1>2. PrecisionAtK(case, results) =
          IF first = <<>> \/ Basis(case) = "none" THEN NoMetric ELSE Metric(Fraction(h, n), bar)
    BY DEF PrecisionAtK, Hits
  <1> HIDE DEF first, n, h, l
  <1>3. ASSUME n # 0
        PROVE  bar = IF 3 * n >= 5 * l THEN Fraction(l, n) ELSE Fraction(3, 5)
    <2>1. ceiling = IF n >= l THEN Fraction(l, n) ELSE Fraction(1, 1)
      BY <1>1 DEF Smaller, AtLeast, One, Fraction
    <2> HIDE DEF ceiling
    <2>2. CASE n >= l
      BY <1>1, <2>1, <2>2 DEF Smaller, AtLeast, PassThreshold, Fraction
    <2>3. CASE n < l
      BY <1>1, <2>1, <2>3 DEF Smaller, AtLeast, PassThreshold, Fraction
    <2> QED
      BY <1>1, <2>2, <2>3
  <1> HIDE DEF bar
  <1>4. ASSUME n # 0
        PROVE  /\ AtLeast(Fraction(h, n), Fraction(l, n)) <=> h >= l
               /\ AtLeast(Fraction(h, n), Fraction(3, 5)) <=> 5 * h >= 3 * n
    <2>1. h * n >= l * n <=> h >= l
      BY <1>1, <1>4, Cancelled
    <2> QED
      BY <1>1, <2>1 DEF AtLeast, Fraction
  <1>5. CASE n = 0 \/ Basis(case) = "none"
    BY <1>1, <1>2, <1>5 DEF first, n
  <1>6. CASE ~(n = 0 \/ Basis(case) = "none")
    <2>1. PrecisionAtK(case, results) = Metric(Fraction(h, n), bar)
      BY <1>1, <1>2, <1>6
    <2>2. AtLeast(Fraction(h, n), bar) <=> IF 3 * n >= 5 * l THEN h >= l ELSE 5 * h >= 3 * n
      BY <1>3, <1>4, <1>6
    <2> QED
      BY <1>6, <2>1, <2>2 DEF Metric, first, n, h, l
  <1> QED
    BY <1>5, <1>6

\* A share of a finite set: positive when the share is not empty, which three
\* fifths of it are not.
LEMMA ShareIs ==
  ASSUME NEW expected, IsFiniteSet(expected), expected # {}, NEW matched \in SUBSET expected
  PROVE  /\ Cardinality(matched) \in Nat /\ Cardinality(expected) \in Nat \ {0}
         /\ Cardinality(matched) > 0 <=> matched # {}
         /\ Cardinality(matched) <= Cardinality(expected)
  <1>1. IsFiniteSet(matched) /\ Cardinality(matched) <= Cardinality(expected)
    BY FS_Subset
  <1> QED
    BY <1>1, FS_CardinalityType, FS_EmptySet

Proper(metric, found) ==
  /\ metric.score.num \in Nat /\ metric.score.den \in Nat \ {0}
  /\ metric.score.num > 0 <=> found
  /\ metric.passed => metric.score.num > 0

LEMMA ShareProper ==
  ASSUME NEW a \in Nat, NEW b \in Nat \ {0}, NEW found \in BOOLEAN, a > 0 <=> found
  PROVE  Proper(Metric(Fraction(a, b), PassThreshold), found)
  BY DEF Proper, Metric, Fraction, AtLeast, PassThreshold

LEMMA NothingProper ==
  ASSUME NEW found \in BOOLEAN, ~found
  PROVE  Proper(NoMetric, found) /\ Proper(Metric(Zero, PassThreshold), found)
  BY DEF Proper, Metric, NoMetric, Zero, Fraction, AtLeast, PassThreshold

LEMMA FoundBy ==
  ASSUME NEW case \in EvalCases, NEW results \in EvalResults
  PROVE  /\ Found(case, results) \in BOOLEAN
         /\ Basis(case) = "none" => ~Found(case, results)
  <1>1. ASSUME Basis(case) = "none" PROVE ~Found(case, results)
    <2>1. Expected(Listed(case)) = {}
      BY <1>1, GradedLists DEF Expected
    <2> QED
      BY <2>1 DEF Found, Relevant
  <1> QED
    BY <1>1 DEF Found

LEMMA RecallIs ==
  ASSUME NEW case \in EvalCases, NEW results \in EvalResults
  PROVE  Proper(RecallAtK(case, results), Found(case, results))
  <1> DEFINE first == Prefix(results, TopK)
             found == Found(case, results)
  <1>9. found \in BOOLEAN /\ (Basis(case) = "none" => ~found)
    BY FoundBy
  <1>1. CASE Basis(case) = "none"
    <2>1. RecallAtK(case, results) = NoMetric
      BY <1>1 DEF RecallAtK
    <2> QED
      BY <1>9, <1>1, <2>1, NothingProper
  <1>2. CASE Basis(case) = "evidence"
    <2> DEFINE expected == {i \in DOMAIN case.evidence : case.evidence[i] # BLANK}
               matched == {i \in expected :
                             \E j \in DOMAIN first : EvidenceInText(case.evidence[i], first[j])}
    <2>1. RecallAtK(case, results) =
            Metric(IF expected = {} THEN Zero
                   ELSE Fraction(Cardinality(matched), Cardinality(expected)), PassThreshold)
      BY <1>2 DEF RecallAtK, EvidenceRecall
    <2>2. found <=> matched # {}
      <3>1. found <=> \E i \in DOMAIN first : \E x \in Expected(case.evidence) :
                         EvidenceInText(x, first[i])
        BY <1>2 DEF Found, Relevant, Listed
      <3> HIDE DEF found, first
      <3> QED
        BY <3>1 DEF Expected
    <2>3. IsFiniteSet(expected)
      <3>1. DOMAIN case.evidence = 1..Len(case.evidence) /\ Len(case.evidence) \in Nat
        BY GradedLists
      <3>2. IsFiniteSet(DOMAIN case.evidence)
        BY <3>1, FS_Interval
      <3> QED
        BY <3>2, FS_Subset
    <2>4. matched \in SUBSET expected
      OBVIOUS
    <2> HIDE DEF expected, matched, found
    <2>5. CASE expected = {}
      BY <1>9, <2>1, <2>2, <2>4, <2>5, NothingProper DEF found
    <2>6. CASE expected # {}
      <3> DEFINE a == Cardinality(matched)
                 b == Cardinality(expected)
      <3>1. a \in Nat /\ b \in Nat \ {0} /\ (a > 0 <=> found)
        BY <2>2, <2>3, <2>4, <2>6, ShareIs
      <3>2. RecallAtK(case, results) = Metric(Fraction(a, b), PassThreshold)
        BY <2>1, <2>6
      <3> HIDE DEF a, b
      <3> QED
        BY <1>9, <3>1, <3>2, ShareProper DEF found
    <2> QED
      BY <2>5, <2>6
  <1>3. CASE Basis(case) = "source"
    <2> DEFINE expected == Expected(case.sources)
               matched == expected \cap {first[i].source : i \in DOMAIN first}
    <2>1. RecallAtK(case, results) =
            Metric(IF expected = {} THEN Zero
                   ELSE Fraction(Cardinality(matched), Cardinality(expected)), PassThreshold)
      BY <1>3 DEF RecallAtK, SourceRecall
    <2>2. found <=> matched # {}
      <3>1. found <=> \E i \in DOMAIN first : \E x \in expected : first[i].source = x
        BY <1>3 DEF Found, Relevant, Listed
      <3> HIDE DEF found, first, expected
      <3> QED
        BY <3>1
    <2>3. IsFiniteSet(expected)
      <3> DEFINE T == {case.sources[i] : i \in DOMAIN case.sources}
      <3>1. DOMAIN case.sources = 1..Len(case.sources) /\ Len(case.sources) \in Nat
        BY GradedLists
      <3>2. IsFiniteSet(DOMAIN case.sources)
        BY <3>1, FS_Interval
      <3>3. case.sources \in Surjection(DOMAIN case.sources, T)
        <4>1. case.sources \in [DOMAIN case.sources -> T]
          BY GradedLists
        <4> QED
          BY <4>1 DEF Surjection
      <3>4. IsFiniteSet(T)
        BY <3>2, <3>3, FS_Surjection
      <3>5. expected \in SUBSET T
        BY DEF Expected
      <3> HIDE DEF T, expected
      <3> QED
        BY <3>4, <3>5, FS_Subset
    <2>4. matched \in SUBSET expected
      OBVIOUS
    <2> HIDE DEF expected, matched, found
    <2>5. CASE expected = {}
      BY <1>9, <2>1, <2>2, <2>4, <2>5, NothingProper DEF found
    <2>6. CASE expected # {}
      <3> DEFINE a == Cardinality(matched)
                 b == Cardinality(expected)
      <3>1. a \in Nat /\ b \in Nat \ {0} /\ (a > 0 <=> found)
        BY <2>2, <2>3, <2>4, <2>6, ShareIs
      <3>2. RecallAtK(case, results) = Metric(Fraction(a, b), PassThreshold)
        BY <2>1, <2>6
      <3> HIDE DEF a, b
      <3> QED
        BY <1>9, <3>1, <3>2, ShareProper DEF found
    <2> QED
      BY <2>5, <2>6
  <1> QED
    BY <1>1, <1>2, <1>3 DEF Basis

\* The first relevant result of all is among the first k when any is.
LEMMA RankIs ==
  ASSUME NEW case \in EvalCases, NEW results \in EvalResults
  PROVE  FirstRank(case, results) \in 1..TopK <=> Found(case, results)
  <1> DEFINE ranks == {i \in DOMAIN results : Relevant(case, results[i])}
             first == Prefix(results, TopK)
             k == Len(first)
  <1>1. /\ DOMAIN first = 1..k /\ k = Lesser(TopK, Len(results)) /\ TopK \in Nat \ {0}
        /\ DOMAIN results = 1..Len(results) /\ Len(results) \in Nat /\ k \in Nat
        /\ \A i \in DOMAIN first : first[i] = results[i]
    BY FirstIs, GradedLists
  <1>2. ranks \subseteq Nat /\ IsFiniteSet(ranks) /\ ranks \subseteq 1..Len(results)
    <2>1. ranks \in SUBSET (1..Len(results)) /\ IsFiniteSet(1..Len(results))
      BY <1>1, FS_Interval
    <2>2. 1..Len(results) \subseteq Nat
      BY <1>1
    <2> HIDE DEF ranks
    <2>3. IsFiniteSet(ranks)
      BY <2>1, FS_Subset
    <2> QED
      BY <2>1, <2>2, <2>3
  <1>3. FirstRank(case, results) = IF ranks = {} THEN 0 ELSE Min(ranks)
    BY DEF FirstRank
  <1>4. Found(case, results) <=> \E i \in 1..k : Relevant(case, first[i])
    BY <1>1 DEF Found
  <1> HIDE DEF first, k
  <1>5. Found(case, results) <=> \E i \in ranks : i <= TopK
    <2> DEFINE n == Len(results)
    <2>5. n \in Nat /\ k \in Nat /\ TopK \in Nat /\ k <= TopK /\ k <= n /\ (k = TopK \/ k = n)
      <3>1. n \in Nat /\ k \in Nat /\ TopK \in Nat /\ k = Lesser(TopK, n)
        BY <1>1
      <3> HIDE DEF n
      <3>2. k = IF TopK < n THEN TopK ELSE n
        BY <3>1 DEF Lesser
      <3> QED
        BY ONLY <3>1, <3>2
    <2> HIDE DEF n
    <2>1. \A i \in 1..k : i \in 1..n /\ i <= TopK
      BY <2>5
    <2>2. \A i \in 1..n : i <= TopK => i \in 1..k
      BY <2>5
    <2>3. ranks = {i \in 1..n : Relevant(case, results[i])}
      BY <1>1 DEF n
    <2>4. \A i \in 1..k : first[i] = results[i]
      BY <1>1
    <2> HIDE DEF ranks
    <2> QED
      BY <1>4, <2>1, <2>2, <2>3, <2>4
  <1> HIDE DEF ranks
  <1>6. CASE ranks = {}
    BY <1>3, <1>5, <1>6
  <1>7. CASE ranks # {}
    <2>1. Min(ranks) \in ranks /\ \A i \in ranks : Min(ranks) <= i
      <3>1. \E x \in ranks : \A y \in ranks : x <= y
        BY <1>2, <1>7, LeastExists
      <3> QED
        BY <3>1 DEF Min
    <2> DEFINE m == Min(ranks)
    <2> HIDE DEF m
    <2>2. m \in ranks /\ (\A i \in ranks : m <= i) /\ m \in 1..Len(results)
      BY <1>2, <2>1 DEF m
    <2>3. FirstRank(case, results) = m
      BY <1>3, <1>7 DEF m
    <2>4. ASSUME NEW i \in ranks, i <= TopK PROVE m <= TopK
      <3>1. i \in Nat /\ m <= i
        BY <1>2, <2>2
      <3> QED
        BY <1>1, <2>2, <2>4, <3>1
    <2> QED
      BY <1>1, <1>5, <2>2, <2>3, <2>4
  <1> QED
    BY <1>6, <1>7

LEMMA PassedMeansFound ==
  ASSUME NEW case \in EvalCases, NEW results \in EvalResults, NEW judged,
         CasePassed(EvaluateCase(case, results, judged))
  PROVE  Found(case, results)
  <1>1. RecallAtK(case, results).passed
    BY DEF CasePassed, EvaluateCase
  <1> QED
    BY <1>1, RecallIs DEF Proper

LEMMA AgreementHolds == MetricsAgree
  <1> SUFFICES ASSUME NEW case \in EvalCases, NEW results \in EvalResults
        PROVE  /\ RecallAtK(case, results).score.num > 0 <=> Found(case, results)
               /\ PrecisionAtK(case, results).score.num > 0 <=> Found(case, results)
               /\ FirstRank(case, results) \in 1..TopK <=> Found(case, results)
               /\ CasePassed(EvaluateCase(case, results, <<One>>)) => Found(case, results)
    <2>1. \A case \in EvalCases : \A results \in EvalResults :
            Found(case, results)
              <=> \E i \in DOMAIN Prefix(results, TopK) : Relevant(case, results[i])
      BY FirstIs DEF Found
    <2> QED
      BY <2>1 DEF MetricsAgree
  <1>1. RecallAtK(case, results).score.num > 0 <=> Found(case, results)
    BY RecallIs DEF Proper
  <1>2. PrecisionAtK(case, results).score.num > 0 <=> Found(case, results)
    <2> DEFINE n == Len(Prefix(results, TopK))
               h == Cardinality(Hits(case, results))
    <2>1. h \in Nat /\ (h = 0 <=> ~Found(case, results))
      BY HitsAre
    <2>2. CASE n = 0 \/ Basis(case) = "none"
      <3>1. ~Found(case, results)
        <4>1. n = 0 => ~Found(case, results)
          BY FirstIs DEF Found
        <4> QED
          BY <2>2, <4>1, FoundBy
      <3>2. PrecisionAtK(case, results) = NoMetric
        BY <2>2, PrecisionIs
      <3> QED
        BY <3>1, <3>2 DEF NoMetric, Zero, Fraction
    <2>3. CASE ~(n = 0 \/ Basis(case) = "none")
      <3>1. PrecisionAtK(case, results).score = Fraction(h, n)
        BY <2>3, PrecisionIs
      <3> QED
        BY <2>1, <3>1 DEF Fraction
    <2> QED
      BY <2>2, <2>3
  <1>3. FirstRank(case, results) \in 1..TopK <=> Found(case, results)
    BY RankIs
  <1>4. CasePassed(EvaluateCase(case, results, <<One>>)) => Found(case, results)
    BY PassedMeansFound
  <1> QED
    BY <1>1, <1>2, <1>3, <1>4

LEMMA PerfectHolds == PerfectPasses
  <1>1. ASSUME NEW case \in EvalCases, NEW results \in EvalResults,
               FoundWhole(case, results), case.answer = BLANK
        PROVE  CasePassed(EvaluateCase(case, results, <<>>))
    <2> DEFINE first == Prefix(results, TopK)
               D == DOMAIN case.evidence
               l == Len(case.evidence)
               n == Len(first)
               hits == Hits(case, results)
               h == Cardinality(hits)
    <2>1. /\ case.evidence # <<>> /\ BLANK \notin Range(case.evidence)
          /\ \E at \in [D -> DOMAIN first] :
               /\ IsInjective(at)
               /\ \A i \in DOMAIN at : EvidenceInText(case.evidence[i], first[at[i]])
      BY <1>1 DEF FoundWhole
    <2>2. PICK at \in [D -> DOMAIN first] :
             /\ IsInjective(at)
             /\ \A i \in D : EvidenceInText(case.evidence[i], first[at[i]])
      BY <2>1
    <2>3. Basis(case) = "evidence" /\ Listed(case) = case.evidence
      BY <2>1 DEF Basis, Listed
    <2>4. D = 1..l /\ l \in Nat /\ l # 0
      BY <2>1, GradedLists
    <2>5. \A i \in D : at[i] \in hits
      <3> TAKE i \in D
      <3>1. case.evidence[i] \in Expected(Listed(case))
        BY <2>1, <2>3 DEF Expected, Range
      <3> QED
        BY <2>2, <2>3, <3>1 DEF Hits, Relevant
    <2>6. IsFiniteSet(hits) /\ h \in Nat /\ (h = 0 <=> ~Found(case, results))
      BY HitsAre
    <2>7. Cardinality(D) = l /\ IsFiniteSet(D)
      BY <2>4, FS_Interval
    <2> HIDE DEF hits, D
    <2>8. at \in Injection(D, hits)
      BY <2>2, <2>5 DEF Injection, IsInjective
    <2>9. l <= h
      BY <2>6, <2>7, <2>8, FS_Injection
    <2>10. n \in Nat /\ n # 0 /\ results # <<>>
      <3>1. 1 \in D /\ at[1] \in DOMAIN first
        BY <2>2, <2>4
      <3> QED
        BY <3>1, FirstIs
    <2>11. Found(case, results)
      BY <2>4, <2>6, <2>9
    <2>12. PrecisionAtK(case, results).passed
      <3>1. PrecisionAtK(case, results).passed <=> IF 3 * n >= 5 * l THEN h >= l ELSE 5 * h >= 3 * n
        BY <2>3, <2>10, PrecisionIs DEF hits
      <3> HIDE DEF n, l, h
      <3> QED
        BY <2>4, <2>6, <2>9, <2>10, <3>1
    <2>13. RecallAtK(case, results).passed
      <3> DEFINE expected == {i \in D : case.evidence[i] # BLANK}
                 matched == {i \in expected :
                               \E j \in DOMAIN first : EvidenceInText(case.evidence[i], first[j])}
      <3>1. RecallAtK(case, results) =
              Metric(IF expected = {} THEN Zero
                     ELSE Fraction(Cardinality(matched), Cardinality(expected)), PassThreshold)
        BY <2>3 DEF RecallAtK, EvidenceRecall, D
      <3>2. expected = D
        BY <2>1 DEF Range, D
      <3>3. matched = D
        BY <2>2, <3>2
      <3>4. l \in Nat /\ l # 0
        BY <2>4
      <3> HIDE DEF expected, matched, l
      <3>5. D # {}
        <4>1. 1 \in D
          BY <2>4
        <4> QED
          BY <4>1
      <3>6. RecallAtK(case, results) = Metric(Fraction(l, l), PassThreshold)
        BY <2>7, <3>1, <3>2, <3>3, <3>5
      <3>7. l * 5 >= 3 * l
        BY <3>4
      <3>8. AtLeast(Fraction(l, l), PassThreshold)
        BY <3>7 DEF AtLeast, Fraction, PassThreshold
      <3> QED
        BY <3>6, <3>8 DEF Metric
    <2>14. MeanReciprocalRank(case, results).passed
      <3>1. FirstRank(case, results) \in 1..TopK
        BY <2>11, RankIs
      <3>2. FirstRank(case, results) # 0
        BY <3>1, RetrievalAssumption
      <3> QED
        BY <2>3, <3>2 DEF MeanReciprocalRank
    <2>15. Faithfulness(case, results, <<>>).passed
      BY <1>1, <2>10 DEF Faithfulness
    <2> QED
      BY <2>12, <2>13, <2>14, <2>15 DEF CasePassed, EvaluateCase
  <1>2. ASSUME NEW case \in EvalCases, NEW results \in EvalResults,
               PrecisionAtK(case, results).passed,
               5 * Len(Listed(case)) >= 3 * Len(Prefix(results, TopK))
        PROVE  AtLeast(PrecisionAtK(case, results).score, PassThreshold)
    <2> DEFINE n == Len(Prefix(results, TopK))
               h == Cardinality(Hits(case, results))
               l == Len(Listed(case))
    <2>1. n \in Nat /\ h \in Nat /\ l \in Nat
      BY FirstIs, HitsAre, GradedLists
    <2>2. ~(n = 0 \/ Basis(case) = "none")
      <3>1. PrecisionAtK(case, results) # NoMetric
        BY <1>2 DEF NoMetric
      <3> QED
        BY <3>1, PrecisionIs
    <2>3. /\ PrecisionAtK(case, results).score = Fraction(h, n)
          /\ IF 3 * n >= 5 * l THEN h >= l ELSE 5 * h >= 3 * n
      BY <1>2, <2>2, PrecisionIs
    <2>4. 5 * l >= 3 * n
      BY <1>2
    <2> HIDE DEF n, h, l
    <2>5. 5 * h >= 3 * n
      BY <2>1, <2>3, <2>4
    <2> QED
      BY <2>1, <2>3, <2>5 DEF AtLeast, Fraction, PassThreshold
  <1> QED
    BY <1>1, <1>2 DEF PerfectPasses

\* A search under a mode lost nothing but what the mode disables.
LEMMA ModeMeans ==
  ASSUME NEW mode \in EvalModes, NEW x \in SearchOutcomes(mode),
         RightMode(mode, x.failed, x.unavailable)
  PROVE  x.failed \subseteq Disabled[mode]
  <1>1. /\ x.failed \in {{}, {"embedding"}, {"keyword"}, {"reranker"}, {"embedding", "keyword"}}
        /\ x.unavailable = (Cardinality(x.failed) = 2)
    BY DEF SearchOutcomes
  <1>2. ~x.unavailable
    BY DEF RightMode, CountsAs, ModeUsed, EvalModes
  <1>3. x.failed # {"embedding", "keyword"}
    <2>1. Cardinality({"embedding", "keyword"}) = 2
      <3>1. IsFiniteSet({"embedding"}) /\ Cardinality({"embedding"}) = 1
        BY FS_Singleton
      <3>2. Cardinality({"embedding"} \cup {"keyword"}) = 2
        <4>1. "keyword" \notin {"embedding"}
          OBVIOUS
        <4>2. Cardinality({"embedding"} \cup {"keyword"}) = Cardinality({"embedding"}) + 1
          BY <3>1, <4>1, FS_AddElement
        <4> QED
          BY <3>1, <4>2
      <3>3. {"embedding"} \cup {"keyword"} = {"embedding", "keyword"}
        OBVIOUS
      <3> QED
        BY <3>2, <3>3
    <2> QED
      BY <1>1, <1>2, <2>1
  <1>4. CountsAs(mode, x.failed, x.unavailable) = mode
    BY DEF RightMode
  <1>5. CASE mode = "full"
    BY <1>1, <1>2, <1>3, <1>4, <1>5 DEF CountsAs, ModeUsed, SemanticDown, Disabled
  <1>6. CASE mode = "keyword_only"
    BY <1>1, <1>2, <1>3, <1>4, <1>6 DEF CountsAs, ModeUsed, SemanticDown, Disabled
  <1>7. CASE mode = "no_rerank"
    BY <1>1, <1>2, <1>3, <1>4, <1>7 DEF CountsAs, ModeUsed, SemanticDown, Disabled
  <1> QED
    BY <1>5, <1>6, <1>7 DEF EvalModes

LEMMA ExitHolds == ExitMeansGraded
  <1> SUFFICES ASSUME NEW mode \in EvalModes, NEW gate \in Gates,
                      NEW one \in {c \in EvalCases : Len(c.evidence \o c.sources) <= 1},
                      NEW two \in {c \in EvalCases : Len(c.evidence \o c.sources) <= 1},
                      NEW x \in SearchOutcomes(mode), NEW y \in SearchOutcomes(mode),
                      EvaluationExit(mode, gate, <<one, two>>, <<x, y>>, <<One>>) = 0
        PROVE  LET cases == <<one, two>>
                   asked == <<x, y>>
                   found == {i \in 1..2 : \E j \in DOMAIN asked[i].results :
                                            Relevant(cases[i], asked[i].results[j])}
               IN /\ one.typed /\ two.typed
                  /\ x.failed \cup y.failed \subseteq Disabled[mode]
                  /\ gate # <<>> => 100 * Cardinality(found) >= gate[1] * 2
    BY Zenon DEF ExitMeansGraded
  <1> DEFINE cases == <<one, two>>
             asked == <<x, y>>
             graded == EvaluateDataset(cases, asked, <<One>>)
             ok == {i \in DOMAIN graded : graded[i]}
             found == {i \in 1..2 : \E j \in DOMAIN asked[i].results :
                                      Relevant(cases[i], asked[i].results[j])}
  <1>1. /\ DOMAIN cases = 1..2 /\ Len(cases) = 2 /\ cases # <<>>
        /\ cases[1] = one /\ cases[2] = two /\ asked[1] = x /\ asked[2] = y
    OBVIOUS
  <1>2. /\ Loads(cases)
        /\ \A i \in DOMAIN cases : RightMode(mode, asked[i].failed, asked[i].unavailable)
        /\ gate # <<>> => ~(Cardinality(ok) * 100 < gate[1] * Len(cases))
    BY <1>1 DEF EvaluationExit, PassedCases
  <1>3. one.typed /\ two.typed
    BY <1>1, <1>2 DEF Loads, WellFormed
  <1>4. x.failed \subseteq Disabled[mode] /\ y.failed \subseteq Disabled[mode]
    BY <1>1, <1>2, ModeMeans
  <1>5. x.results \in EvalResults /\ y.results \in EvalResults
    BY DEF SearchOutcomes
  <1>6. ok \subseteq found
    <2>1. DOMAIN graded = 1..2
          /\ \A i \in 1..2 :
               graded[i] = CasePassed(EvaluateCase(cases[i], asked[i].results, <<One>>))
      BY <1>1 DEF EvaluateDataset
    <2> HIDE DEF graded
    <2> SUFFICES ASSUME NEW i \in 1..2, graded[i] PROVE i \in found
      BY <2>1
    <2>2. cases[i] \in EvalCases /\ asked[i].results \in EvalResults
      BY <1>1, <1>5
    <2> DEFINE c == cases[i]
               r == asked[i].results
    <2> HIDE DEF c, r
    <2>3. Found(c, r)
      BY <2>1, <2>2, PassedMeansFound DEF c, r
    <2>4. \E j \in DOMAIN r : Relevant(c, r[j])
      BY <2>2, <2>3, FirstIs DEF Found, c, r
    <2> QED
      BY <2>4 DEF c, r
  <1>7. IsFiniteSet(1..2) /\ found \in SUBSET (1..2)
    <2>1. IsFiniteSet(1..2)
      <3>1. 1 \in Int /\ 2 \in Int
        OBVIOUS
      <3> HIDE DEF cases, asked, graded, ok, found
      <3> QED
        BY <3>1, FS_Interval
    <2>2. found \subseteq 1..2
      OBVIOUS
    <2> QED
      BY <2>1, <2>2
  <1> HIDE DEF ok, found
  <1>8. IsFiniteSet(found) /\ Cardinality(ok) <= Cardinality(found)
    BY <1>6, <1>7, FS_Subset
  <1>9. Cardinality(ok) \in Nat /\ Cardinality(found) \in Nat
    BY <1>6, <1>8, FS_Subset, FS_CardinalityType
  <1>10. ASSUME gate # <<>> PROVE 100 * Cardinality(found) >= gate[1] * 2
    <2>1. gate[1] \in Nat
      BY <1>10 DEF Gates
    <2>2. ~(Cardinality(ok) * 100 < gate[1] * 2)
      BY <1>1, <1>2, <1>10
    <2> QED
      BY <1>8, <1>9, <2>1, <2>2
  <1> QED
    BY <1>3, <1>4, <1>10 DEF found

\* A score the judge is taken to have given comes from an object with a value,
\* and lies between nothing and one.
LEMMA ScoreIs ==
  ASSUME NEW r \in Replies, NEW s, s = ValidateScore(EvaluatePrompt(r)), s # <<>>
  PROVE  /\ r.object /\ r.value \notin {"none", "text"}
         /\ AtLeast(s[1], Zero) /\ AtLeast(One, s[1])
  <1>1. r \in [object : BOOLEAN, value : {"none", "text", "nan", "number"}, tenths : Int,
               relevant : {"none", "true", "false", "other"}]
    BY EvaluationAssumption
  <1>2. r.object
    BY DEF ValidateScore, EvaluatePrompt, NoReply
  <1>3. EvaluatePrompt(r) = r
    BY <1>2 DEF EvaluatePrompt
  <1>4. r.value \notin {"none", "text"}
    BY <1>3 DEF ValidateScore
  <1>5. CASE r.value = "nan"
    <2>1. s[1] = One
      BY <1>3, <1>5 DEF ValidateScore
    <2> QED
      BY <1>2, <1>4, <2>1 DEF AtLeast, One, Zero, Fraction
  <1>6. CASE r.value # "nan"
    <2> DEFINE t == Greater(0, Lesser(10, r.tenths))
    <2>1. r.tenths \in Int
      BY <1>1
    <2>2. t \in 0..10
      BY <2>1 DEF Greater, Lesser
    <2>3. s[1] = Fraction(t, 10)
      BY <1>3, <1>4, <1>6 DEF ValidateScore
    <2> HIDE DEF t
    <2> QED
      BY <1>2, <1>4, <2>2, <2>3 DEF AtLeast, One, Zero, Fraction
  <1> QED
    BY <1>5, <1>6

\* So does one of the other backend, which is not clamped.
LEMMA RagasScoreIs ==
  ASSUME NEW r \in Replies, NEW s, s = RagasFaithfulness(r), s # <<>>
  PROVE  /\ r.object /\ r.value \notin {"none", "text"}
         /\ r.tenths \in 0..10 => AtLeast(s[1], Zero) /\ AtLeast(One, s[1])
  <1>1. r.object \in BOOLEAN
    BY EvaluationAssumption
  <1>2. r.object /\ r.value = "number"
    BY <1>1 DEF RagasFaithfulness
  <1>3. s[1] = Fraction(r.tenths, 10)
    BY <1>2 DEF RagasFaithfulness
  <1> QED
    BY <1>2, <1>3 DEF AtLeast, One, Zero, Fraction

\* The precision of the context is the share of the chunks with a verdict that
\* were called relevant.
LEMMA VerdictsAre ==
  ASSUME NEW chunks \in Seq(Replies), NEW s, s = ContextPrecision(chunks), s # <<>>
  PROVE  /\ \E i \in DOMAIN chunks :
               chunks[i].object /\ chunks[i].relevant \in {"true", "false"}
         /\ AtLeast(s[1], Zero) /\ AtLeast(One, s[1])
  <1> DEFINE verdicts == {i \in DOMAIN chunks :
                            EvaluatePrompt(chunks[i]).relevant \in {"true", "false"}}
             called == {i \in verdicts : chunks[i].relevant = "true"}
             n == Cardinality(verdicts)
             h == Cardinality(called)
  <1>1. verdicts # {} /\ s[1] = Fraction(h, n)
    BY DEF ContextPrecision
  <1>2. PICK i \in DOMAIN chunks : EvaluatePrompt(chunks[i]).relevant \in {"true", "false"}
    BY <1>1
  <1>3. chunks[i].object \in BOOLEAN
    BY EvaluationAssumption
  <1>4. chunks[i].object /\ chunks[i].relevant \in {"true", "false"}
    BY <1>2, <1>3 DEF EvaluatePrompt, NoReply
  <1>5. IsFiniteSet(DOMAIN chunks) /\ verdicts \subseteq DOMAIN chunks
    BY FS_Interval
  <1>6. called \subseteq verdicts
    OBVIOUS
  <1> HIDE DEF verdicts, called
  <1>7. IsFiniteSet(verdicts)
    BY <1>5, FS_Subset
  <1>8. IsFiniteSet(called) /\ h <= n
    BY <1>6, <1>7, FS_Subset
  <1>9. n \in Nat /\ h \in Nat
    BY <1>7, <1>8, FS_CardinalityType
  <1> HIDE DEF n, h
  <1>10. AtLeast(Fraction(h, n), Zero) /\ AtLeast(One, Fraction(h, n))
    BY <1>8, <1>9 DEF AtLeast, One, Zero, Fraction
  <1> QED
    BY <1>1, <1>4, <1>10

LEMMA UnjudgedHolds == UnjudgedIsNothing
  <1>1. ASSUME NEW f \in Replies, NEW q \in Replies,
               NEW chunks \in {<<>>} \cup {<<a, f>> : a \in Replies},
               NEW legacy \in BOOLEAN, NEW raised \in BOOLEAN
        PROVE  LET score  == IF legacy THEN LegacyFaithfulness(f) ELSE RagasFaithfulness(f)
                   graded == Graded(score, q, chunks)
                   event  == EvaluateAndRecord(raised, graded)
                   judged(r) == r.object /\ r.value \notin {"none", "text"}
               IN /\ event.warned => event.recorded # {}
                  /\ "faithfulness" \in event.recorded => ~raised /\ judged(f)
                  /\ "answer_relevancy" \in event.recorded => ~raised /\ judged(q)
                  /\ "context_precision" \in event.recorded =>
                       ~raised /\ \E i \in DOMAIN chunks :
                                    chunks[i].object /\ chunks[i].relevant \in {"true", "false"}
                  /\ legacy \/ f.tenths \in 0..10 =>
                       \A m \in event.recorded :
                         AtLeast(graded[m][1], Zero) /\ AtLeast(One, graded[m][1])
                  /\ ~judged(f) => \A case \in EvalCases : \A results \in EvalResults :
                       case.answer # BLANK => ~Faithfulness(case, results, score).passed
    <2> DEFINE score == IF legacy THEN LegacyFaithfulness(f) ELSE RagasFaithfulness(f)
               other == ValidateScore(EvaluatePrompt(q))
               context == ContextPrecision(chunks)
               graded == Graded(score, q, chunks)
               event == EvaluateAndRecord(raised, graded)
    <2>1. ASSUME score # <<>>
          PROVE  /\ f.object /\ f.value \notin {"none", "text"}
                 /\ legacy \/ f.tenths \in 0..10 =>
                      AtLeast(score[1], Zero) /\ AtLeast(One, score[1])
      <3>1. CASE legacy
        <4>1. score = ValidateScore(EvaluatePrompt(f))
          BY <3>1 DEF LegacyFaithfulness
        <4> HIDE DEF score
        <4> QED
          BY <2>1, <4>1, ScoreIs
      <3>2. CASE ~legacy
        <4>1. score = RagasFaithfulness(f)
          BY <3>2
        <4> HIDE DEF score
        <4> QED
          BY <2>1, <3>2, <4>1, RagasScoreIs
      <3> QED
        BY <3>1, <3>2
    <2>2. ASSUME other # <<>>
          PROVE  /\ q.object /\ q.value \notin {"none", "text"}
                 /\ AtLeast(other[1], Zero) /\ AtLeast(One, other[1])
      BY <2>2, ScoreIs
    <2>3. ASSUME context # <<>>
          PROVE  /\ \E i \in DOMAIN chunks :
                       chunks[i].object /\ chunks[i].relevant \in {"true", "false"}
                 /\ AtLeast(context[1], Zero) /\ AtLeast(One, context[1])
      <3> HIDE DEF score, other, context, graded, event
      <3>1. chunks \in Seq(Replies)
        <4>1. CASE chunks = <<>>
          BY <4>1
        <4>2. CASE chunks # <<>>
          <5>1. PICK a \in Replies : chunks = <<a, f>>
            BY <4>2
          <5> QED
            BY <5>1
        <4> QED
          BY <4>1, <4>2
      <3> QED
        BY <2>3, <3>1, VerdictsAre DEF context
    <2>4. /\ graded = [faithfulness |-> score, answer_relevancy |-> other,
                       context_precision |-> context]
      BY DEF Graded
    <2> HIDE DEF score, other, context, graded
    <2>5. /\ DOMAIN graded = {"faithfulness", "answer_relevancy", "context_precision"}
          /\ graded["faithfulness"] = score /\ graded["answer_relevancy"] = other
          /\ graded["context_precision"] = context
      BY <2>4
    <2>6. /\ event.recorded = IF raised THEN {} ELSE {m \in DOMAIN graded : graded[m] # <<>>}
          /\ event.warned = IF raised THEN FALSE ELSE HasQualityConcern(graded)
      BY DEF EvaluateAndRecord
    <2> HIDE DEF event
    <2>7. event.warned => event.recorded # {}
      BY <2>6 DEF HasQualityConcern
    <2>8. /\ "faithfulness" \in event.recorded => ~raised /\ score # <<>>
          /\ "answer_relevancy" \in event.recorded => ~raised /\ other # <<>>
          /\ "context_precision" \in event.recorded => ~raised /\ context # <<>>
          /\ event.recorded \subseteq {"faithfulness", "answer_relevancy", "context_precision"}
      BY <2>5, <2>6
    <2>9. ASSUME legacy \/ f.tenths \in 0..10, NEW m \in event.recorded
          PROVE  AtLeast(graded[m][1], Zero) /\ AtLeast(One, graded[m][1])
      BY <2>1, <2>2, <2>3, <2>5, <2>8, <2>9
    <2>10. ASSUME ~(f.object /\ f.value \notin {"none", "text"}),
                  NEW case \in EvalCases, NEW results \in EvalResults, case.answer # BLANK
           PROVE  ~Faithfulness(case, results, score).passed
      BY <2>1, <2>10 DEF Faithfulness, NoMetric
    <2> QED
      BY <2>1, <2>2, <2>3, <2>7, <2>8, <2>9, <2>10 DEF score, graded, event
  <1> QED
    BY Zenon, <1>1 DEF UnjudgedIsNothing

\* A search that ended under a mode tells of it, of what it drew on and of the order.
LEMMA GradedHolds ==
  ASSUME SearchInv
  PROVE  GradedModeRan
  <1>1. ASSUME NEW s \in Searches, NEW mode \in EvalModes,
               search[s].pc \in {"results", "no_results"}, search[s].mode # "blank",
               \/ Disabled[mode] \subseteq search[s].failed
               \/ mode = "no_rerank" /\ search[s].fused = <<>>,
               RightMode(mode, search[s].failed, FALSE)
        PROVE  /\ mode = "full" => search[s].failed = {}
               /\ mode = "keyword_only" => Range(search[s].result) \subseteq Range(search[s].byWord)
               /\ mode = "no_rerank" => /\ search[s].failed \subseteq {"reranker"}
                                        /\ search[s].result = Prefix(search[s].fused, TopK)
    <2> DEFINE lost == search[s].failed
    <2>1. search[s] \in SearchType /\ Told(search[s]) /\ Drawn(search[s])
      BY SearchHas
    <2>2. \/ lost \in Light /\ search[s].mode = Mode(lost)
          \/ lost = {"reranker"} /\ search[s].mode = "no_rerank"
      BY <1>1, <2>1 DEF Told
    <2>3. CountsAs(mode, lost, FALSE) = mode
      BY <1>1 DEF RightMode
    <2>4. /\ SemanticDown(lost) => search[s].byVector = <<>>
          /\ search[s].byVector = <<>> => Range(search[s].fused) \subseteq Range(search[s].byWord)
          /\ Range(search[s].result) \subseteq Range(search[s].fused)
          /\ search[s].mode = "no_rerank" => search[s].result = Prefix(search[s].fused, TopK)
      BY <2>1 DEF Drawn
    <2>5. Disabled[mode] \subseteq lost \/ (mode = "no_rerank" /\ search[s].fused = <<>>)
      BY <1>1
    <2>6. search[s].result \in Seq(RowSet)
      BY <2>1 DEF SearchType
    <2> HIDE DEF lost
    <2>7. ASSUME mode = "full" PROVE lost = {}
      BY <2>2, <2>3, <2>7 DEF CountsAs, ModeUsed, SemanticDown, Light
    <2>8. ASSUME mode = "keyword_only"
          PROVE  Range(search[s].result) \subseteq Range(search[s].byWord)
      <3>1. SemanticDown(lost)
        BY <2>3, <2>8 DEF CountsAs, ModeUsed
      <3> QED
        BY <2>4, <3>1
    <2>9. ASSUME mode = "no_rerank"
          PROVE  lost \subseteq {"reranker"} /\ search[s].result = Prefix(search[s].fused, TopK)
      <3>1. CASE lost = {"reranker"} /\ search[s].mode = "no_rerank"
        BY <2>4, <3>1
      <3>2. CASE lost \in Light
        <4>1. "reranker" \notin lost
          BY <3>2 DEF Light
        <4>2. lost = {}
          BY <2>3, <2>9, <3>2, <4>1 DEF CountsAs, ModeUsed, SemanticDown, Light
        <4>3. search[s].fused = <<>>
          BY <2>5, <2>9, <4>1 DEF Disabled
        <4>4. Range(search[s].result) = {}
          <5>1. Range(search[s].fused) = {}
            <6>1. DOMAIN search[s].fused = {}
              <7>1. DOMAIN <<>> = {}
                OBVIOUS
              <7> QED
                BY ONLY <4>3, <7>1
            <6> QED
              BY ONLY <6>1 DEF Range
          <5> QED
            BY ONLY <2>4, <5>1
        <4>5. search[s].result = <<>>
          <5> DEFINE rows == search[s].result
          <5>1. rows \in Seq(RowSet) /\ Range(rows) = {}
            BY <2>6, <4>4
          <5> HIDE DEF rows
          <5>2. DOMAIN rows = {}
            BY ONLY <5>1 DEF Range
          <5>3. rows = <<>>
            BY ONLY <5>1, <5>2
          <5> QED
            BY <5>3 DEF rows
        <4>6. Prefix(<<>>, TopK) = <<>>
          <5>1. <<>> \in Seq(RowSet) /\ Len(<<>>) = 0
            OBVIOUS
          <5>2. /\ Prefix(<<>>, TopK) \in Seq(RowSet) /\ Len(Prefix(<<>>, TopK)) <= 0
                /\ Len(Prefix(<<>>, TopK)) \in Nat
            BY <5>1, PrefixIs, RetrievalAssumption
          <5> QED
            BY <5>2
        <4> QED
          BY <4>2, <4>3, <4>5, <4>6
      <3> QED
        BY <2>2, <3>1, <3>2
    <2> QED
      BY <2>7, <2>8, <2>9 DEF lost
  <1> QED
    BY <1>1, Zenon DEF GradedModeRan

\* What a grade says of the retrieval or of an answer is so, in every state of the
\* index and of the searches: the metrics agree on whether the evidence was found, a
\* perfect retrieval passes, the gate lets no other mode and no ill-formed case by,
\* an unjudged answer has no score (precision.py:95, evaluate_rag_retrieval.py:129,
\* evaluator.py:344, retrieval_mode.py:199).
THEOREM GradesAreRight == RetrievalSpec => []EvaluationRight
  <1>1. IndexInv /\ SearchInv => EvaluationRight
    BY PerfectHolds, AgreementHolds, ExitHolds, UnjudgedHolds, GradedHolds DEF EvaluationRight
  <1> QED
    BY <1>1, RetrievalIsInvariant, PTL
=============================================================================
