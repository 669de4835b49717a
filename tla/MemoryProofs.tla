---------------------------- MODULE MemoryProofs ----------------------------
(***************************************************************************)
(* A user's memory, proved for any processes, conversations, memories,     *)
(* batch sizes and settings.  MemoryExtraction: what is read for memories  *)
(* is read once, in order and only when the switch allows it, and nothing  *)
(* is written without consent.  SavedMemories, in the second part: no      *)
(* content has two rows, every row is accounted for, what is gone stays    *)
(* gone, the limit holds but for a batch of each further extraction, and   *)
(* a turn quotes what it may and should.                                   *)
(***************************************************************************)
EXTENDS MemoryExtraction, SavedMemories, FiniteRecursion

-----------------------------------------------------------------------------
(* The inductive invariant *)

\* A stamp names one message, and nothing is stamped in the future.
StampsUnique == \A m, n \in msgs : m.at = n.at => m = n

NothingAhead ==
    /\ user.since <= clock
    /\ \A c \in Conversations : conv[c].watermark <= clock
    /\ \A m \in msgs : m.at <= clock
    /\ \A s \in Switchers :
          /\ switching[s].at <= clock
          /\ switching[s].disable \/ switching[s].seen <= switching[s].at

\* While a withdrawal is under way consent is still on, and older than it.
Withdrawing ==
    withdrawal.stage = "deleted" =>
        user.enabled /\ user.since <= withdrawal.at /\ withdrawal.at <= clock

\* What was said with the switch on is behind the watermark once it is off, unless
\* it was said while the release was under way.
OffIsExcluded ==
    \A m \in msgs :
        m.off => \/ conv[m.conv].disabled
                 \/ m.at <= conv[m.conv].watermark
                 \/ m.at \in exposed

\* Every stamp a memory or a claim refers to is a committed message's.
SourcesCommitted == \A t \in Sources : \E m \in msgs : m.at = t /\ m.committed

ClaimedIsBehind ==
    \A t \in Times :
        claims[t] > 0 => t \in exposed \/ \E m \in msgs : m.at = t /\ BehindWatermark(m)

\* Considered, or passed over because it commits after a later message of its
\* conversation has: a message still under way counts as passed over already.
Accounted(m) == Considered(m) \/ (IF m.committed THEN m.late ELSE Overtaken(m))

InOrder == \A m \in msgs : m.at <= conv[m.conv].watermark => Accounted(m)

Reading  == {"flags", "model", "screened", "locked", "applied"}
Batched  == {"model", "screened", "locked", "applied"}

\* The floor a run reads from: the watermark it saw or the last consent.
FloorRight(r) ==
    run[r].stage \in Reading =>
        /\ run[r].watermark <= run[r].floor
        /\ run[r].floor = run[r].watermark \/ run[r].floor <= user.since

Due(r, m) ==
    /\ m.conv = ConvOf(r) /\ m.committed /\ ~m.late /\ m.at > run[r].floor
    /\ \E t \in run[r].batch : m.at <= t

\* A batch holds committed messages of its conversation above the floor, and
\* every one up to its last that did not commit late.
BatchRight(r) ==
    run[r].stage \in Batched =>
        /\ \A t \in run[r].batch :
              t > run[r].floor /\ \E m \in msgs : m.at = t /\ m.conv = ConvOf(r) /\ m.committed
        /\ \A m \in msgs : Due(r, m) => m.at \in run[r].batch

ConsentHeld(r) == SharesConsentLock(r) => user.enabled

\* An open write transaction keeps its conversation as it claimed it, alone.
ClaimHeld(r) ==
    run[r].stage = "applied" =>
        /\ ~conv[ConvOf(r)].disabled
        /\ conv[ConvOf(r)].watermark = run[r].watermark
LoneWriter ==
    \A q, r \in Runs :
        ConvOf(q) = ConvOf(r) /\ run[q].stage = "applied" /\ run[r].stage = "applied" => q = r

RunRight(r) == FloorRight(r) /\ BatchRight(r) /\ ConsentHeld(r) /\ ClaimHeld(r)

MemoryInv ==
    /\ TypeOK
    /\ StampsUnique /\ NothingAhead /\ Withdrawing
    /\ OffIsExcluded /\ SourcesCommitted /\ ClaimedIsBehind /\ InOrder
    /\ SwitchRespected /\ ExtractedOnce /\ LoneWriter
    /\ \A r \in Runs : RunRight(r)

-----------------------------------------------------------------------------
(* Sets of stamps *)

\* A finite set of naturals has a largest element: the operator Max names it.
LEMMA MaxExists ==
  ASSUME NEW S, S \subseteq Nat, IsFiniteSet(S), S # {}
  PROVE  Max(S) \in S /\ \A y \in S : y <= Max(S)
  <1> DEFINE Above(x) == {y \in S : y >= x}
             Family == {Above(x) : x \in S}
  <1>1. \A x \in S : IsFiniteSet(Above(x)) /\ Above(x) \subseteq S
    BY FS_Subset
  <1>2. Family \subseteq FiniteSubsetsOf(S) /\ Family # {}
    BY <1>1 DEF FiniteSubsetsOf
  <1>3. PICK T \in Family : \A U \in Family : <<U, T>> \notin StrictSubsetOrdering(S)
    <2> HIDE DEF Family
    <2> QED
      BY <1>2, FS_StrictSubsetOrderingWellFounded, WFMin
  <1>4. PICK x \in S : T = Above(x)
    BY <1>3
  <1>5. ASSUME NEW y \in S, y > x PROVE FALSE
    <2>1. \A v \in S : v \in Nat
      OBVIOUS
    <2>2. Above(y) \subseteq Above(x) /\ x \in Above(x) /\ x \notin Above(y)
      <3>1. x \in Nat /\ y \in Nat /\ x >= x /\ ~(x >= y)
        BY <1>5, <2>1
      <3>2. \A v \in S : v >= y => v >= x
        BY <1>5, <2>1, <3>1
      <3> QED
        BY <3>1, <3>2
    <2>3. <<Above(y), T>> \in StrictSubsetOrdering(S)
      BY <1>1, <1>4, <2>2 DEF StrictSubsetOrdering
    <2> QED
      BY <1>3, <2>3
  <1>6. \A y \in S : x >= y
    BY <1>5
  <1>7. \E z \in S : \A y \in S : z >= y
    BY <1>6
  <1>8. Max(S) \in S /\ \A y \in S : Max(S) >= y
    BY <1>7 DEF Max
  <1> QED
    BY <1>8

LEMMA TimesFinite == IsFiniteSet(Times) /\ Times \subseteq Nat
  BY FS_Interval, BoundAssumption DEF Times

LEMMA MaxOfTimes ==
  ASSUME NEW S, S \subseteq Times, S # {}
  PROVE  Max(S) \in S /\ \A y \in S : y <= Max(S)
  BY FS_Subset, TimesFinite, MaxExists

\* A batch cut at its limit keeps everything older than what it keeps.
LEMMA OldestFirst ==
  ASSUME NEW S, S \subseteq Times, NEW t \in Oldest(S), NEW u \in S, u <= t
  PROVE  u \in Oldest(S)
  <1> DEFINE UntilThen(x) == {v \in S : v <= x}
  <1>1. UntilThen(u) \subseteq UntilThen(t) /\ IsFiniteSet(UntilThen(t))
    <2>1. t \in S /\ \A v \in S : v \in Nat
      BY TimesFinite DEF Oldest
    <2>2. \A v \in S : v <= u => v <= t
      BY <2>1
    <2>3. UntilThen(t) \subseteq Times
      OBVIOUS
    <2> QED
      BY <2>2, <2>3, FS_Subset, TimesFinite
  <1>2. Cardinality(UntilThen(u)) <= Cardinality(UntilThen(t))
    BY <1>1, FS_Subset
  <1>3. Cardinality(UntilThen(u)) \in Nat /\ Cardinality(UntilThen(t)) \in Nat
    BY <1>1, FS_Subset, FS_CardinalityType
  <1>4. Cardinality(UntilThen(t)) <= MaxEvents
    BY DEF Oldest
  <1> QED
    BY <1>2, <1>3, <1>4, BatchAssumption DEF Oldest

-----------------------------------------------------------------------------
(* Steps of a run *)

RunRecord ==
    [stage : {"idle", "scheduled", "flags", "model", "screened", "locked", "applied"},
     watermark : 0..MaxTime, floor : 0..MaxTime, batch : SUBSET Times,
     known : SUBSET MemoryIds, op : Ops]

LEMMA RunsTyped == TypeOK => run \in [Runs -> RunRecord]
  BY DEF TypeOK, RunRecord

\* What is right about a run stays right while it waits: consent moves forward,
\* committed messages stay, and none becomes due that its batch has not.
LEMMA WaitingRunKept ==
  ASSUME TypeOK, NEW r \in Runs, RunRight(r), run'[r] = run[r],
         user.since <= user'.since, user'.since \in Nat,
         SharesConsentLock(r) => user'.enabled,
         \A m \in msgs : m.committed => m \in msgs',
         \A m \in msgs' : run[r].stage \in Batched /\ Due(r, m) => m \in msgs,
         run[r].stage = "applied" => conv'[ConvOf(r)] = conv[ConvOf(r)]
  PROVE  RunRight(r)'
  <1>1. /\ run[r].floor \in Nat /\ run[r].watermark \in Nat /\ user.since \in Nat
    BY BoundAssumption DEF TypeOK
  <1>2. FloorRight(r)'
    BY <1>1 DEF RunRight, FloorRight, Reading
  <1>3. BatchRight(r)'
    BY DEF RunRight, BatchRight, Batched, Due
  <1>4. ConsentHeld(r)' /\ ClaimHeld(r)'
    BY DEF RunRight, ConsentHeld, ClaimHeld, SharesConsentLock
  <1> QED
    BY <1>2, <1>3, <1>4 DEF RunRight

\* A step of a run that leaves the tables alone.
LEMMA RunStepKeeps ==
  ASSUME MemoryInv, NEW r \in Runs, NEW rec \in RunRecord, Step(r, rec),
         UNCHANGED <<user, conv, switching, msgs, mem, clock, claims, dropped, exposed>>,
         withdrawal' = withdrawal \/ withdrawal' = NoWithdrawal,
         rec.stage \in Batched => rec.batch # {},
         RunRight(r)', LoneWriter'
  PROVE  MemoryInv'
  <1>1. /\ run' = [run EXCEPT ![r] = rec] /\ run'[r] = rec
        /\ \A q \in Runs : q # r => run'[q] = run[q]
    BY RunsTyped DEF Step, MemoryInv
  <1>2. TypeOK'
    <2>1. run' \in [Runs -> RunRecord]
      BY <1>1, RunsTyped DEF MemoryInv
    <2>2. \A q \in Runs : run'[q].stage \in Batched => run'[q].batch # {}
      BY <1>1 DEF MemoryInv, TypeOK, Batched
    <2>3. withdrawal' \in [stage : {"idle", "deleted"}, rows : SUBSET MemoryIds, at : 0..MaxTime]
      BY BoundAssumption DEF NoWithdrawal, MemoryInv, TypeOK
    <2> QED
      BY <2>1, <2>2, <2>3 DEF RunRecord, Batched, MemoryInv, TypeOK
  <1>3. \A q \in Runs : RunRight(q)'
    <2>1. ASSUME NEW q \in Runs, q # r PROVE RunRight(q)'
      <3>1. user.since \in Nat /\ TypeOK /\ RunRight(q)
        BY BoundAssumption DEF MemoryInv, TypeOK
      <3> QED
        BY <1>1, <2>1, <3>1, WaitingRunKept DEF RunRight, ConsentHeld
    <2> QED
      BY <2>1
  <1>4. (StampsUnique /\ NothingAhead /\ OffIsExcluded /\ SourcesCommitted /\ ClaimedIsBehind)'
    BY DEF MemoryInv, StampsUnique, NothingAhead, OffIsExcluded, SourcesCommitted, Sources,
           ClaimedIsBehind, BehindWatermark
  <1>5. Withdrawing'
    BY DEF MemoryInv, Withdrawing, NoWithdrawal
  <1>6. InOrder' /\ SwitchRespected' /\ ExtractedOnce'
    BY DEF MemoryInv, InOrder, Accounted, Considered, Overtaken, SwitchRespected, Sources,
           ExtractedOnce
  <1> QED
    BY <1>2, <1>3, <1>4, <1>5, <1>6 DEF MemoryInv

\* A run that ends without writing.
LEMMA FinishKeeps ==
  ASSUME MemoryInv, NEW r \in Runs, Finish(r),
         UNCHANGED <<user, conv, msgs, mem, withdrawal, switching, clock, claims, dropped, exposed>>
  PROVE  MemoryInv'
  <1>1. IdleRun \in RunRecord /\ IdleRun.stage = "idle"
    BY BoundAssumption DEF IdleRun, RunRecord, NoOp, Ops
  <1>2. run'[r] = IdleRun /\ \A q \in Runs : q # r => run'[q] = run[q]
    BY RunsTyped DEF Finish, Step, MemoryInv
  <1>3. RunRight(r)'
    BY <1>1, <1>2 DEF RunRight, FloorRight, BatchRight, ConsentHeld, ClaimHeld, Reading, Batched,
                      SharesConsentLock
  <1>4. LoneWriter'
    BY <1>1, <1>2 DEF LoneWriter, MemoryInv
  <1> QED
    BY <1>1, <1>3, <1>4, RunStepKeeps DEF Finish, Batched

LEMMA MaxOfPair ==
  ASSUME NEW a \in Nat, NEW b \in Nat
  PROVE  Max({a, b}) \in {a, b} /\ a <= Max({a, b}) /\ b <= Max({a, b})
  <1>1. \E x \in {a, b} : \A y \in {a, b} : x >= y
    <2>1. CASE a <= b
      BY <2>1
    <2>2. CASE ~(a <= b)
      BY <2>2
    <2> QED
      BY <2>1, <2>2
  <1>2. Max({a, b}) \in {a, b} /\ \A y \in {a, b} : Max({a, b}) >= y
    BY <1>1 DEF Max
  <1> QED
    BY <1>2

LEMMA ReadFlagsKeeps ==
  ASSUME MemoryInv, NEW r \in Runs, ReadFlags(r)
  PROVE  MemoryInv'
  <1> DEFINE c == conv[ConvOf(r)]
             rec == [run[r] EXCEPT !.stage = "flags", !.watermark = c.watermark,
                                   !.floor = Max({c.watermark, user.since})]
  <1>1. UNCHANGED <<user, conv, msgs, mem, withdrawal, switching, clock, claims, dropped, exposed>>
    BY DEF ReadFlags, settings, history
  <1>2. ASSUME Finish(r) PROVE MemoryInv'
    BY <1>1, <1>2, FinishKeeps
  <1>3. ASSUME Step(r, rec) PROVE MemoryInv'
    <2>1. ConvOf(r) \in Conversations /\ run[r] \in RunRecord
      BY RunsTyped DEF Runs, ConvOf, MemoryInv
    <2>2. c.watermark \in 0..MaxTime /\ user.since \in 0..MaxTime
      BY <2>1 DEF MemoryInv, TypeOK
    <2>3. /\ Max({c.watermark, user.since}) \in {c.watermark, user.since}
          /\ c.watermark <= Max({c.watermark, user.since})
          /\ Max({c.watermark, user.since}) \in Nat
      BY <2>2, MaxOfPair, BoundAssumption
    <2>4. rec \in RunRecord
      BY <2>1, <2>2, <2>3 DEF RunRecord
    <2>5. /\ rec.stage = "flags" /\ rec.watermark = c.watermark
          /\ rec.floor = Max({c.watermark, user.since})
      BY <2>1 DEF RunRecord
    <2>6. run'[r] = rec /\ \A q \in Runs : q # r => run'[q] = run[q]
      BY <1>3, RunsTyped DEF Step, MemoryInv
    <2> HIDE DEF rec
    <2>7. RunRight(r)'
      <3>1. FloorRight(r)'
        BY <1>1, <2>2, <2>3, <2>5, <2>6, BoundAssumption DEF FloorRight
      <3> QED
        BY <2>5, <2>6, <3>1 DEF RunRight, BatchRight, ConsentHeld, ClaimHeld, Batched,
                                SharesConsentLock
    <2>8. LoneWriter'
      BY <2>5, <2>6 DEF LoneWriter, MemoryInv
    <2> QED
      BY <1>1, <1>3, <2>4, <2>5, <2>7, <2>8, RunStepKeeps DEF Batched
  <1> QED
    BY <1>2, <1>3 DEF ReadFlags

\* list_by_role_since gives what BatchRight asks for.
LEMMA PendingRight ==
  ASSUME TypeOK, NEW c \in Conversations, NEW floor
  PROVE  /\ Pending(c, floor) \subseteq Times
         /\ \A t \in Pending(c, floor) :
               t > floor /\ \E m \in msgs : m.at = t /\ m.conv = c /\ m.committed
         /\ \A m \in msgs :
               /\ m.conv = c /\ m.committed /\ m.at > floor
               /\ \E t \in Pending(c, floor) : m.at <= t
               => m.at \in Pending(c, floor)
  <1> DEFINE S == {m.at : m \in {n \in msgs : n.conv = c /\ n.committed /\ n.at > floor}}
  <1>1. S \subseteq Times
    BY DEF TypeOK, Messages
  <1>2. Pending(c, floor) = Oldest(S)
    BY DEF Pending
  <1>3. Oldest(S) \subseteq S
    BY DEF Oldest
  <1>4. \A t \in S : t > floor /\ \E m \in msgs : m.at = t /\ m.conv = c /\ m.committed
    OBVIOUS
  <1>5. \A m \in msgs : m.conv = c /\ m.committed /\ m.at > floor => m.at \in S
    OBVIOUS
  <1> HIDE DEF S
  <1> QED
    BY <1>1, <1>2, <1>3, <1>4, <1>5, OldestFirst

LEMMA ReadPendingKeeps ==
  ASSUME MemoryInv, NEW r \in Runs, ReadPending(r)
  PROVE  MemoryInv'
  <1> DEFINE batch == Pending(ConvOf(r), run[r].floor)
             rec == [run[r] EXCEPT !.stage = "model", !.batch = batch, !.known = Rows]
  <1>1. /\ UNCHANGED <<user, conv, msgs, mem, withdrawal, switching, clock, claims, dropped,
                       exposed>>
        /\ run[r].stage = "flags"
    BY DEF ReadPending, settings, history
  <1>2. ASSUME Finish(r) PROVE MemoryInv'
    BY <1>1, <1>2, FinishKeeps
  <1>3. ASSUME Step(r, rec), Cardinality(batch) >= Interval PROVE MemoryInv'
    <2>1. ConvOf(r) \in Conversations /\ run[r] \in RunRecord
      BY RunsTyped DEF Runs, ConvOf, MemoryInv
    <2>2. /\ batch \subseteq Times
          /\ \A t \in batch :
                t > run[r].floor /\ \E m \in msgs : m.at = t /\ m.conv = ConvOf(r) /\ m.committed
          /\ \A m \in msgs :
                /\ m.conv = ConvOf(r) /\ m.committed /\ m.at > run[r].floor
                /\ \E t \in batch : m.at <= t
                => m.at \in batch
      BY <2>1, PendingRight DEF MemoryInv
    <2>3. batch # {}
      <3>1. Cardinality({}) = 0 /\ Interval \in Nat /\ Interval > 0
        BY FS_EmptySet, BatchAssumption
      <3> QED
        BY <1>3, <3>1
    <2> HIDE DEF batch
    <2>4. rec \in RunRecord
      BY <2>1, <2>2 DEF RunRecord, Rows
    <2>5. /\ rec.stage = "model" /\ rec.batch = batch /\ rec.floor = run[r].floor
          /\ rec.watermark = run[r].watermark
      BY <2>1 DEF RunRecord
    <2>6. run'[r] = rec /\ \A q \in Runs : q # r => run'[q] = run[q]
      BY <1>3, RunsTyped DEF Step, MemoryInv
    <2> HIDE DEF rec
    <2>7. RunRight(r)'
      <3>1. FloorRight(r)'
        BY <1>1, <2>5, <2>6 DEF MemoryInv, RunRight, FloorRight, Reading
      <3>2. BatchRight(r)'
        BY <1>1, <2>2, <2>5, <2>6 DEF BatchRight, Due
      <3> QED
        BY <2>5, <2>6, <3>1, <3>2 DEF RunRight, ConsentHeld, ClaimHeld, SharesConsentLock
    <2>8. LoneWriter'
      BY <2>5, <2>6 DEF LoneWriter, MemoryInv
    <2> QED
      BY <1>1, <1>3, <2>3, <2>4, <2>5, <2>7, <2>8, RunStepKeeps
  <1> QED
    BY <1>2, <1>3 DEF ReadPending

\* From the model's answer on a run keeps what it read: it only moves from stage
\* to stage, towards its write, and settles its operation.
LEMMA OnwardKeeps ==
  ASSUME MemoryInv, NEW r \in Runs, run[r].stage \in Batched,
         NEW stage \in Batched, NEW op \in Ops,
         Step(r, [run[r] EXCEPT !.stage = stage, !.op = op]),
         UNCHANGED <<user, conv, switching, msgs, mem, clock, claims, dropped, exposed>>,
         withdrawal' = withdrawal \/ withdrawal' = NoWithdrawal,
         stage \in {"locked", "applied"} => user.enabled,
         stage = "applied" => ConversationFree(ConvOf(r)) /\ Claimable(r)
  PROVE  MemoryInv'
  <1> DEFINE rec == [run[r] EXCEPT !.stage = stage, !.op = op]
  <1>1. run[r] \in RunRecord
    BY RunsTyped DEF MemoryInv
  <1>2. rec \in RunRecord
    BY <1>1 DEF RunRecord, Batched
  <1>3. /\ rec.stage = stage /\ rec.batch = run[r].batch /\ rec.floor = run[r].floor
        /\ rec.watermark = run[r].watermark
    BY <1>1 DEF RunRecord
  <1>4. run'[r] = rec /\ \A q \in Runs : q # r => run'[q] = run[q]
    BY RunsTyped DEF Step, MemoryInv
  <1>5. rec.batch # {}
    BY <1>3 DEF MemoryInv, TypeOK, Batched
  <1> HIDE DEF rec
  <1>6. FloorRight(r)'
    BY <1>3, <1>4 DEF MemoryInv, RunRight, FloorRight, Reading, Batched
  <1>7. BatchRight(r)'
    BY <1>3, <1>4 DEF MemoryInv, RunRight, BatchRight, Due
  <1>8. ConsentHeld(r)' /\ ClaimHeld(r)'
    BY <1>3, <1>4 DEF ConsentHeld, ClaimHeld, SharesConsentLock, Claimable
  <1>9. LoneWriter'
    BY <1>3, <1>4 DEF MemoryInv, LoneWriter, ConversationFree
  <1> QED
    BY <1>2, <1>4, <1>5, <1>6, <1>7, <1>8, <1>9, RunStepKeeps DEF RunRight, rec

LEMMA OpsOf ==
  /\ NoOp \in Ops /\ [kind |-> "add", id |-> "none"] \in Ops
  /\ \A i \in MemoryIds : [kind |-> "add", id |-> i] \in Ops
  BY DEF NoOp, Ops

LEMMA ProposeKeeps ==
  ASSUME MemoryInv, NEW r \in Runs, Propose(r)
  PROVE  MemoryInv'
  <1>1. PICK op \in {NoOp, [kind |-> "add", id |-> "none"]}
                     \union [kind : {"update", "forget"}, id : run[r].known] :
           Step(r, [run[r] EXCEPT !.stage = "screened", !.op = op])
    BY DEF Propose
  <1>2. run[r].known \subseteq MemoryIds
    BY RunsTyped DEF MemoryInv, RunRecord
  <1>3. op \in Ops
    BY <1>2, OpsOf DEF Ops
  <1>4. /\ run[r].stage \in Batched /\ "screened" \in Batched
        /\ UNCHANGED <<user, conv, msgs, mem, withdrawal, switching, clock, claims, dropped,
                       exposed>>
    BY DEF Propose, Batched, settings, history
  <1> QED
    BY <1>1, <1>3, <1>4, OnwardKeeps

LEMMA LockConsentKeeps ==
  ASSUME MemoryInv, NEW r \in Runs, LockConsent(r)
  PROVE  MemoryInv'
  <1>1. /\ run[r].stage \in Batched /\ "locked" \in Batched
        /\ UNCHANGED <<user, conv, msgs, mem, withdrawal, switching, clock, claims, dropped,
                       exposed>>
    BY DEF LockConsent, Batched, settings, history
  <1>2. CASE Finish(r)
    BY <1>1, <1>2, FinishKeeps
  <1>3. CASE user.enabled /\ Step(r, [run[r] EXCEPT !.stage = "locked"])
    <2>1. run[r] \in RunRecord
      BY RunsTyped DEF MemoryInv
    <2>2. [run[r] EXCEPT !.stage = "locked"] = [run[r] EXCEPT !.stage = "locked", !.op = run[r].op]
      <3> DEFINE s == [run[r] EXCEPT !.stage = "locked"]
      <3>1. s.op = run[r].op /\ s \in [DOMAIN run[r] -> {s[x] : x \in DOMAIN run[r]}]
        BY <2>1 DEF RunRecord
      <3> QED
        BY <2>1, <3>1 DEF RunRecord
    <2>3. run[r].op \in Ops
      BY <2>1 DEF RunRecord
    <2>4. Step(r, [run[r] EXCEPT !.stage = "locked", !.op = run[r].op])
      BY <1>3, <2>2
    <2>5. user.enabled
      BY <1>3
    <2> QED
      BY <1>1, <2>3, <2>4, <2>5, OnwardKeeps
  <1> QED
    BY <1>2, <1>3 DEF LockConsent

LEMMA ClaimKeeps ==
  ASSUME MemoryInv, NEW r \in Runs, Apply(r) \/ Deadlock(r)
  PROVE  MemoryInv'
  <1>1. /\ run[r].stage \in Batched /\ "applied" \in Batched
        /\ ConversationFree(ConvOf(r)) /\ Claimable(r)
        /\ UNCHANGED <<user, conv, switching, msgs, mem, clock, claims, dropped, exposed>>
        /\ withdrawal' = withdrawal \/ withdrawal' = NoWithdrawal
    BY DEF Apply, Deadlock, Batched, settings, history
  <1>2. user.enabled
    BY DEF MemoryInv, RunRight, ConsentHeld, SharesConsentLock, Apply, Deadlock
  <1>3. ASSUME NEW op \in Ops, Claimed(r, op) PROVE MemoryInv'
    BY <1>1, <1>2, <1>3, OnwardKeeps DEF Claimed
  <1>4. run[r].op \in Ops
    BY RunsTyped DEF MemoryInv, RunRecord
  <1>5. CASE Apply(r)
    <2>1. \A i \in MemoryIds : [run[r].op EXCEPT !.id = i] \in Ops
      BY <1>4 DEF Ops
    <2> QED
      BY <1>3, <1>4, <1>5, <2>1, OpsOf DEF Apply
  <1>6. CASE Deadlock(r)
    <2>1. ASSUME UNCHANGED run, withdrawal' = NoWithdrawal PROVE MemoryInv'
      <3>1. /\ run[r] \in RunRecord /\ Step(r, run[r])
            /\ run[r].stage \in Batched => run[r].batch # {}
        BY <2>1, RunsTyped DEF Step, MemoryInv, TypeOK, Batched
      <3>2. RunRight(r)
        BY DEF MemoryInv
      <3>3. RunRight(r)'
        BY <1>1, <2>1, <3>2 DEF RunRight, FloorRight, BatchRight, Due, ConsentHeld, ClaimHeld, 
                               SharesConsentLock
      <3>4. LoneWriter'
        BY <2>1 DEF MemoryInv, LoneWriter
      <3> QED
        BY <1>1, <2>1, <3>1, <3>3, <3>4, RunStepKeeps
    <2> QED
      BY <1>3, <1>6, <2>1, OpsOf DEF Deadlock
  <1> QED
    BY <1>5, <1>6

-----------------------------------------------------------------------------
(* The commit of an extraction *)

\* What the run commits is above everything its conversation has claimed.
LEMMA CommitAhead ==
  ASSUME MemoryInv, NEW r \in Runs, run[r].stage = "applied"
  PROVE  LET c == ConvOf(r) IN
         /\ c \in Conversations /\ ~conv[c].disabled /\ user.enabled
         /\ run[r].batch \subseteq Times /\ run[r].batch # {}
         /\ Max(run[r].batch) \in run[r].batch
         /\ \A t \in run[r].batch :
              /\ t <= Max(run[r].batch)
              /\ t > conv[c].watermark /\ t > run[r].floor
              /\ \E m \in msgs : m.at = t /\ m.conv = c /\ m.committed
  <1>1. ConvOf(r) \in Conversations /\ run[r] \in RunRecord
    BY RunsTyped DEF Runs, ConvOf, MemoryInv
  <1>2. /\ run[r].batch # {} /\ run[r].batch \subseteq Times
        /\ run[r].watermark \in Nat /\ run[r].floor \in Nat
        /\ conv[ConvOf(r)].watermark \in Nat
    BY <1>1, BoundAssumption DEF RunRecord, MemoryInv, TypeOK
  <1>3. /\ ~conv[ConvOf(r)].disabled /\ conv[ConvOf(r)].watermark = run[r].watermark
        /\ run[r].watermark <= run[r].floor /\ user.enabled
    BY DEF MemoryInv, RunRight, ClaimHeld, FloorRight, ConsentHeld, Reading, SharesConsentLock
  <1>4. \A t \in run[r].batch :
           t > run[r].floor /\ \E m \in msgs : m.at = t /\ m.conv = ConvOf(r) /\ m.committed
    BY DEF MemoryInv, RunRight, BatchRight, Batched
  <1>5. Max(run[r].batch) \in run[r].batch /\ \A t \in run[r].batch : t <= Max(run[r].batch)
    BY <1>2, MaxOfTimes
  <1>6. \A t \in run[r].batch : t \in Nat
    BY <1>2, TimesFinite
  <1> QED
    BY <1>1, <1>2, <1>3, <1>4, <1>5, <1>6

LEMMA CommitKeeps ==
  ASSUME MemoryInv, NEW r \in Runs, Commit(r)
  PROVE  MemoryInv'
  <1> DEFINE c == ConvOf(r)
             last == Max(run[r].batch)
  <1>1. /\ c \in Conversations /\ ~conv[c].disabled
        /\ run[r].batch \subseteq Times /\ last \in run[r].batch
        /\ \A t \in run[r].batch :
              /\ t <= last /\ t > conv[c].watermark /\ t > run[r].floor
              /\ \E m \in msgs : m.at = t /\ m.conv = c /\ m.committed
    BY CommitAhead DEF Commit
  <1>2. /\ UNCHANGED <<user, msgs, withdrawal, switching, clock, dropped, exposed>>
        /\ conv' = [conv EXCEPT ![c].watermark = last]
        /\ \A i \in MemoryIds : mem'[i] \in {mem[i], {}, run[r].batch}
        /\ mem' \in [MemoryIds -> SUBSET Times]
        /\ claims' = [t \in Times |-> claims[t] + (IF t \in run[r].batch THEN 1 ELSE 0)]
        /\ run[r].stage = "applied" /\ run' = [run EXCEPT ![r] = IdleRun]
    BY <1>1 DEF Commit, settings, Finish, Step, MemoryInv, TypeOK
  <1>3. /\ \A t \in run[r].batch : t \in Nat /\ t \in Times
        /\ last \in 0..MaxTime /\ last \in Nat
    BY <1>1, TimesFinite DEF Times
  <1>4. /\ conv' \in [Conversations -> [disabled : BOOLEAN, watermark : 0..MaxTime]]
        /\ conv'[c].watermark = last /\ conv'[c].disabled = conv[c].disabled
        /\ \A d \in Conversations : d # c => conv'[d] = conv[d]
    BY <1>1, <1>2, <1>3 DEF MemoryInv, TypeOK
  <1>5. /\ run' \in [Runs -> RunRecord]
        /\ run'[r] = IdleRun /\ \A q \in Runs : q # r => run'[q] = run[q]
    <2>1. IdleRun \in RunRecord
      BY BoundAssumption DEF IdleRun, RunRecord, NoOp, Ops
    <2> QED
      BY <1>2, <2>1, RunsTyped DEF MemoryInv
  <1>6. IdleRun.stage = "idle"
    BY DEF IdleRun
  <1> HIDE DEF c, last
  <1>7. \A d \in Conversations :
           /\ conv[d].watermark \in Nat /\ conv'[d].watermark \in Nat
           /\ conv[d].watermark <= conv'[d].watermark
           /\ conv'[d].disabled = conv[d].disabled
    BY <1>1, <1>3, <1>4, BoundAssumption DEF MemoryInv, TypeOK
  <1>8. \A m \in msgs : m.at \in Nat /\ m.at \in Times /\ m.conv \in Conversations
    BY TimesFinite DEF MemoryInv, TypeOK, Messages
  <1>9. /\ claims \in [Times -> Nat] /\ claims' \in [Times -> Nat]
        /\ \A t \in Times : claims[t] <= claims'[t]
        /\ \A t \in run[r].batch : claims'[t] = claims[t] + 1
        /\ \A t \in Times \ run[r].batch : claims'[t] = claims[t]
    BY <1>1, <1>2 DEF MemoryInv, TypeOK
  \* A message whose stamp is in the batch is of this conversation, and above its watermark.
  <1>10. \A m \in msgs : m.at \in run[r].batch =>
            m.conv = c /\ m.committed /\ m.at > conv[c].watermark /\ m.at <= last
    BY <1>1 DEF MemoryInv, StampsUnique
  <1>11. TypeOK'
    <2>1. \A q \in Runs : run'[q].stage \in Batched => run'[q].batch # {}
      BY <1>5, <1>6 DEF MemoryInv, TypeOK, Batched
    <2> QED
      BY <1>2, <1>4, <1>5, <1>9, <2>1 DEF RunRecord, Batched, MemoryInv, TypeOK
  <1>12. StampsUnique' /\ Withdrawing' /\ LoneWriter'
    BY <1>2, <1>5, <1>6 DEF MemoryInv, StampsUnique, Withdrawing, LoneWriter
  <1>13. NothingAhead'
    <2>1. last <= clock
      BY <1>1 DEF MemoryInv, NothingAhead
    <2> QED
      BY <1>2, <1>4, <2>1 DEF MemoryInv, NothingAhead
  <1>14. OffIsExcluded'
    <2>1. clock \in Nat
      BY BoundAssumption DEF MemoryInv, TypeOK
    <2> QED
      BY <1>2, <1>7, <1>8, <2>1 DEF MemoryInv, OffIsExcluded
  <1>15. Sources' \subseteq Sources \cup run[r].batch
    BY <1>2 DEF Sources
  <1>16. SourcesCommitted'
    BY <1>1, <1>2, <1>15 DEF MemoryInv, SourcesCommitted
  <1>17. SwitchRespected'
    <2> SUFFICES ASSUME NEW m \in msgs, m.at \in run[r].batch, m.at \notin exposed
                 PROVE  ~m.off
      BY <1>2, <1>15 DEF MemoryInv, SwitchRespected
    <2>1. m.conv = c /\ m.at > conv[c].watermark
      BY <1>10
    <2> QED
      BY <1>1, <1>7, <1>8, <2>1 DEF MemoryInv, OffIsExcluded
  <1>18. ExtractedOnce'
    <2> SUFFICES ASSUME NEW t \in run[r].batch, t \notin exposed
                 PROVE  claims[t] = 0
      BY <1>2, <1>3, <1>9 DEF MemoryInv, ExtractedOnce
    <2>1. ASSUME claims[t] > 0 PROVE FALSE
      <3>1. PICK m \in msgs : m.at = t /\ BehindWatermark(m)
        BY <1>3, <2>1 DEF MemoryInv, ClaimedIsBehind
      <3> QED
        BY <1>7, <1>8, <1>10, <3>1 DEF BehindWatermark
    <2> QED
      BY <1>3, <1>9, <2>1
  <1>19. ClaimedIsBehind'
    <2> SUFFICES ASSUME NEW t \in Times, claims'[t] > 0, t \notin exposed
                 PROVE  \E m \in msgs : m.at = t /\ m.committed /\ m.at <= conv'[m.conv].watermark
      BY <1>2 DEF ClaimedIsBehind, BehindWatermark
    <2>1. CASE t \in run[r].batch
      BY <1>1, <1>4, <2>1
    <2>2. CASE t \notin run[r].batch
      <3>1. PICK m \in msgs : m.at = t /\ BehindWatermark(m)
        BY <1>9, <2>2 DEF MemoryInv, ClaimedIsBehind
      <3> QED
        BY <1>7, <1>8, <3>1 DEF BehindWatermark
    <2> QED
      BY <2>1, <2>2
  <1>20. InOrder'
    <2> SUFFICES ASSUME NEW m \in msgs, m.at <= conv'[m.conv].watermark
                 PROVE  Accounted(m)'
      BY <1>2 DEF InOrder
    <2>1. CASE m.at <= conv[m.conv].watermark
      <3>1. Accounted(m)
        BY <2>1 DEF MemoryInv, InOrder
      <3>2. claims[m.at] > 0 => claims'[m.at] > 0
        BY <1>8, <1>9
      <3> QED
        BY <1>2, <3>1, <3>2 DEF Accounted, Considered, Overtaken
    <2>2. CASE ~(m.at <= conv[m.conv].watermark)
      <3>1. m.conv = c /\ m.at <= last /\ m.at > conv[c].watermark
        BY <1>4, <1>7, <1>8, <2>2
      <3>2. PICK n \in msgs : n.at = last /\ n.conv = c /\ n.committed
        BY <1>1
      <3>3. CASE ~m.committed
        <4>1. m # n /\ m.at # n.at
          BY <3>2, <3>3 DEF MemoryInv, StampsUnique
        <4>2. n.at > m.at
          BY <1>8, <3>1, <3>2, <4>1
        <4> QED
          BY <1>2, <3>1, <3>2, <3>3, <4>2 DEF Accounted, Overtaken
      <3>4. CASE m.committed /\ ~m.late /\ m.at \in run[r].batch
        BY <1>8, <1>9, <3>4 DEF Accounted, Considered
      <3>5. CASE m.committed /\ ~m.late /\ m.at \notin run[r].batch
        <4>1. ~Due(r, m)
          BY <1>2, <3>5 DEF MemoryInv, RunRight, BatchRight, Batched
        <4>2. ~(m.at > run[r].floor)
          BY <1>1, <3>1, <3>5, <4>1 DEF Due, c
        <4>3. /\ run[r].floor \in Nat /\ user.since \in Nat
              /\ run[r].watermark = conv[c].watermark
              /\ run[r].floor = run[r].watermark \/ run[r].floor <= user.since
          BY <1>2, RunsTyped, BoundAssumption
             DEF c, MemoryInv, RunRight, FloorRight, ClaimHeld, Reading, RunRecord, TypeOK
        <4>4. m.at <= user.since
          BY <1>8, <3>1, <4>2, <4>3
        <4> QED
          BY <1>2, <4>4 DEF Accounted, Considered
      <3>6. CASE m.committed /\ m.late
        BY <3>6 DEF Accounted
      <3> QED
        BY <3>3, <3>4, <3>5, <3>6
    <2> QED
      BY <2>1, <2>2
  <1>21. \A q \in Runs : RunRight(q)'
    <2>1. RunRight(r)'
      BY <1>5, <1>6 DEF RunRight, FloorRight, BatchRight, ConsentHeld, ClaimHeld, Reading, Batched,
                        SharesConsentLock
    <2>2. ASSUME NEW q \in Runs, q # r PROVE RunRight(q)'
      <3>1. RunRight(q) /\ run'[q] = run[q] /\ user.since \in Nat
        BY <1>5, <2>2, BoundAssumption DEF MemoryInv, TypeOK
      <3>2. run[q].stage = "applied" => conv'[ConvOf(q)] = conv[ConvOf(q)]
        <4>1. run[q].stage = "applied" => ConvOf(q) # c
          BY <1>2, <2>2 DEF MemoryInv, LoneWriter, c
        <4>2. ConvOf(q) \in Conversations
          BY DEF Runs, ConvOf
        <4> QED
          BY <1>4, <4>1, <4>2
      <3> QED
        BY <1>2, <3>1, <3>2, WaitingRunKept DEF RunRight, ConsentHeld, MemoryInv
    <2> QED
      BY <2>1, <2>2
  <1> QED
    BY <1>11, <1>12, <1>13, <1>14, <1>16, <1>17, <1>18, <1>19, <1>20, <1>21 DEF MemoryInv

-----------------------------------------------------------------------------
(* Chat turns *)

\* Facts about types that the steps below start from.
LEMMA Typed ==
  ASSUME TypeOK
  PROVE  /\ clock \in Nat /\ user.since \in Nat /\ user.enabled \in BOOLEAN
         /\ \A c \in Conversations : conv[c].watermark \in Nat
         /\ \A m \in msgs : m \in Messages /\ m.at \in Nat /\ m.conv \in Conversations
         /\ \A s \in Switchers : switching[s].at \in Nat /\ switching[s].seen \in Nat
  <1>1. clock \in Nat /\ user.since \in Nat /\ user.enabled \in BOOLEAN
    BY BoundAssumption DEF TypeOK
  <1>2. \A c \in Conversations : conv[c].watermark \in Nat
    BY BoundAssumption DEF TypeOK
  <1>3. \A m \in Messages : m.at \in Times /\ m.conv \in Conversations
    BY DEF Messages
  <1>4. \A m \in msgs : m \in Messages
    BY DEF TypeOK
  <1>5. ASSUME NEW s \in Switchers PROVE switching[s].at \in Nat /\ switching[s].seen \in Nat
    BY BoundAssumption DEF TypeOK, NoSwitching
  <1> QED
    BY <1>1, <1>2, <1>3, <1>4, <1>5, TimesFinite

LEMMA TickTyped ==
  ASSUME TypeOK, Tick
  PROVE  clock' \in 0..MaxTime /\ clock' \in Times /\ clock' = clock + 1 /\ clock' \in Nat
  BY BoundAssumption DEF TypeOK, Tick, Times

LEMMA StartTurnKeeps ==
  ASSUME MemoryInv, NEW c \in Conversations, StartTurn(c)
  PROVE  MemoryInv'
  <1> DEFINE new == [at |-> clock', conv |-> c, committed |-> FALSE,
                     off |-> conv[c].disabled, optedOut |-> ~user.enabled, late |-> FALSE]
  <1>1. /\ UNCHANGED <<user, conv, mem, run, withdrawal, switching, claims, dropped, exposed>>
        /\ msgs' = msgs \union {new} /\ Tick
    BY DEF StartTurn, settings, history
  <1>2. clock' \in 0..MaxTime /\ clock' \in Times /\ clock' = clock + 1 /\ clock' \in Nat
    BY <1>1, TickTyped DEF MemoryInv
  <1>3. /\ new \in Messages /\ new.at = clock' /\ new.conv = c /\ new.committed = FALSE
        /\ new.off = conv[c].disabled
    BY <1>2, Typed DEF Messages, MemoryInv, TypeOK
  <1> HIDE DEF new
  <1>4. \A m \in msgs : m.at <= clock /\ m.at # clock'
    BY <1>2, Typed DEF MemoryInv, NothingAhead
  <1>5. TypeOK'
    BY <1>1, <1>2, <1>3 DEF MemoryInv, TypeOK
  <1>6. StampsUnique' /\ NothingAhead' /\ Withdrawing'
    <2>1. StampsUnique'
      BY <1>1, <1>3, <1>4 DEF MemoryInv, StampsUnique
    <2>2. NothingAhead'
      BY <1>1, <1>2, <1>3, Typed DEF MemoryInv, NothingAhead
    <2>3. withdrawal.at \in Nat
      BY BoundAssumption DEF MemoryInv, TypeOK
    <2> QED
      BY <1>1, <1>2, <2>1, <2>2, <2>3, Typed DEF MemoryInv, Withdrawing
  <1>7. OffIsExcluded'
    BY <1>1, <1>3 DEF MemoryInv, OffIsExcluded
  <1>8. SourcesCommitted' /\ ClaimedIsBehind'
    BY <1>1 DEF MemoryInv, SourcesCommitted, Sources, ClaimedIsBehind, BehindWatermark
  <1>9. SwitchRespected'
    <2>1. clock' \notin Sources
      BY <1>4 DEF MemoryInv, SourcesCommitted
    <2> QED
      BY <1>1, <1>3, <2>1 DEF MemoryInv, SwitchRespected, Sources
  <1>10. InOrder'
    <2>1. ~(new.at <= conv[new.conv].watermark)
      BY <1>2, <1>3, Typed DEF MemoryInv, NothingAhead
    <2> QED
      BY <1>1, <2>1 DEF MemoryInv, InOrder, Accounted, Considered, Overtaken
  <1>11. ExtractedOnce' /\ LoneWriter'
    BY <1>1 DEF MemoryInv, ExtractedOnce, LoneWriter
  <1>12. ASSUME NEW r \in Runs PROVE RunRight(r)'
    BY <1>1, <1>3, Typed, WaitingRunKept DEF MemoryInv, RunRight, ConsentHeld, Due
  <1> QED
    BY <1>5, <1>6, <1>7, <1>8, <1>9, <1>10, <1>11, <1>12 DEF MemoryInv

LEMMA CommitTurnKeeps ==
  ASSUME MemoryInv, NEW m \in msgs, NEW p \in Processes, CommitTurn(m, p)
  PROVE  MemoryInv'
  <1> DEFINE done == [m EXCEPT !.committed = TRUE, !.late = Overtaken(m)]
             r == <<p, m.conv>>
  <1>1. /\ UNCHANGED <<user, conv, mem, withdrawal, switching, clock, claims, dropped, exposed>>
        /\ msgs' = (msgs \ {m}) \union {done} /\ ~m.committed
        /\ run' = run \/ (run[r].stage = "idle" /\ run' = [run EXCEPT ![r].stage = "scheduled"])
    BY DEF CommitTurn, settings, history
  <1>2. /\ done \in Messages /\ done.at = m.at /\ done.conv = m.conv /\ done.committed
        /\ done.off = m.off /\ done.optedOut = m.optedOut /\ done.late = Overtaken(m)
    <2>1. m \in Messages
      BY DEF MemoryInv, TypeOK
    <2>2. Overtaken(m) \in BOOLEAN
      BY DEF Overtaken
    <2> QED
      BY <2>1, <2>2 DEF Messages
  <1>3. r \in Runs /\ run[r] \in RunRecord
    BY Typed, RunsTyped DEF Runs, MemoryInv
  <1>4. /\ run' \in [Runs -> RunRecord]
        /\ \A q \in Runs : \/ run'[q] = run[q]
                           \/ run'[q].stage = "scheduled"
    <2>1. [run[r] EXCEPT !.stage = "scheduled"] \in RunRecord
      BY <1>3 DEF RunRecord
    <2>2. [run[r] EXCEPT !.stage = "scheduled"].stage = "scheduled"
      BY <1>3 DEF RunRecord
    <2> QED
      BY <1>1, <1>3, <2>1, <2>2, RunsTyped DEF MemoryInv
  <1> HIDE DEF done, r
  <1>5. \A n \in msgs : n # m => n.at # m.at
    BY DEF MemoryInv, StampsUnique
  <1>6. TypeOK'
    <2>1. \A q \in Runs : run'[q].stage \in Batched => run'[q].batch # {}
      BY <1>4 DEF MemoryInv, TypeOK, Batched
    <2> QED
      BY <1>1, <1>2, <1>4, <2>1 DEF MemoryInv, TypeOK, RunRecord, Batched
  <1>7. StampsUnique' /\ NothingAhead' /\ Withdrawing'
    BY <1>1, <1>2, <1>5 DEF MemoryInv, StampsUnique, NothingAhead, Withdrawing
  <1>8. OffIsExcluded' /\ SwitchRespected'
    BY <1>1, <1>2 DEF MemoryInv, OffIsExcluded, SwitchRespected, Sources
  <1>9. SourcesCommitted' /\ ClaimedIsBehind'
    BY <1>1 DEF MemoryInv, SourcesCommitted, Sources, ClaimedIsBehind, BehindWatermark
  <1>10. InOrder'
    <2> SUFFICES ASSUME NEW n \in msgs', n.at <= conv[n.conv].watermark
                 PROVE  Accounted(n)'
      BY <1>1 DEF InOrder
    <2>1. CASE n = done
      <3>1. Accounted(m)
        BY <1>2, <2>1 DEF MemoryInv, InOrder
      <3> QED
        BY <1>1, <1>2, <2>1, <3>1 DEF Accounted, Considered
    <2>2. CASE n # done
      <3>1. n \in msgs /\ Accounted(n)
        BY <1>1, <2>2 DEF MemoryInv, InOrder
      <3> QED
        BY <1>1, <3>1 DEF Accounted, Considered, Overtaken
    <2> QED
      BY <2>1, <2>2
  <1>11. ExtractedOnce' /\ LoneWriter'
    BY <1>1, <1>4 DEF MemoryInv, ExtractedOnce, LoneWriter
  <1>12. ASSUME NEW q \in Runs PROVE RunRight(q)'
    <2>1. CASE run'[q].stage = "scheduled"
      BY <2>1 DEF RunRight, FloorRight, BatchRight, ConsentHeld, ClaimHeld, Reading, Batched,
                  SharesConsentLock
    <2>2. CASE run'[q] = run[q]
      <3>1. ASSUME run[q].stage \in Batched, Due(q, done) PROVE FALSE
        <4>1. PICK t \in run[q].batch : m.at <= t
          BY <1>2, <3>1 DEF Due
        <4>2. PICK n \in msgs : n.at = t /\ n.conv = m.conv /\ n.committed
          BY <1>2, <3>1, <4>1 DEF Due, MemoryInv, RunRight, BatchRight
        <4>3. n.at > m.at
          BY <1>1, <1>5, <4>1, <4>2, Typed DEF MemoryInv
        <4> QED
          BY <1>2, <3>1, <4>2, <4>3 DEF Due, Overtaken
      <3>2. \A n \in msgs' : run[q].stage \in Batched /\ Due(q, n) => n \in msgs
        BY <1>1, <3>1
      <3> QED
        BY <1>1, <2>2, <3>2, Typed, WaitingRunKept DEF MemoryInv, RunRight, ConsentHeld
    <2> QED
      BY <1>4, <2>1, <2>2
  <1> QED
    BY <1>6, <1>7, <1>8, <1>9, <1>10, <1>11, <1>12 DEF MemoryInv

LEMMA AbortTurnKeeps ==
  ASSUME MemoryInv, NEW m \in msgs, AbortTurn(m)
  PROVE  MemoryInv'
  <1>1. /\ UNCHANGED <<user, conv, mem, run, withdrawal, switching, clock, claims, dropped,
                       exposed>>
        /\ msgs' = msgs \ {m} /\ ~m.committed
    BY DEF AbortTurn, settings, history
  <1>2. TypeOK' /\ StampsUnique' /\ NothingAhead' /\ Withdrawing' /\ OffIsExcluded'
    BY <1>1 DEF MemoryInv, TypeOK, StampsUnique, NothingAhead, Withdrawing, OffIsExcluded
  <1>3. SourcesCommitted' /\ ClaimedIsBehind' /\ SwitchRespected'
    BY <1>1 DEF MemoryInv, SourcesCommitted, Sources, ClaimedIsBehind, BehindWatermark,
                SwitchRespected
  <1>4. InOrder' /\ ExtractedOnce' /\ LoneWriter'
    BY <1>1 DEF MemoryInv, InOrder, Accounted, Considered, Overtaken, ExtractedOnce, LoneWriter
  <1>5. ASSUME NEW r \in Runs PROVE RunRight(r)'
    BY <1>1, Typed, WaitingRunKept DEF MemoryInv, RunRight, ConsentHeld
  <1> QED
    BY <1>2, <1>3, <1>4, <1>5 DEF MemoryInv

-----------------------------------------------------------------------------
(* Settings *)

\* Consent only moves forward: older messages stay accounted for.
LEMMA ConsentMoves ==
  ASSUME MemoryInv, user.since <= user'.since, user'.since <= clock', user'.since \in Nat,
         clock <= clock', clock' \in Nat,
         UNCHANGED <<conv, switching, msgs, run, claims, dropped, exposed>>,
         \A i \in MemoryIds : mem'[i] \in {mem[i], {}},
         \A r \in Runs : SharesConsentLock(r) => user'.enabled,
         Withdrawing', TypeOK'
  PROVE  MemoryInv'
  <1>1. StampsUnique' /\ NothingAhead' /\ OffIsExcluded' /\ ClaimedIsBehind'
    BY Typed DEF MemoryInv, StampsUnique, NothingAhead, OffIsExcluded, ClaimedIsBehind,
                 BehindWatermark
  <1>2. Sources' \subseteq Sources
    BY DEF Sources
  <1>3. SourcesCommitted' /\ SwitchRespected'
    BY <1>2 DEF MemoryInv, SourcesCommitted, SwitchRespected
  <1>4. InOrder'
    BY Typed DEF MemoryInv, InOrder, Accounted, Considered, Overtaken
  <1>5. ExtractedOnce' /\ LoneWriter'
    BY DEF MemoryInv, ExtractedOnce, LoneWriter
  <1>6. ASSUME NEW r \in Runs PROVE RunRight(r)'
    BY WaitingRunKept DEF MemoryInv
  <1> QED
    BY <1>1, <1>3, <1>4, <1>5, <1>6 DEF MemoryInv

LEMMA GrantConsentKeeps ==
  ASSUME MemoryInv, GrantConsent
  PROVE  MemoryInv'
  <1>1. /\ UNCHANGED <<conv, msgs, mem, run, withdrawal, switching, claims, dropped, exposed>>
        /\ user' = [enabled |-> TRUE, since |-> clock'] /\ ~user.enabled /\ Tick
    BY DEF GrantConsent, history
  <1>2. clock' \in 0..MaxTime /\ clock' = clock + 1 /\ clock' \in Nat
    BY <1>1, TickTyped DEF MemoryInv
  <1>3. user'.enabled /\ user'.since = clock' /\ user.since <= clock
    BY <1>1 DEF MemoryInv, NothingAhead
  <1>4. TypeOK' /\ Withdrawing'
    BY <1>1, <1>2 DEF MemoryInv, TypeOK, Withdrawing
  <1> QED
    BY <1>1, <1>2, <1>3, <1>4, Typed, ConsentMoves DEF MemoryInv

LEMMA WithdrawDeleteKeeps ==
  ASSUME MemoryInv, WithdrawDelete
  PROVE  MemoryInv'
  <1>1. /\ UNCHANGED <<user, conv, switching, msgs, mem, run, claims, dropped, exposed>>
        /\ Tick /\ user.enabled
        /\ withdrawal' = [stage |-> "deleted", rows |-> Rows, at |-> clock']
    BY DEF WithdrawDelete, history
  <1>2. clock' \in 0..MaxTime /\ clock' = clock + 1 /\ clock' \in Nat
    BY <1>1, TickTyped DEF MemoryInv
  <1>3. user.since <= clock /\ user.since \in Nat /\ clock \in Nat
    BY Typed DEF MemoryInv, NothingAhead
  <1>4. TypeOK' /\ Withdrawing'
    BY <1>1, <1>2, <1>3 DEF MemoryInv, TypeOK, Withdrawing, Rows
  <1> QED
    BY <1>1, <1>2, <1>3, <1>4, ConsentMoves DEF MemoryInv, RunRight, ConsentHeld

LEMMA WithdrawCommitKeeps ==
  ASSUME MemoryInv, WithdrawCommit
  PROVE  MemoryInv'
  <1>1. /\ UNCHANGED <<conv, switching, msgs, run, clock, claims, dropped, exposed>>
        /\ withdrawal.stage = "deleted" /\ \A r \in Runs : ~SharesConsentLock(r)
        /\ user' = [enabled |-> FALSE, since |-> withdrawal.at] /\ withdrawal' = NoWithdrawal
        /\ mem' = [i \in MemoryIds |-> IF i \in withdrawal.rows THEN {} ELSE mem[i]]
    BY DEF WithdrawCommit, history
  <1>2. /\ user.since <= withdrawal.at /\ withdrawal.at <= clock
        /\ withdrawal.at \in 0..MaxTime /\ withdrawal.at \in Nat
    BY <1>1, BoundAssumption DEF MemoryInv, Withdrawing, TypeOK
  <1>3. Withdrawing'
    BY <1>1 DEF Withdrawing, NoWithdrawal
  <1>4. TypeOK'
    BY <1>1, <1>2, BoundAssumption DEF MemoryInv, TypeOK, NoWithdrawal
  <1> QED
    BY <1>1, <1>2, <1>3, <1>4, Typed, ConsentMoves DEF MemoryInv

LEMMA WithdrawFailsKeeps ==
  ASSUME MemoryInv, WithdrawFails
  PROVE  MemoryInv'
  <1>1. /\ UNCHANGED <<user, conv, switching, msgs, mem, run, clock, claims, dropped, exposed>>
        /\ withdrawal' = NoWithdrawal
    BY DEF WithdrawFails, history
  <1>2. TypeOK' /\ Withdrawing'
    BY <1>1, BoundAssumption DEF MemoryInv, TypeOK, NoWithdrawal, Withdrawing
  <1>3. user.since <= clock /\ user.since \in Nat /\ clock \in Nat
    BY Typed DEF MemoryInv, NothingAhead
  <1> QED
    BY <1>1, <1>2, <1>3, ConsentMoves DEF MemoryInv, RunRight, ConsentHeld

LEMMA RemoveMemoryKeeps ==
  ASSUME MemoryInv, NEW i \in MemoryIds, RemoveMemory(i)
  PROVE  MemoryInv'
  <1>1. /\ UNCHANGED <<user, conv, msgs, run, withdrawal, switching, clock, claims, dropped,
                       exposed>>
        /\ mem' = [mem EXCEPT ![i] = {}]
    BY DEF RemoveMemory, settings, history
  <1>2. TypeOK' /\ Withdrawing' /\ \A j \in MemoryIds : mem'[j] \in {mem[j], {}}
    BY <1>1 DEF MemoryInv, TypeOK, Withdrawing
  <1>3. user.since <= clock /\ user.since \in Nat /\ clock \in Nat
    BY Typed DEF MemoryInv, NothingAhead
  <1> QED
    BY <1>1, <1>2, <1>3, ConsentMoves DEF MemoryInv, RunRight, ConsentHeld

\* Nothing the invariant looks at moves but the clock and what is under way.
LEMMA TablesKept ==
  ASSUME MemoryInv, UNCHANGED <<user, conv, msgs, mem, run, claims, dropped, exposed>>,
         TypeOK', NothingAhead', Withdrawing'
  PROVE  MemoryInv'
  <1>1. StampsUnique' /\ OffIsExcluded' /\ SourcesCommitted' /\ ClaimedIsBehind'
    BY DEF MemoryInv, StampsUnique, OffIsExcluded, SourcesCommitted, Sources, ClaimedIsBehind,
           BehindWatermark
  <1>2. InOrder' /\ SwitchRespected' /\ ExtractedOnce' /\ LoneWriter'
    BY DEF MemoryInv, InOrder, Accounted, Considered, Overtaken, SwitchRespected, Sources,
           ExtractedOnce, LoneWriter
  <1>3. ASSUME NEW r \in Runs PROVE RunRight(r)'
    BY Typed, WaitingRunKept DEF MemoryInv, RunRight, ConsentHeld
  <1> QED
    BY <1>1, <1>2, <1>3 DEF MemoryInv

\* A request to flip a switch only notes what it has read, and for a release the
\* time: nothing it will write yet.
LEMMA RequestSwitchKeeps ==
  ASSUME MemoryInv, NEW s \in Switchers, NEW c \in Conversations, NEW disable \in BOOLEAN,
         RequestSwitch(s, c, disable)
  PROVE  MemoryInv'
  <1> DEFINE at == IF disable THEN 0 ELSE clock'
             flip == [conv |-> c, disable |-> disable, seen |-> conv[c].watermark, at |-> at]
  <1>1. /\ UNCHANGED <<user, withdrawal, conv, msgs, mem, run, claims, dropped, exposed>>
        /\ clock' = clock \/ Tick
        /\ ~disable => Tick
        /\ switching' = [switching EXCEPT ![s] = flip]
    BY DEF RequestSwitch, history, ReleasedWatermark
  <1>2. clock \in 0..MaxTime /\ clock \in Nat /\ conv[c].watermark \in 0..MaxTime
    BY BoundAssumption DEF MemoryInv, TypeOK
  <1>3. /\ clock' \in 0..MaxTime /\ clock' \in Nat /\ clock <= clock'
        /\ ~disable => clock' = clock + 1
    BY <1>1, <1>2, TickTyped DEF MemoryInv
  <1>4. /\ at \in 0..MaxTime /\ at \in Nat /\ at <= clock'
        /\ disable \/ conv[c].watermark <= at
    BY <1>2, <1>3, BoundAssumption DEF MemoryInv, NothingAhead
  <1> HIDE DEF at
  <1>5. flip \in [conv : Conversations, disable : BOOLEAN, at : 0..MaxTime, seen : 0..MaxTime]
    BY <1>2, <1>4
  <1>6. flip.at = at /\ flip.disable = disable /\ flip.seen = conv[c].watermark
    OBVIOUS
  <1> HIDE DEF flip
  <1>7. TypeOK'
    BY <1>1, <1>3, <1>5 DEF MemoryInv, TypeOK
  <1>8. \A q \in Switchers : switching'[q] = IF q = s THEN flip ELSE switching[q]
    BY <1>1 DEF MemoryInv, TypeOK
  <1>9. NothingAhead' /\ Withdrawing'
    <2>1. withdrawal.at \in Nat
      BY BoundAssumption DEF MemoryInv, TypeOK
    <2>2. Withdrawing'
      BY <1>1, <1>2, <1>3, <2>1 DEF MemoryInv, Withdrawing
    <2>3. ASSUME NEW q \in Switchers
          PROVE  /\ switching'[q].at <= clock'
                 /\ switching'[q].disable \/ switching'[q].seen <= switching'[q].at
      BY <1>2, <1>3, <1>4, <1>6, <1>8, Typed DEF MemoryInv, NothingAhead
    <2>4. user'.since <= clock' /\ \A m \in msgs' : m.at <= clock'
      BY <1>1, <1>2, <1>3, Typed DEF MemoryInv, NothingAhead
    <2>5. \A d \in Conversations : conv'[d].watermark <= clock'
      BY <1>1, <1>2, <1>3, Typed DEF MemoryInv, NothingAhead
    <2> QED
      BY <2>2, <2>3, <2>4, <2>5 DEF NothingAhead
  <1> QED
    BY <1>1, <1>7, <1>9, TablesKept

\* A request that fails leaves everything as it was.
LEMMA SwitchFailsKeeps ==
  ASSUME MemoryInv, NEW s \in Switchers, SwitchFails(s)
  PROVE  MemoryInv'
  <1>1. /\ UNCHANGED <<user, withdrawal, conv, msgs, mem, run, clock, claims, dropped, exposed>>
        /\ switching' = [switching EXCEPT ![s] = NoSwitching]
    BY DEF SwitchFails, history
  <1>2. TypeOK' /\ Withdrawing'
    BY <1>1 DEF MemoryInv, TypeOK, Withdrawing
  <1>3. NothingAhead'
    <2>1. clock \in Nat /\ NoSwitching.at = 0 /\ NoSwitching.seen = 0
      BY Typed DEF MemoryInv, NoSwitching
    <2>2. \A q \in Switchers : switching'[q] = IF q = s THEN NoSwitching ELSE switching[q]
      BY <1>1 DEF MemoryInv, TypeOK
    <2> QED
      BY <1>1, <2>1, <2>2 DEF MemoryInv, NothingAhead
  <1> QED
    BY <1>1, <1>2, <1>3, TablesKept

\* What the commit of a request writes: the switch of its conversation, and for a
\* release the watermark it took.
LEMMA SwitchedRow ==
  ASSUME TypeOK, NEW s \in Switchers, CommitSwitch(s)
  PROVE  LET c == switching[s].conv IN
         /\ c \in Conversations /\ ConversationFree(c)
         /\ switching[s].disable \in BOOLEAN /\ switching[s].at \in 0..MaxTime
         /\ conv' \in [Conversations -> [disabled : BOOLEAN, watermark : 0..MaxTime]]
         /\ conv'[c].disabled = switching[s].disable
         /\ conv'[c].watermark = IF switching[s].disable THEN conv[c].watermark
                                                         ELSE switching[s].at
         /\ \A d \in Conversations : d # c => conv'[d] = conv[d]
         /\ \A d \in Conversations :
               \/ conv'[d].watermark = conv[d].watermark
               \/ d = c /\ ~switching[s].disable /\ conv'[d].watermark = switching[s].at
         /\ switching[s].disable => UNCHANGED <<dropped, exposed>>
         /\ ~switching[s].disable => /\ dropped' = dropped \union SaidUntil(c, switching[s].at)
                                     /\ exposed' = exposed \union SaidSince(c, switching[s].at)
  <1> DEFINE K == [disabled : BOOLEAN, watermark : 0..MaxTime]
             c == switching[s].conv
             at == switching[s].at
             disable == switching[s].disable
             mark == IF disable THEN conv[c].watermark ELSE at
             row == [disabled |-> disable, watermark |-> mark]
  <1>1. /\ switching[s] # NoSwitching /\ ConversationFree(c)
        /\ disable => /\ conv' = [conv EXCEPT ![c].disabled = TRUE]
                      /\ UNCHANGED <<dropped, exposed>>
        /\ ~disable => /\ conv' = [conv EXCEPT ![c].disabled = FALSE, ![c].watermark = at]
                       /\ dropped' = dropped \union SaidUntil(c, at)
                       /\ exposed' = exposed \union SaidSince(c, at)
    BY DEF CommitSwitch
  <1>2. c \in Conversations /\ disable \in BOOLEAN /\ at \in 0..MaxTime
    BY <1>1 DEF TypeOK
  <1> HIDE DEF c, at, disable
  <1>3. conv \in [Conversations -> K] /\ conv[c] \in K
    BY <1>2 DEF TypeOK
  <1>4. mark \in 0..MaxTime
    BY <1>2, <1>3
  <1>5. row \in K /\ row.disabled = disable /\ row.watermark = mark
    BY <1>2, <1>4
  <1>6. conv' = [conv EXCEPT ![c] = row]
    BY <1>1, <1>2, <1>3
  <1> HIDE DEF mark, row, K
  <1>7. /\ conv' \in [Conversations -> K] /\ conv'[c] = row
        /\ \A d \in Conversations : d # c => conv'[d] = conv[d]
    BY <1>2, <1>3, <1>5, <1>6
  <1>8. \A d \in Conversations :
           \/ conv'[d].watermark = conv[d].watermark
           \/ d = c /\ ~disable /\ conv'[d].watermark = at
    BY <1>2, <1>5, <1>7 DEF mark
  <1> QED
    BY <1>1, <1>2, <1>5, <1>7, <1>8 DEF K, mark, c, at, disable

\* A commit of a switch waits for an open write transaction of its conversation.
\* After a release what was said until its watermark is dropped, and the rest was
\* said while the release was under way.
LEMMA CommitSwitchKeeps ==
  ASSUME MemoryInv, NEW s \in Switchers, CommitSwitch(s)
  PROVE  MemoryInv'
  <1> DEFINE c == switching[s].conv
             at == switching[s].at
             disable == switching[s].disable
  <1>1. /\ UNCHANGED <<user, withdrawal, msgs, mem, run, clock, claims>>
        /\ switching' = [switching EXCEPT ![s] = NoSwitching]
    BY DEF CommitSwitch
  <1>2. /\ c \in Conversations /\ ConversationFree(c) /\ disable \in BOOLEAN
        /\ at \in 0..MaxTime /\ at \in Nat
        /\ conv' \in [Conversations -> [disabled : BOOLEAN, watermark : 0..MaxTime]]
        /\ conv'[c].disabled = disable
        /\ conv'[c].watermark = IF disable THEN conv[c].watermark ELSE at
        /\ \A d \in Conversations : d # c => conv'[d] = conv[d]
        /\ disable => UNCHANGED <<dropped, exposed>>
        /\ ~disable => /\ dropped' = dropped \union SaidUntil(c, at)
                       /\ exposed' = exposed \union SaidSince(c, at)
    BY SwitchedRow, BoundAssumption DEF MemoryInv
  <1>3. at <= clock
    BY DEF MemoryInv, NothingAhead
  <1> HIDE DEF c, at, disable
  <1>4. /\ \A m \in msgs : m.at \in Nat /\ m.at \in Times /\ m.conv \in Conversations
        /\ clock \in Nat
        /\ \A d \in Conversations : conv[d].watermark \in Nat /\ conv'[d].watermark \in Nat
    BY <1>2, Typed, BoundAssumption DEF MemoryInv, Messages
  <1>5. /\ \A m \in msgs : m.conv = c /\ ~disable => IF m.at <= at THEN m.at \in dropped'
                                                                 ELSE m.at \in exposed'
        /\ dropped \subseteq dropped' /\ dropped' \subseteq Times
        /\ exposed \subseteq exposed' /\ exposed' \subseteq Times
    <2>1. \A m \in msgs : m.conv = c => IF m.at <= at THEN m.at \in SaidUntil(c, at)
                                                      ELSE m.at \in SaidSince(c, at)
      BY <1>2, <1>4 DEF SaidUntil, SaidSince
    <2>2. SaidUntil(c, at) \subseteq Times /\ SaidSince(c, at) \subseteq Times
      BY <1>4 DEF SaidUntil, SaidSince
    <2> QED
      BY <1>2, <2>1, <2>2 DEF MemoryInv, TypeOK
  <1>6. TypeOK'
    BY <1>1, <1>2, <1>5 DEF MemoryInv, TypeOK
  <1>7. StampsUnique' /\ NothingAhead' /\ Withdrawing'
    <2>1. StampsUnique' /\ Withdrawing'
      BY <1>1 DEF MemoryInv, StampsUnique, Withdrawing
    <2>2. \A q \in Switchers : switching'[q] = IF q = s THEN NoSwitching ELSE switching[q]
      BY <1>1 DEF MemoryInv, TypeOK
    <2>3. NoSwitching.at = 0 /\ NoSwitching.seen = 0 /\ 0 <= clock
      BY <1>4 DEF NoSwitching
    <2>4. \A d \in Conversations : conv'[d].watermark <= clock
      BY <1>2, <1>3 DEF MemoryInv, NothingAhead
    <2> QED
      BY <1>1, <2>1, <2>2, <2>3, <2>4 DEF MemoryInv, NothingAhead
  <1>8. OffIsExcluded'
    <2> SUFFICES ASSUME NEW m \in msgs, m.off
                 PROVE  \/ conv'[m.conv].disabled \/ m.at <= conv'[m.conv].watermark
                        \/ m.at \in exposed'
      BY <1>1 DEF OffIsExcluded
    <2>1. CASE m.conv = c
      BY <1>2, <1>5, <2>1
    <2>2. CASE m.conv # c
      BY <1>2, <1>4, <1>5, <2>2 DEF MemoryInv, OffIsExcluded
    <2> QED
      BY <2>1, <2>2
  <1>9. SourcesCommitted' /\ SwitchRespected' /\ ExtractedOnce' /\ LoneWriter'
    BY <1>1, <1>5 DEF MemoryInv, SourcesCommitted, SwitchRespected, Sources, ExtractedOnce,
                      LoneWriter
  <1>10. ClaimedIsBehind'
    <2> SUFFICES ASSUME NEW t \in Times, claims[t] > 0, t \notin exposed'
                 PROVE  \E m \in msgs : m.at = t /\ m.committed /\ m.at <= conv'[m.conv].watermark
      BY <1>1 DEF ClaimedIsBehind, BehindWatermark
    <2>1. PICK m \in msgs : m.at = t /\ BehindWatermark(m)
      BY <1>5 DEF MemoryInv, ClaimedIsBehind
    <2>2. m.at <= conv'[m.conv].watermark
      BY <1>2, <1>4, <1>5, <2>1 DEF BehindWatermark
    <2> QED
      BY <2>1, <2>2 DEF BehindWatermark
  <1>11. InOrder'
    <2> SUFFICES ASSUME NEW m \in msgs, m.at <= conv'[m.conv].watermark
                 PROVE  Accounted(m)'
      BY <1>1 DEF InOrder
    <2>1. CASE m.conv = c /\ ~disable
      BY <1>1, <1>2, <1>5, <2>1 DEF Accounted, Considered
    <2>2. CASE ~(m.conv = c /\ ~disable)
      <3>1. Accounted(m)
        BY <1>2, <1>4, <2>2 DEF MemoryInv, InOrder
      <3> QED
        BY <1>1, <1>5, <3>1 DEF Accounted, Considered, Overtaken
    <2> QED
      BY <2>1, <2>2
  <1>12. ASSUME NEW r \in Runs PROVE RunRight(r)'
    <2>1. run[r].stage = "applied" => ConvOf(r) # c
      BY <1>2 DEF ConversationFree
    <2>2. ConvOf(r) \in Conversations
      BY DEF Runs, ConvOf
    <2> QED
      BY <1>1, <1>2, <2>1, <2>2, Typed, WaitingRunKept DEF MemoryInv, RunRight, ConsentHeld
  <1> QED
    BY <1>6, <1>7, <1>8, <1>9, <1>10, <1>11, <1>12 DEF MemoryInv

-----------------------------------------------------------------------------
LEMMA MemoryStart == Init => MemoryInv
  <1> SUFFICES ASSUME Init PROVE MemoryInv
    OBVIOUS
  <1> USE DEF Init
  <1>1. IdleRun \in RunRecord /\ IdleRun.stage = "idle" /\ IdleRun.batch = {}
    BY BoundAssumption DEF IdleRun, RunRecord, NoOp, Ops
  <1>2. \A r \in Runs : run[r] \in RunRecord /\ run[r].stage = "idle"
    BY <1>1
  <1>3. TypeOK
    BY <1>1, <1>2, BoundAssumption DEF TypeOK, RunRecord, NoWithdrawal, NoSwitching
  <1>4. /\ StampsUnique /\ NothingAhead /\ OffIsExcluded /\ InOrder /\ SwitchRespected
        /\ Withdrawing
    BY DEF StampsUnique, NothingAhead, OffIsExcluded, InOrder, SwitchRespected, Withdrawing,
           NoWithdrawal, NoSwitching
  <1>5. SourcesCommitted /\ ClaimedIsBehind /\ ExtractedOnce
    BY DEF SourcesCommitted, Sources, ClaimedIsBehind, ExtractedOnce
  <1>6. LoneWriter /\ \A r \in Runs : RunRight(r)
    BY <1>2 DEF LoneWriter, RunRight, FloorRight, BatchRight, ConsentHeld, ClaimHeld, Reading,
                Batched, SharesConsentLock
  <1> QED
    BY <1>3, <1>4, <1>5, <1>6 DEF MemoryInv

LEMMA RunKeeps ==
  ASSUME MemoryInv, NEW r \in Runs, Extract(r) \/ RunFails(r)
  PROVE  MemoryInv'
  <1>1. CASE ClaimLost(r) \/ RunFails(r)
    BY <1>1, FinishKeeps DEF ClaimLost, GiveUpClaim, RunFails, settings, history
  <1> QED
    BY <1>1, ReadFlagsKeeps, ReadPendingKeeps, ProposeKeeps, LockConsentKeeps, ClaimKeeps,
       CommitKeeps DEF Extract

LEMMA MemoryStep ==
  ASSUME MemoryInv, [Next]_vars
  PROVE  MemoryInv'
  <1>1. CASE UNCHANGED vars
    <2>1. UNCHANGED <<user, conv, msgs, mem, run, withdrawal, switching, clock, claims,
                      dropped, exposed>>
      BY <1>1 DEF vars
    <2>2. TypeOK' /\ Withdrawing'
      BY <2>1 DEF MemoryInv, TypeOK, Withdrawing
    <2>3. user.since <= clock /\ user.since \in Nat /\ clock \in Nat
      BY Typed DEF MemoryInv, NothingAhead
    <2> QED
      BY <2>1, <2>2, <2>3, ConsentMoves DEF MemoryInv, RunRight, ConsentHeld
  <1>2. CASE Next
    BY <1>2, StartTurnKeeps, CommitTurnKeeps, AbortTurnKeeps, RunKeeps, GrantConsentKeeps,
       WithdrawDeleteKeeps, WithdrawCommitKeeps, WithdrawFailsKeeps, RequestSwitchKeeps,
       CommitSwitchKeeps, SwitchFailsKeeps, RemoveMemoryKeeps DEF Next
  <1> QED
    BY <1>1, <1>2

\* However runs, turns, the switch and consent interleave, in any number of
\* processes: no message is extracted twice (claim_memory_extraction), none of a
\* time the switch was on (set_memory_disabled), and none is skipped that did not
\* commit after a later one (memory_extracted_through_created_at).
THEOREM MessagesAreReadOnce == Spec => []ReadOnceAndAllowed
  <1>1. MemoryInv => ReadOnceAndAllowed
    <2> SUFFICES ASSUME MemoryInv PROVE ConsideredInOrder
      BY DEF MemoryInv, ReadOnceAndAllowed
    <2> QED
      BY DEF MemoryInv, ConsideredInOrder, InOrder, Accounted, BehindWatermark
  <1> QED
    BY <1>1, MemoryStart, MemoryStep, PTL DEF Spec

-----------------------------------------------------------------------------
\* Memories appear and change only with an extraction's commit.
LEMMA WritesAreCommits ==
  ASSUME MemoryInv, [Next]_vars
  PROVE  \/ \E r \in Runs : Commit(r)
         \/ \A i \in MemoryIds : mem'[i] \in {mem[i], {}}
  <1>1. ASSUME NEW r \in Runs, Extract(r) \/ RunFails(r), ~Commit(r) PROVE UNCHANGED mem
    BY <1>1 DEF Extract, RunFails, ReadFlags, ReadPending, Propose, LockConsent, ClaimLost, Apply,
                Deadlock
  <1>2. ASSUME NEW c \in Conversations, StartTurn(c) PROVE UNCHANGED mem
    BY <1>2 DEF StartTurn
  <1>3. ASSUME NEW m \in msgs, (\E p \in Processes : CommitTurn(m, p)) \/ AbortTurn(m)
        PROVE  UNCHANGED mem
    BY <1>3 DEF CommitTurn, AbortTurn
  <1>4. ASSUME GrantConsent \/ WithdrawDelete \/ WithdrawFails PROVE UNCHANGED mem
    BY <1>4 DEF GrantConsent, WithdrawDelete, WithdrawFails
  <1>5. ASSUME WithdrawCommit PROVE \A i \in MemoryIds : mem'[i] \in {mem[i], {}}
    BY <1>5 DEF WithdrawCommit
  <1>6. ASSUME NEW s \in Switchers,
               \/ \E c \in Conversations, b \in BOOLEAN : RequestSwitch(s, c, b)
               \/ CommitSwitch(s) \/ SwitchFails(s)
        PROVE  UNCHANGED mem
    BY <1>6 DEF RequestSwitch, CommitSwitch, SwitchFails
  <1>7. ASSUME NEW i \in MemoryIds, RemoveMemory(i)
        PROVE  \A j \in MemoryIds : mem'[j] \in {mem[j], {}}
    BY <1>7 DEF RemoveMemory, MemoryInv, TypeOK
  <1>8. ASSUME UNCHANGED vars PROVE UNCHANGED mem
    BY <1>8 DEF vars
  <1> QED
    BY <1>1, <1>2, <1>3, <1>4, <1>5, <1>6, <1>7, <1>8 DEF Next

\* Watermarks move with an extraction's commit or the release of a switch.
LEMMA WatermarksMove ==
  ASSUME MemoryInv, [Next]_vars
  PROVE  \/ \E r \in Runs : Commit(r)
         \/ \E s \in Switchers : CommitSwitch(s)
         \/ UNCHANGED conv
  <1>1. ASSUME NEW r \in Runs, Extract(r) \/ RunFails(r), ~Commit(r) PROVE UNCHANGED conv
    BY <1>1 DEF Extract, RunFails, ReadFlags, ReadPending, Propose, LockConsent, ClaimLost, Apply,
                Deadlock
  <1>2. ASSUME NEW c \in Conversations, StartTurn(c) PROVE UNCHANGED conv
    BY <1>2 DEF StartTurn
  <1>3. ASSUME NEW m \in msgs, (\E p \in Processes : CommitTurn(m, p)) \/ AbortTurn(m)
        PROVE  UNCHANGED conv
    BY <1>3 DEF CommitTurn, AbortTurn
  <1>4. ASSUME GrantConsent \/ WithdrawDelete \/ WithdrawFails \/ WithdrawCommit
        PROVE  UNCHANGED conv
    BY <1>4 DEF GrantConsent, WithdrawDelete, WithdrawFails, WithdrawCommit
  <1>5. ASSUME NEW i \in MemoryIds, RemoveMemory(i) PROVE UNCHANGED conv
    BY <1>5 DEF RemoveMemory
  <1>6. ASSUME UNCHANGED vars PROVE UNCHANGED conv
    BY <1>6 DEF vars
  <1>7. ASSUME NEW s \in Switchers,
               (\E c \in Conversations, b \in BOOLEAN : RequestSwitch(s, c, b)) \/ SwitchFails(s)
        PROVE  UNCHANGED conv
    BY <1>7 DEF RequestSwitch, SwitchFails
  <1> QED
    BY <1>1, <1>2, <1>3, <1>4, <1>5, <1>6, <1>7 DEF Next

\* A memory is written only under consent that a run holds locked
\* (lock_memory_consent), and no step makes claimed messages pending again.
THEOREM ConsentIsKept == Spec => ConsentKept
  <1>1. MemoryInv /\ [Next]_vars => WrittenUnderConsent /\ WatermarkAdvances
    <2> SUFFICES ASSUME MemoryInv, [Next]_vars PROVE WrittenUnderConsent /\ WatermarkAdvances
      OBVIOUS
    <2>1. ASSUME NEW r \in Runs, Commit(r) PROVE user.enabled /\ WatermarkAdvances
      <3> DEFINE c == ConvOf(r)
                 last == Max(run[r].batch)
      <3>1. /\ c \in Conversations /\ user.enabled /\ last \in run[r].batch
            /\ run[r].batch \subseteq Times /\ last > conv[c].watermark
        BY <2>1, CommitAhead DEF Commit
      <3>2. conv' = [conv EXCEPT ![c].watermark = last]
        BY <2>1 DEF Commit
      <3> HIDE DEF c, last
      <3>3. last \in Nat
        BY <3>1, TimesFinite
      <3>4. \A d \in Conversations :
               conv'[d].watermark = IF d = c THEN last ELSE conv[d].watermark
        BY <3>1, <3>2 DEF MemoryInv, TypeOK
      <3> QED
        BY <3>1, <3>3, <3>4, Typed DEF WatermarkAdvances, MemoryInv
    <2>2. WrittenUnderConsent
      BY <2>1, WritesAreCommits DEF WrittenUnderConsent
    <2>3. ASSUME NEW s \in Switchers, CommitSwitch(s) PROVE WatermarkAdvances
      <3> DEFINE c == switching[s].conv
                 at == switching[s].at
      <3>1. /\ c \in Conversations
            /\ \A d \in Conversations :
                  \/ conv'[d].watermark = conv[d].watermark
                  \/ d = c /\ ~switching[s].disable /\ conv'[d].watermark = at
        BY <2>3, SwitchedRow DEF MemoryInv
      <3>2. switching[s].disable \/ switching[s].seen <= at
        BY DEF MemoryInv, NothingAhead
      <3>3. at \in Nat /\ switching[s].seen \in Nat
        BY Typed DEF MemoryInv
      <3> HIDE DEF at
      <3>4. ASSUME NEW d \in Conversations, d = c, ~switching[s].disable, conv'[d].watermark = at
            PROVE  conv'[d].watermark >= conv[d].watermark \/ StaleRelease(s, d)
        BY <3>2, <3>3, <3>4 DEF StaleRelease
      <3> QED
        BY <3>1, <3>4, Typed DEF WatermarkAdvances, MemoryInv, at
    <2>4. ASSUME UNCHANGED conv PROVE WatermarkAdvances
      BY <2>4, Typed DEF WatermarkAdvances, MemoryInv
    <2> QED
      BY <2>1, <2>2, <2>3, <2>4, WatermarksMove
  <1>2. MemoryInv /\ [Next]_vars => [WrittenUnderConsent /\ WatermarkAdvances]_vars
    BY <1>1
  <1> QED
    BY <1>2, MemoryStart, MemoryStep, PTL DEF Spec, ConsentKept

(***************************************************************************)
(* SavedMemories.  A step of a transaction either changes its mind, or     *)
(* writes one row, or ends it; each part of the invariant is shown to      *)
(* survive these three, and what the user and the clock do.                *)
(***************************************************************************)

-----------------------------------------------------------------------------
(* Types *)

OpPCs == {"touch", "insert", "update", "rekey", "delete"}
PCs == {"idle", "writing", "touching"} \cup OpPCs
Cells == {c \in SUBSET RowType : \A r, s \in c : r = s}
OwnMaps == UNION {[D -> Cells] : D \in SUBSET Ids}
OpType == [id : Nat, content : SUBSET Contents, at : Nat]
TxRecord == [pc : PCs, own : OwnMaps, known : SUBSET Ids, todo : SUBSET Ids, ops : Nat,
             op : OpType, audit : Int]

RowsTyped ==
    /\ team \in Teams /\ today \in 0 .. MaxDay /\ rows \in [Ids -> Cells]
    /\ tx \in [team -> TxRecord] /\ audit \in Int
    /\ hist \in [gone : SUBSET Ids, revived : SUBSET Ids]

\* Constants, as the proofs use them.
LEMMA Bounds ==
  /\ MaxIds \in Nat /\ MaxDay \in Nat /\ Limit \in Nat /\ Retention \in Nat
  /\ \A T \in Teams : T \subseteq Txs /\ IsFiniteSet(T) /\ BatchSize[T] \in Nat
  /\ Ids \subseteq Nat \ {0} /\ IsFiniteSet(Ids)
  <1>1. /\ MaxIds \in Nat /\ MaxDay \in Nat /\ Limit \in Nat /\ Retention \in Nat
    BY SavedAssumption
  <1>2. \A T \in Teams : T \subseteq Txs /\ IsFiniteSet(T) /\ BatchSize[T] \in Nat
    BY SavedAssumption DEF Txs
  <1>3. Ids \subseteq Nat \ {0} /\ IsFiniteSet(Ids)
    BY <1>1, FS_Interval DEF Ids
  <1> QED
    BY <1>1, <1>2, <1>3

LEMMA NoIdZero == 0 \notin Ids
  BY Bounds

-----------------------------------------------------------------------------
(* A row that may be missing is a set of at most one *)

Alive(c) == \E r \in c : r.until > today
Says(c, content) == \E r \in c : r.content = content

LEMMA CellRow ==
  ASSUME NEW V \in [Ids -> Cells], NEW i \in Ids, V[i] # {}
  PROVE  Row(V, i) \in V[i] /\ V[i] = {Row(V, i)} /\ Row(V, i) \in RowType
  <1>1. Row(V, i) \in V[i]
    BY DEF Row
  <1>2. V[i] \in Cells
    OBVIOUS
  <1> QED
    BY <1>1, <1>2 DEF Cells

LEMMA CellSets ==
  ASSUME NEW V \in [Ids -> Cells], today \in Nat
  PROVE  /\ Existing(V) = {i \in Ids : V[i] # {}}
         /\ VisibleIn(V) = {i \in Ids : Alive(V[i])}
         /\ Expired(V) = {i \in Ids : V[i] # {} /\ ~Alive(V[i])}
         /\ \A c : WithContent(V, c) = {i \in Ids : Says(V[i], c)}
  <1>1. ASSUME NEW i \in Ids, V[i] # {}
        PROVE  /\ Alive(V[i]) <=> ~(Row(V, i).until <= today)
               /\ \A c : Says(V[i], c) <=> Row(V, i).content = c
    <2>1. Row(V, i) \in V[i] /\ V[i] = {Row(V, i)} /\ Row(V, i) \in RowType
      BY <1>1, CellRow
    <2>2. Row(V, i).until \in Nat
      BY <2>1 DEF RowType
    <2>3. Alive(V[i]) <=> Row(V, i).until > today
      BY <2>1 DEF Alive
    <2> QED
      BY <2>1, <2>2, <2>3 DEF Says
  <1>2. \A i \in Ids : V[i] = {} => ~Alive(V[i]) /\ \A c : ~Says(V[i], c)
    BY DEF Alive, Says
  <1>3. Existing(V) = {i \in Ids : V[i] # {}}
    BY DEF Existing
  <1>4. Expired(V) = {i \in Ids : V[i] # {} /\ ~Alive(V[i])}
    BY <1>1, <1>3 DEF Expired
  <1>5. VisibleIn(V) = {i \in Ids : Alive(V[i])}
    BY <1>2, <1>3, <1>4 DEF VisibleIn
  <1>6. \A c : WithContent(V, c) = {i \in Ids : Says(V[i], c)}
    BY <1>1, <1>2, <1>3 DEF WithContent
  <1> QED
    BY <1>3, <1>4, <1>5, <1>6

-----------------------------------------------------------------------------
(* A transaction's record *)

Begun(q, pc, op) == [q EXCEPT !.pc = pc, !.op = op]
Refused(q) == [q EXCEPT !.ops = @ + 1]
Rekeying(q) == [q EXCEPT !.pc = "rekey"]
Wrote(q, i, c) ==
    [q EXCEPT !.own = [j \in DOMAIN q.own \cup {i} |-> IF j = i THEN c ELSE q.own[j]]]
OneMore(q) == [q EXCEPT !.audit = @ + 1]
OneLess(q) == [q EXCEPT !.audit = @ - 1]
Passed(q, i) == [q EXCEPT !.todo = @ \ {i}]

LEMMA BegunIs ==
  ASSUME NEW q \in TxRecord, NEW pc \in PCs, NEW op \in OpType
  PROVE  /\ Begun(q, pc, op) \in TxRecord
         /\ Begun(q, pc, op).pc = pc /\ Begun(q, pc, op).op = op
         /\ Begun(q, pc, op).own = q.own /\ Begun(q, pc, op).known = q.known
         /\ Begun(q, pc, op).todo = q.todo /\ Begun(q, pc, op).ops = q.ops
         /\ Begun(q, pc, op).audit = q.audit
  BY DEF Begun, TxRecord

LEMMA RefusedIs ==
  ASSUME NEW q \in TxRecord
  PROVE  /\ Refused(q) \in TxRecord /\ Refused(q).ops = q.ops + 1
         /\ Refused(q).pc = q.pc /\ Refused(q).op = q.op
         /\ Refused(q).own = q.own /\ Refused(q).known = q.known
         /\ Refused(q).todo = q.todo /\ Refused(q).audit = q.audit
  BY DEF Refused, TxRecord

LEMMA RekeyingIs ==
  ASSUME NEW q \in TxRecord
  PROVE  /\ Rekeying(q) \in TxRecord /\ Rekeying(q).pc = "rekey"
         /\ Rekeying(q).ops = q.ops /\ Rekeying(q).op = q.op
         /\ Rekeying(q).own = q.own /\ Rekeying(q).known = q.known
         /\ Rekeying(q).todo = q.todo /\ Rekeying(q).audit = q.audit
  BY DEF Rekeying, TxRecord, PCs, OpPCs

LEMMA NoOpTyped == NoOperation \in OpType /\ NoOperation.id = 0
  BY DEF NoOperation, OpType

LEMMA DoneIs ==
  ASSUME NEW q \in TxRecord
  PROVE  /\ OpDone(q) \in TxRecord /\ OpDone(q).pc = "writing"
         /\ OpDone(q).ops = q.ops + 1 /\ OpDone(q).op = NoOperation
         /\ OpDone(q).own = q.own /\ OpDone(q).known = q.known
         /\ OpDone(q).todo = q.todo /\ OpDone(q).audit = q.audit
  <1>1. q.ops + 1 \in Nat /\ NoOperation \in OpType /\ "writing" \in PCs
    BY NoOpTyped DEF TxRecord, PCs
  <1> DEFINE n == q.ops + 1
  <1>2. OpDone(q) = [q EXCEPT !.pc = "writing", !.ops = n, !.op = NoOperation]
    BY DEF OpDone
  <1> HIDE DEF n
  <1>3. /\ OpDone(q) \in TxRecord /\ OpDone(q).pc = "writing"
        /\ OpDone(q).ops = n /\ OpDone(q).op = NoOperation
        /\ OpDone(q).own = q.own /\ OpDone(q).known = q.known
        /\ OpDone(q).todo = q.todo /\ OpDone(q).audit = q.audit
    BY <1>1, <1>2 DEF n, TxRecord
  <1> QED
    BY <1>3 DEF n

LEMMA OneMoreIs ==
  ASSUME NEW q \in TxRecord
  PROVE  /\ OneMore(q) \in TxRecord /\ OneMore(q).audit = q.audit + 1
         /\ OneMore(q).pc = q.pc /\ OneMore(q).op = q.op
         /\ OneMore(q).own = q.own /\ OneMore(q).known = q.known
         /\ OneMore(q).todo = q.todo /\ OneMore(q).ops = q.ops
  BY DEF OneMore, TxRecord

LEMMA OneLessIs ==
  ASSUME NEW q \in TxRecord
  PROVE  /\ OneLess(q) \in TxRecord /\ OneLess(q).audit = q.audit - 1
         /\ OneLess(q).pc = q.pc /\ OneLess(q).op = q.op
         /\ OneLess(q).own = q.own /\ OneLess(q).known = q.known
         /\ OneLess(q).todo = q.todo /\ OneLess(q).ops = q.ops
  BY DEF OneLess, TxRecord

LEMMA PassedIs ==
  ASSUME NEW q \in TxRecord, NEW i
  PROVE  /\ Passed(q, i) \in TxRecord /\ Passed(q, i).todo = q.todo \ {i}
         /\ Passed(q, i).pc = q.pc /\ Passed(q, i).op = q.op
         /\ Passed(q, i).own = q.own /\ Passed(q, i).known = q.known
         /\ Passed(q, i).ops = q.ops /\ Passed(q, i).audit = q.audit
  BY DEF Passed, TxRecord

LEMMA OwnTyped ==
  ASSUME NEW q \in TxRecord
  PROVE  /\ q.own \in OwnMaps /\ DOMAIN q.own \subseteq Ids
         /\ \A i \in DOMAIN q.own : q.own[i] \in Cells
  BY DEF TxRecord, OwnMaps

LEMMA WroteIs ==
  ASSUME NEW q \in TxRecord, NEW i \in Ids, NEW c \in Cells
  PROVE  /\ Wrote(q, i, c) \in TxRecord
         /\ Wrote(q, i, c).own =
                [j \in DOMAIN q.own \cup {i} |-> IF j = i THEN c ELSE q.own[j]]
         /\ DOMAIN Wrote(q, i, c).own = DOMAIN q.own \cup {i}
         /\ Wrote(q, i, c).own[i] = c
         /\ \A j \in DOMAIN q.own : j # i => Wrote(q, i, c).own[j] = q.own[j]
         /\ Wrote(q, i, c).pc = q.pc /\ Wrote(q, i, c).op = q.op
         /\ Wrote(q, i, c).known = q.known /\ Wrote(q, i, c).todo = q.todo
         /\ Wrote(q, i, c).ops = q.ops /\ Wrote(q, i, c).audit = q.audit
  <1> DEFINE o == [j \in DOMAIN q.own \cup {i} |-> IF j = i THEN c ELSE q.own[j]]
  <1>1. /\ o \in [DOMAIN q.own \cup {i} -> Cells] /\ DOMAIN q.own \cup {i} \subseteq Ids
    BY OwnTyped
  <1>2. /\ o \in OwnMaps /\ DOMAIN o = DOMAIN q.own \cup {i} /\ o[i] = c
        /\ \A j \in DOMAIN q.own : j # i => o[j] = q.own[j]
    BY <1>1 DEF OwnMaps
  <1>3. Wrote(q, i, c) = [q EXCEPT !.own = o]
    BY DEF Wrote
  <1> HIDE DEF o
  <1>4. /\ Wrote(q, i, c) \in TxRecord /\ Wrote(q, i, c).own = o
        /\ Wrote(q, i, c).pc = q.pc /\ Wrote(q, i, c).op = q.op
        /\ Wrote(q, i, c).known = q.known /\ Wrote(q, i, c).todo = q.todo
        /\ Wrote(q, i, c).ops = q.ops /\ Wrote(q, i, c).audit = q.audit
    BY <1>2, <1>3 DEF TxRecord
  <1> QED
    BY <1>2, <1>4 DEF o

LEMMA NoTxIs ==
  /\ NoTx \in TxRecord /\ NoTx.pc = "idle" /\ NoTx.own = <<>> /\ DOMAIN NoTx.own = {}
  /\ NoTx.known = {} /\ NoTx.todo = {} /\ NoTx.ops = 0 /\ NoTx.op = NoOperation /\ NoTx.audit = 0
  <1>1. <<>> \in OwnMaps /\ DOMAIN <<>> = {}
    <2>1. <<>> \in [{} -> Cells]
      OBVIOUS
    <2> QED
      BY <2>1 DEF OwnMaps
  <1>2. NoTx \in TxRecord
    BY <1>1, NoOpTyped DEF NoTx, TxRecord, PCs
  <1> QED
    BY <1>1, <1>2 DEF NoTx
-----------------------------------------------------------------------------
(* Who holds what *)

Seen(t, i) == IF i \in DOMAIN t.own THEN t.own[i] ELSE rows[i]
HeldBy(t) == DOMAIN t.own \cup (IF t.pc = "rekey" THEN {t.op.id} ELSE {})
Born == Existing(rows) \cup hist.gone

Sound(x, t) ==
    /\ t.ops <= BatchSize[team] /\ (t.pc \in OpPCs => t.ops < BatchSize[team])
    /\ x \notin Writers => t.pc \in {"idle", "touching"}
    /\ t.known \cup t.todo \subseteq Born
    /\ t.pc \in OpPCs => t.op.id \in Ids
    /\ t.pc \in OpPCs \ {"insert"} => t.op.id \in Born \cup DOMAIN t.own
    /\ t.pc \notin OpPCs => t.op.id = 0
    /\ t.pc = "rekey" => Seen(t, t.op.id) # {}

\* The id of an insert is nobody else's.
Unheld(x, id) ==
    /\ id \notin Born
    /\ \A y \in team : id \notin Held(y) /\ (y # x => tx[y].op.id # id)
Fresh == \A x \in team : tx[x].pc = "insert" => Unheld(x, tx[x].op.id)

HeldOnce == \A x, y \in team : x # y => Held(x) \cap Held(y) = {}

Storage ==
    RowsTyped /\ (\A x \in team : Sound(x, tx[x])) /\ Fresh /\ HeldOnce

LEMMA Parts ==
  ASSUME RowsTyped
  PROVE  /\ team \in Teams /\ today \in Nat /\ rows \in [Ids -> Cells] /\ audit \in Int
         /\ tx \in [team -> TxRecord] /\ \A x \in team : tx[x] \in TxRecord
         /\ BatchSize[team] \in Nat /\ IsFiniteSet(team) /\ team \subseteq Txs
         /\ hist \in [gone : SUBSET Ids, revived : SUBSET Ids]
         /\ hist.gone \subseteq Ids /\ hist.revived \subseteq Ids
         /\ Existing(rows) = {i \in Ids : rows[i] # {}} /\ Born \subseteq Ids
  <1>1. today \in Nat
    BY Bounds DEF RowsTyped
  <1> QED
    BY <1>1, Bounds, CellSets DEF RowsTyped, Born

LEMMA ViewTyped ==
  ASSUME RowsTyped, NEW x \in team
  PROVE  View(x) \in [Ids -> Cells] /\ \A i \in Ids : View(x)[i] = Seen(tx[x], i)
  <1>1. /\ rows \in [Ids -> Cells] /\ \A i \in DOMAIN tx[x].own : tx[x].own[i] \in Cells
    BY Parts, OwnTyped
  <1> QED
    BY <1>1 DEF View, Seen

LEMMA HeldIs ==
  ASSUME NEW x PROVE Held(x) = HeldBy(tx[x])
  BY DEF Held, HeldBy

LEMMA HeldTyped ==
  ASSUME Storage, NEW x \in team
  PROVE  Held(x) \subseteq Ids /\ DOMAIN tx[x].own \subseteq Held(x)
  <1>1. DOMAIN tx[x].own \subseteq Ids
    BY Parts, OwnTyped DEF Storage
  <1>2. tx[x].pc = "rekey" => tx[x].op.id \in Ids
    BY DEF Storage, Sound, OpPCs
  <1> QED
    BY <1>1, <1>2 DEF Held

\* What a transaction has is still so when others move.
LEMMA SoundKept ==
  ASSUME Storage, NEW y \in team, team' = team, tx'[y] = tx[y], Born \subseteq Born',
         \A i \in Held(y) : rows'[i] = rows[i]
  PROVE  Sound(y, tx[y])' /\ Held(y)' = Held(y)
  <1>1. Sound(y, tx[y]) /\ tx[y].own = tx'[y].own
    BY DEF Storage
  <1>2. Held(y)' = Held(y)
    BY DEF Held
  <1>3. tx[y].pc = "rekey" => Seen(tx[y], tx[y].op.id)' = Seen(tx[y], tx[y].op.id)
    BY DEF Seen, Held
  <1> QED
    BY <1>1, <1>2, <1>3 DEF Sound

\* One transaction moves, and with it perhaps rows that no other holds.
Moves(x, t) ==
    /\ tx' = [tx EXCEPT ![x] = t] /\ team' = team /\ today' = today
    /\ rows' \in [Ids -> Cells] /\ audit' \in Int
    /\ hist' \in [gone : SUBSET Ids, revived : SUBSET Ids]
    /\ Born \subseteq Born' /\ Born' \subseteq Born \cup Held(x)
    /\ \A y \in team \ {x} : \A i \in Held(y) : rows'[i] = rows[i]

LEMMA MoveKeeps ==
  ASSUME Storage, NEW x \in team, NEW t \in TxRecord, Moves(x, t), Sound(x, t)',
         t.pc = "insert" => t.own = tx[x].own /\ rows' = rows /\ hist' = hist
                               /\ (Unheld(x, t.op.id) \/ (t.op = tx[x].op /\ tx[x].pc = "insert")),
         \A i \in HeldBy(t) :
             \/ i \in Held(x)
             \/ Holders(x, i) = {} /\ (i \in Born \/ i = tx[x].op.id)
  PROVE  Storage'
  <1>1. /\ tx' \in [team -> TxRecord] /\ tx'[x] = t
        /\ \A y \in team \ {x} : tx'[y] = tx[y]
    BY Parts DEF Moves, Storage
  <1>2. RowsTyped'
    BY <1>1 DEF Storage, RowsTyped, Moves
  <1>3. \A y \in team \ {x} : Sound(y, tx[y])' /\ Held(y)' = Held(y)
    BY <1>1, SoundKept DEF Moves
  <1>4. Held(x)' = HeldBy(t)
    BY <1>1, HeldIs DEF Held, HeldBy
  <1>5. \A y \in team : Sound(y, tx[y])'
    BY <1>1, <1>3
  <1>6. ASSUME NEW y \in team \ {x}, tx[y].pc = "insert"
        PROVE  /\ tx[y].op.id \notin Born' /\ tx[y].op.id \notin HeldBy(t)
               /\ t.op.id # tx[y].op.id
    <2>1. /\ tx[y].op.id \notin Born /\ tx[y].op.id \notin Held(x) /\ tx[x].op.id # tx[y].op.id
          /\ tx[y].op.id \in Ids
      BY <1>6 DEF Storage, Fresh, Unheld, Sound, OpPCs
    <2>2. tx[y].op.id \notin Born' /\ tx[y].op.id \notin HeldBy(t)
      BY <2>1 DEF Moves
    <2>3. CASE t.pc \notin OpPCs
      <3>1. t.op.id = 0
        BY <2>3 DEF Sound
      <3> QED
        BY <2>1, <2>2, <3>1, NoIdZero
    <2>4. CASE t.pc = "insert"
      <3>1. CASE Unheld(x, t.op.id)
        BY <1>6, <2>2, <3>1 DEF Unheld
      <3>2. CASE t.op = tx[x].op
        BY <2>1, <2>2, <3>2
      <3> QED
        BY <2>4, <3>1, <3>2
    <2>5. CASE t.pc \in OpPCs \ {"insert"}
      BY <2>2, <2>5 DEF Sound, HeldBy
    <2> QED
      BY <2>2, <2>3, <2>4, <2>5
  <1>7. ASSUME t.pc = "insert" PROVE Unheld(x, t.op.id)'
    <2>1. Unheld(x, t.op.id)
      BY <1>7 DEF Storage, Fresh
    <2>2. HeldBy(t) = DOMAIN tx[x].own
      BY <1>7 DEF HeldBy
    <2>3. Born' = Born
      BY <1>7 DEF Born, Existing
    <2> QED
      BY <1>1, <1>3, <1>4, <2>1, <2>2, <2>3 DEF Unheld, Moves, Held
  <1>8. Fresh'
    <2> SUFFICES ASSUME NEW y \in team, tx'[y].pc = "insert" PROVE Unheld(y, tx[y].op.id)'
      BY DEF Fresh, Moves
    <2>1. CASE y = x
      BY <1>1, <1>7, <2>1
    <2>2. CASE y # x
      <3>1. Unheld(y, tx[y].op.id) /\ tx'[y] = tx[y] /\ tx[y].pc = "insert"
        BY <1>1, <2>2 DEF Storage, Fresh
      <3>2. /\ tx[y].op.id \notin Born' /\ tx[y].op.id \notin HeldBy(t)
            /\ t.op.id # tx[y].op.id
        BY <1>6, <2>2, <3>1
      <3> QED
        BY <1>1, <1>3, <1>4, <3>1, <3>2 DEF Unheld, Moves
    <2> QED
      BY <2>1, <2>2
  <1>9. HeldOnce'
    <2>1. ASSUME NEW y \in team \ {x} PROVE HeldBy(t) \cap Held(y) = {}
      <3> SUFFICES ASSUME NEW i \in HeldBy(t), i \in Held(y) PROVE FALSE
        OBVIOUS
      <3>1. i \notin Held(x)
        BY DEF Storage, HeldOnce
      <3> QED
        BY <3>1 DEF Holders
    <2> QED
      BY <1>3, <1>4, <2>1 DEF HeldOnce, Storage, Moves
  <1> QED
    BY <1>2, <1>5, <1>8, <1>9 DEF Storage, Moves

\* Rows that nobody holds change.
LEMMA RowsMove ==
  ASSUME Storage, tx' = tx, team' = team, today' \in 0 .. MaxDay, rows' \in [Ids -> Cells],
         audit' \in Int, hist' \in [gone : SUBSET Ids, revived : SUBSET Ids], Born' = Born,
         \A i \in HeldRows : rows'[i] = rows[i]
  PROVE  Storage'
  <1>1. RowsTyped'
    BY DEF Storage, RowsTyped
  <1>2. \A y \in team : Sound(y, tx[y])' /\ Held(y)' = Held(y)
    BY SoundKept DEF HeldRows
  <1>3. Fresh' /\ HeldOnce'
    BY <1>2 DEF Storage, Fresh, HeldOnce, Unheld
  <1> QED
    BY <1>1, <1>2, <1>3 DEF Storage

-----------------------------------------------------------------------------
(* What a step does to the table *)

\* A transaction only changes its mind: an operation begins, waits or is given up.
Thinks(x, t) ==
    /\ t \in TxRecord /\ tx' = [tx EXCEPT ![x] = t]
    /\ UNCHANGED <<team, today, rows, audit, hist>>
    /\ t.own = tx[x].own /\ t.audit = tx[x].audit
    /\ t.ops >= tx[x].ops /\ Sound(x, t)
    /\ t.pc = "insert" => tx[x].pc = "writing" /\ ~Full(x) /\ Unheld(x, t.op.id)
    /\ \A i \in HeldBy(t) : i \in Held(x) \/ (Holders(x, i) = {} /\ i \in Born)

\* It writes one row.
NewRow(x, i, k) == ContentHolders(x, k) = {} /\ Unique(x, i, k)
Writes(x, t, i, c) ==
    /\ t \in TxRecord /\ tx' = [tx EXCEPT ![x] = t]
    /\ UNCHANGED <<team, today, rows, audit>>
    /\ i \in Ids /\ c \in Cells /\ Holders(x, i) = {} /\ (i \in Born \/ i = tx[x].op.id)
    /\ t.own = [j \in DOMAIN tx[x].own \cup {i} |-> IF j = i THEN c ELSE tx[x].own[j]]
    /\ t.audit = tx[x].audit + (IF c = {} THEN 0 ELSE 1) - (IF View(x)[i] = {} THEN 0 ELSE 1)
    /\ t.pc \in {"writing", "touching"} /\ Sound(x, t)
    /\ t.ops >= tx[x].ops /\ (tx[x].pc = "insert" => t.ops > tx[x].ops)
    /\ \A k : Says(c, k) => Says(View(x)[i], k) \/ (k \in Contents /\ NewRow(x, i, k))
    /\ View(x)[i] = {} => tx[x].pc = "insert" /\ i = tx[x].op.id /\ hist' = hist
    /\ View(x)[i] # {} => SaidAgain(x, i) \/ (c = {} /\ hist' = hist)

\* It ends, or the next one begins; what it wrote is there for all, or for none.
Ends(x, t) ==
    /\ t \in TxRecord /\ tx' = [tx EXCEPT ![x] = t] /\ UNCHANGED <<team, today>>
    /\ DOMAIN t.own = {} /\ t.audit = 0 /\ t.pc \in {"idle", "writing", "touching"}
    /\ t.ops = 0 /\ t.op.id = 0 /\ t.known \cup t.todo \subseteq Born
    /\ x \notin Writers => t.pc \in {"idle", "touching"}
KeepsTable == UNCHANGED <<rows, audit, hist>>
Commits(x) ==
    /\ tx[x].pc \in {"writing", "touching"}
    /\ rows' = View(x) /\ audit' = audit + tx[x].audit
    /\ hist' = [gone |-> hist.gone \cup (Existing(rows) \ Existing(View(x))),
                revived |-> hist.revived \cup (Expired(rows) \cap VisibleIn(View(x)))]
Reads(x) == tx[x].pc = "idle" /\ Purge

\* The effects of the steps of one transaction.
Effect(x) ==
    \/ \E t : Thinks(x, t)
    \/ \E t : \E i, c : Writes(x, t, i, c)
    \/ \E t : Ends(x, t) /\ (KeepsTable \/ Commits(x) \/ Reads(x))

LEMMA MayStartIs ==
  ASSUME Storage, NEW x \in team, MayStart(x)
  PROVE  /\ tx[x] \in TxRecord /\ tx[x].pc = "writing" /\ tx[x].ops < BatchSize[team]
         /\ tx[x].ops \in Nat /\ BatchSize[team] \in Nat /\ x \in Writers
         /\ tx[x].known \cup tx[x].todo \subseteq Born /\ Held(x) = DOMAIN tx[x].own
         /\ today \in Nat /\ Sound(x, tx[x])
  <1>1. tx[x] \in TxRecord /\ BatchSize[team] \in Nat /\ today \in Nat /\ Sound(x, tx[x])
    BY Parts DEF Storage
  <1>2. tx[x].ops \in Nat
    BY <1>1 DEF TxRecord
  <1> QED
    BY <1>1, <1>2 DEF MayStart, Sound, Held

LEMMA StartThinks ==
  ASSUME Storage, NEW x \in team, MayStart(x), NEW pc \in {"touch", "insert", "update", "delete"},
         NEW id \in Ids, NEW c \in SUBSET Contents, Start(x, pc, id, c),
         UNCHANGED <<team, today, rows, audit, hist>>,
         pc = "insert" => ~Full(x) /\ Unheld(x, id),
         pc # "insert" => id \in Born \cup DOMAIN tx[x].own
  PROVE  Effect(x)
  <1> DEFINE op == [id |-> id, content |-> c, at |-> today]
             t == Begun(tx[x], pc, op)
  <1>1. /\ tx[x] \in TxRecord /\ tx[x].pc = "writing" /\ tx[x].ops < BatchSize[team]
        /\ tx[x].known \cup tx[x].todo \subseteq Born /\ Held(x) = DOMAIN tx[x].own
        /\ x \in Writers /\ tx[x].ops \in Nat /\ BatchSize[team] \in Nat
    BY MayStartIs
  <1>2. op \in OpType /\ op.id = id
    BY Bounds, MayStartIs DEF OpType
  <1>3. pc \in PCs /\ pc \in OpPCs /\ pc # "rekey"
    BY DEF PCs, OpPCs
  <1>4. tx' = [tx EXCEPT ![x] = t]
    BY DEF Start, Set, Begun
  <1> HIDE DEF op
  <1>5. /\ t \in TxRecord /\ t.pc = pc /\ t.op = op /\ t.own = tx[x].own /\ t.known = tx[x].known
        /\ t.todo = tx[x].todo /\ t.ops = tx[x].ops /\ t.audit = tx[x].audit
    BY <1>1, <1>2, <1>3, BegunIs
  <1> HIDE DEF t
  <1>6. Sound(x, t)
    BY <1>1, <1>2, <1>3, <1>5 DEF Sound
  <1>7. HeldBy(t) = Held(x)
    BY <1>1, <1>3, <1>5 DEF HeldBy
  <1>8. Thinks(x, t)
    BY <1>1, <1>2, <1>4, <1>5, <1>6, <1>7 DEF Thinks
  <1> QED
    BY <1>8 DEF Effect

LEMMA RejectedThinks ==
  ASSUME Storage, NEW x \in team, MayStart(x), Rejected(x),
         UNCHANGED <<team, today, rows, audit, hist>>
  PROVE  Effect(x)
  <1> DEFINE t == Refused(tx[x])
  <1>1. /\ tx[x] \in TxRecord /\ tx[x].pc = "writing" /\ tx[x].ops < BatchSize[team]
        /\ Held(x) = DOMAIN tx[x].own /\ x \in Writers /\ tx[x].ops \in Nat
        /\ BatchSize[team] \in Nat /\ Sound(x, tx[x])
    BY MayStartIs
  <1>2. tx' = [tx EXCEPT ![x] = t]
    BY DEF Rejected, Set, Refused
  <1>3. /\ t \in TxRecord /\ t.pc = tx[x].pc /\ t.op = tx[x].op /\ t.own = tx[x].own
        /\ t.known = tx[x].known /\ t.todo = tx[x].todo /\ t.ops = tx[x].ops + 1
        /\ t.audit = tx[x].audit
    BY <1>1, RefusedIs
  <1> HIDE DEF t
  <1>4. Sound(x, t)
    BY <1>1, <1>3 DEF Sound, OpPCs
  <1>5. HeldBy(t) = Held(x)
    BY <1>1, <1>3 DEF HeldBy
  <1>6. Thinks(x, t)
    BY <1>1, <1>2, <1>3, <1>4, <1>5 DEF Thinks
  <1> QED
    BY <1>6 DEF Effect

-----------------------------------------------------------------------------
(* Waiting *)

LEMMA WaitsIs ==
  ASSUME NEW x
  PROVE  /\ tx[x].pc \in {"insert", "rekey"} =>
               WaitsFor(x) = UNION {ContentHolders(x, c) : c \in tx[x].op.content}
         /\ tx[x].pc \in {"touch", "delete", "update"} => WaitsFor(x) = Holders(x, tx[x].op.id)
         /\ WaitsFor(x) # {} => tx[x].pc \in OpPCs \cup {"touching"}
  <1>1. ASSUME tx[x].pc \in {"insert", "rekey"}
        PROVE  WaitsFor(x) = UNION {ContentHolders(x, c) : c \in tx[x].op.content}
    BY <1>1 DEF WaitsFor
  <1>2. ASSUME tx[x].pc \in {"touch", "delete", "update"}
        PROVE  WaitsFor(x) = Holders(x, tx[x].op.id)
    BY <1>2 DEF WaitsFor
  <1>3. ASSUME tx[x].pc \notin OpPCs \cup {"touching"} PROVE WaitsFor(x) = {}
    BY <1>3 DEF WaitsFor, OpPCs
  <1> QED
    BY <1>1, <1>2, <1>3

LEMMA NobodyWaited ==
  ASSUME NEW x, WaitsFor(x) = {}
  PROVE  /\ tx[x].pc \in {"insert", "rekey"} =>
               \A c \in tx[x].op.content : ContentHolders(x, c) = {}
         /\ tx[x].pc \in {"touch", "delete", "update"} => Holders(x, tx[x].op.id) = {}
  BY WaitsIs

LEMMA FreeIdIsUnheld ==
  ASSUME Storage, NEW x \in team, FreeIds # {}
  PROVE  LET id == CHOOSE i \in FreeIds : \A j \in FreeIds : i <= j
         IN  id \in Ids /\ Unheld(x, id)
  <1> DEFINE id == CHOOSE i \in FreeIds : \A j \in FreeIds : i <= j
  <1>1. FreeIds \subseteq Ids /\ FreeIds \subseteq Nat /\ IsFiniteSet(FreeIds)
    BY Bounds, FS_Subset DEF FreeIds
  <1>2. id \in FreeIds
    BY <1>1, LeastExists
  <1> HIDE DEF id
  <1>3. Unheld(x, id)
    BY <1>2 DEF FreeIds, Unheld, Born, HeldRows
  <1> QED
    BY <1>1, <1>2, <1>3 DEF id

-----------------------------------------------------------------------------
(* Operations that change no row *)

LEMMA RememberThinks ==
  ASSUME Storage, NEW x \in team, NEW c \in Contents, Remember(x, c)
  PROVE  Effect(x)
  <1> DEFINE same == WithContent(View(x), c)
             id == CHOOSE i \in FreeIds : \A j \in FreeIds : i <= j
  <1>1. MayStart(x) /\ UNCHANGED <<team, today, rows, audit, hist>>
    BY DEF Remember
  <1>2. {c} \in SUBSET Contents
    OBVIOUS
  <1>3. CASE same # {} /\ Start(x, "touch", CHOOSE i \in same : TRUE, {c})
    <2>1. PICK i : i \in same /\ Start(x, "touch", i, {c})
      BY <1>3
    <2>2. i \in Ids /\ View(x)[i] # {}
      BY <2>1 DEF WithContent, Existing
    <2>3. i \in Born \cup DOMAIN tx[x].own
      <3>1. View(x)[i] = Seen(tx[x], i)
        BY <2>2, ViewTyped DEF Storage
      <3> QED
        BY <2>2, <3>1 DEF Seen, Born, Existing
    <2> QED
      BY <1>1, <1>2, <2>1, <2>2, <2>3, StartThinks
  <1>4. CASE Rejected(x)
    BY <1>1, <1>4, RejectedThinks
  <1>5. CASE ~Full(x) /\ FreeIds # {} /\ Start(x, "insert", id, {c})
    <2>1. id \in Ids /\ Unheld(x, id)
      BY <1>5, FreeIdIsUnheld
    <2> HIDE DEF id
    <2> QED
      BY <1>1, <1>2, <1>5, <2>1, StartThinks
  <1> QED
    BY <1>3, <1>4, <1>5 DEF Remember

LEMMA ChangeThinks ==
  ASSUME Storage, NEW x \in team, NEW i \in Ids, NEW pc \in {"update", "delete"},
         NEW c \in SUBSET Contents, Change(x, i, pc, c)
  PROVE  Effect(x)
  <1>1. MayStart(x) /\ i \in tx[x].known /\ UNCHANGED <<team, today, rows, audit, hist>>
    BY DEF Change
  <1>2. i \in Born
    BY <1>1, MayStartIs
  <1>3. CASE Rejected(x)
    BY <1>1, <1>3, RejectedThinks
  <1>4. CASE Start(x, pc, i, c)
    BY <1>1, <1>2, <1>4, StartThinks
  <1> QED
    BY <1>3, <1>4 DEF Change

\* An operation that is over without a trace.
LEMMA DoneThinks ==
  ASSUME Storage, NEW x \in team, tx[x].pc \in OpPCs, tx' = [tx EXCEPT ![x] = OpDone(tx[x])],
         UNCHANGED <<team, today, rows, audit, hist>>
  PROVE  Effect(x)
  <1> DEFINE t == OpDone(tx[x])
  <1>1. tx[x] \in TxRecord /\ Sound(x, tx[x]) /\ BatchSize[team] \in Nat
    BY Parts DEF Storage
  <1>2. /\ t \in TxRecord /\ t.pc = "writing" /\ t.ops = tx[x].ops + 1 /\ t.op = NoOperation
        /\ t.own = tx[x].own /\ t.known = tx[x].known /\ t.todo = tx[x].todo
        /\ t.audit = tx[x].audit
    BY <1>1, DoneIs
  <1>3. tx[x].ops \in Nat
    BY <1>1 DEF TxRecord
  <1> HIDE DEF t
  <1>4. Sound(x, t)
    BY <1>1, <1>2, <1>3, NoOpTyped DEF Sound, OpPCs
  <1>5. HeldBy(t) \subseteq Held(x)
    BY <1>2 DEF HeldBy, Held
  <1>6. Thinks(x, t)
    BY <1>1, <1>2, <1>3, <1>4, <1>5 DEF Thinks, t
  <1> QED
    BY <1>6 DEF Effect

LEMMA LockThinks ==
  ASSUME Storage, NEW x \in team, LockForUpdate(x)
  PROVE  Effect(x)
  <1>1. /\ tx[x].pc = "update" /\ WaitsFor(x) = {}
        /\ UNCHANGED <<team, today, rows, audit, hist>>
        /\ tx[x] \in TxRecord /\ Sound(x, tx[x]) /\ BatchSize[team] \in Nat
    BY Parts DEF LockForUpdate, Storage
  <1>2. CASE tx' = [tx EXCEPT ![x] = OpDone(tx[x])]
    BY <1>1, <1>2, DoneThinks DEF OpPCs
  <1>3. CASE View(x)[tx[x].op.id] # {} /\ tx' = [tx EXCEPT ![x] = Rekeying(tx[x])]
    <2> DEFINE t == Rekeying(tx[x])
    <2>1. /\ t \in TxRecord /\ t.pc = "rekey" /\ t.op = tx[x].op /\ t.own = tx[x].own
          /\ t.known = tx[x].known /\ t.todo = tx[x].todo /\ t.ops = tx[x].ops
          /\ t.audit = tx[x].audit
      BY <1>1, RekeyingIs
    <2>2. /\ tx[x].op.id \in Ids /\ tx[x].op.id \in Born \cup DOMAIN tx[x].own
          /\ tx[x].ops \in Nat
      BY <1>1 DEF Sound, OpPCs, TxRecord
    <2>3. Holders(x, tx[x].op.id) = {}
      BY <1>1, NobodyWaited
    <2>4. Seen(tx[x], tx[x].op.id) # {}
      BY <1>3, <2>2, ViewTyped DEF Storage
    <2>5. tx' = [tx EXCEPT ![x] = t]
      BY <1>3
    <2> HIDE DEF t
    <2>6. Sound(x, t)
      BY <1>1, <2>1, <2>2, <2>4 DEF Sound, OpPCs, Seen
    <2>7. \A i \in HeldBy(t) : i \in Held(x) \/ (Holders(x, i) = {} /\ i \in Born)
      BY <2>1, <2>2, <2>3 DEF HeldBy, Held
    <2>8. Thinks(x, t)
      BY <1>1, <2>1, <2>2, <2>5, <2>6, <2>7 DEF Thinks
    <2> QED
      BY <2>8 DEF Effect
  <1> QED
    BY <1>2, <1>3 DEF LockForUpdate, Set, Rekeying

-----------------------------------------------------------------------------
(* Operations that write a row *)

WrittenTo(q, i, c) == [j \in DOMAIN q.own \cup {i} |-> IF j = i THEN c ELSE q.own[j]]
Balance(old, new) == (IF new = {} THEN 0 ELSE 1) - (IF old = {} THEN 0 ELSE 1)

\* What is written says what was said there, or what nobody else says.
NothingNew(x, i, c) ==
    \A k : Says(c, k) => Says(View(x)[i], k) \/ (k \in Contents /\ NewRow(x, i, k))

LEMMA WriteDone ==
  ASSUME Storage, NEW x \in team, tx[x].pc \in OpPCs, NEW i \in Ids, i = tx[x].op.id,
         NEW c \in Cells, NEW q \in TxRecord, q.own = WrittenTo(tx[x], i, c),
         q.ops = tx[x].ops, q.known = tx[x].known, q.todo = tx[x].todo,
         q.audit = tx[x].audit + Balance(View(x)[i], c),
         tx' = [tx EXCEPT ![x] = OpDone(q)], UNCHANGED <<team, today, rows, audit>>,
         Holders(x, i) = {}, NothingNew(x, i, c),
         View(x)[i] = {} => tx[x].pc = "insert" /\ hist' = hist,
         View(x)[i] # {} => SaidAgain(x, i) \/ (c = {} /\ hist' = hist)
  PROVE  Effect(x)
  <1> DEFINE t == OpDone(q)
  <1>1. tx[x] \in TxRecord /\ Sound(x, tx[x]) /\ BatchSize[team] \in Nat
    BY Parts DEF Storage
  <1>2. /\ t \in TxRecord /\ t.pc = "writing" /\ t.ops = tx[x].ops + 1 /\ t.op = NoOperation
        /\ t.own = WrittenTo(tx[x], i, c) /\ t.known = tx[x].known /\ t.todo = tx[x].todo
        /\ t.audit = q.audit
    BY DoneIs
  <1>3. tx[x].ops \in Nat /\ tx[x].audit \in Int
    BY <1>1 DEF TxRecord
  <1>4. tx' = [tx EXCEPT ![x] = t]
    OBVIOUS
  <1> HIDE DEF t
  <1>5. Sound(x, t)
    <2>1. t.pc = "writing" /\ t.pc \notin OpPCs /\ t.op.id = 0
      BY <1>2, NoOpTyped DEF OpPCs
    <2>2. tx[x].ops < BatchSize[team] /\ x \in Writers
      BY <1>1 DEF Sound, OpPCs
    <2>3. t.ops <= BatchSize[team]
      BY <1>1, <1>2, <1>3, <2>2
    <2>4. t.known \cup t.todo \subseteq Born
      BY <1>1, <1>2 DEF Sound
    <2> QED
      BY <2>1, <2>2, <2>3, <2>4 DEF Sound
  <1>6. t.ops >= tx[x].ops /\ t.ops > tx[x].ops
    BY <1>2, <1>3
  <1>7. t.audit = tx[x].audit + (IF c = {} THEN 0 ELSE 1) - (IF View(x)[i] = {} THEN 0 ELSE 1)
    BY <1>2, <1>3 DEF Balance
  <1>8. Writes(x, t, i, c)
    BY <1>2, <1>4, <1>5, <1>6, <1>7 DEF Writes, WrittenTo, NothingNew
  <1> QED
    BY <1>8 DEF Effect

LEMMA TouchedIs ==
  ASSUME NEW V \in [Ids -> Cells], NEW x, View(x) = V, NEW i \in Ids, NEW at \in Nat
  PROVE  /\ Touched(x, i, at) \in Cells /\ (Touched(x, i, at) = {} <=> V[i] = {})
         /\ \A k : Says(Touched(x, i, at), k) <=> Says(V[i], k)
  <1> DEFINE new(r) == [r EXCEPT !.until = Expiry(at)]
  <1>1. Expiry(at) \in Nat
    BY Bounds DEF Expiry
  <1>2. V[i] \in SUBSET RowType /\ \A r, s \in V[i] : r = s
    BY DEF Cells
  <1>3. \A r \in RowType : new(r) \in RowType /\ new(r).content = r.content
    BY <1>1 DEF RowType
  <1>4. Touched(x, i, at) = {new(r) : r \in V[i]}
    BY DEF Touched
  <1> HIDE DEF new
  <1>5. Touched(x, i, at) \in Cells
    BY <1>2, <1>3, <1>4 DEF Cells
  <1>6. Touched(x, i, at) = {} <=> V[i] = {}
    BY <1>4
  <1>7. \A k : Says(Touched(x, i, at), k) <=> Says(V[i], k)
    BY <1>2, <1>3, <1>4 DEF Says
  <1> QED
    BY <1>5, <1>6, <1>7

\* A row that is not there stays out of every balance.
LEMMA OperationIs ==
  ASSUME Storage, NEW x \in team, tx[x].pc \in OpPCs
  PROVE  /\ tx[x].op.id \in Ids /\ tx[x].op.at \in Nat /\ tx[x] \in TxRecord
         /\ tx[x].op.content \subseteq Contents
         /\ View(x) \in [Ids -> Cells]
  <1>1. tx[x] \in TxRecord /\ tx[x].op.id \in Ids
    BY Parts DEF Storage, Sound
  <1>2. View(x) \in [Ids -> Cells]
    BY ViewTyped DEF Storage
  <1> QED
    BY <1>1, <1>2 DEF TxRecord, OpType

LEMMA OwnIs ==
  ASSUME Storage, NEW x \in team, NEW i \in Ids, NEW c \in Cells
  PROVE  /\ Own(x, i, c) \in TxRecord /\ Own(x, i, c).own = WrittenTo(tx[x], i, c)
         /\ Own(x, i, c).pc = tx[x].pc /\ Own(x, i, c).op = tx[x].op
         /\ Own(x, i, c).known = tx[x].known /\ Own(x, i, c).todo = tx[x].todo
         /\ Own(x, i, c).ops = tx[x].ops /\ Own(x, i, c).audit = tx[x].audit
  <1>1. tx[x] \in TxRecord
    BY Parts DEF Storage
  <1>2. Own(x, i, c) = Wrote(tx[x], i, c)
    BY DEF Own, Wrote
  <1> QED
    BY <1>1, <1>2, WroteIs DEF WrittenTo

LEMMA NothingToSay ==
  ASSUME RowsTyped, NEW x, NEW i, View(x)[i] = {}, SaidAgain(x, i)
  PROVE  hist' = hist
  <1>1. i \notin Expired(View(x))
    BY DEF Expired, Existing
  <1>2. hist.revived \cup ({i} \cap Expired(View(x))) = hist.revived
    BY <1>1
  <1>3. hist' = [hist EXCEPT !.revived = hist.revived]
    BY <1>2 DEF SaidAgain
  <1> QED
    BY <1>3 DEF RowsTyped

LEMMA TouchEffect ==
  ASSUME Storage, NEW x \in team, Touch(x)
  PROVE  Effect(x)
  <1> DEFINE i == tx[x].op.id
             c == Touched(x, i, tx[x].op.at)
  <1>1. /\ tx[x].pc = "touch" /\ WaitsFor(x) = {} /\ SaidAgain(x, i)
        /\ UNCHANGED <<team, today, rows, audit>>
    BY DEF Touch
  <1>2. tx[x].pc \in OpPCs
    BY <1>1 DEF OpPCs
  <1>3. i \in Ids /\ tx[x].op.at \in Nat /\ tx[x] \in TxRecord /\ View(x) \in [Ids -> Cells]
    BY <1>2, OperationIs
  <1>4. Holders(x, i) = {}
    BY <1>1, NobodyWaited
  <1>5. /\ c \in Cells /\ (c = {} <=> View(x)[i] = {})
        /\ \A k : Says(c, k) <=> Says(View(x)[i], k)
    BY <1>3, TouchedIs
  <1>6. tx' = [tx EXCEPT ![x] = OpDone(IF c = {} THEN tx[x] ELSE Own(x, i, c))]
    BY DEF Touch, Set
  <1> HIDE DEF i, c
  <1>7. CASE c = {}
    <2>1. hist' = hist
      BY <1>1, <1>5, <1>7, NothingToSay DEF Storage
    <2> QED
      BY <1>1, <1>2, <1>6, <1>7, <2>1, DoneThinks
  <1>8. CASE c # {}
    <2> DEFINE q == Own(x, i, c)
    <2>1. /\ q \in TxRecord /\ q.own = WrittenTo(tx[x], i, c) /\ q.ops = tx[x].ops
          /\ q.known = tx[x].known /\ q.todo = tx[x].todo /\ q.audit = tx[x].audit
      BY <1>3, <1>5, OwnIs
    <2>2. tx' = [tx EXCEPT ![x] = OpDone(q)]
      BY <1>6, <1>8
    <2> HIDE DEF q
    <2>3. tx[x].audit \in Int
      BY <1>3 DEF TxRecord
    <2>4. q.audit = tx[x].audit + Balance(View(x)[i], c)
      BY <1>5, <1>8, <2>1, <2>3 DEF Balance
    <2>5. NothingNew(x, i, c)
      BY <1>5 DEF NothingNew
    <2>6. View(x)[i] # {}
      BY <1>5, <1>8
    <2> QED
      BY <1>1, <1>2, <1>3, <1>4, <1>5, <2>1, <2>2, <2>4, <2>5, <2>6, WriteDone DEF i
  <1> QED
    BY <1>7, <1>8

LEMMA NewCell ==
  ASSUME NEW c \in Contents, NEW at \in Nat
  PROVE  LET n == {[content |-> c, until |-> Expiry(at)]}
         IN  n \in Cells /\ n # {} /\ \A k : Says(n, k) <=> k = c
  <1> DEFINE r == [content |-> c, until |-> Expiry(at)]
  <1>1. r \in RowType /\ r.content = c
    BY Bounds DEF Expiry, RowType
  <1> HIDE DEF r
  <1>2. {r} \in Cells
    BY <1>1 DEF Cells
  <1>3. \A k : Says({r}, k) <=> k = c
    BY <1>1 DEF Says
  <1> QED
    BY <1>2, <1>3 DEF r

LEMMA InsertEffect ==
  ASSUME Storage, NEW x \in team, Insert(x)
  PROVE  Effect(x)
  <1> DEFINE i == tx[x].op.id
  <1>1. /\ tx[x].pc = "insert" /\ WaitsFor(x) = {}
        /\ UNCHANGED <<team, today, rows, audit, hist>>
    BY DEF Insert
  <1>2. tx[x].pc \in OpPCs
    BY <1>1 DEF OpPCs
  <1>3. /\ i \in Ids /\ tx[x].op.at \in Nat /\ tx[x] \in TxRecord /\ View(x) \in [Ids -> Cells]
        /\ tx[x].op.content \subseteq Contents
    BY <1>2, OperationIs
  <1>4. i \notin Born /\ i \notin Held(x) /\ Holders(x, i) = {}
    BY <1>1 DEF Storage, Fresh, Unheld, Holders
  <1>5. View(x)[i] = {}
    <2>1. i \notin DOMAIN tx[x].own /\ rows[i] = {}
      BY <1>3, <1>4 DEF Held, Born, Existing
    <2> QED
      BY <1>3, <2>1, ViewTyped DEF Storage, Seen
  <1> DEFINE new(c) == {[content |-> c, until |-> Expiry(tx[x].op.at)]}
  <1>6. PICK c \in tx[x].op.content :
            tx' = [tx EXCEPT ![x] = OpDone(IF ~Unique(x, i, c) THEN tx[x]
                                           ELSE OneMore(Own(x, i, new(c))))]
    BY DEF Insert, Set, OneMore
  <1>7. CASE ~Unique(x, i, c)
    <2>1. tx' = [tx EXCEPT ![x] = OpDone(tx[x])]
      BY <1>6, <1>7
    <2> QED
      BY <1>1, <1>2, <2>1, DoneThinks
  <1>8. CASE Unique(x, i, c)
    <2> DEFINE n == new(c)
               q == OneMore(Own(x, i, n))
    <2>1. tx' = [tx EXCEPT ![x] = OpDone(q)]
      BY <1>6, <1>8
    <2>2. n \in Cells /\ n # {} /\ \A k : Says(n, k) <=> k = c
      BY <1>3, NewCell
    <2> HIDE DEF n, new
    <2>3. /\ q \in TxRecord /\ q.own = WrittenTo(tx[x], i, n) /\ q.ops = tx[x].ops
          /\ q.known = tx[x].known /\ q.todo = tx[x].todo /\ q.audit = tx[x].audit + 1
      BY <1>3, <2>2, OwnIs, OneMoreIs
    <2> HIDE DEF q
    <2>4. tx[x].audit \in Int
      BY <1>3 DEF TxRecord
    <2>5. q.audit = tx[x].audit + Balance(View(x)[i], n)
      BY <1>5, <2>2, <2>3, <2>4 DEF Balance
    <2>6. NewRow(x, i, c) /\ c \in Contents
      BY <1>1, <1>3, <1>8, NobodyWaited DEF NewRow
    <2>7. NothingNew(x, i, n)
      BY <2>2, <2>6 DEF NothingNew
    <2> QED
      BY <1>1, <1>2, <1>3, <1>4, <1>5, <2>1, <2>2, <2>3, <2>5, <2>7, WriteDone
  <1> QED
    BY <1>7, <1>8

LEMMA UpdateEffect ==
  ASSUME Storage, NEW x \in team, ApplyUpdate(x)
  PROVE  Effect(x)
  <1> DEFINE i == tx[x].op.id
             new(c) == {[content |-> c, until |-> Expiry(tx[x].op.at)]}
  <1>1. /\ tx[x].pc = "rekey" /\ WaitsFor(x) = {} /\ UNCHANGED <<team, today, rows, audit>>
    BY DEF ApplyUpdate
  <1>2. tx[x].pc \in OpPCs
    BY <1>1 DEF OpPCs
  <1>3. /\ i \in Ids /\ tx[x].op.at \in Nat /\ tx[x] \in TxRecord /\ View(x) \in [Ids -> Cells]
        /\ tx[x].op.content \subseteq Contents
    BY <1>2, OperationIs
  <1>4. i \in Held(x) /\ Holders(x, i) = {}
    BY <1>1 DEF Storage, HeldOnce, Held, Holders
  <1>5. View(x)[i] # {}
    BY <1>1, <1>3, ViewTyped DEF Storage, Sound
  <1>6. PICK c \in tx[x].op.content :
            IF ~Unique(x, i, c)
            THEN tx' = [tx EXCEPT ![x] = OpDone(tx[x])] /\ UNCHANGED hist
            ELSE tx' = [tx EXCEPT ![x] = OpDone(Own(x, i, new(c)))] /\ SaidAgain(x, i)
    BY DEF ApplyUpdate, Set
  <1>7. CASE ~Unique(x, i, c)
    <2>1. tx' = [tx EXCEPT ![x] = OpDone(tx[x])] /\ UNCHANGED hist
      BY <1>6, <1>7
    <2> QED
      BY <1>1, <1>2, <2>1, DoneThinks
  <1>8. CASE Unique(x, i, c)
    <2> DEFINE n == new(c)
               q == Own(x, i, n)
    <2>1. tx' = [tx EXCEPT ![x] = OpDone(q)] /\ SaidAgain(x, i)
      BY <1>6, <1>8
    <2>2. n \in Cells /\ n # {} /\ \A k : Says(n, k) <=> k = c
      BY <1>3, NewCell
    <2> HIDE DEF n, new
    <2>3. /\ q \in TxRecord /\ q.own = WrittenTo(tx[x], i, n) /\ q.ops = tx[x].ops
          /\ q.known = tx[x].known /\ q.todo = tx[x].todo /\ q.audit = tx[x].audit
      BY <1>3, <2>2, OwnIs
    <2> HIDE DEF q
    <2>4. tx[x].audit \in Int
      BY <1>3 DEF TxRecord
    <2>5. q.audit = tx[x].audit + Balance(View(x)[i], n)
      BY <1>5, <2>2, <2>3, <2>4 DEF Balance
    <2>6. NewRow(x, i, c) /\ c \in Contents
      BY <1>1, <1>3, <1>8, NobodyWaited DEF NewRow
    <2>7. NothingNew(x, i, n)
      BY <2>2, <2>6 DEF NothingNew
    <2> QED
      BY <1>1, <1>2, <1>3, <1>4, <1>5, <2>1, <2>2, <2>3, <2>5, <2>7, WriteDone
  <1> QED
    BY <1>7, <1>8

LEMMA ForgetEffect ==
  ASSUME Storage, NEW x \in team, ApplyForget(x)
  PROVE  Effect(x)
  <1> DEFINE i == tx[x].op.id
             q == OneLess(Own(x, i, {}))
  <1>1. /\ tx[x].pc = "delete" /\ WaitsFor(x) = {}
        /\ UNCHANGED <<team, today, rows, audit, hist>>
    BY DEF ApplyForget
  <1>2. tx[x].pc \in OpPCs
    BY <1>1 DEF OpPCs
  <1>3. i \in Ids /\ tx[x] \in TxRecord /\ View(x) \in [Ids -> Cells]
    BY <1>2, OperationIs
  <1>4. Holders(x, i) = {}
    BY <1>1, NobodyWaited
  <1>5. tx' = [tx EXCEPT ![x] = OpDone(IF View(x)[i] = {} THEN tx[x] ELSE q)]
    BY DEF ApplyForget, Set, OneLess
  <1>6. CASE View(x)[i] = {}
    <2>1. tx' = [tx EXCEPT ![x] = OpDone(tx[x])]
      BY <1>5, <1>6
    <2> QED
      BY <1>1, <1>2, <2>1, DoneThinks
  <1>7. CASE View(x)[i] # {}
    <2>1. {} \in Cells
      BY DEF Cells
    <2>2. /\ q \in TxRecord /\ q.own = WrittenTo(tx[x], i, {}) /\ q.ops = tx[x].ops
          /\ q.known = tx[x].known /\ q.todo = tx[x].todo /\ q.audit = tx[x].audit - 1
      BY <1>3, <2>1, OwnIs, OneLessIs
    <2>3. tx' = [tx EXCEPT ![x] = OpDone(q)]
      BY <1>5, <1>7
    <2> HIDE DEF q
    <2>4. tx[x].audit \in Int
      BY <1>3 DEF TxRecord
    <2>5. q.audit = tx[x].audit + Balance(View(x)[i], {})
      BY <1>7, <2>2, <2>4 DEF Balance
    <2>6. NothingNew(x, i, {})
      BY DEF NothingNew, Says
    <2> QED
      BY <1>1, <1>2, <1>3, <1>4, <1>7, <2>1, <2>2, <2>3, <2>5, <2>6, WriteDone
  <1> QED
    BY <1>6, <1>7

LEMMA TouchNextEffect ==
  ASSUME Storage, NEW x \in team, NEW i \in Ids, TouchNext(x, i)
  PROVE  Effect(x)
  <1> DEFINE c == Touched(x, i, tx[x].op.at)
             q == IF c = {} THEN tx[x] ELSE Own(x, i, c)
             t == Passed(q, i)
  <1>1. /\ tx[x].pc = "touching" /\ i \in tx[x].todo /\ Holders(x, i) = {}
        /\ SaidAgain(x, i) /\ UNCHANGED <<team, today, rows, audit>>
    BY DEF TouchNext
  <1>2. tx[x] \in TxRecord /\ Sound(x, tx[x]) /\ BatchSize[team] \in Nat
    BY Parts DEF Storage
  <1>3. tx[x].op.at \in Nat /\ View(x) \in [Ids -> Cells] /\ tx[x].audit \in Int
    BY <1>2, ViewTyped DEF Storage, TxRecord, OpType
  <1>4. /\ c \in Cells /\ (c = {} <=> View(x)[i] = {})
        /\ \A k : Says(c, k) <=> Says(View(x)[i], k)
    BY <1>3, TouchedIs
  <1>5. tx' = [tx EXCEPT ![x] = t]
    BY DEF TouchNext, Set, Passed
  <1> HIDE DEF c
  <1>6. /\ q \in TxRecord /\ q.pc = tx[x].pc /\ q.op = tx[x].op /\ q.known = tx[x].known
        /\ q.todo = tx[x].todo /\ q.ops = tx[x].ops /\ q.audit = tx[x].audit
        /\ (c = {} => q.own = tx[x].own) /\ (c # {} => q.own = WrittenTo(tx[x], i, c))
    <2>1. CASE c = {}
      BY <1>2, <2>1
    <2>2. CASE c # {}
      BY <1>2, <1>4, <2>2, OwnIs
    <2> QED
      BY <2>1, <2>2
  <1> HIDE DEF q
  <1>7. /\ t \in TxRecord /\ t.pc = "touching" /\ t.op = tx[x].op /\ t.own = q.own
        /\ t.known = tx[x].known /\ t.todo \subseteq tx[x].todo /\ t.ops = tx[x].ops
        /\ t.audit = tx[x].audit
    BY <1>1, <1>6, PassedIs
  <1> HIDE DEF t
  <1>8. Sound(x, t) /\ i \in Born /\ t.ops >= tx[x].ops
    <2>1. t.ops \in Nat
      BY <1>7 DEF TxRecord
    <2> QED
      BY <1>1, <1>2, <1>7, <2>1 DEF Sound, OpPCs
  <1>9. CASE c = {}
    <2>1. hist' = hist
      BY <1>1, <1>4, <1>9, NothingToSay DEF Storage
    <2>2. HeldBy(t) = Held(x)
      BY <1>1, <1>6, <1>7, <1>9 DEF HeldBy, Held
    <2>3. Thinks(x, t)
      BY <1>1, <1>5, <1>6, <1>7, <1>8, <1>9, <2>1, <2>2 DEF Thinks
    <2> QED
      BY <2>3 DEF Effect
  <1>10. CASE c # {}
    <2>1. t.own = WrittenTo(tx[x], i, c)
      BY <1>6, <1>7, <1>10
    <2>2. t.audit = tx[x].audit + (IF c = {} THEN 0 ELSE 1) - (IF View(x)[i] = {} THEN 0 ELSE 1)
      BY <1>3, <1>4, <1>7, <1>10
    <2>3. Writes(x, t, i, c)
      BY <1>1, <1>4, <1>5, <1>7, <1>8, <1>10, <2>1, <2>2 DEF Writes, WrittenTo
    <2> QED
      BY <2>3 DEF Effect
  <1> QED
    BY <1>9, <1>10

-----------------------------------------------------------------------------
(* Sorting: the sequences of a set's members *)

LEMMA SetsListed ==
  ASSUME NEW S
  PROVE  SetToSeqs(S) = Listings(S)
  BY DEF SetToSeqs, Listings

LEMMA SortExists ==
  ASSUME NEW S, IsFiniteSet(S), NEW R, TotalOrder(S, R)
  PROVE  \E s \in SetToSeqs(S) : InOrderOf(s, S, R)
  BY OrderExists, SetsListed

LEMMA SeqsOf ==
  ASSUME NEW S, IsFiniteSet(S), NEW s \in SetToSeqs(S)
  PROVE  /\ s \in Seq(S) /\ Len(s) = Cardinality(S) /\ DOMAIN s = 1 .. Cardinality(S)
         /\ \A k, l \in DOMAIN s : s[k] = s[l] => k = l
         /\ Range(s) = S /\ Cardinality(S) \in Nat
  BY SetsListed, ListingsAre

-----------------------------------------------------------------------------
(* What a turn quotes *)

Once(s) == \A k, l \in DOMAIN s : s[k] = s[l] => k = l

LEMMA PrefixIs ==
  ASSUME NEW S, NEW s \in Seq(S), NEW n \in 0 .. Len(s)
  PROVE  /\ SubSeq(s, 1, n) \in Seq(S) /\ Len(SubSeq(s, 1, n)) = n
         /\ DOMAIN SubSeq(s, 1, n) = 1 .. n
         /\ \A k \in 1 .. n : SubSeq(s, 1, n)[k] = s[k]
         /\ Once(s) => Once(SubSeq(s, 1, n))
         /\ Range(SubSeq(s, 1, n)) = {s[k] : k \in 1 .. n}
  <1> DEFINE p == SubSeq(s, 1, n)
  <1>1. p \in Seq(S) /\ Len(p) = n /\ DOMAIN p = 1 .. n /\ \A k \in 1 .. n : p[k] = s[k]
    OBVIOUS
  <1>2. DOMAIN s = 1 .. Len(s) /\ Len(s) \in Nat
    OBVIOUS
  <1> HIDE DEF p
  <1>3. Once(s) => Once(p)
    BY <1>1, <1>2 DEF Once
  <1>4. Range(p) = {s[k] : k \in 1 .. n}
    BY <1>1 DEF Range
  <1> QED
    BY <1>1, <1>3, <1>4 DEF p

\* The profile of the rows that have not expired, the last used first.
LEMMA ProfileIs ==
  ASSUME NEW V \in [Ids -> Cells], today \in Nat
  PROVE  ProfileFirst(V) \in Seq(VisibleIn(V)) /\ Once(ProfileFirst(V))
  <1> DEFINE P == {i \in VisibleIn(V) : Row(V, i).content \in Profile}
             R == {p \in P \X P : Before(V, p[1], p[2])}
             s == CHOOSE q \in SetToSeqs(P) :
                      \A k, l \in 1 .. Cardinality(P) : k < l => Before(V, q[k], q[l])
  <1>1. /\ P \subseteq VisibleIn(V) /\ VisibleIn(V) \subseteq Ids /\ IsFiniteSet(P)
        /\ \A i \in P : Row(V, i).until \in Nat /\ i \in Nat
    <2>1. /\ P \subseteq VisibleIn(V) /\ VisibleIn(V) \subseteq Existing(V)
          /\ Existing(V) \subseteq Ids
      BY DEF VisibleIn, Existing
    <2>2. IsFiniteSet(P)
      BY <2>1, Bounds, FS_Subset
    <2>3. \A i \in P : Row(V, i).until \in Nat
      BY <2>1, CellRow DEF Existing, RowType
    <2> QED
      BY <2>1, <2>2, <2>3, Bounds
  <1> HIDE DEF P
  <1>2. \A i, j \in P : <<i, j>> \in R <=> Before(V, i, j)
    OBVIOUS
  <1> HIDE DEF R
  <1>3. TotalOrder(P, R)
    <2> DEFINE u == [i \in P |-> Row(V, i).until]
    <2>1. u \in [P -> Nat] /\ \A i \in P : u[i] = Row(V, i).until /\ i \in Nat
      BY <1>1
    <2>2. \A i, j \in P : Before(V, i, j) <=> (u[i] > u[j] \/ (u[i] = u[j] /\ i > j))
      BY <2>1 DEF Before
    <2> HIDE DEF u
    <2>3. \A i, j \in P : <<i, j>> \in R <=> (u[i] > u[j] \/ (u[i] = u[j] /\ i > j))
      BY <1>2, <2>2
    <2>4. /\ \A i \in P : <<i, i>> \notin R
          /\ \A i, j \in P : i # j => <<i, j>> \in R \/ <<j, i>> \in R
      BY <2>1, <2>3
    <2>5. ASSUME NEW i \in P, NEW j \in P, NEW k \in P, <<i, j>> \in R, <<j, k>> \in R
          PROVE  <<i, k>> \in R
      <3>1. /\ u[i] > u[j] \/ (u[i] = u[j] /\ i > j)
            /\ u[j] > u[k] \/ (u[j] = u[k] /\ j > k)
        BY <2>3, <2>5
      <3>2. /\ u[i] \in Nat /\ u[j] \in Nat /\ u[k] \in Nat
            /\ i \in Nat /\ j \in Nat /\ k \in Nat
        BY <2>1
      <3>3. u[i] > u[k] \/ (u[i] = u[k] /\ i > k)
        BY <3>1, <3>2
      <3> QED
        BY <2>3, <3>3
    <2> QED
      BY <2>4, <2>5 DEF TotalOrder
  <1>4. s \in SetToSeqs(P)
    <2>1. PICK q \in SetToSeqs(P) : InOrderOf(q, P, R)
      BY <1>1, <1>3, SortExists
    <2>2. \A k, l \in 1 .. Cardinality(P) : k < l => Before(V, q[k], q[l])
      <3>1. q \in [1 .. Cardinality(P) -> P]
        BY DEF SetToSeqs
      <3> QED
        BY <1>2, <2>1, <3>1 DEF InOrderOf
    <2> QED
      BY <2>2
  <1> HIDE DEF s
  <1>5. s \in Seq(VisibleIn(V)) /\ Once(s)
    BY <1>1, <1>4, SeqsOf DEF Once
  <1> DEFINE m == IF Len(s) < MaxProfile THEN Len(s) ELSE MaxProfile
  <1>6. m \in 0 .. Len(s)
    <2>1. Len(s) \in Nat /\ MaxProfile \in Nat
      BY <1>5, SavedAssumption
    <2> QED
      BY <2>1
  <1>7. ProfileFirst(V) = SubSeq(s, 1, m)
    BY DEF ProfileFirst, Sorted, P, s
  <1> HIDE DEF m
  <1> QED
    BY <1>5, <1>6, <1>7, PrefixIs

\* What is ranked and not in the profile follows it, in the same order.
Follows(fresh, profile, ranked, S) ==
    /\ AddRanked(profile, ranked) = profile \o fresh
    /\ fresh \in Seq(S) /\ Once(fresh) /\ Range(fresh) = Range(ranked) \ Range(profile)
    /\ \A k, l \in DOMAIN fresh : k < l =>
           \E m, n \in DOMAIN ranked : m < n /\ ranked[m] = fresh[k] /\ ranked[n] = fresh[l]

LEMMA AddedIs ==
  ASSUME NEW S, IsFiniteSet(S), NEW profile \in Seq(S), Once(profile),
         NEW ranked \in Seq(S), Once(ranked)
  PROVE  \E fresh : Follows(fresh, profile, ranked, S)
  <1> DEFINE N == Range(ranked) \ Range(profile)
             Earlier(i, j) == \E k, l \in DOMAIN ranked : k < l /\ ranked[k] = i /\ ranked[l] = j
             R == {p \in N \X N : Earlier(p[1], p[2])}
             fresh == CHOOSE q \in SetToSeqs(N) :
                          \A k, l \in 1 .. Cardinality(N) : k < l => Earlier(q[k], q[l])
  <1>1. N \subseteq S /\ N \subseteq Range(ranked) /\ IsFiniteSet(N)
    <2>1. Range(ranked) \subseteq S
      BY DEF Range
    <2>2. N \in SUBSET S
      BY <2>1
    <2> QED
      BY <2>1, <2>2, FS_Subset
  <1>2. AddRanked(profile, ranked) = profile \o fresh
    BY DEF AddRanked, Sorted
  <1> HIDE DEF N
  <1>3. \A i, j \in N : <<i, j>> \in R <=> Earlier(i, j)
    OBVIOUS
  <1> HIDE DEF R
  <1>4. TotalOrder(N, R)
    <2> DEFINE D == DOMAIN ranked
    <2>1. /\ D \subseteq Nat /\ \A k, l \in D : ranked[k] = ranked[l] => k = l
          /\ \A i \in N : \E k \in D : ranked[k] = i
      BY <1>1 DEF Once, Range
    <2> HIDE DEF D
    <2>2. \A i, j \in N : <<i, j>> \in R <=> \E k, l \in D : k < l /\ ranked[k] = i /\ ranked[l] = j
      BY <1>3 DEF D
    <2> DEFINE at == [i \in N |-> CHOOSE k \in D : ranked[k] = i]
    <2>3. \A i \in N : at[i] \in D /\ ranked[at[i]] = i /\ at[i] \in Nat
      BY <2>1
    <2> HIDE DEF at
    <2>4. ASSUME NEW i \in N, NEW j \in N PROVE <<i, j>> \in R <=> at[i] < at[j]
      <3>1. \A k \in D : (ranked[k] = i => k = at[i]) /\ (ranked[k] = j => k = at[j])
        BY <2>1, <2>3
      <3> QED
        BY <2>2, <2>3, <3>1
    <2>5. \A i, j \in N : at[i] = at[j] => i = j
      BY <2>3
    <2>6. ASSUME NEW i \in N, NEW j \in N, NEW k \in N, <<i, j>> \in R, <<j, k>> \in R
          PROVE  <<i, k>> \in R
      <3>1. at[i] < at[j] /\ at[j] < at[k] /\ at[i] \in Nat /\ at[j] \in Nat /\ at[k] \in Nat
        BY <2>3, <2>4, <2>6
      <3>2. at[i] < at[k]
        BY <3>1
      <3> QED
        BY <2>4, <3>2
    <2>7. \A i \in N : <<i, i>> \notin R
      BY <2>3, <2>4
    <2>8. \A i, j \in N : i # j => <<i, j>> \in R \/ <<j, i>> \in R
      BY <2>3, <2>4, <2>5
    <2> QED
      BY <2>6, <2>7, <2>8 DEF TotalOrder
  <1>5. /\ fresh \in SetToSeqs(N)
        /\ \A k, l \in 1 .. Cardinality(N) : k < l => Earlier(fresh[k], fresh[l])
    <2>1. PICK q \in SetToSeqs(N) : InOrderOf(q, N, R)
      BY <1>1, <1>4, SortExists
    <2>2. q \in [1 .. Cardinality(N) -> N]
      BY DEF SetToSeqs
    <2> HIDE DEF Earlier
    <2>3. \A k, l \in 1 .. Cardinality(N) : k < l => Earlier(q[k], q[l])
      BY <1>3, <2>1, <2>2 DEF InOrderOf
    <2> QED
      BY <2>3
  <1> HIDE DEF fresh
  <1>6. /\ fresh \in Seq(S) /\ Once(fresh) /\ Range(fresh) = N
        /\ DOMAIN fresh = 1 .. Cardinality(N)
    BY <1>1, <1>5, SeqsOf DEF Once
  <1>7. \A k, l \in DOMAIN fresh : k < l => Earlier(fresh[k], fresh[l])
    BY <1>5, <1>6
  <1> QED
    BY <1>2, <1>6, <1>7 DEF N, Follows

\* How the tokens are counted: nothing takes none.
LEMMA NothingFits ==
  ASSUME NEW V
  PROVE  Fits(V, <<>>)
  <1> DEFINE none == <<>>
             step(g, s) == LET x == Max(s)
                           IN  g[s \ {x}] + Cost[Row(V, none[x]).content]
             F(g) == [s \in SUBSET DOMAIN none |-> IF s = {} THEN 0 ELSE step(g, s)]
             it == CHOOSE g : g = F(g)
             z == [s \in SUBSET DOMAIN none |-> 0]
  <1>1. Tokens(V, <<>>) = it[DOMAIN none]
    BY DEF Tokens, FoldLeft, MapThenFoldSet
  <1>2. DOMAIN none = {}
    OBVIOUS
  <1> HIDE DEF step
  <1>3. z = F(z)
    BY <1>2
  <1> HIDE DEF z
  <1>4. it = F(it)
    BY <1>3
  <1> HIDE DEF it
  <1>5. it[DOMAIN none] = 0
    BY <1>2, <1>4
  <1>6. Len(none) = 0 /\ TopK \in Nat /\ MaxTokens \in Nat
    BY SavedAssumption
  <1> QED
    BY <1>1, <1>5, <1>6 DEF Fits

\* A prefix that fits and is the longest.
Fitting(V, chosen) ==
    {n \in 0 .. Len(chosen) : /\ Fits(V, SubSeq(chosen, 1, n))
                              /\ n < Len(chosen) => ~Fits(V, SubSeq(chosen, 1, n + 1))}

LEMMA FittingExists ==
  ASSUME NEW V, NEW S, NEW chosen \in Seq(S)
  PROVE  Fitting(V, chosen) # {}
  <1> DEFINE good(n) == Fits(V, SubSeq(chosen, 1, n))
             bad == {n \in 0 .. Len(chosen) : ~good(n)}
  <1>1. Len(chosen) \in Nat /\ good(0)
    <2>1. 0 \in 0 .. Len(chosen)
      OBVIOUS
    <2>2. SubSeq(chosen, 1, 0) \in Seq(S) /\ Len(SubSeq(chosen, 1, 0)) = 0
      BY <2>1, PrefixIs
    <2>3. SubSeq(chosen, 1, 0) = <<>>
      BY <2>2
    <2>4. Len(chosen) \in Nat /\ Fits(V, <<>>)
      BY NothingFits
    <2>5. good(0)
      BY <2>3, <2>4
    <2> QED
      BY <2>4, <2>5
  <1>2. CASE bad = {}
    <2>1. good(Len(chosen))
      BY <1>1, <1>2
    <2> QED
      BY <1>1, <2>1 DEF Fitting
  <1>3. CASE bad # {}
    <2>1. bad \subseteq Nat /\ IsFiniteSet(bad)
      <3>1. IsFiniteSet(0 .. Len(chosen)) /\ bad \in SUBSET (0 .. Len(chosen))
        BY <1>1, FS_Interval
      <3> HIDE DEF bad, good
      <3>2. IsFiniteSet(bad)
        BY <3>1, FS_Subset
      <3> QED
        BY <3>1, <3>2
    <2>2. PICK n \in bad : \A m \in bad : n <= m
      BY <1>3, <2>1, LeastExists
    <2>3. n \in 1 .. Len(chosen) /\ ~good(n) /\ n - 1 \notin bad
      <3>1. n \in 0 .. Len(chosen) /\ ~good(n)
        BY <2>2
      <3>2. n # 0
        BY <1>1, <3>1
      <3> QED
        BY <1>1, <2>2, <3>1, <3>2
    <2>4. n - 1 \in 0 .. Len(chosen) /\ good(n - 1) /\ n - 1 + 1 = n
      BY <1>1, <2>3
    <2> QED
      BY <2>3, <2>4 DEF Fitting
  <1> QED
    BY <1>2, <1>3

LEMMA RankingIs ==
  ASSUME NEW V \in [Ids -> Cells], NEW ranked \in Rankings(V)
  PROVE  ranked \in Seq(VisibleIn(V)) /\ Once(ranked) /\ IsFiniteSet(VisibleIn(V))
  <1>1. VisibleIn(V) \in SUBSET Ids
    BY DEF VisibleIn, Existing
  <1>2. IsFiniteSet(VisibleIn(V))
    BY <1>1, Bounds, FS_Subset
  <1>3. PICK S \in SUBSET VisibleIn(V) : ranked \in SetToSeqs(S)
    BY DEF Rankings
  <1>4. IsFiniteSet(S)
    BY <1>2, <1>3, FS_Subset
  <1> QED
    BY <1>2, <1>3, <1>4, SeqsOf DEF Once

\* What is said of the selection of any table.
QuotedRight(V, ranked) ==
    LET s == Select(V, ranked)
        inOrder == ProfileFirst(V) \o ranked
    IN /\ IsInjective(s) /\ Fits(V, s)
       /\ \A k \in 1 .. Len(s), m \in DOMAIN inOrder :
              (\A l \in 1 .. m : inOrder[l] # s[k]) => inOrder[m] \in Range(s)
       /\ Range(s) # Range(inOrder) =>
              \E i \in Range(inOrder) \ Range(s) : ~Fits(V, Append(s, i))

LEMMA SelectIs ==
  ASSUME NEW V \in [Ids -> Cells], today \in Nat, NEW ranked \in Rankings(V)
  PROVE  QuotedRight(V, ranked) /\ Range(Select(V, ranked)) \subseteq VisibleIn(V)
  <1> DEFINE S == VisibleIn(V)
             profile == ProfileFirst(V)
             chosen == AddRanked(profile, ranked)
             s == Select(V, ranked)
             inOrder == profile \o ranked
  <1>1. /\ ranked \in Seq(S) /\ Once(ranked) /\ IsFiniteSet(S)
        /\ profile \in Seq(S) /\ Once(profile)
    BY RankingIs, ProfileIs
  <1> HIDE DEF S, profile
  <1>a. PICK fresh : Follows(fresh, profile, ranked, S)
    BY <1>1, AddedIs
  <1>2. /\ chosen = profile \o fresh
        /\ fresh \in Seq(S) /\ Once(fresh) /\ Range(fresh) = Range(ranked) \ Range(profile)
        /\ \A k, l \in DOMAIN fresh : k < l =>
               \E m, n \in DOMAIN ranked :
                   m < n /\ ranked[m] = fresh[k] /\ ranked[n] = fresh[l]
    BY <1>a DEF Follows
  <1> HIDE DEF chosen
  <1> DEFINE p == Len(profile)
  <1>b. /\ DOMAIN fresh = 1 .. Len(fresh) /\ DOMAIN profile = 1 .. p
        /\ DOMAIN ranked = 1 .. Len(ranked)
    BY <1>1, <1>2
  <1>3. /\ chosen \in Seq(S) /\ Len(chosen) = p + Len(fresh) /\ p \in Nat /\ Len(fresh) \in Nat
        /\ \A k \in 1 .. p : chosen[k] = profile[k]
        /\ \A k \in 1 .. Len(fresh) : chosen[p + k] = fresh[k]
        /\ \A k \in p + 1 .. Len(chosen) : k - p \in 1 .. Len(fresh) /\ chosen[k] = fresh[k - p]
    BY <1>1, <1>2
  <1>4. Once(chosen)
    <2> SUFFICES ASSUME NEW k \in 1 .. Len(chosen), NEW l \in 1 .. Len(chosen),
                        chosen[k] = chosen[l]
                 PROVE  k = l
      BY <1>3 DEF Once
    <2>1. \A a \in 1 .. p : chosen[a] = profile[a] /\ profile[a] \in Range(profile)
      BY <1>1, <1>3 DEF Range
    <2>2. \A b \in p + 1 .. Len(chosen) : /\ b - p \in DOMAIN fresh /\ chosen[b] = fresh[b - p]
                                          /\ chosen[b] \notin Range(profile)
      <3>1. \A b \in DOMAIN fresh : fresh[b] \notin Range(profile)
        BY <1>2 DEF Range
      <3> QED
        BY <1>2, <1>3, <3>1
    <2>3. CASE k <= p /\ l <= p
      BY <1>1, <1>3, <2>1, <2>3 DEF Once
    <2>4. CASE k > p /\ l > p
      <3>1. k - p = l - p
        BY <1>2, <1>3, <2>2, <2>4 DEF Once
      <3> QED
        BY <1>3, <3>1
    <2>5. CASE k <= p /\ l > p
      <3>1. k \in 1 .. p /\ l \in p + 1 .. Len(chosen)
        BY <1>3, <2>5
      <3> QED
        BY <2>1, <2>2, <3>1
    <2>6. CASE k > p /\ l <= p
      <3>1. l \in 1 .. p /\ k \in p + 1 .. Len(chosen)
        BY <1>3, <2>6
      <3> QED
        BY <2>1, <2>2, <3>1
    <2> QED
      BY <1>3, <2>3, <2>4, <2>5, <2>6
  <1>5. PICK n \in Fitting(V, chosen) : s = SubSeq(chosen, 1, n)
    <2> DEFINE n == CHOOSE n \in 0 .. Len(chosen) :
                        /\ Fits(V, SubSeq(chosen, 1, n))
                        /\ n < Len(chosen) => ~Fits(V, SubSeq(chosen, 1, n + 1))
    <2>1. n \in Fitting(V, chosen)
      BY <1>3, FittingExists DEF Fitting
    <2>2. s = SubSeq(chosen, 1, n)
      BY DEF Select, chosen, profile
    <2> QED
      BY <2>1, <2>2
  <1> HIDE DEF s
  <1>6. /\ n \in 0 .. Len(chosen) /\ Fits(V, s)
        /\ n < Len(chosen) => ~Fits(V, SubSeq(chosen, 1, n + 1))
    BY <1>5 DEF Fitting
  <1>7. /\ s \in Seq(S) /\ Len(s) = n /\ DOMAIN s = 1 .. n /\ Once(s)
        /\ \A k \in 1 .. n : s[k] = chosen[k]
        /\ Range(s) = {chosen[k] : k \in 1 .. n}
    BY <1>3, <1>4, <1>5, <1>6, PrefixIs
  <1>8. Range(s) \subseteq S
    BY <1>7 DEF Range
  <1>9. IsInjective(s)
    BY <1>7 DEF IsInjective, Once
  <1>10. /\ inOrder \in Seq(S) /\ Len(inOrder) = p + Len(ranked) /\ Len(ranked) \in Nat
         /\ DOMAIN inOrder = 1 .. Len(inOrder)
         /\ \A k \in 1 .. p : inOrder[k] = profile[k]
         /\ \A k \in 1 .. Len(ranked) : inOrder[p + k] = ranked[k]
         /\ \A k \in p + 1 .. Len(inOrder) :
                k - p \in 1 .. Len(ranked) /\ inOrder[k] = ranked[k - p]
    BY <1>1, <1>3
  <1> HIDE DEF inOrder, p
  <1>11. \A m \in 1 .. Len(inOrder) :
             \E l \in 1 .. Len(chosen) : /\ inOrder[m] = chosen[l] /\ (m <= p => l = m)
    <2> SUFFICES ASSUME NEW m \in 1 .. Len(inOrder)
                 PROVE  \E l \in 1 .. Len(chosen) : inOrder[m] = chosen[l] /\ (m <= p => l = m)
      OBVIOUS
    <2>1. CASE m <= p
      BY <1>3, <1>10, <2>1
    <2>2. CASE m > p
      <3>1. m - p \in 1 .. Len(ranked) /\ inOrder[m] = ranked[m - p]
        BY <1>3, <1>10, <2>2
      <3>2. ranked[m - p] \in Range(ranked)
        BY <1>1, <3>1 DEF Range
      <3>3. CASE ranked[m - p] \in Range(profile)
        <4>1. PICK l \in 1 .. p : profile[l] = ranked[m - p]
          BY <1>1, <3>3 DEF Range, p
        <4> QED
          BY <1>3, <2>2, <3>1, <4>1
      <3>4. CASE ranked[m - p] \notin Range(profile)
        <4>0. ranked[m - p] \in Range(fresh)
          BY <1>2, <3>2, <3>4
        <4>1. PICK l \in 1 .. Len(fresh) : fresh[l] = ranked[m - p]
          BY <1>b, <4>0 DEF Range
        <4>2. p + l \in 1 .. Len(chosen) /\ chosen[p + l] = fresh[l]
          BY <1>3, <4>1
        <4>3. inOrder[m] = chosen[p + l] /\ ~(m <= p)
          BY <1>3, <1>10, <2>2, <3>1, <4>1, <4>2
        <4> QED
          BY <4>2, <4>3
      <3> QED
        BY <3>3, <3>4
    <2> QED
      BY <1>3, <1>10, <2>1, <2>2
  <1>12. ASSUME NEW k \in 1 .. n, NEW m \in 1 .. Len(inOrder),
                \A l \in 1 .. m : inOrder[l] # s[k]
         PROVE  inOrder[m] \in Range(s)
    <2>1. /\ s[k] = chosen[k] /\ k \in 1 .. Len(chosen) /\ n <= Len(chosen)
          /\ k \in Nat /\ m \in Nat /\ n \in Nat
      BY <1>3, <1>6, <1>7, <1>10
    <2>2. PICK l \in 1 .. Len(chosen) : inOrder[m] = chosen[l] /\ (m <= p => l = m)
      BY <1>11
    <2>3. l < k
      <3> SUFFICES ASSUME l >= k PROVE FALSE
        BY <1>3, <2>1, <2>2
      <3>1. CASE k <= p
        <4>1. k \in 1 .. p
          BY <1>3, <2>1, <3>1
        <4>2. inOrder[k] = chosen[k]
          BY <1>3, <1>10, <4>1
        <4>3. ~(k <= m)
          BY <1>12, <2>1, <4>2
        <4>4. m <= p /\ l = m
          BY <1>3, <2>1, <2>2, <3>1, <4>3
        <4> QED
          BY <1>3, <2>1, <2>2, <4>3, <4>4
      <3>2. CASE k > p
        <4>1. l # k
          <5>1. inOrder[m] # s[k]
            BY <1>10, <1>12
          <5> QED
            BY <2>1, <2>2, <5>1
        <4>2. /\ k - p \in DOMAIN fresh /\ chosen[k] = fresh[k - p]
              /\ l - p \in DOMAIN fresh /\ chosen[l] = fresh[l - p] /\ k - p < l - p
          BY <1>2, <1>3, <2>1, <2>2, <3>2, <4>1
        <4>3. PICK u \in DOMAIN ranked, v \in DOMAIN ranked :
                  u < v /\ ranked[u] = fresh[k - p] /\ ranked[v] = fresh[l - p]
          BY <1>2, <4>2
        <4>4. m > p
          BY <1>3, <2>1, <2>2, <3>2
        <4>5. m - p \in DOMAIN ranked /\ inOrder[m] = ranked[m - p]
          <5>1. m \in p + 1 .. Len(inOrder)
            BY <1>3, <1>10, <2>1, <4>4
          <5> QED
            BY <1>b, <1>10, <5>1
        <4>6. v = m - p
          BY <1>1, <2>2, <4>2, <4>3, <4>5 DEF Once
        <4>7. u \in 1 .. Len(ranked) /\ p + u < m /\ inOrder[p + u] = ranked[u]
          <5>1. /\ u \in 1 .. Len(ranked) /\ u < m - p /\ u \in Nat /\ p \in Nat /\ m \in Nat
            BY <1>3, <1>b, <2>1, <4>3, <4>6
          <5> QED
            BY <1>10, <5>1
        <4>8. p + u \in 1 .. m
          BY <1>3, <1>10, <4>7
        <4> QED
          BY <1>12, <2>1, <4>2, <4>3, <4>7, <4>8
      <3> QED
        BY <1>3, <2>1, <3>1, <3>2
    <2>4. l \in 1 .. n
      BY <1>3, <2>1, <2>2, <2>3
    <2> QED
      BY <1>7, <2>2, <2>4
  <1>13. ASSUME Range(s) # Range(inOrder)
         PROVE  \E i \in Range(inOrder) \ Range(s) : ~Fits(V, Append(s, i))
    <2>1. Range(inOrder) = {chosen[k] : k \in 1 .. Len(chosen)}
      <3>1. \A k \in 1 .. Len(chosen) : \E m \in 1 .. Len(inOrder) : inOrder[m] = chosen[k]
        <4> SUFFICES ASSUME NEW k \in 1 .. Len(chosen)
                     PROVE  \E m \in 1 .. Len(inOrder) : inOrder[m] = chosen[k]
          OBVIOUS
        <4>1. CASE k <= p
          BY <1>3, <1>10, <4>1
        <4>2. CASE k > p
          <5>1. k - p \in DOMAIN fresh /\ chosen[k] = fresh[k - p]
            BY <1>2, <1>3, <4>2
          <5>2. fresh[k - p] \in Range(ranked)
            BY <1>2, <5>1 DEF Range
          <5>3. PICK u \in 1 .. Len(ranked) : ranked[u] = fresh[k - p]
            BY <1>1, <5>2 DEF Range
          <5>4. p + u \in 1 .. Len(inOrder) /\ inOrder[p + u] = ranked[u]
            BY <1>3, <1>10, <5>3
          <5> QED
            BY <5>1, <5>3, <5>4
        <4> QED
          BY <1>3, <4>1, <4>2
      <3>2. Range(inOrder) = {inOrder[m] : m \in 1 .. Len(inOrder)}
        BY <1>10 DEF Range
      <3> QED
        BY <1>11, <3>1, <3>2
    <2>2. n < Len(chosen)
      BY <1>3, <1>6, <1>7, <1>13, <2>1
    <2> DEFINE i == chosen[n + 1]
    <2>3. n + 1 \in 1 .. Len(chosen)
      BY <1>3, <1>6, <2>2
    <2>4. i \in Range(inOrder)
      BY <2>1, <2>3
    <2>5. i \notin Range(s)
      <3> SUFFICES ASSUME NEW k \in 1 .. n, chosen[k] = chosen[n + 1] PROVE FALSE
        BY <1>7
      <3>a. n \in Nat /\ Len(chosen) \in Nat /\ n + 1 <= Len(chosen)
        BY <1>3, <1>6, <2>2
      <3>1. k \in 1 .. Len(chosen) /\ k # n + 1
        BY <3>a
      <3> QED
        BY <1>3, <1>4, <2>3, <3>1 DEF Once
    <2>6. Append(s, i) = SubSeq(chosen, 1, n + 1)
      <3>1. /\ Len(Append(s, i)) = n + 1 /\ Append(s, i) \in Seq(S)
            /\ \A k \in 1 .. n + 1 : Append(s, i)[k] = chosen[k]
        <4>1. i \in S
          BY <1>3, <2>3
        <4> HIDE DEF i
        <4>2. /\ Len(Append(s, i)) = n + 1 /\ Append(s, i) \in Seq(S)
              /\ \A k \in 1 .. n : Append(s, i)[k] = s[k]
              /\ Append(s, i)[n + 1] = i
          BY <1>6, <1>7, <4>1
        <4>3. \A k \in 1 .. n + 1 : k \in 1 .. n \/ k = n + 1
          BY <1>3, <1>6
        <4> QED
          BY <1>7, <4>2, <4>3 DEF i
      <3>2. /\ SubSeq(chosen, 1, n + 1) \in Seq(S) /\ Len(SubSeq(chosen, 1, n + 1)) = n + 1
            /\ \A k \in 1 .. n + 1 : SubSeq(chosen, 1, n + 1)[k] = chosen[k]
        <4>1. n + 1 \in 0 .. Len(chosen)
          BY <1>3, <2>3
        <4> QED
          BY <1>3, <4>1, PrefixIs
      <3> QED
        BY <3>1, <3>2
    <2> QED
      BY <1>6, <2>2, <2>4, <2>5, <2>6
  <1>14. QuotedRight(V, ranked)
    BY <1>6, <1>7, <1>9, <1>10, <1>12, <1>13 DEF QuotedRight, s, inOrder, profile
  <1> QED
    BY <1>8, <1>14 DEF S, s

-----------------------------------------------------------------------------
(* Beginnings and ends *)

LEMMA RollbackEnds ==
  ASSUME Storage, NEW x \in team, Rollback(x)
  PROVE  Effect(x)
  <1>1. /\ tx' = [tx EXCEPT ![x] = NoTx] /\ UNCHANGED <<team, today, rows, audit, hist>>
    BY DEF Rollback, Set
  <1>2. Ends(x, NoTx)
    BY <1>1, NoTxIs, NoOpTyped DEF Ends
  <1> QED
    BY <1>1, <1>2 DEF Effect, KeepsTable

LEMMA CommitEnds ==
  ASSUME Storage, NEW x \in team, tx[x].pc \in {"writing", "touching"}, CommitOwn(x)
  PROVE  Effect(x)
  <1>1. tx' = [tx EXCEPT ![x] = NoTx] /\ UNCHANGED <<team, today>>
    BY DEF CommitOwn, Set
  <1>2. Ends(x, NoTx)
    BY <1>1, NoTxIs, NoOpTyped DEF Ends
  <1>3. Commits(x)
    BY DEF CommitOwn, Commits
  <1> QED
    BY <1>2, <1>3 DEF Effect

\* A turn that reads goes on with what it quotes, or with nothing.
Touching(todo, at) ==
    [NoTx EXCEPT !.pc = "touching", !.todo = todo, !.op = [NoOperation EXCEPT !.at = at]]

LEMMA TouchingIs ==
  ASSUME NEW todo \in SUBSET Ids, NEW at \in Nat
  PROVE  LET t == Touching(todo, at)
         IN  /\ t \in TxRecord /\ t.pc = "touching" /\ DOMAIN t.own = {} /\ t.audit = 0
             /\ t.ops = 0 /\ t.op.id = 0 /\ t.known = {} /\ t.todo = todo
  <1> DEFINE op == [NoOperation EXCEPT !.at = at]
             t == [NoTx EXCEPT !.pc = "touching", !.todo = todo, !.op = op]
  <1>1. op \in OpType /\ op.id = 0
    BY NoOpTyped DEF NoOperation, OpType
  <1> HIDE DEF op
  <1>2. "touching" \in PCs
    BY DEF PCs
  <1>3. /\ t \in TxRecord /\ t.pc = "touching" /\ t.own = NoTx.own /\ t.audit = NoTx.audit
        /\ t.ops = NoTx.ops /\ t.op = op /\ t.known = NoTx.known /\ t.todo = todo
    BY <1>1, <1>2, NoTxIs DEF TxRecord
  <1>4. Touching(todo, at) = t
    BY DEF Touching, op
  <1> HIDE DEF t
  <1> QED
    BY <1>1, <1>3, <1>4, NoTxIs

LEMMA RetrieveEnds ==
  ASSUME Storage, NEW x \in team, Retrieve(x)
  PROVE  Effect(x)
  <1>1. UNCHANGED <<team, today, rows, audit, hist>>
    BY DEF Retrieve
  <1>2. PICK ranked \in Rankings(rows) :
            tx' = [tx EXCEPT ![x] = Touching(Range(Select(rows, ranked)), today)]
    BY DEF Retrieve, Set, Touching
  <1> DEFINE todo == Range(Select(rows, ranked))
             t == Touching(todo, today)
  <1>3. rows \in [Ids -> Cells] /\ today \in Nat
    BY Parts DEF Storage
  <1>4. todo \subseteq VisibleIn(rows)
    BY <1>3, SelectIs
  <1> HIDE DEF todo
  <1>5. todo \subseteq Born /\ todo \in SUBSET Ids
    BY <1>4 DEF VisibleIn, Existing, Born
  <1>6. /\ t \in TxRecord /\ t.pc = "touching" /\ DOMAIN t.own = {} /\ t.audit = 0
        /\ t.ops = 0 /\ t.op.id = 0 /\ t.known = {} /\ t.todo = todo
    BY <1>3, <1>5, TouchingIs
  <1>7. tx' = [tx EXCEPT ![x] = t]
    BY <1>2 DEF todo
  <1> HIDE DEF t
  <1>8. Ends(x, t)
    BY <1>1, <1>5, <1>6, <1>7 DEF Ends
  <1> QED
    BY <1>1, <1>8 DEF Effect, KeepsTable

Relating(known) == [NoTx EXCEPT !.pc = "writing", !.known = known]

LEMMA RelatingIs ==
  ASSUME NEW known \in SUBSET Ids
  PROVE  LET t == Relating(known)
         IN  /\ t \in TxRecord /\ t.pc = "writing" /\ DOMAIN t.own = {} /\ t.audit = 0
             /\ t.ops = 0 /\ t.op.id = 0 /\ t.known = known /\ t.todo = {}
  <1>1. "writing" \in PCs
    BY DEF PCs
  <1>2. LET t == Relating(known)
        IN /\ t \in TxRecord /\ t.pc = "writing" /\ t.own = NoTx.own /\ t.audit = NoTx.audit
           /\ t.ops = NoTx.ops /\ t.op = NoTx.op /\ t.known = known /\ t.todo = NoTx.todo
    BY <1>1, NoTxIs DEF TxRecord, Relating
  <1> QED
    BY <1>2, NoTxIs, NoOpTyped

LEMMA ReadRelatedEnds ==
  ASSUME Storage, NEW x \in Writers \cap team, ReadRelated(x)
  PROVE  Effect(x)
  <1> DEFINE known == VisibleIn(rows)
             t == Relating(known)
  <1>1. tx[x].pc = "idle" /\ Purge /\ UNCHANGED <<team, today>> /\ tx' = [tx EXCEPT ![x] = t]
    BY DEF ReadRelated, Set, Relating
  <1>2. known \subseteq Born /\ known \in SUBSET Ids
    BY DEF VisibleIn, Existing, Born
  <1> HIDE DEF known
  <1>3. /\ t \in TxRecord /\ t.pc = "writing" /\ DOMAIN t.own = {} /\ t.audit = 0
        /\ t.ops = 0 /\ t.op.id = 0 /\ t.known = known /\ t.todo = {}
    BY <1>2, RelatingIs
  <1> HIDE DEF t
  <1>4. Ends(x, t)
    BY <1>1, <1>2, <1>3 DEF Ends
  <1> QED
    BY <1>1, <1>4 DEF Effect, Reads

LEMMA AbortEffect ==
  ASSUME Storage, NEW x \in team, AbortDeadlocked(x)
  PROVE  Effect(x)
  <1>1. /\ tx' = [tx EXCEPT ![x] = AfterAbort(tx[x])] /\ tx[x].pc \in OpPCs \cup {"touching"}
        /\ UNCHANGED <<team, today, rows, audit, hist>>
    BY WaitsIs DEF AbortDeadlocked, Set
  <1>2. CASE tx[x].pc = "touching"
    <2> DEFINE t == [NoTx EXCEPT !.pc = "touching"]
    <2>1. AfterAbort(tx[x]) = t
      BY <1>2 DEF AfterAbort
    <2>2. "touching" \in PCs
      BY DEF PCs
    <2>3. /\ t \in TxRecord /\ t.pc = "touching" /\ t.own = NoTx.own /\ t.audit = NoTx.audit
          /\ t.ops = NoTx.ops /\ t.op = NoTx.op /\ t.known = NoTx.known /\ t.todo = NoTx.todo
      BY <2>2, NoTxIs DEF TxRecord
    <2>4. tx' = [tx EXCEPT ![x] = t]
      BY <1>1, <2>1
    <2> HIDE DEF t
    <2>5. Ends(x, t)
      BY <1>1, <2>3, <2>4, NoTxIs, NoOpTyped DEF Ends
    <2> QED
      BY <1>1, <2>5 DEF Effect, KeepsTable
  <1>3. CASE tx[x].pc \in OpPCs
    <2>1. AfterAbort(tx[x]) = OpDone(tx[x])
      BY <1>3 DEF AfterAbort, OpPCs
    <2> QED
      BY <1>1, <1>3, <2>1, DoneThinks
  <1> QED
    BY <1>1, <1>2, <1>3

\* Every step of a transaction has one of these effects.
LEMMA StatementEffect ==
  ASSUME Storage, NEW x \in team, Statement(x)
  PROVE  Effect(x)
  <1>1. ASSUME NEW i \in Ids, TouchNext(x, i) PROVE Effect(x)
    BY <1>1, TouchNextEffect
  <1>2. ASSUME CommitWrites(x) PROVE Effect(x)
    BY <1>2, CommitEnds DEF CommitWrites
  <1>3. ASSUME EndTurn(x) PROVE Effect(x)
    BY <1>3, CommitEnds DEF EndTurn
  <1> QED
    BY <1>1, <1>2, <1>3, TouchEffect, InsertEffect, LockThinks, UpdateEffect, ForgetEffect,
       AbortEffect DEF Statement

LEMMA NextEffect ==
  ASSUME Storage, SavedNext
  PROVE  \/ \E x \in team : Effect(x)
         \/ \E i \in Ids : DeleteMemory(i)
         \/ ListMemories \/ NextDay
  <1>1. ASSUME NEW x \in Writers \cap team, NEW c \in Contents,
               Remember(x, c) \/ \E i \in Ids : Update(x, i, c)
        PROVE  Effect(x)
    <2>1. CASE Remember(x, c)
      BY <2>1, RememberThinks
    <2>2. ASSUME NEW i \in Ids, Update(x, i, c) PROVE Effect(x)
      BY <2>2, ChangeThinks DEF Update
    <2> QED
      BY <1>1, <2>1, <2>2
  <1>2. ASSUME NEW x \in Writers \cap team, NEW i \in Ids, Forget(x, i) PROVE Effect(x)
    BY <1>2, ChangeThinks DEF Forget
  <1>3. ASSUME NEW x \in Writers \cap team, ReadRelated(x) PROVE Effect(x)
    BY <1>3, ReadRelatedEnds
  <1>4. ASSUME NEW x \in team, Statement(x) \/ Rollback(x) PROVE Effect(x)
    BY <1>4, StatementEffect, RollbackEnds
  <1>5. ASSUME NEW x \in Chats \cap team, Retrieve(x) PROVE Effect(x)
    BY <1>5, RetrieveEnds
  <1> QED
    BY <1>1, <1>2, <1>3, <1>4, <1>5 DEF SavedNext

-----------------------------------------------------------------------------
(* The storage: types, ids and locks *)

LEMMA Stepped ==
  ASSUME Storage, NEW x \in team, NEW t, tx' = [tx EXCEPT ![x] = t], team' = team
  PROVE  tx'[x] = t /\ \A y \in team \ {x} : tx'[y] = tx[y]
  BY Parts DEF Storage

LEMMA PurgeIs ==
  ASSUME Storage, Purge
  PROVE  /\ rows' \in [Ids -> Cells]
         /\ \A i \in Ids : rows'[i] = IF i \in Expired(rows) THEN {} ELSE rows[i]
         /\ \A i \in HeldRows : i \in Ids => rows'[i] = rows[i]
         /\ hist' \in [gone : SUBSET Ids, revived : SUBSET Ids]
         /\ hist'.gone = hist.gone \cup Expired(rows) /\ hist'.revived = hist.revived
         /\ audit' \in Int /\ Born' = Born /\ Expired(rows) \subseteq Existing(rows)
         /\ Existing(rows)' = Existing(rows) \ Expired(rows)
  <1>1. /\ rows \in [Ids -> Cells] /\ audit \in Int /\ {} \in Cells
        /\ hist \in [gone : SUBSET Ids, revived : SUBSET Ids]
    BY Parts DEF Storage, Cells
  <1>2. Expired(rows) \subseteq Existing(rows) /\ Existing(rows) \subseteq Ids
    BY DEF Expired, Existing
  <1>3. IsFiniteSet(Expired(rows)) /\ Cardinality(Expired(rows)) \in Nat
    <2>1. IsFiniteSet(Expired(rows))
      BY <1>2, Bounds, FS_Subset
    <2> QED
      BY <2>1, FS_CardinalityType
  <1>4. /\ rows' = [i \in Ids |-> IF i \in Expired(rows) THEN {} ELSE rows[i]]
        /\ hist' = [hist EXCEPT !.gone = @ \cup Expired(rows)]
        /\ audit' = audit - Cardinality(Expired(rows)) /\ Expired(rows) \cap HeldRows = {}
    BY DEF Purge
  <1>5. /\ rows' \in [Ids -> Cells]
        /\ \A i \in Ids : rows'[i] = IF i \in Expired(rows) THEN {} ELSE rows[i]
        /\ \A i \in HeldRows : i \in Ids => rows'[i] = rows[i]
        /\ audit' \in Int
    BY <1>1, <1>3, <1>4
  <1>6. /\ hist' \in [gone : SUBSET Ids, revived : SUBSET Ids]
        /\ hist'.gone = hist.gone \cup Expired(rows) /\ hist'.revived = hist.revived
    BY <1>1, <1>2, <1>4
  <1>7. Existing(rows)' = Existing(rows) \ Expired(rows)
    BY <1>5 DEF Existing
  <1>8. Born' = Born
    BY <1>2, <1>6, <1>7 DEF Born
  <1> QED
    BY <1>2, <1>5, <1>6, <1>7, <1>8

LEMMA CommitIs ==
  ASSUME Storage, NEW x \in team, Commits(x)
  PROVE  /\ rows' \in [Ids -> Cells] /\ rows' = View(x)
         /\ \A i \in Ids : rows'[i] = Seen(tx[x], i)
         /\ \A y \in team \ {x} : \A i \in Held(y) : rows'[i] = rows[i]
         /\ hist' \in [gone : SUBSET Ids, revived : SUBSET Ids]
         /\ hist'.gone = hist.gone \cup (Existing(rows) \ Existing(View(x)))
         /\ hist'.revived = hist.revived \cup (Expired(rows) \cap VisibleIn(View(x)))
         /\ audit' \in Int /\ Born \subseteq Born' /\ Born' \subseteq Born \cup Held(x)
  <1>1. /\ View(x) \in [Ids -> Cells] /\ \A i \in Ids : View(x)[i] = Seen(tx[x], i)
        /\ audit \in Int /\ tx[x] \in TxRecord
        /\ hist \in [gone : SUBSET Ids, revived : SUBSET Ids]
    BY Parts, ViewTyped DEF Storage
  <1>2. /\ rows' = View(x) /\ audit' = audit + tx[x].audit /\ tx[x].audit \in Int
        /\ hist' = [gone |-> hist.gone \cup (Existing(rows) \ Existing(View(x))),
                    revived |-> hist.revived \cup (Expired(rows) \cap VisibleIn(View(x)))]
    BY <1>1 DEF Commits, TxRecord
  <1>3. /\ rows' \in [Ids -> Cells] /\ \A i \in Ids : rows'[i] = Seen(tx[x], i)
        /\ audit' \in Int
    BY <1>1, <1>2
  <1>4. Existing(rows) \subseteq Ids /\ Expired(rows) \subseteq Ids
    BY DEF Existing, Expired
  <1>5. /\ hist' \in [gone : SUBSET Ids, revived : SUBSET Ids]
        /\ hist'.gone = hist.gone \cup (Existing(rows) \ Existing(View(x)))
        /\ hist'.revived = hist.revived \cup (Expired(rows) \cap VisibleIn(View(x)))
    BY <1>1, <1>2, <1>4
  <1>6. \A y \in team \ {x} : \A i \in Held(y) : rows'[i] = rows[i]
    <2> SUFFICES ASSUME NEW y \in team \ {x}, NEW i \in Held(y) PROVE rows'[i] = rows[i]
      OBVIOUS
    <2>1. i \in Ids /\ i \notin DOMAIN tx[x].own
      BY HeldTyped DEF Storage, HeldOnce
    <2> QED
      BY <1>3, <2>1 DEF Seen
  <1>7. Existing(rows)' = Existing(View(x))
    BY <1>2 DEF Existing
  <1>8. Born \subseteq Born' /\ Born' \subseteq Born \cup Held(x)
    <2>1. \A i \in Existing(View(x)) : i \in Existing(rows) \/ i \in DOMAIN tx[x].own
      BY <1>1 DEF Existing, Seen
    <2> QED
      BY <1>5, <1>7, <2>1, HeldTyped DEF Born
  <1> QED
    BY <1>2, <1>3, <1>5, <1>6, <1>8

LEMMA ThinksStorage ==
  ASSUME Storage, NEW x \in team, NEW t, Thinks(x, t)
  PROVE  Storage'
  <1>1. /\ t \in TxRecord /\ tx' = [tx EXCEPT ![x] = t] /\ Sound(x, t)
        /\ UNCHANGED <<team, today, rows, audit, hist>> /\ t.own = tx[x].own
        /\ t.pc = "insert" => Unheld(x, t.op.id)
        /\ \A i \in HeldBy(t) : i \in Held(x) \/ (Holders(x, i) = {} /\ i \in Born)
    BY DEF Thinks
  <1>2. Born' = Born
    BY <1>1 DEF Born, Existing
  <1>3. Moves(x, t)
    BY <1>1, <1>2, Parts DEF Moves, Storage
  <1>4. Sound(x, t)'
    BY <1>1, <1>2 DEF Sound, Seen
  <1> QED
    BY <1>1, <1>3, <1>4, MoveKeeps

LEMMA WritesStorage ==
  ASSUME Storage, NEW x \in team, NEW t, NEW i, NEW c, Writes(x, t, i, c)
  PROVE  Storage' /\ hist' \in [gone : SUBSET Ids, revived : SUBSET Ids] /\ hist'.gone = hist.gone
  <1>1. /\ t \in TxRecord /\ tx' = [tx EXCEPT ![x] = t] /\ Sound(x, t)
        /\ UNCHANGED <<team, today, rows, audit>>
        /\ i \in Ids /\ Holders(x, i) = {} /\ (i \in Born \/ i = tx[x].op.id)
        /\ t.own = [j \in DOMAIN tx[x].own \cup {i} |-> IF j = i THEN c ELSE tx[x].own[j]]
        /\ t.pc \in {"writing", "touching"}
        /\ SaidAgain(x, i) \/ hist' = hist
    BY DEF Writes
  <1>2. /\ hist' \in [gone : SUBSET Ids, revived : SUBSET Ids] /\ hist'.gone = hist.gone
    <2>1. hist \in [gone : SUBSET Ids, revived : SUBSET Ids]
      BY Parts DEF Storage
    <2>2. CASE hist' = hist
      BY <2>1, <2>2
    <2>3. CASE SaidAgain(x, i)
      BY <1>1, <2>1, <2>3 DEF SaidAgain
    <2> QED
      BY <1>1, <2>2, <2>3
  <1>3. Born' = Born
    BY <1>1, <1>2 DEF Born, Existing
  <1>4. Moves(x, t)
    BY <1>1, <1>2, <1>3, Parts DEF Moves, Storage
  <1>5. Sound(x, t)'
    BY <1>1, <1>3 DEF Sound, Seen
  <1>6. HeldBy(t) = DOMAIN tx[x].own \cup {i}
    BY <1>1 DEF HeldBy
  <1>7. \A j \in HeldBy(t) :
            j \in Held(x) \/ (Holders(x, j) = {} /\ (j \in Born \/ j = tx[x].op.id))
    BY <1>1, <1>6 DEF Held
  <1> QED
    BY <1>1, <1>2, <1>4, <1>5, <1>7, MoveKeeps

LEMMA EndsStorage ==
  ASSUME Storage, NEW x \in team, NEW t, Ends(x, t), KeepsTable \/ Commits(x) \/ Reads(x)
  PROVE  Storage'
  <1>1. /\ t \in TxRecord /\ tx' = [tx EXCEPT ![x] = t] /\ UNCHANGED <<team, today>>
        /\ DOMAIN t.own = {} /\ t.pc \in {"idle", "writing", "touching"}
        /\ t.ops = 0 /\ t.op.id = 0 /\ t.known \cup t.todo \subseteq Born
        /\ x \notin Writers => t.pc \in {"idle", "touching"}
    BY DEF Ends
  <1>2. /\ rows' \in [Ids -> Cells] /\ audit' \in Int
        /\ hist' \in [gone : SUBSET Ids, revived : SUBSET Ids]
        /\ Born \subseteq Born' /\ Born' \subseteq Born \cup Held(x)
        /\ \A y \in team \ {x} : \A i \in Held(y) : rows'[i] = rows[i]
    <2>1. CASE KeepsTable
      BY <2>1, Parts DEF KeepsTable, Storage, Born, Existing
    <2>2. CASE Commits(x)
      BY <2>2, CommitIs
    <2>3. CASE Reads(x)
      <3>1. Purge
        BY <2>3 DEF Reads
      <3> QED
        BY <3>1, PurgeIs, HeldTyped DEF HeldRows
    <2> QED
      BY <2>1, <2>2, <2>3
  <1>3. Moves(x, t)
    BY <1>1, <1>2 DEF Moves
  <1>4. Sound(x, t)'
    <2>1. BatchSize[team] \in Nat
      BY Parts DEF Storage
    <2> QED
      BY <1>1, <1>2, <2>1 DEF Sound, OpPCs
  <1>5. HeldBy(t) = {}
    BY <1>1 DEF HeldBy
  <1> QED
    BY <1>1, <1>3, <1>4, <1>5, MoveKeeps

LEMMA DeleteIs ==
  ASSUME Storage, NEW i \in Ids, DeleteMemory(i)
  PROVE  /\ rows' \in [Ids -> Cells] /\ rows'[i] = {} /\ \A j \in Ids : j # i => rows'[j] = rows[j]
         /\ hist' \in [gone : SUBSET Ids, revived : SUBSET Ids]
         /\ hist'.gone = hist.gone \cup {i} /\ hist'.revived = hist.revived
         /\ audit' = audit - (IF i \in Existing(rows) THEN 1 ELSE 0)
         /\ i \in Born /\ i \notin HeldRows /\ UNCHANGED <<team, today, tx>>
         /\ Existing(rows)' = Existing(rows) \ {i}
  <1>1. /\ rows \in [Ids -> Cells] /\ audit \in Int /\ {} \in Cells
        /\ hist \in [gone : SUBSET Ids, revived : SUBSET Ids]
    BY Parts DEF Storage, Cells
  <1>2. /\ rows' = [rows EXCEPT ![i] = {}] /\ hist' = [hist EXCEPT !.gone = @ \cup {i}]
        /\ audit' = IF Deleted(i) THEN audit - 1 ELSE audit
        /\ i \in Born /\ i \notin HeldRows /\ UNCHANGED <<team, today, tx>>
    BY DEF DeleteMemory, Born
  <1>3. rows' \in [Ids -> Cells] /\ rows'[i] = {} /\ \A j \in Ids : j # i => rows'[j] = rows[j]
    BY <1>1, <1>2
  <1>4. audit' = audit - (IF i \in Existing(rows) THEN 1 ELSE 0)
    BY <1>1, <1>2 DEF Deleted, Existing
  <1>5. Existing(rows)' = Existing(rows) \ {i}
    BY <1>3 DEF Existing
  <1>6. /\ hist' \in [gone : SUBSET Ids, revived : SUBSET Ids]
        /\ hist'.gone = hist.gone \cup {i} /\ hist'.revived = hist.revived
    BY <1>1, <1>2
  <1> QED
    BY <1>2, <1>3, <1>4, <1>5, <1>6

LEMMA OthersStorage ==
  ASSUME Storage, (\E i \in Ids : DeleteMemory(i)) \/ ListMemories \/ NextDay
  PROVE  Storage'
  <1>1. today \in 0 .. MaxDay /\ MaxDay \in Nat /\ audit \in Int /\ today \in Nat
    BY Bounds, Parts DEF Storage, RowsTyped
  <1>2. \A y \in team : Held(y) \subseteq Ids
    BY HeldTyped
  <1>3. ASSUME NEW i \in Ids, DeleteMemory(i) PROVE Storage'
    <2>1. /\ rows' \in [Ids -> Cells] /\ \A j \in Ids : j # i => rows'[j] = rows[j]
          /\ hist' \in [gone : SUBSET Ids, revived : SUBSET Ids]
          /\ hist'.gone = hist.gone \cup {i} /\ i \in Born /\ i \notin HeldRows
          /\ audit' \in Int /\ UNCHANGED <<team, today, tx>>
          /\ Existing(rows)' = Existing(rows) \ {i}
      BY <1>1, <1>3, DeleteIs
    <2>2. Born' = Born
      BY <2>1 DEF Born
    <2>3. \A j \in HeldRows : rows'[j] = rows[j]
      BY <1>2, <2>1 DEF HeldRows
    <2> QED
      BY <1>1, <2>1, <2>2, <2>3, RowsMove
  <1>4. CASE ListMemories
    <2>1. Purge /\ UNCHANGED <<team, today, tx>>
      BY <1>4 DEF ListMemories
    <2>2. \A j \in HeldRows : rows'[j] = rows[j]
      BY <1>2, <2>1, PurgeIs DEF HeldRows
    <2> QED
      BY <1>1, <2>1, <2>2, PurgeIs, RowsMove
  <1>5. CASE NextDay
    <2>1. today' \in 0 .. MaxDay /\ UNCHANGED <<team, rows, tx, audit, hist>>
      BY <1>1, <1>5 DEF NextDay
    <2>2. Born' = Born
      BY <2>1 DEF Born, Existing
    <2> QED
      BY <2>1, <2>2, Parts, RowsMove DEF Storage
  <1> QED
    BY <1>3, <1>4, <1>5

-----------------------------------------------------------------------------
(* One row for each content *)

Apart(c, d) == \A k : ~(Says(c, k) /\ Says(d, k))
RowsApart == \A i, j \in Ids : i # j => Apart(rows[i], rows[j])
SeenApart(t) == \A i, j \in Ids : i # j => Apart(Seen(t, i), Seen(t, j))
OwnApart(t, u) == \A i \in DOMAIN t.own, j \in DOMAIN u.own : Apart(t.own[i], u.own[j])

Distinct ==
    /\ RowsApart
    /\ \A x \in team : SeenApart(tx[x])
    /\ \A x, y \in team : x # y => OwnApart(tx[x], tx[y])

LEMMA ApartLess ==
  ASSUME NEW c, NEW d, NEW e, NEW f, Apart(c, d), \A k : Says(e, k) => Says(c, k),
         \A k : Says(f, k) => Says(d, k)
  PROVE  Apart(e, f)
  BY DEF Apart

\* Rows lose what they say, and what transactions wrote is as it was.
LEMMA DistinctLess ==
  ASSUME Storage, Distinct, team' = team,
         \A i \in Ids : \A k : Says(rows'[i], k) => Says(rows[i], k),
         \A x \in team : tx'[x].own = tx[x].own
  PROVE  Distinct'
  <1>1. RowsApart'
    BY ApartLess DEF Distinct, RowsApart
  <1>2. ASSUME NEW x \in team PROVE SeenApart(tx[x])'
    <2>1. \A i \in Ids : \A k : Says(Seen(tx[x], i)', k) => Says(Seen(tx[x], i), k)
      BY DEF Seen
    <2>2. SeenApart(tx[x])
      BY DEF Distinct
    <2>3. ASSUME NEW i \in Ids, NEW j \in Ids, i # j PROVE Apart(Seen(tx[x], i)', Seen(tx[x], j)')
      BY <2>1, <2>2, <2>3, ApartLess DEF SeenApart
    <2> QED
      BY <2>3 DEF SeenApart, Apart, Says
  <1>3. \A x, y \in team : x # y => OwnApart(tx[x], tx[y])'
    BY DEF Distinct, OwnApart, Apart, Says
  <1> QED
    BY <1>1, <1>2, <1>3 DEF Distinct

LEMMA NewRowIs ==
  ASSUME Storage, NEW x \in team, NEW i \in Ids, NEW k, NewRow(x, i, k)
  PROVE  /\ \A j \in Ids \ {i} : ~Says(Seen(tx[x], j), k)
         /\ \A y \in team \ {x} : \A j \in DOMAIN tx[y].own : ~Says(tx[y].own[j], k)
  <1>1. RowsTyped /\ today \in Nat
    BY Parts DEF Storage
  <1>2. View(x) \in [Ids -> Cells] /\ \A j \in Ids : View(x)[j] = Seen(tx[x], j)
    BY <1>1, ViewTyped
  <1>3. WithContent(View(x), k) = {j \in Ids : Says(View(x)[j], k)}
    BY <1>1, <1>2, CellSets
  <1>4. \A j \in Ids \ {i} : ~Says(Seen(tx[x], j), k)
    BY <1>2, <1>3 DEF NewRow, Unique
  <1>5. ASSUME NEW y \in team \ {x}, NEW j \in DOMAIN tx[y].own PROVE ~Says(tx[y].own[j], k)
    <2>1. j \in Held(y) /\ j \in Ids
      BY HeldTyped
    <2>2. View(y)[j] = tx[y].own[j]
      BY <1>1, <2>1, ViewTyped DEF Seen
    <2>3. \A r \in View(y)[j] : r.content # k
      BY <2>1 DEF NewRow, ContentHolders
    <2> QED
      BY <2>2, <2>3 DEF Says
  <1> QED
    BY <1>4, <1>5

LEMMA WritesApart ==
  ASSUME Storage, Distinct, NEW x \in team, NEW t, NEW i, NEW c, Writes(x, t, i, c)
  PROVE  Distinct'
  <1>1. /\ tx' = [tx EXCEPT ![x] = t] /\ team' = team /\ rows' = rows
        /\ i \in Ids /\ Holders(x, i) = {}
        /\ t.own = [j \in DOMAIN tx[x].own \cup {i} |-> IF j = i THEN c ELSE tx[x].own[j]]
        /\ \A k : Says(c, k) => Says(View(x)[i], k) \/ (k \in Contents /\ NewRow(x, i, k))
    BY DEF Writes
  <1>2. tx'[x] = t /\ \A y \in team \ {x} : tx'[y] = tx[y]
    BY <1>1, Stepped
  <1>3. \A k : Says(c, k) => Says(Seen(tx[x], i), k) \/ NewRow(x, i, k)
    BY <1>1, ViewTyped DEF Storage
  <1>4. ASSUME NEW b \in Ids \ {i} PROVE Apart(c, Seen(tx[x], b))
    <2>1. Apart(Seen(tx[x], i), Seen(tx[x], b))
      BY <1>1 DEF Distinct, SeenApart
    <2>2. \A k : NewRow(x, i, k) => ~Says(Seen(tx[x], b), k)
      BY <1>1, NewRowIs
    <2> QED
      BY <1>3, <2>1, <2>2 DEF Apart
  <1>5. ASSUME NEW y \in team \ {x}, NEW b \in DOMAIN tx[y].own PROVE Apart(c, tx[y].own[b])
    <2>1. /\ b \in Ids /\ b \in Held(y) /\ i \notin Held(y) /\ b # i
          /\ DOMAIN tx[y].own \subseteq Held(y)
      BY <1>1, HeldTyped DEF Holders
    <2>2. Apart(Seen(tx[x], i), tx[y].own[b])
      <3>1. CASE i \in DOMAIN tx[x].own
        BY <1>1, <3>1 DEF Distinct, OwnApart, Seen
      <3>2. CASE i \notin DOMAIN tx[x].own
        <4>1. Seen(tx[x], i) = Seen(tx[y], i) /\ Seen(tx[y], b) = tx[y].own[b]
          BY <2>1, <3>2 DEF Seen
        <4>2. Apart(Seen(tx[y], i), Seen(tx[y], b))
          BY <1>1, <2>1 DEF Distinct, SeenApart
        <4> QED
          BY <4>1, <4>2
      <3> QED
        BY <3>1, <3>2
    <2>3. \A k : NewRow(x, i, k) => ~Says(tx[y].own[b], k)
      BY <1>1, NewRowIs
    <2> QED
      BY <1>3, <2>2, <2>3 DEF Apart
  <1>6. RowsApart'
    BY <1>1 DEF Distinct, RowsApart, Apart, Says
  <1>7. \A a \in Ids : Seen(t, a) = IF a = i THEN c ELSE Seen(tx[x], a)
    BY <1>1 DEF Seen
  <1>8. SeenApart(t)
    <2> SUFFICES ASSUME NEW a \in Ids, NEW b \in Ids, a # b PROVE Apart(Seen(t, a), Seen(t, b))
      BY DEF SeenApart
    <2>1. CASE a = i
      BY <1>4, <1>7, <2>1
    <2>2. CASE b = i
      BY <1>4, <1>7, <2>2 DEF Apart
    <2>3. CASE a # i /\ b # i
      BY <1>7, <2>3 DEF Distinct, SeenApart
    <2> QED
      BY <2>1, <2>2, <2>3
  <1>9. ASSUME NEW y \in team PROVE SeenApart(tx[y])'
    <2>1. CASE y = x
      <3>1. \A a \in Ids : Seen(tx[x], a)' = Seen(t, a)
        BY <1>1, <1>2 DEF Seen
      <3>2. \A a, b \in Ids : a # b => Apart(Seen(tx[x], a)', Seen(tx[x], b)')
        BY <1>8, <3>1 DEF SeenApart
      <3> QED
        BY <2>1, <3>2 DEF SeenApart, Apart, Says
    <2>2. CASE y # x
      BY <1>1, <1>2, <2>2 DEF Distinct, SeenApart, Apart, Says, Seen
    <2> QED
      BY <2>1, <2>2
  <1>10. ASSUME NEW y \in team \ {x} PROVE OwnApart(t, tx[y]) /\ OwnApart(tx[y], t)
    <2>1. ASSUME NEW a \in DOMAIN t.own, NEW b \in DOMAIN tx[y].own
          PROVE  Apart(t.own[a], tx[y].own[b])
      <3>1. CASE a = i
        BY <1>1, <1>5, <3>1
      <3>2. CASE a # i
        <4>1. a \in DOMAIN tx[x].own /\ t.own[a] = tx[x].own[a]
          BY <1>1, <3>2
        <4> QED
          BY <4>1 DEF Distinct, OwnApart
      <3> QED
        BY <3>1, <3>2
    <2> QED
      BY <2>1 DEF OwnApart, Apart
  <1>11. ASSUME NEW y \in team, NEW z \in team, y # z PROVE OwnApart(tx'[y], tx'[z])
    <2>1. CASE y = x
      BY <1>2, <1>10, <1>11, <2>1
    <2>2. CASE z = x
      BY <1>2, <1>10, <1>11, <2>2
    <2>3. CASE y # x /\ z # x
      BY <1>2, <1>11, <2>3 DEF Distinct
    <2> QED
      BY <2>1, <2>2, <2>3
  <1>12. \A y, z \in team : y # z => OwnApart(tx[y], tx[z])'
    BY <1>11 DEF OwnApart, Apart, Says
  <1> QED
    BY <1>1, <1>6, <1>9, <1>12 DEF Distinct

LEMMA CommitApart ==
  ASSUME Storage, Distinct, NEW x \in team, NEW t, Ends(x, t), Commits(x)
  PROVE  Distinct'
  <1>1. tx'[x] = t /\ DOMAIN t.own = {} /\ team' = team /\ \A y \in team \ {x} : tx'[y] = tx[y]
    BY Stepped DEF Ends
  <1>2. /\ \A i \in Ids : rows'[i] = Seen(tx[x], i)
        /\ \A y \in team \ {x} : \A i \in Held(y) : rows'[i] = rows[i]
    BY CommitIs
  <1>3. ASSUME NEW i \in Ids, NEW j \in Ids, i # j PROVE Apart(rows'[i], rows'[j])
    BY <1>2, <1>3 DEF Distinct, SeenApart
  <1>4. RowsApart'
    BY <1>3 DEF RowsApart, Apart, Says
  <1>5. ASSUME NEW y \in team \ {x}, NEW i \in Ids, NEW j \in Ids, i # j
        PROVE  Apart(Seen(tx[y], i)', Seen(tx[y], j)')
    <2>1. \A k \in Ids : Seen(tx[y], k)' = IF k \in DOMAIN tx[y].own THEN tx[y].own[k]
                                           ELSE Seen(tx[x], k)
      BY <1>1, <1>2 DEF Seen
    <2>2. ASSUME NEW a \in Ids, NEW b \in Ids, a \in DOMAIN tx[y].own, b \notin DOMAIN tx[y].own
          PROVE  Apart(tx[y].own[a], Seen(tx[x], b))
      <3>1. a \notin DOMAIN tx[x].own
        BY <2>2, HeldTyped DEF Storage, HeldOnce
      <3>2. CASE b \in DOMAIN tx[x].own
        BY <2>2, <3>2 DEF Distinct, OwnApart, Seen
      <3>3. CASE b \notin DOMAIN tx[x].own
        <4>1. Seen(tx[x], b) = Seen(tx[y], b) /\ Seen(tx[y], a) = tx[y].own[a] /\ a # b
          BY <2>2, <3>3 DEF Seen
        <4> QED
          BY <4>1 DEF Distinct, SeenApart
      <3> QED
        BY <3>2, <3>3
    <2>3. CASE i \in DOMAIN tx[y].own /\ j \in DOMAIN tx[y].own
      <3>1. Seen(tx[y], i) = tx[y].own[i] /\ Seen(tx[y], j) = tx[y].own[j]
        BY <2>3 DEF Seen
      <3> QED
        BY <1>5, <2>1, <2>3, <3>1 DEF Distinct, SeenApart
    <2>4. CASE i \in DOMAIN tx[y].own /\ j \notin DOMAIN tx[y].own
      BY <2>1, <2>2, <2>4
    <2>5. CASE i \notin DOMAIN tx[y].own /\ j \in DOMAIN tx[y].own
      BY <2>1, <2>2, <2>5 DEF Apart
    <2>6. CASE i \notin DOMAIN tx[y].own /\ j \notin DOMAIN tx[y].own
      BY <1>5, <2>1, <2>6 DEF Distinct, SeenApart
    <2> QED
      BY <2>3, <2>4, <2>5, <2>6
  <1>6. ASSUME NEW i \in Ids, NEW j \in Ids, i # j
        PROVE  Apart(Seen(tx[x], i)', Seen(tx[x], j)')
    BY <1>1, <1>3, <1>6 DEF Seen
  <1>7. \A y \in team : SeenApart(tx[y])'
    BY <1>5, <1>6 DEF SeenApart, Apart, Says
  <1>8. ASSUME NEW y \in team, NEW z \in team, y # z PROVE OwnApart(tx'[y], tx'[z])
    <2>1. CASE y = x \/ z = x
      BY <1>1, <2>1 DEF OwnApart
    <2>2. CASE y # x /\ z # x
      BY <1>1, <1>8, <2>2 DEF Distinct
    <2> QED
      BY <2>1, <2>2
  <1>9. \A y, z \in team : y # z => OwnApart(tx[y], tx[z])'
    BY <1>8 DEF OwnApart, Apart, Says
  <1> QED
    BY <1>1, <1>4, <1>7, <1>9 DEF Distinct

\* What was never committed is forgotten; what expired goes.
LEMMA EndApart ==
  ASSUME Storage, Distinct, NEW x \in team, NEW t, Ends(x, t),
         \A i \in Ids : \A k : Says(rows'[i], k) => Says(rows[i], k)
  PROVE  Distinct'
  <1>1. tx'[x] = t /\ DOMAIN t.own = {} /\ team' = team /\ \A y \in team \ {x} : tx'[y] = tx[y]
    BY Stepped DEF Ends
  <1>2. ASSUME NEW i \in Ids, NEW j \in Ids, i # j PROVE Apart(rows'[i], rows'[j])
    BY <1>2, ApartLess DEF Distinct, RowsApart
  <1>3. RowsApart'
    BY <1>2 DEF RowsApart, Apart, Says
  <1>4. ASSUME NEW y \in team, NEW i \in Ids, NEW j \in Ids, i # j
        PROVE  Apart(Seen(tx[y], i)', Seen(tx[y], j)')
    <2>1. CASE y = x
      BY <1>1, <1>2, <1>4, <2>1 DEF Seen
    <2>2. CASE y # x
      <3>1. \A a \in Ids : \A k : Says(Seen(tx[y], a)', k) => Says(Seen(tx[y], a), k)
        BY <1>1, <2>2 DEF Seen
      <3> QED
        BY <1>4, <3>1, ApartLess DEF Distinct, SeenApart
    <2> QED
      BY <2>1, <2>2
  <1>5. \A y \in team : SeenApart(tx[y])'
    BY <1>4 DEF SeenApart, Apart, Says
  <1>6. ASSUME NEW y \in team, NEW z \in team, y # z PROVE OwnApart(tx'[y], tx'[z])
    <2>1. CASE y = x \/ z = x
      BY <1>1, <2>1 DEF OwnApart
    <2>2. CASE y # x /\ z # x
      BY <1>1, <1>6, <2>2 DEF Distinct
    <2> QED
      BY <2>1, <2>2
  <1>7. \A y, z \in team : y # z => OwnApart(tx[y], tx[z])'
    BY <1>6 DEF OwnApart, Apart, Says
  <1> QED
    BY <1>1, <1>3, <1>5, <1>7 DEF Distinct

LEMMA EffectApart ==
  ASSUME Storage, Distinct, NEW x \in team, Effect(x)
  PROVE  Distinct'
  <1>1. ASSUME NEW t, Thinks(x, t) PROVE Distinct'
    <2>1. team' = team /\ rows' = rows /\ t.own = tx[x].own /\ tx' = [tx EXCEPT ![x] = t]
      BY <1>1 DEF Thinks
    <2>2. \A y \in team : tx'[y].own = tx[y].own
      BY <2>1, Stepped
    <2> QED
      BY <2>1, <2>2, DistinctLess
  <1>2. ASSUME NEW t, NEW i, NEW c, Writes(x, t, i, c) PROVE Distinct'
    BY <1>2, WritesApart
  <1>3. ASSUME NEW t, Ends(x, t), KeepsTable PROVE Distinct'
    BY <1>3, EndApart DEF KeepsTable
  <1>4. ASSUME NEW t, Ends(x, t), Commits(x) PROVE Distinct'
    BY <1>4, CommitApart
  <1>5. ASSUME NEW t, Ends(x, t), Reads(x) PROVE Distinct'
    <2>1. \A i \in Ids : rows'[i] = {} \/ rows'[i] = rows[i]
      BY <1>5, PurgeIs DEF Reads
    <2>2. \A i \in Ids : \A k : Says(rows'[i], k) => Says(rows[i], k)
      BY <2>1 DEF Says
    <2> QED
      BY <1>5, <2>2, EndApart
  <1> QED
    BY <1>1, <1>2, <1>3, <1>4, <1>5 DEF Effect

LEMMA OthersApart ==
  ASSUME Storage, Distinct, (\E i \in Ids : DeleteMemory(i)) \/ ListMemories \/ NextDay
  PROVE  Distinct'
  <1>1. UNCHANGED <<team, tx>>
    BY DEF DeleteMemory, ListMemories, NextDay
  <1>2. \A j \in Ids : rows'[j] = {} \/ rows'[j] = rows[j]
    <2>1. ASSUME NEW i \in Ids, DeleteMemory(i)
          PROVE  \A j \in Ids : rows'[j] = {} \/ rows'[j] = rows[j]
      BY <2>1, DeleteIs
    <2>2. CASE ListMemories
      BY <2>2, PurgeIs DEF ListMemories
    <2>3. CASE NextDay
      BY <2>3 DEF NextDay
    <2> QED
      BY <2>1, <2>2, <2>3
  <1>3. \A i \in Ids : \A k : Says(rows'[i], k) => Says(rows[i], k)
    BY <1>2 DEF Says
  <1> QED
    BY <1>1, <1>3, DistinctLess

-----------------------------------------------------------------------------
(* None comes back *)

NoneBack ==
    \A i \in hist.gone :
        rows[i] = {} /\ \A x \in team : i \in DOMAIN tx[x].own => tx[x].own[i] = {}

LEMMA EffectNoneBack ==
  ASSUME Storage, NoneBack, NEW x \in team, Effect(x)
  PROVE  NoneBack'
  <1>0. hist.gone \subseteq Ids
    BY Parts DEF Storage
  <1>1. ASSUME NEW t, Thinks(x, t) PROVE NoneBack'
    <2>1. /\ team' = team /\ rows' = rows /\ hist' = hist /\ t.own = tx[x].own
          /\ tx' = [tx EXCEPT ![x] = t]
      BY <1>1 DEF Thinks
    <2>2. \A y \in team : tx'[y].own = tx[y].own
      BY <2>1, Stepped
    <2> QED
      BY <2>1, <2>2 DEF NoneBack
  <1>2. ASSUME NEW t, NEW i, NEW c, Writes(x, t, i, c) PROVE NoneBack'
    <2>1. /\ tx' = [tx EXCEPT ![x] = t] /\ team' = team /\ rows' = rows /\ i \in Ids
          /\ t.own = [j \in DOMAIN tx[x].own \cup {i} |-> IF j = i THEN c ELSE tx[x].own[j]]
          /\ View(x)[i] = {} => tx[x].pc = "insert" /\ i = tx[x].op.id
      BY <1>2 DEF Writes
    <2>2. tx'[x] = t /\ \A y \in team \ {x} : tx'[y] = tx[y]
      BY <2>1, Stepped
    <2>3. hist'.gone = hist.gone
      BY <1>2, WritesStorage
    <2>4. i \notin hist.gone
      <3>1. CASE View(x)[i] = {}
        BY <2>1, <3>1 DEF Storage, Fresh, Unheld, Born
      <3>2. CASE View(x)[i] # {}
        <4>1. Seen(tx[x], i) # {}
          BY <2>1, <3>2, ViewTyped DEF Storage
        <4> QED
          BY <4>1 DEF NoneBack, Seen
      <3> QED
        BY <3>1, <3>2
    <2>5. \A j \in hist.gone :
              j \in DOMAIN t.own => j \in DOMAIN tx[x].own /\ t.own[j] = tx[x].own[j]
      BY <2>1, <2>4
    <2>6. ASSUME NEW j \in hist'.gone
          PROVE  rows'[j] = {} /\ \A y \in team' : j \in DOMAIN tx'[y].own => tx'[y].own[j] = {}
      <3>1. j \in hist.gone
        BY <2>3
      <3>2. rows'[j] = {} /\ \A y \in team \ {x} : j \in DOMAIN tx'[y].own => tx'[y].own[j] = {}
        BY <2>1, <2>2, <3>1 DEF NoneBack
      <3>3. j \in DOMAIN t.own => t.own[j] = {}
        BY <2>5, <3>1 DEF NoneBack
      <3> QED
        BY <2>1, <2>2, <3>2, <3>3
    <2> QED
      BY <2>6 DEF NoneBack
  <1>3. ASSUME NEW t, Ends(x, t) PROVE DOMAIN tx'[x].own = {} /\ team' = team
                                      /\ \A y \in team \ {x} : tx'[y] = tx[y]
    <2>1. tx' = [tx EXCEPT ![x] = t] /\ team' = team /\ DOMAIN t.own = {}
      BY <1>3 DEF Ends
    <2> QED
      BY <2>1, Stepped
  <1>4. ASSUME NEW t, Ends(x, t), KeepsTable PROVE NoneBack'
    BY <1>3, <1>4 DEF NoneBack, KeepsTable
  <1>5. ASSUME NEW t, Ends(x, t), Commits(x) PROVE NoneBack'
    <2>1. /\ \A i \in Ids : rows'[i] = Seen(tx[x], i) /\ rows' = View(x)
          /\ hist'.gone = hist.gone \cup (Existing(rows) \ Existing(View(x)))
      BY <1>5, CommitIs
    <2>2. ASSUME NEW i \in hist'.gone
          PROVE  rows'[i] = {} /\ \A y \in team : i \in DOMAIN tx'[y].own => tx'[y].own[i] = {}
      <3>1. CASE i \in hist.gone
        <4>1. i \in Ids /\ rows'[i] = {}
          BY <1>0, <2>1, <3>1 DEF NoneBack, Seen
        <4> QED
          BY <1>3, <1>5, <3>1, <4>1 DEF NoneBack
      <3>2. CASE i \in Existing(rows) \ Existing(View(x))
        <4>1. i \in Ids /\ rows[i] # {} /\ rows'[i] = {}
          BY <2>1, <3>2 DEF Existing
        <4>2. i \in DOMAIN tx[x].own
          BY <2>1, <4>1 DEF Seen
        <4>3. \A y \in team \ {x} : i \notin DOMAIN tx[y].own
          BY <4>2, HeldTyped DEF Storage, HeldOnce
        <4> QED
          BY <1>3, <1>5, <4>1, <4>3
      <3> QED
        BY <2>1, <3>1, <3>2
    <2> QED
      BY <1>3, <1>5, <2>2 DEF NoneBack
  <1>6. ASSUME NEW t, Ends(x, t), Reads(x) PROVE NoneBack'
    <2>1. /\ \A i \in Ids : rows'[i] = IF i \in Expired(rows) THEN {} ELSE rows[i]
          /\ hist'.gone = hist.gone \cup Expired(rows) /\ Expired(rows) \subseteq Ids
      BY <1>6, PurgeIs DEF Reads, Existing
    <2>2. \A y \in team : \A i \in DOMAIN tx[y].own : i \notin Expired(rows)
      BY <1>6, HeldTyped DEF Reads, Purge, HeldRows
    <2> QED
      BY <1>0, <1>3, <1>6, <2>1, <2>2 DEF NoneBack
  <1> QED
    BY <1>1, <1>2, <1>4, <1>5, <1>6 DEF Effect

LEMMA OthersNoneBack ==
  ASSUME Storage, NoneBack, (\E i \in Ids : DeleteMemory(i)) \/ ListMemories \/ NextDay
  PROVE  NoneBack'
  <1>0. hist.gone \subseteq Ids
    BY Parts DEF Storage
  <1>1. \A y \in team : DOMAIN tx[y].own \subseteq Held(y)
    BY HeldTyped
  <1>2. ASSUME NEW i \in Ids, DeleteMemory(i) PROVE NoneBack'
    <2>1. /\ rows'[i] = {} /\ \A j \in Ids : j # i => rows'[j] = rows[j]
          /\ hist'.gone = hist.gone \cup {i} /\ i \notin HeldRows /\ UNCHANGED <<team, tx>>
      BY <1>2, DeleteIs
    <2>2. \A y \in team : i \notin DOMAIN tx[y].own
      BY <1>1, <2>1 DEF HeldRows
    <2> QED
      BY <1>0, <2>1, <2>2 DEF NoneBack
  <1>3. CASE ListMemories
    <2>1. /\ \A i \in Ids : rows'[i] = IF i \in Expired(rows) THEN {} ELSE rows[i]
          /\ hist'.gone = hist.gone \cup Expired(rows) /\ Expired(rows) \subseteq Ids
          /\ UNCHANGED <<team, tx>>
      BY <1>3, PurgeIs DEF ListMemories, Existing
    <2>2. \A y \in team : \A i \in DOMAIN tx[y].own : i \notin Expired(rows)
      BY <1>1, <1>3 DEF ListMemories, Purge, HeldRows
    <2> QED
      BY <1>0, <2>1, <2>2 DEF NoneBack
  <1>4. CASE NextDay
    BY <1>4 DEF NextDay, NoneBack
  <1> QED
    BY <1>2, <1>3, <1>4

-----------------------------------------------------------------------------
(* Every row is accounted for *)

Stored(t) == {i \in DOMAIN t.own : t.own[i] # {}}
Found(t) == {i \in DOMAIN t.own : rows[i] # {}}
Balanced(t) == t.audit = Cardinality(Stored(t)) - Cardinality(Found(t))
Accounts == audit = Cardinality(Existing(rows)) /\ \A x \in team : Balanced(tx[x])

LEMMA CountsAre ==
  ASSUME Storage, NEW x \in team
  PROVE  /\ IsFiniteSet(Stored(tx[x])) /\ Cardinality(Stored(tx[x])) \in Nat
         /\ IsFiniteSet(Found(tx[x])) /\ Cardinality(Found(tx[x])) \in Nat
         /\ IsFiniteSet(Existing(rows)) /\ Cardinality(Existing(rows)) \in Nat
         /\ Stored(tx[x]) \subseteq Ids /\ Found(tx[x]) \subseteq Ids
  <1>1. Stored(tx[x]) \in SUBSET Ids /\ Found(tx[x]) \in SUBSET Ids /\ Existing(rows) \in SUBSET Ids
    BY HeldTyped DEF Stored, Found, Existing
  <1>2. /\ IsFiniteSet(Stored(tx[x])) /\ IsFiniteSet(Found(tx[x])) /\ IsFiniteSet(Existing(rows))
    BY <1>1, Bounds, FS_Subset
  <1> QED
    BY <1>1, <1>2, FS_CardinalityType

\* Two sets that differ by what each has beside a third.
LEMMA SplitCount ==
  ASSUME NEW A, NEW B, IsFiniteSet(A), IsFiniteSet(B), A \cap B = {}
  PROVE  /\ Cardinality(A \cup B) = Cardinality(A) + Cardinality(B)
         /\ Cardinality(A) \in Nat /\ Cardinality(B) \in Nat
  <1>1. /\ Cardinality(A \cup B) = Cardinality(A) + Cardinality(B) - Cardinality(A \cap B)
        /\ Cardinality(A) \in Nat /\ Cardinality(B) \in Nat
    BY FS_Union, FS_CardinalityType
  <1>2. Cardinality(A \cap B) = 0
    BY FS_EmptySet
  <1> QED
    BY <1>1, <1>2

LEMMA ViewCount ==
  ASSUME Storage, NEW x \in team
  PROVE  Cardinality(Existing(View(x))) =
             Cardinality(Existing(rows)) + Cardinality(Stored(tx[x])) - Cardinality(Found(tx[x]))
  <1> DEFINE rest == Existing(rows) \ DOMAIN tx[x].own
  <1>1. /\ View(x) \in [Ids -> Cells] /\ \A i \in Ids : View(x)[i] = Seen(tx[x], i)
        /\ DOMAIN tx[x].own \subseteq Ids
    BY ViewTyped, HeldTyped DEF Storage
  <1>2. /\ Existing(View(x)) = rest \cup Stored(tx[x]) /\ rest \cap Stored(tx[x]) = {}
    BY <1>1 DEF Existing, Stored, Seen
  <1>3. /\ Existing(rows) = rest \cup Found(tx[x]) /\ rest \cap Found(tx[x]) = {}
    BY <1>1 DEF Existing, Found
  <1>4. IsFiniteSet(rest)
    BY CountsAre, FS_Difference
  <1> HIDE DEF rest
  <1>5. /\ Cardinality(Existing(View(x))) = Cardinality(rest) + Cardinality(Stored(tx[x]))
        /\ Cardinality(rest) \in Nat
    BY <1>2, <1>4, CountsAre, SplitCount
  <1>6. Cardinality(Existing(rows)) = Cardinality(rest) + Cardinality(Found(tx[x]))
    BY <1>3, <1>4, CountsAre, SplitCount
  <1> QED
    BY <1>5, <1>6, CountsAre

LEMMA BalancedKept ==
  ASSUME Storage, NEW y \in team, Balanced(tx[y]), tx'[y] = tx[y],
         \A i \in DOMAIN tx[y].own : rows'[i] = rows[i]
  PROVE  Balanced(tx[y])'
  <1>1. Stored(tx[y])' = Stored(tx[y]) /\ Found(tx[y])' = Found(tx[y])
    BY DEF Stored, Found
  <1> QED
    BY <1>1 DEF Balanced

LEMMA WriteBalances ==
  ASSUME Storage, NEW x \in team, Balanced(tx[x]), NEW t, NEW i, NEW c, Writes(x, t, i, c)
  PROVE  Balanced(t)
  <1> DEFINE one(s) == IF s = {} THEN 0 ELSE 1
  <1>1. /\ i \in Ids
        /\ t.own = [j \in DOMAIN tx[x].own \cup {i} |-> IF j = i THEN c ELSE tx[x].own[j]]
        /\ t.audit = tx[x].audit + one(c) - one(View(x)[i])
    BY DEF Writes
  <1>2. View(x)[i] = Seen(tx[x], i)
    BY <1>1, ViewTyped DEF Storage
  <1>3. /\ IsFiniteSet(Stored(tx[x])) /\ Cardinality(Stored(tx[x])) \in Nat
        /\ IsFiniteSet(Found(tx[x])) /\ Cardinality(Found(tx[x])) \in Nat
    BY CountsAre
  <1>4. Stored(t) = IF c = {} THEN Stored(tx[x]) \ {i} ELSE Stored(tx[x]) \cup {i}
    BY <1>1 DEF Stored
  <1>5. Cardinality(Stored(t)) =
            Cardinality(Stored(tx[x])) + one(c) - (IF i \in Stored(tx[x]) THEN 1 ELSE 0)
    <2>1. CASE c = {}
      <3>1. Cardinality(Stored(tx[x]) \ {i}) =
                IF i \in Stored(tx[x]) THEN Cardinality(Stored(tx[x])) - 1
                ELSE Cardinality(Stored(tx[x]))
        BY <1>3, FS_RemoveElement
      <3> QED
        BY <1>3, <1>4, <2>1, <3>1
    <2>2. CASE c # {}
      <3>1. Cardinality(Stored(tx[x]) \cup {i}) =
                IF i \in Stored(tx[x]) THEN Cardinality(Stored(tx[x]))
                ELSE Cardinality(Stored(tx[x])) + 1
        BY <1>3, FS_AddElement
      <3> QED
        BY <1>3, <1>4, <2>2, <3>1
    <2> QED
      BY <2>1, <2>2
  <1>6. CASE i \in DOMAIN tx[x].own
    <2>1. Found(t) = Found(tx[x])
      BY <1>1, <1>6 DEF Found
    <2>2. one(View(x)[i]) = IF i \in Stored(tx[x]) THEN 1 ELSE 0
      BY <1>2, <1>6 DEF Stored, Seen
    <2> QED
      BY <1>1, <1>3, <1>5, <2>1, <2>2 DEF Balanced
  <1>7. CASE i \notin DOMAIN tx[x].own
    <2>1. Found(t) = IF rows[i] = {} THEN Found(tx[x]) ELSE Found(tx[x]) \cup {i}
      BY <1>1, <1>7 DEF Found
    <2>2. i \notin Found(tx[x]) /\ i \notin Stored(tx[x])
      BY <1>7 DEF Found, Stored
    <2>3. Cardinality(Found(t)) = Cardinality(Found(tx[x])) + one(rows[i])
      <3>1. Cardinality(Found(tx[x]) \cup {i}) = Cardinality(Found(tx[x])) + 1
        BY <1>3, <2>2, FS_AddElement
      <3> QED
        BY <1>3, <2>1, <3>1
    <2>4. one(View(x)[i]) = one(rows[i])
      BY <1>2, <1>7 DEF Seen
    <2> HIDE DEF one
    <2>5. one(c) \in Nat /\ one(rows[i]) \in Nat
      BY DEF one
    <2> QED
      BY <1>1, <1>3, <1>5, <2>2, <2>3, <2>4, <2>5 DEF Balanced
  <1> QED
    BY <1>6, <1>7

LEMMA PurgeCounts ==
  ASSUME Storage, Accounts, Purge
  PROVE  /\ audit' = Cardinality(Existing(rows)')
         /\ \A y \in team : \A i \in DOMAIN tx[y].own : rows'[i] = rows[i]
  <1>1. /\ Existing(rows)' = Existing(rows) \ Expired(rows)
        /\ Expired(rows) \subseteq Existing(rows)
        /\ audit' = audit - Cardinality(Expired(rows))
        /\ \A i \in HeldRows : i \in Ids => rows'[i] = rows[i]
    BY PurgeIs DEF Purge
  <1>2. IsFiniteSet(Existing(rows)) /\ Cardinality(Existing(rows)) \in Nat
    <2>1. Existing(rows) \in SUBSET Ids
      BY DEF Existing
    <2>2. IsFiniteSet(Existing(rows))
      BY <2>1, Bounds, FS_Subset
    <2> QED
      BY <2>2, FS_CardinalityType
  <1>3. Existing(rows) \cap Expired(rows) = Expired(rows)
    BY <1>1
  <1>4. Cardinality(Existing(rows) \ Expired(rows)) =
            Cardinality(Existing(rows)) - Cardinality(Expired(rows))
    BY <1>2, <1>3, FS_Difference
  <1>5. \A y \in team : \A i \in DOMAIN tx[y].own : i \in HeldRows /\ i \in Ids
    BY HeldTyped DEF HeldRows
  <1> QED
    BY <1>1, <1>4, <1>5 DEF Accounts

LEMMA EffectAccounts ==
  ASSUME Storage, Accounts, NEW x \in team, Effect(x)
  PROVE  Accounts'
  <1>1. ASSUME NEW t, Thinks(x, t) PROVE Accounts'
    <2>1. /\ UNCHANGED <<team, rows, audit>> /\ t.own = tx[x].own /\ t.audit = tx[x].audit
          /\ tx' = [tx EXCEPT ![x] = t]
      BY <1>1 DEF Thinks
    <2>2. \A y \in team : tx'[y].own = tx[y].own /\ tx'[y].audit = tx[y].audit
      BY <2>1, Stepped
    <2>3. ASSUME NEW y \in team PROVE Balanced(tx[y])'
      <3>1. Stored(tx[y])' = Stored(tx[y]) /\ Found(tx[y])' = Found(tx[y])
        BY <2>1, <2>2 DEF Stored, Found
      <3> QED
        BY <2>2, <3>1 DEF Accounts, Balanced
    <2> QED
      BY <2>1, <2>3 DEF Accounts, Existing
  <1>2. ASSUME NEW t, NEW i, NEW c, Writes(x, t, i, c) PROVE Accounts'
    <2>1. tx' = [tx EXCEPT ![x] = t] /\ UNCHANGED <<team, rows, audit>>
      BY <1>2 DEF Writes
    <2>2. tx'[x] = t /\ \A y \in team \ {x} : tx'[y] = tx[y]
      BY <2>1, Stepped
    <2>3. Balanced(t)
      BY <1>2, WriteBalances DEF Accounts
    <2>4. Balanced(tx[x])'
      BY <2>1, <2>2, <2>3 DEF Balanced, Stored, Found
    <2>5. \A y \in team \ {x} : Balanced(tx[y])'
      BY <2>1, <2>2, BalancedKept DEF Accounts
    <2> QED
      BY <2>1, <2>4, <2>5 DEF Accounts, Existing
  <1>3. ASSUME NEW t, Ends(x, t),
               \A y \in team \ {x} : \A i \in DOMAIN tx[y].own : rows'[i] = rows[i]
        PROVE  team' = team /\ \A y \in team : Balanced(tx[y])'
    <2>1. /\ tx' = [tx EXCEPT ![x] = t] /\ team' = team /\ DOMAIN t.own = {} /\ t.audit = 0
      BY <1>3 DEF Ends
    <2>2. tx'[x] = t /\ \A y \in team \ {x} : tx'[y] = tx[y]
      BY <2>1, Stepped
    <2>3. \A y \in team \ {x} : Balanced(tx[y])'
      BY <1>3, <2>2, BalancedKept DEF Accounts
    <2>4. Balanced(tx[x])'
      <3>1. Stored(tx[x])' = {} /\ Found(tx[x])' = {}
        BY <2>1, <2>2 DEF Stored, Found
      <3> QED
        BY <2>1, <2>2, <3>1, FS_EmptySet DEF Balanced
    <2> QED
      BY <2>1, <2>3, <2>4
  <1>4. ASSUME NEW t, Ends(x, t), KeepsTable PROVE Accounts'
    <2>1. \A y \in team : Balanced(tx[y])' /\ team' = team
      BY <1>3, <1>4 DEF KeepsTable
    <2>2. audit' = Cardinality(Existing(rows)')
      BY <1>4 DEF KeepsTable, Accounts, Existing
    <2> QED
      BY <1>4, <2>1, <2>2 DEF Accounts, Ends
  <1>5. ASSUME NEW t, Ends(x, t), Commits(x) PROVE Accounts'
    <2>1. /\ rows' = View(x) /\ \A y \in team \ {x} : \A i \in Held(y) : rows'[i] = rows[i]
          /\ audit' = audit + tx[x].audit
      BY <1>5, CommitIs DEF Commits
    <2>2. \A y \in team \ {x} : \A i \in DOMAIN tx[y].own : rows'[i] = rows[i]
      BY <2>1, HeldTyped
    <2>3. Existing(rows)' = Existing(View(x))
      BY <2>1 DEF Existing
    <2>4. audit' = Cardinality(Existing(View(x)))
      BY <2>1, ViewCount, CountsAre DEF Accounts, Balanced
    <2> QED
      BY <1>3, <1>5, <2>2, <2>3, <2>4 DEF Accounts
  <1>6. ASSUME NEW t, Ends(x, t), Reads(x) PROVE Accounts'
    BY <1>3, <1>6, PurgeCounts DEF Reads, Accounts
  <1> QED
    BY <1>1, <1>2, <1>4, <1>5, <1>6 DEF Effect

LEMMA OthersAccounts ==
  ASSUME Storage, Accounts, (\E i \in Ids : DeleteMemory(i)) \/ ListMemories \/ NextDay
  PROVE  Accounts'
  <1>1. UNCHANGED <<team, tx>>
    BY DEF DeleteMemory, ListMemories, NextDay
  <1>2. /\ audit' = Cardinality(Existing(rows)')
        /\ \A y \in team : \A i \in DOMAIN tx[y].own : rows'[i] = rows[i]
    <2>1. ASSUME NEW i \in Ids, DeleteMemory(i)
          PROVE  /\ audit' = Cardinality(Existing(rows)')
                 /\ \A y \in team : \A j \in DOMAIN tx[y].own : rows'[j] = rows[j]
      <3>1. /\ \A j \in Ids : j # i => rows'[j] = rows[j]
            /\ i \notin HeldRows /\ Existing(rows)' = Existing(rows) \ {i}
            /\ audit' = audit - (IF i \in Existing(rows) THEN 1 ELSE 0)
        BY <2>1, DeleteIs
      <3>2. \A y \in team : \A j \in DOMAIN tx[y].own : j \in Ids /\ j \in HeldRows
        BY HeldTyped DEF HeldRows
      <3>3. IsFiniteSet(Existing(rows)) /\ Cardinality(Existing(rows)) \in Nat
        <4>1. Existing(rows) \in SUBSET Ids
          BY DEF Existing
        <4>2. IsFiniteSet(Existing(rows))
          BY <4>1, Bounds, FS_Subset
        <4> QED
          BY <4>2, FS_CardinalityType
      <3> DEFINE n == Cardinality(Existing(rows))
                 m == Cardinality(Existing(rows) \ {i})
      <3>4. audit' = m
        <4>1. m = IF i \in Existing(rows) THEN n - 1 ELSE n
          BY <3>3, FS_RemoveElement
        <4>2. audit = n /\ n \in Nat
          BY <3>3 DEF Accounts
        <4> HIDE DEF m, n
        <4> QED
          BY <3>1, <4>1, <4>2
      <3> QED
        BY <3>1, <3>2, <3>4
    <2>2. CASE ListMemories
      BY <2>2, PurgeCounts DEF ListMemories
    <2>3. CASE NextDay
      BY <2>3 DEF NextDay, Accounts, Existing
    <2> QED
      BY <2>1, <2>2, <2>3
  <1>3. \A y \in team : Balanced(tx[y])'
    BY <1>1, <1>2, BalancedKept DEF Accounts
  <1> QED
    BY <1>1, <1>2, <1>3 DEF Accounts

-----------------------------------------------------------------------------
(* How many rows there may be *)

LEMMA TimesMore ==
  ASSUME NEW a \in Nat, NEW b \in Nat, a <= b, NEW m \in Nat
  PROVE  a * m <= b * m /\ (a + 1) * m = a * m + m /\ a * m \in Nat
  <1>1. PICK d \in Nat : b = a + d
    <2>1. b - a \in Nat /\ b = a + (b - a)
      OBVIOUS
    <2> QED
      BY <2>1
  <1>2. b * m = a * m + d * m /\ d * m \in Nat /\ a * m \in Nat
    BY <1>1
  <1> QED
    BY <1>2

\* A few sets of a few members have few members together.
LEMMA UnionBound ==
  ASSUME NEW T, IsFiniteSet(T), NEW g \in [T -> SUBSET Ids], NEW m \in Nat,
         \A x \in T : Cardinality(g[x]) <= m
  PROVE  Cardinality(UNION {g[x] : x \in T}) <= Cardinality(T) * m
  <1> DEFINE U(s) == UNION {g[x] : x \in s}
             Fine(s) == Cardinality(U(s)) <= Cardinality(s) * m
             F == {s \in SUBSET T : ~Fine(s)}
  <1>1. \A s \in SUBSET T : U(s) \in SUBSET Ids
    OBVIOUS
  <1>2. \A s \in SUBSET T : /\ IsFiniteSet(s) /\ Cardinality(s) \in Nat
                            /\ IsFiniteSet(U(s)) /\ Cardinality(U(s)) \in Nat
    <2> SUFFICES ASSUME NEW s \in SUBSET T
                 PROVE  /\ IsFiniteSet(s) /\ Cardinality(s) \in Nat
                        /\ IsFiniteSet(U(s)) /\ Cardinality(U(s)) \in Nat
      OBVIOUS
    <2>1. U(s) \in SUBSET Ids
      BY <1>1
    <2> HIDE DEF U
    <2>2. IsFiniteSet(s) /\ IsFiniteSet(U(s))
      BY <2>1, Bounds, FS_Subset
    <2> QED
      BY <2>2, FS_CardinalityType
  <1>3. Fine({})
    <2>1. U({}) = {}
      OBVIOUS
    <2> HIDE DEF U
    <2>2. Cardinality(U({})) = 0 /\ Cardinality({}) = 0 /\ 0 * m = 0
      BY <2>1, FS_EmptySet
    <2> QED
      BY <2>2
  <1>4. ASSUME NEW s \in SUBSET T, NEW x \in s, Fine(s \ {x}) PROVE Fine(s)
    <2> DEFINE r == s \ {x}
    <2>1. r \in SUBSET T /\ U(s) = U(r) \cup g[x] /\ g[x] \in SUBSET Ids /\ x \in T
      OBVIOUS
    <2>2. Fine(r)
      BY <1>4
    <2>3. /\ IsFiniteSet(s) /\ Cardinality(s) \in Nat
          /\ Cardinality(r) = Cardinality(s) - 1 /\ Cardinality(r) \in Nat
      <3>1. IsFiniteSet(s) /\ Cardinality(s) \in Nat
        BY <1>2
      <3>2. Cardinality(s \ {x}) = Cardinality(s) - 1
        BY <1>4, <3>1, FS_RemoveElement
      <3>3. Cardinality(r) \in Nat
        BY <1>2, <2>1
      <3> QED
        BY <3>1, <3>2, <3>3
    <2> HIDE DEF r, U
    <2>4. /\ IsFiniteSet(U(r)) /\ Cardinality(U(r)) \in Nat
          /\ IsFiniteSet(g[x]) /\ Cardinality(g[x]) \in Nat /\ Cardinality(g[x]) <= m
      <3>1. IsFiniteSet(g[x])
        BY <2>1, Bounds, FS_Subset
      <3>2. Cardinality(g[x]) \in Nat
        BY <3>1, FS_CardinalityType
      <3> QED
        BY <1>2, <2>1, <3>1, <3>2
    <2>5. Cardinality(U(s)) = Cardinality(U(r)) + Cardinality(g[x]) - Cardinality(U(r) \cap g[x])
      BY <2>1, <2>4, FS_Union
    <2>6. Cardinality(U(r) \cap g[x]) \in Nat
      <3>1. IsFiniteSet(U(r) \cap g[x])
        BY <2>4, FS_Intersection
      <3> QED
        BY <3>1, FS_CardinalityType
    <2>7. Cardinality(s) * m = Cardinality(r) * m + m /\ Cardinality(r) * m \in Nat
      <3>1. Cardinality(s) = Cardinality(r) + 1
        BY <2>3
      <3> QED
        BY <2>3, <3>1, TimesMore
    <2>8. Cardinality(U(r)) <= Cardinality(r) * m
      BY <2>2
    <2>9. Cardinality(U(s)) <= Cardinality(s) * m
      BY <2>4, <2>5, <2>6, <2>7, <2>8
    <2> QED
      BY <2>9
  <1>5. F = {}
    <2> SUFFICES ASSUME F # {} PROVE FALSE
      OBVIOUS
    <2>1. F \in SUBSET SUBSET T
      OBVIOUS
    <2> HIDE DEF Fine
    <2>2. PICK s \in F : \A u \in F : <<u, s>> \notin StrictSubsetOrdering(T)
      <3> HIDE DEF F
      <3> QED
        BY <2>1, SubsetsFounded DEF Founded
    <2>3. s \in SUBSET T /\ ~Fine(s)
      BY <2>2
    <2>4. PICK x \in s : TRUE
      BY <1>3, <2>3
    <2>5. <<s \ {x}, s>> \in StrictSubsetOrdering(T)
      BY <2>3, <2>4 DEF StrictSubsetOrdering
    <2>6. Fine(s \ {x})
      BY <2>2, <2>3, <2>5
    <2> QED
      BY <1>4, <2>3, <2>4, <2>6
  <1> QED
    BY <1>5

LEMMA OneAdded ==
  ASSUME NEW S, IsFiniteSet(S), NEW e
  PROVE  /\ IsFiniteSet(S \cup {e}) /\ Cardinality(S) \in Nat /\ Cardinality(S \cup {e}) \in Nat
         /\ Cardinality(S \cup {e}) <= Cardinality(S) + 1
  <1>1. Cardinality(S) \in Nat
    BY FS_CardinalityType
  <1> DEFINE m == Cardinality(S \cup {e})
             n == Cardinality(S)
  <1>2. IsFiniteSet(S \cup {e}) /\ m = IF e \in S THEN n ELSE n + 1
    BY FS_AddElement
  <1>3. n \in Nat
    BY <1>1
  <1> HIDE DEF m, n
  <1>4. m \in Nat /\ m <= n + 1
    BY <1>2, <1>3
  <1> QED
    BY <1>2, <1>3, <1>4 DEF m, n

\* What is live and was never said again after it expired, what a transaction adds
\* to it or is about to add, and what it takes away.
Live == {i \in Ids : Alive(rows[i]) /\ i \notin hist.revived}
Adds(x) == {i \in DOMAIN tx[x].own : /\ rows[i] = {} /\ Alive(tx[x].own[i])
                                     /\ i \notin hist.revived}
Coming(x) == IF tx[x].pc = "insert" THEN {tx[x].op.id} ELSE {}
Gains(x) == Adds(x) \cup Coming(x)
Loses(x) == {i \in DOMAIN tx[x].own : /\ Alive(rows[i]) /\ ~Alive(tx[x].own[i])
                                      /\ i \notin hist.revived}

\* What is live once all of C have committed.
Result(C) == {i \in Ids : /\ i \in Live \/ \E y \in C : i \in Gains(y)
                          /\ \A y \in C : i \notin Loses(y)}

Others == Cardinality(Writers \cap team) - 1
Spare == Min({Limit, BatchSize[team]})

Within ==
    /\ \A C \in SUBSET team : Cardinality(Result(C)) <= Limit + Others * Spare
    /\ \A x \in team : /\ Cardinality(Gains(x)) <= Limit
                       /\ Cardinality(Adds(x)) <= tx[x].ops
                       /\ x \notin Writers => Gains(x) = {}

LEMMA SpareIs ==
  ASSUME RowsTyped
  PROVE  /\ Spare \in Nat /\ Spare <= Limit /\ Spare <= BatchSize[team]
         /\ Spare = Limit \/ Spare = BatchSize[team]
         /\ Limit \in Nat /\ BatchSize[team] \in Nat
         /\ IsFiniteSet(Writers \cap team) /\ Cardinality(Writers \cap team) \in Nat
         /\ Others \in Int
  <1> DEFINE b == BatchSize[team]
  <1>1. b \in Nat /\ Limit \in Nat /\ IsFiniteSet(team)
    BY Bounds, Parts
  <1> HIDE DEF b
  <1>2. \E x \in {Limit, b} : \A y \in {Limit, b} : x <= y
    BY <1>1
  <1>3. Spare \in {Limit, b} /\ \A y \in {Limit, b} : Spare <= y
    BY <1>2 DEF Spare, Min, b
  <1>4. IsFiniteSet(Writers \cap team)
    BY <1>1, FS_Intersection
  <1>5. Cardinality(Writers \cap team) \in Nat
    BY <1>4, FS_CardinalityType
  <1> QED
    BY <1>1, <1>3, <1>4, <1>5 DEF b, Others

LEMMA GainsFinite ==
  ASSUME Storage, NEW x \in team
  PROVE  /\ Adds(x) \in SUBSET Ids /\ Coming(x) \in SUBSET Ids /\ Gains(x) \in SUBSET Ids
         /\ IsFiniteSet(Adds(x)) /\ IsFiniteSet(Gains(x)) /\ IsFiniteSet(Coming(x))
         /\ Cardinality(Adds(x)) \in Nat /\ Cardinality(Gains(x)) \in Nat
         /\ DOMAIN tx[x].own \subseteq Ids
  <1>1. /\ DOMAIN tx[x].own \subseteq Ids
        /\ tx[x].pc = "insert" => tx[x].op.id \in Ids
    BY HeldTyped DEF Storage, Sound, OpPCs
  <1>2. Adds(x) \in SUBSET Ids /\ Coming(x) \in SUBSET Ids /\ Gains(x) \in SUBSET Ids
    BY <1>1 DEF Adds, Coming, Gains
  <1>3. IsFiniteSet(Adds(x)) /\ IsFiniteSet(Gains(x)) /\ IsFiniteSet(Coming(x))
    BY <1>2, Bounds, FS_Subset
  <1> QED
    BY <1>1, <1>2, <1>3, FS_CardinalityType

\* A transaction gains no more than its batch, and no more than the limit.
LEMMA GainsSpare ==
  ASSUME Storage, Within, NEW x \in team
  PROVE  Cardinality(Gains(x)) <= Spare
  <1>1. /\ Cardinality(Gains(x)) <= Limit /\ Cardinality(Adds(x)) <= tx[x].ops
        /\ Cardinality(Adds(x)) \in Nat /\ Cardinality(Gains(x)) \in Nat
        /\ IsFiniteSet(Adds(x))
    BY GainsFinite DEF Within
  <1>2. /\ tx[x].ops \in Nat /\ tx[x].ops <= BatchSize[team] /\ BatchSize[team] \in Nat
        /\ tx[x].pc = "insert" => tx[x].ops < BatchSize[team]
    BY Parts DEF Storage, Sound, OpPCs, TxRecord
  <1>3. Cardinality(Gains(x)) <= BatchSize[team]
    <2>1. CASE tx[x].pc = "insert"
      <3>1. Gains(x) = Adds(x) \cup {tx[x].op.id}
        BY <2>1 DEF Gains, Coming
      <3>2. Cardinality(Gains(x)) <= Cardinality(Adds(x)) + 1
        BY <1>1, <3>1, OneAdded
      <3> QED
        BY <1>1, <1>2, <2>1, <3>2
    <2>2. CASE tx[x].pc # "insert"
      <3>1. Gains(x) = Adds(x)
        BY <2>2 DEF Gains, Coming
      <3> QED
        BY <1>1, <1>2, <3>1
    <2> QED
      BY <2>1, <2>2
  <1> QED
    BY <1>1, <1>3, SpareIs DEF Storage

\* A step after which there is less to come.
LEMMA WithinLess ==
  ASSUME Storage, Storage', Within, team' = team,
         \A C \in SUBSET team : \E D \in SUBSET team : Result(C)' \subseteq Result(D),
         \A y \in team : Gains(y)' \subseteq Gains(y) /\ Cardinality(Adds(y)') <= tx'[y].ops
  PROVE  Within'
  <1>1. Others' = Others /\ Spare' = Spare /\ Others \in Int /\ Spare \in Nat /\ Limit \in Nat
    BY SpareIs DEF Storage, Others, Spare
  <1> DEFINE most == Limit + Others * Spare
  <1>2. most \in Int
    BY <1>1
  <1>3. ASSUME NEW C \in SUBSET team PROVE Cardinality(Result(C)') <= most
    <2>1. PICK D \in SUBSET team : Result(C)' \subseteq Result(D)
      OBVIOUS
    <2>2. Cardinality(Result(D)) <= most
      BY DEF Within
    <2>3. Result(D) \in SUBSET Ids
      BY DEF Result
    <2>4. IsFiniteSet(Result(D)) /\ Result(C)' \in SUBSET Result(D)
      BY <2>1, <2>3, Bounds, FS_Subset
    <2>5. /\ IsFiniteSet(Result(C)') /\ Cardinality(Result(C)') <= Cardinality(Result(D))
      BY <2>4, FS_Subset
    <2>6. Cardinality(Result(C)') \in Nat /\ Cardinality(Result(D)) \in Nat
      BY <2>4, <2>5, FS_CardinalityType
    <2> HIDE DEF most
    <2> QED
      BY <1>2, <2>2, <2>5, <2>6
  <1>4. ASSUME NEW y \in team
        PROVE  Cardinality(Gains(y)') <= Limit /\ (y \notin Writers => Gains(y)' = {})
    <2>1. /\ IsFiniteSet(Gains(y)) /\ Gains(y)' \in SUBSET Gains(y) /\ Cardinality(Gains(y)) \in Nat
          /\ Cardinality(Gains(y)) <= Limit /\ (y \notin Writers => Gains(y) = {})
      BY GainsFinite DEF Within
    <2>2. IsFiniteSet(Gains(y)') /\ Cardinality(Gains(y)') <= Cardinality(Gains(y))
      BY <2>1, FS_Subset
    <2>3. Cardinality(Gains(y)') \in Nat
      BY <2>2, FS_CardinalityType
    <2> QED
      BY <1>1, <2>1, <2>2, <2>3
  <1> QED
    BY <1>1, <1>3, <1>4 DEF Within

\* There was room when the insert began: what this transaction and those who have
\* committed make of the table stays within the limit, and each other extraction
\* adds no more than it can spare.
LEMMA InsertWithin ==
  ASSUME Storage, Storage', Within, NEW x \in team, NEW t, Thinks(x, t), t.pc = "insert"
  PROVE  Within'
  <1>1. /\ tx' = [tx EXCEPT ![x] = t] /\ UNCHANGED <<team, today, rows, audit, hist>>
        /\ t.own = tx[x].own /\ t.ops >= tx[x].ops /\ tx[x].pc = "writing" /\ ~Full(x)
        /\ t \in TxRecord
    BY DEF Thinks
  <1>2. tx'[x] = t /\ \A y \in team \ {x} : tx'[y] = tx[y]
    BY <1>1, Stepped
  <1>3. /\ x \in Writers /\ tx[x].ops \in Nat /\ t.ops \in Nat
    BY <1>1, Parts DEF Storage, Sound, TxRecord
  <1> DEFINE id == t.op.id
  <1>4. /\ \A y \in team : Adds(y)' = Adds(y) /\ Loses(y)' = Loses(y)
        /\ \A y \in team \ {x} : Gains(y)' = Gains(y)
        /\ Gains(x)' = Adds(x) \cup {id} /\ Gains(x) = Adds(x) /\ Live' = Live
    <2>1. \A y \in team : tx'[y].own = tx[y].own
      BY <1>1, <1>2
    <2>2. \A y \in team : Adds(y)' = Adds(y) /\ Loses(y)' = Loses(y)
      BY <1>1, <2>1 DEF Adds, Loses, Alive
    <2>3. \A y \in team \ {x} : Coming(y)' = Coming(y)
      BY <1>2 DEF Coming
    <2>4. Coming(x)' = {id} /\ Coming(x) = {}
      BY <1>1, <1>2 DEF Coming
    <2>5. Live' = Live
      BY <1>1 DEF Live, Alive
    <2> QED
      BY <2>2, <2>3, <2>4, <2>5 DEF Gains
  <1> DEFINE seen == VisibleIn(View(x))
             base == {i \in Ids : (i \in Live \/ i \in Adds(x)) /\ i \notin Loses(x)}
  <1>5. /\ IsFiniteSet(seen) /\ Cardinality(seen) \in Nat /\ Cardinality(seen) < Limit
        /\ Limit \in Nat /\ base \in SUBSET seen /\ Adds(x) \in SUBSET seen
    <2>1. View(x) \in [Ids -> Cells] /\ \A i \in Ids : View(x)[i] = Seen(tx[x], i)
      BY ViewTyped DEF Storage
    <2>2. seen = {i \in Ids : Alive(Seen(tx[x], i))}
      BY <2>1, CellSets, Parts DEF Storage
    <2>3. IsFiniteSet(seen)
      BY <2>2, Bounds, FS_Subset
    <2>4. Cardinality(seen) \in Nat
      BY <2>3, FS_CardinalityType
    <2>5. Cardinality(seen) < Limit /\ Limit \in Nat
      BY <1>1, <2>4, Bounds DEF Full
    <2>6. base \in SUBSET seen /\ Adds(x) \in SUBSET seen
      BY <2>2, GainsFinite DEF Live, Adds, Loses, Seen
    <2> QED
      BY <2>3, <2>4, <2>5, <2>6
  <1> HIDE DEF seen, base, id
  <1>6. Cardinality(Gains(x)') <= Limit
    <2>1. /\ IsFiniteSet(Adds(x)) /\ Cardinality(Adds(x)) \in Nat
          /\ Cardinality(Adds(x)) <= Cardinality(seen)
      BY <1>5, FS_Subset, FS_CardinalityType
    <2>2. /\ Cardinality(Adds(x) \cup {id}) <= Cardinality(Adds(x)) + 1
          /\ Cardinality(Adds(x) \cup {id}) \in Nat
      BY <2>1, OneAdded
    <2> QED
      BY <1>4, <1>5, <2>1, <2>2
  <1>7. Others' = Others /\ Spare' = Spare /\ Others \in Nat /\ Spare \in Nat
    <2>1. /\ IsFiniteSet(Writers \cap team) /\ Cardinality(Writers \cap team) \in Nat
          /\ Spare \in Nat
      BY SpareIs DEF Storage
    <2>2. Cardinality(Writers \cap team) # 0
      BY <1>3, <2>1, FS_EmptySet
    <2> QED
      BY <1>1, <2>1, <2>2 DEF Others, Spare
  <1> DEFINE most == Limit + Others * Spare
  <1>8. ASSUME NEW C \in SUBSET team PROVE Cardinality(Result(C)') <= most
    <2>1. CASE x \notin C
      <3>1. Result(C)' = Result(C)
        BY <1>4, <2>1 DEF Result
      <3> QED
        BY <3>1 DEF Within
    <2>2. CASE x \in C
      <3> DEFINE T == (C \cap Writers) \ {x}
                 g == [y \in T |-> Gains(y)]
                 U == UNION {g[y] : y \in T}
      <3>1. /\ T \in SUBSET ((Writers \cap team) \ {x}) /\ T \in SUBSET team
        OBVIOUS
      <3>2. IsFiniteSet(T) /\ Cardinality(T) \in Nat /\ Cardinality(T) <= Others
        <4>1. IsFiniteSet(Writers \cap team) /\ x \in Writers \cap team
          BY <1>3, SpareIs DEF Storage
        <4>2. /\ IsFiniteSet((Writers \cap team) \ {x})
              /\ Cardinality((Writers \cap team) \ {x}) = Others
          BY <4>1, FS_RemoveElement DEF Others
        <4> HIDE DEF T
        <4>3. IsFiniteSet(T) /\ Cardinality(T) <= Others
          BY <3>1, <4>2, FS_Subset
        <4> QED
          BY <4>3, FS_CardinalityType
      <3>3. g \in [T -> SUBSET Ids] /\ \A y \in T : Cardinality(g[y]) <= Spare
        BY <3>1, GainsFinite, GainsSpare
      <3>4. Result(C)' \subseteq (base \cup {id}) \cup U
        <4>1. \A y \in C : y \notin Writers => Gains(y) = {}
          BY DEF Within
        <4>2. ASSUME NEW i \in Ids, i \in Live \/ \E y \in C : i \in Gains(y)', i \notin Loses(x)
              PROVE  i \in (base \cup {id}) \cup U
          <5>1. CASE i \in Live \/ i \in Gains(x)'
            BY <1>4, <4>2, <5>1 DEF base
          <5>2. ASSUME NEW y \in C \ {x}, i \in Gains(y) PROVE i \in U
            <6>1. y \in T /\ g[y] = Gains(y)
              BY <4>1, <5>2
            <6> QED
              BY <5>2, <6>1
          <5> QED
            BY <1>4, <4>2, <5>1, <5>2
        <4> QED
          BY <1>4, <2>2, <4>2 DEF Result
      <3> HIDE DEF T, g
      <3>5. U \in SUBSET Ids
        BY <3>3
      <3>6. Cardinality(U) <= Cardinality(T) * Spare
        BY <1>7, <3>2, <3>3, UnionBound
      <3>7. Cardinality(T) * Spare <= Others * Spare /\ Cardinality(T) * Spare \in Nat
            /\ Others * Spare \in Nat
        BY <1>7, <3>2, TimesMore
      <3> HIDE DEF U
      <3>8. IsFiniteSet(U) /\ Cardinality(U) \in Nat
        <4>1. IsFiniteSet(U)
          BY <3>5, Bounds, FS_Subset
        <4> QED
          BY <4>1, FS_CardinalityType
      <3>9. /\ IsFiniteSet(base \cup {id}) /\ Cardinality(base \cup {id}) \in Nat
            /\ Cardinality(base \cup {id}) <= Limit
        <4>1. IsFiniteSet(base) /\ Cardinality(base) <= Cardinality(seen)
          BY <1>5, FS_Subset
        <4>2. Cardinality(base) \in Nat
          BY <4>1, FS_CardinalityType
        <4>3. /\ IsFiniteSet(base \cup {id}) /\ Cardinality(base \cup {id}) <= Cardinality(base) + 1
              /\ Cardinality(base \cup {id}) \in Nat
          BY <4>1, OneAdded
        <4> QED
          BY <1>5, <4>1, <4>2, <4>3
      <3> DEFINE B == base \cup {id}
      <3> HIDE DEF B
      <3>10. /\ IsFiniteSet(B \cup U) /\ Cardinality(B \cup U) \in Nat
             /\ Cardinality(B \cup U) <= Cardinality(B) + Cardinality(U)
        <4>1. /\ IsFiniteSet(B \cup U)
              /\ Cardinality(B \cup U) = Cardinality(B) + Cardinality(U) - Cardinality(B \cap U)
          BY <3>8, <3>9, FS_Union DEF B
        <4>2. IsFiniteSet(B \cap U)
          BY <3>8, FS_Intersection
        <4>3. Cardinality(B \cap U) \in Nat /\ Cardinality(B \cup U) \in Nat
          BY <4>1, <4>2, FS_CardinalityType
        <4> QED
          BY <3>8, <3>9, <4>1, <4>3 DEF B
      <3>11. /\ IsFiniteSet(Result(C)') /\ Cardinality(Result(C)') <= Cardinality(B \cup U)
        <4>1. Result(C)' \in SUBSET (B \cup U)
          BY <3>4 DEF B
        <4> QED
          BY <3>10, <4>1, FS_Subset
      <3>12. Cardinality(Result(C)') \in Nat
        BY <3>11, FS_CardinalityType
      <3> QED
        BY <1>5, <3>6, <3>7, <3>8, <3>9, <3>10, <3>11, <3>12 DEF B
    <2> QED
      BY <2>1, <2>2
  <1>9. ASSUME NEW y \in team
        PROVE  /\ Cardinality(Gains(y)') <= Limit /\ Cardinality(Adds(y)') <= tx'[y].ops
               /\ y \notin Writers => Gains(y)' = {}
    <2>1. CASE y = x
      <3>1. Cardinality(Adds(x)) <= tx[x].ops /\ Cardinality(Adds(x)) \in Nat
        BY GainsFinite DEF Within
      <3>2. Cardinality(Adds(x)') <= tx'[x].ops
        BY <1>1, <1>2, <1>3, <1>4, <3>1
      <3> QED
        BY <1>3, <1>6, <2>1, <3>2
    <2>2. CASE y # x
      BY <1>2, <1>4, <2>2 DEF Within
    <2> QED
      BY <2>1, <2>2
  <1> QED
    BY <1>1, <1>7, <1>8, <1>9 DEF Within

LEMMA ThinksWithin ==
  ASSUME Storage, Storage', Within, NEW x \in team, NEW t, Thinks(x, t), t.pc # "insert"
  PROVE  Within'
  <1>1. /\ tx' = [tx EXCEPT ![x] = t] /\ UNCHANGED <<team, today, rows, hist>>
        /\ t.own = tx[x].own /\ t.ops >= tx[x].ops /\ t \in TxRecord
    BY DEF Thinks
  <1>2. tx'[x] = t /\ \A y \in team \ {x} : tx'[y] = tx[y]
    BY <1>1, Stepped
  <1>3. \A y \in team : tx'[y].own = tx[y].own
    BY <1>1, <1>2
  <1>4. /\ \A y \in team : Adds(y)' = Adds(y) /\ Loses(y)' = Loses(y)
        /\ Live' = Live
    BY <1>1, <1>3 DEF Adds, Loses, Live, Alive
  <1>5. \A y \in team : Coming(y)' \subseteq Coming(y)
    <2>1. \A y \in team \ {x} : Coming(y)' = Coming(y)
      BY <1>2 DEF Coming
    <2>2. Coming(x)' = {}
      BY <1>2 DEF Coming
    <2> QED
      BY <2>1, <2>2
  <1>6. \A y \in team : Gains(y)' \subseteq Gains(y)
    BY <1>4, <1>5 DEF Gains
  <1>7. \A C \in SUBSET team : Result(C)' \subseteq Result(C)
    BY <1>4, <1>6 DEF Result
  <1>8. ASSUME NEW y \in team PROVE Cardinality(Adds(y)') <= tx'[y].ops
    <2>1. /\ Cardinality(Adds(y)) <= tx[y].ops /\ Cardinality(Adds(y)) \in Nat
          /\ tx[y].ops \in Nat /\ tx'[y].ops \in Nat
      BY <1>1, <1>2, GainsFinite, Parts DEF Within, Storage, TxRecord
    <2>2. tx'[y].ops >= tx[y].ops
      BY <1>1, <1>2, <2>1
    <2> QED
      BY <1>4, <2>1, <2>2
  <1> QED
    BY <1>1, <1>6, <1>7, <1>8, WithinLess

\* What a write does to what its transaction gains and loses.
LEMMA WriteGains ==
  ASSUME Storage, NEW x \in team, NEW t, NEW i, NEW c, Writes(x, t, i, c)
  PROVE  /\ hist.revived \subseteq hist'.revived
         /\ \A j \in hist'.revived \ hist.revived : j = i
         /\ View(x)[i] = {} => hist' = hist /\ Coming(x) = {i} /\ rows[i] = {}
         /\ View(x)[i] # {} /\ ~Alive(View(x)[i]) /\ c # {} => i \in hist'.revived
         /\ c = {} => ~Alive(c)
         /\ View(x)[i] = IF i \in DOMAIN tx[x].own THEN tx[x].own[i] ELSE rows[i]
  <1>1. /\ i \in Ids
        /\ View(x)[i] = {} => tx[x].pc = "insert" /\ i = tx[x].op.id /\ hist' = hist
        /\ View(x)[i] # {} => SaidAgain(x, i) \/ (c = {} /\ hist' = hist)
    BY DEF Writes
  <1>2. /\ View(x) \in [Ids -> Cells] /\ View(x)[i] = Seen(tx[x], i) /\ today \in Nat
        /\ hist \in [gone : SUBSET Ids, revived : SUBSET Ids]
    BY <1>1, ViewTyped, Parts DEF Storage
  <1>3. SaidAgain(x, i) => hist'.revived = hist.revived \cup ({i} \cap Expired(View(x)))
    BY <1>2 DEF SaidAgain
  <1>4. i \in Expired(View(x)) <=> View(x)[i] # {} /\ ~Alive(View(x)[i])
    BY <1>1, <1>2, CellSets
  <1>5. View(x)[i] = {} => hist' = hist /\ Coming(x) = {i} /\ rows[i] = {}
    <2> SUFFICES ASSUME View(x)[i] = {} PROVE hist' = hist /\ Coming(x) = {i} /\ rows[i] = {}
      OBVIOUS
    <2>1. tx[x].pc = "insert" /\ i = tx[x].op.id /\ hist' = hist
      BY <1>1
    <2>2. i \notin Existing(rows)
      BY <2>1 DEF Storage, Fresh, Unheld, Born
    <2> QED
      BY <1>1, <2>1, <2>2 DEF Existing, Coming
  <1>6. c = {} => ~Alive(c)
    BY DEF Alive
  <1> QED
    BY <1>1, <1>2, <1>3, <1>4, <1>5, <1>6 DEF Seen

\* A row said again after it expired counts no more, here or there.
LEMMA WritesResult ==
  ASSUME Storage, NEW x \in team, NEW t, NEW i, NEW c, Writes(x, t, i, c)
  PROVE  /\ \A C \in SUBSET team : Result(C)' \subseteq Result(C)
         /\ \A y \in team : Gains(y)' \subseteq Gains(y)
         /\ \A y \in team \ {x} : Adds(y)' \subseteq Adds(y)
         /\ \/ Adds(x)' \subseteq Adds(x)
            \/ tx[x].pc = "insert" /\ Adds(x)' \subseteq Adds(x) \cup {i}
  <1>1. /\ tx' = [tx EXCEPT ![x] = t] /\ UNCHANGED <<team, today, rows>>
        /\ t.own = [j \in DOMAIN tx[x].own \cup {i} |-> IF j = i THEN c ELSE tx[x].own[j]]
        /\ t.pc \in {"writing", "touching"} /\ Holders(x, i) = {} /\ i \in Ids
        /\ i \in Born \/ i = tx[x].op.id
        /\ View(x)[i] = {} => tx[x].pc = "insert" /\ i = tx[x].op.id
    BY DEF Writes
  <1>2. tx'[x] = t /\ \A y \in team \ {x} : tx'[y] = tx[y]
    BY <1>1, Stepped
  <1>3. /\ hist.revived \subseteq hist'.revived
        /\ \A j \in hist'.revived \ hist.revived : j = i
        /\ View(x)[i] = {} => hist' = hist /\ Coming(x) = {i} /\ rows[i] = {}
        /\ View(x)[i] # {} /\ ~Alive(View(x)[i]) /\ c # {} => i \in hist'.revived
        /\ c = {} => ~Alive(c)
        /\ View(x)[i] = IF i \in DOMAIN tx[x].own THEN tx[x].own[i] ELSE rows[i]
    BY WriteGains
  <1>4. /\ DOMAIN t.own = DOMAIN tx[x].own \cup {i} /\ t.own[i] = c
        /\ \A j \in DOMAIN tx[x].own : j # i => t.own[j] = tx[x].own[j]
    BY <1>1
  <1>5. \A d : Alive(d)' <=> \E r \in d : r.until > today
    BY <1>1 DEF Alive
  <1>6. ASSUME NEW y \in team \ {x}
        PROVE  /\ Adds(y)' \subseteq Adds(y) /\ Coming(y)' = Coming(y) /\ i \notin Gains(y)
               /\ \A j \in Loses(y) : j \in Loses(y)' \/ (j = i /\ i \in hist'.revived)
    <2>1. i \notin DOMAIN tx[y].own
      BY <1>1, HeldTyped DEF Holders
    <2>2. i \notin Coming(y)
      <3> SUFFICES ASSUME tx[y].pc = "insert", i = tx[y].op.id PROVE FALSE
        BY DEF Coming
      <3>1. i \notin Born /\ tx[x].op.id # i
        BY DEF Storage, Fresh, Unheld
      <3> QED
        BY <1>1, <3>1
    <2>3. Coming(y)' = Coming(y)
      BY <1>2 DEF Coming
    <2>4. Adds(y)' \subseteq Adds(y)
      BY <1>1, <1>2, <1>3 DEF Adds, Alive
    <2>5. \A j \in Loses(y) : j \in Loses(y)' \/ (j = i /\ i \in hist'.revived)
      BY <1>1, <1>2, <1>3 DEF Loses, Alive
    <2> QED
      BY <2>1, <2>2, <2>3, <2>4, <2>5 DEF Gains, Adds
  <1>7. Coming(x)' = {}
    BY <1>1, <1>2 DEF Coming
  <1>8. ASSUME NEW j \in Adds(x)'
        PROVE  j \in Adds(x) \/ (j = i /\ View(x)[i] = {})
    <2>1. /\ j \in DOMAIN t.own /\ rows[j] = {} /\ Alive(t.own[j]) /\ j \notin hist'.revived
      BY <1>1, <1>2 DEF Adds, Alive
    <2>2. CASE j # i
      BY <1>3, <1>4, <2>1, <2>2 DEF Adds
    <2>3. CASE j = i /\ View(x)[i] # {}
      <3>1. i \in DOMAIN tx[x].own /\ View(x)[i] = tx[x].own[i] /\ c # {}
        BY <1>3, <1>4, <2>1, <2>3
      <3>2. Alive(View(x)[i])
        BY <1>3, <2>1, <2>3, <3>1
      <3> QED
        BY <1>3, <2>1, <2>3, <3>1, <3>2 DEF Adds
    <2> QED
      BY <2>2, <2>3
  <1>9. Adds(x)' \subseteq Adds(x) \/ (tx[x].pc = "insert" /\ Adds(x)' \subseteq Adds(x) \cup {i})
    BY <1>1, <1>8
  <1>10. Gains(x)' \subseteq Gains(x)
    BY <1>3, <1>7, <1>8 DEF Gains
  <1>11. \A j \in Loses(x) : j \in Loses(x)' \/ (j = i /\ i \in hist'.revived)
    <2> SUFFICES ASSUME NEW j \in Loses(x) PROVE j \in Loses(x)' \/ (j = i /\ i \in hist'.revived)
      OBVIOUS
    <2>1. /\ j \in DOMAIN tx[x].own /\ Alive(rows[j]) /\ ~Alive(tx[x].own[j])
          /\ j \notin hist.revived
      BY DEF Loses
    <2>2. ASSUME j \in DOMAIN t.own, ~Alive(t.own[j]), j \notin hist'.revived PROVE j \in Loses(x)'
      BY <1>1, <1>2, <2>1, <2>2 DEF Loses, Alive
    <2>3. CASE j # i
      BY <1>3, <1>4, <2>1, <2>2, <2>3
    <2>4. CASE j = i
      <3>1. View(x)[i] = tx[x].own[i] /\ rows[i] # {}
        BY <1>3, <2>1, <2>4 DEF Alive
      <3>2. View(x)[i] # {} /\ ~Alive(View(x)[i])
        BY <1>3, <2>1, <2>4, <3>1
      <3> QED
        BY <1>3, <1>4, <2>2, <2>4, <3>2
    <2> QED
      BY <2>3, <2>4
  <1>12. Live' \subseteq Live /\ (i \in hist'.revived => i \notin Live')
    BY <1>1, <1>3 DEF Live, Alive
  <1>13. i \in hist'.revived => i \notin Gains(x)'
    BY <1>7 DEF Gains, Adds
  <1>14. \A y \in team : Gains(y)' \subseteq Gains(y) /\ (i \in hist'.revived => i \notin Gains(y)')
    BY <1>6, <1>10, <1>13 DEF Gains
  <1>15. \A y \in team : \A j \in Loses(y) : j \in Loses(y)' \/ (j = i /\ i \in hist'.revived)
    BY <1>6, <1>11
  <1>16. ASSUME NEW C \in SUBSET team, NEW j \in Result(C)' PROVE j \in Result(C)
    <2>1. j \in Ids /\ (j \in Live' \/ \E y \in C : j \in Gains(y)')
      BY <1>16 DEF Result
    <2>2. \A y \in C : j \notin Loses(y)'
      BY <1>16 DEF Result
    <2>3. /\ j \in Ids /\ (j \in Live \/ \E y \in C : j \in Gains(y))
          /\ ~(j = i /\ i \in hist'.revived)
      BY <1>12, <1>14, <1>16, <2>1 DEF Result
    <2>4. \A y \in C : j \notin Loses(y)
      BY <1>15, <2>2, <2>3
    <2> QED
      BY <2>3, <2>4 DEF Result
  <1> QED
    BY <1>6, <1>9, <1>14, <1>16

LEMMA WritesWithin ==
  ASSUME Storage, Storage', Within, NEW x \in team, NEW t, NEW i, NEW c, Writes(x, t, i, c)
  PROVE  Within'
  <1>1. /\ tx' = [tx EXCEPT ![x] = t] /\ team' = team /\ t \in TxRecord
        /\ t.ops >= tx[x].ops /\ (tx[x].pc = "insert" => t.ops > tx[x].ops)
    BY DEF Writes
  <1>2. tx'[x] = t /\ \A y \in team \ {x} : tx'[y] = tx[y]
    BY <1>1, Stepped
  <1>3. /\ \A C \in SUBSET team : Result(C)' \subseteq Result(C)
        /\ \A y \in team : Gains(y)' \subseteq Gains(y)
        /\ \A y \in team \ {x} : Adds(y)' \subseteq Adds(y)
        /\ \/ Adds(x)' \subseteq Adds(x)
           \/ tx[x].pc = "insert" /\ Adds(x)' \subseteq Adds(x) \cup {i}
    BY WritesResult
  <1>4. \A y \in team : /\ IsFiniteSet(Adds(y)) /\ Cardinality(Adds(y)) \in Nat
                        /\ Cardinality(Adds(y)) <= tx[y].ops /\ tx[y].ops \in Nat
    BY GainsFinite, Parts DEF Within, Storage, TxRecord
  <1>5. ASSUME NEW y \in team, Adds(y)' \subseteq Adds(y)
        PROVE  Cardinality(Adds(y)') \in Nat /\ Cardinality(Adds(y)') <= tx[y].ops
    <2>1. IsFiniteSet(Adds(y)') /\ Cardinality(Adds(y)') <= Cardinality(Adds(y))
      BY <1>4, <1>5, FS_Subset
    <2>2. Cardinality(Adds(y)') \in Nat
      BY <2>1, FS_CardinalityType
    <2> QED
      BY <1>4, <2>1, <2>2
  <1>6. Cardinality(Adds(x)') <= t.ops
    <2>1. CASE Adds(x)' \subseteq Adds(x)
      <3>1. Cardinality(Adds(x)') \in Nat /\ Cardinality(Adds(x)') <= tx[x].ops
        BY <1>5, <2>1
      <3>2. t.ops \in Nat /\ tx[x].ops \in Nat
        BY <1>1, <1>4 DEF TxRecord
      <3> QED
        BY <1>1, <3>1, <3>2
    <2>2. CASE tx[x].pc = "insert" /\ Adds(x)' \subseteq Adds(x) \cup {i}
      <3> DEFINE more == Adds(x) \cup {i}
      <3>1. /\ IsFiniteSet(more) /\ Cardinality(more) \in Nat
            /\ Cardinality(more) <= Cardinality(Adds(x)) + 1
        BY <1>4, OneAdded
      <3>2. Adds(x)' \in SUBSET more
        BY <2>2
      <3> HIDE DEF more
      <3>3. IsFiniteSet(Adds(x)') /\ Cardinality(Adds(x)') <= Cardinality(more)
        BY <3>1, <3>2, FS_Subset
      <3>4. Cardinality(Adds(x)') \in Nat
        BY <3>3, FS_CardinalityType
      <3>5. t.ops \in Nat /\ tx[x].ops \in Nat /\ t.ops > tx[x].ops
        BY <1>1, <1>4, <2>2 DEF TxRecord
      <3>6. Cardinality(Adds(x)) \in Nat /\ Cardinality(Adds(x)) <= tx[x].ops
        BY <1>4
      <3> QED
        BY <3>1, <3>3, <3>4, <3>5, <3>6
    <2> QED
      BY <1>3, <2>1, <2>2
  <1>7. \A y \in team : Cardinality(Adds(y)') <= tx'[y].ops
    BY <1>2, <1>3, <1>5, <1>6
  <1> QED
    BY <1>1, <1>3, <1>7, WithinLess

\* Those who are not ending keep what they gain and lose.
LEMMA EndsOthers ==
  ASSUME Storage, NEW x \in team, NEW t, Ends(x, t), KeepsTable \/ Commits(x) \/ Reads(x)
  PROVE  /\ tx'[x] = t /\ UNCHANGED <<team, today>>
         /\ Gains(x)' = {} /\ Adds(x)' = {} /\ Loses(x)' = {}
         /\ \A y \in team \ {x} : /\ Gains(y)' \subseteq Gains(y) /\ Adds(y)' \subseteq Adds(y)
                                  /\ Loses(y) \subseteq Loses(y)' /\ tx'[y] = tx[y]
         /\ hist.revived \subseteq hist'.revived
  <1>1. /\ tx' = [tx EXCEPT ![x] = t] /\ UNCHANGED <<team, today>>
        /\ DOMAIN t.own = {} /\ t.pc # "insert"
    BY DEF Ends
  <1>2. tx'[x] = t /\ \A y \in team \ {x} : tx'[y] = tx[y]
    BY <1>1, Stepped
  <1>3. Gains(x)' = {} /\ Adds(x)' = {} /\ Loses(x)' = {}
    BY <1>1, <1>2 DEF Gains, Adds, Coming, Loses
  <1>4. /\ \A y \in team \ {x} : \A i \in Held(y) : rows'[i] = rows[i]
        /\ hist.revived \subseteq hist'.revived
        /\ \A i \in hist'.revived \ hist.revived : ~Alive(rows[i])
    <2>1. CASE KeepsTable
      BY <2>1 DEF KeepsTable
    <2>2. CASE Commits(x)
      <3>1. /\ \A y \in team \ {x} : \A i \in Held(y) : rows'[i] = rows[i]
            /\ hist'.revived = hist.revived \cup (Expired(rows) \cap VisibleIn(View(x)))
        BY <2>2, CommitIs
      <3>2. \A i \in Expired(rows) : ~Alive(rows[i])
        BY CellSets, Parts DEF Storage
      <3> QED
        BY <3>1, <3>2
    <2>3. CASE Reads(x)
      <3>1. Purge
        BY <2>3 DEF Reads
      <3> QED
        BY <3>1, PurgeIs, HeldTyped DEF HeldRows
    <2> QED
      BY <2>1, <2>2, <2>3
  <1>5. ASSUME NEW y \in team \ {x}
        PROVE  /\ Gains(y)' \subseteq Gains(y) /\ Adds(y)' \subseteq Adds(y)
               /\ Loses(y) \subseteq Loses(y)'
    <2>1. \A i \in DOMAIN tx[y].own : rows'[i] = rows[i]
      BY <1>4, HeldTyped
    <2>2. Adds(y)' \subseteq Adds(y) /\ Coming(y)' = Coming(y)
      BY <1>1, <1>2, <1>4, <2>1 DEF Adds, Coming, Alive
    <2>3. ASSUME NEW i \in Loses(y) PROVE i \in Loses(y)'
      <3>1. /\ i \in DOMAIN tx[y].own /\ Alive(rows[i]) /\ ~Alive(tx[y].own[i])
            /\ i \notin hist.revived /\ rows'[i] = rows[i]
        BY <2>1, <2>3 DEF Loses
      <3>2. i \notin hist'.revived
        BY <1>4, <3>1
      <3> QED
        BY <1>1, <1>2, <3>1, <3>2 DEF Loses, Alive
    <2> QED
      BY <2>2, <2>3 DEF Gains
  <1> QED
    BY <1>1, <1>2, <1>3, <1>4, <1>5

\* What a commit makes live was live, or is what it adds.
LEMMA CommitLive ==
  ASSUME Storage, NEW x \in team, Commits(x), UNCHANGED today, NEW i \in Live'
  PROVE  (i \in Live \/ i \in Adds(x)) /\ i \notin Loses(x)
  <1>1. /\ \A j \in Ids : rows'[j] = Seen(tx[x], j) /\ rows' = View(x)
        /\ hist'.revived = hist.revived \cup (Expired(rows) \cap VisibleIn(View(x)))
    BY CommitIs
  <1>2. i \in Ids /\ Alive(rows'[i]) /\ i \notin hist'.revived
    BY DEF Live, Alive
  <1>3. /\ View(x) \in [Ids -> Cells] /\ today \in Nat /\ rows \in [Ids -> Cells]
    BY ViewTyped, Parts DEF Storage
  <1>4. i \in VisibleIn(View(x))
    BY <1>1, <1>2, <1>3, CellSets
  <1>5. i \notin Expired(rows) /\ i \notin hist.revived
    BY <1>1, <1>2, <1>4
  <1>6. rows[i] = {} \/ Alive(rows[i])
    BY <1>2, <1>3, <1>5, CellSets
  <1>7. i \in DOMAIN tx[x].own => Alive(tx[x].own[i])
    BY <1>1, <1>2 DEF Seen
  <1>8. i \notin DOMAIN tx[x].own => Alive(rows[i])
    BY <1>1, <1>2 DEF Seen
  <1> QED
    BY <1>2, <1>5, <1>6, <1>7, <1>8 DEF Live, Adds, Loses

LEMMA EndsResult ==
  ASSUME Storage, NEW x \in team, NEW t, Ends(x, t), KeepsTable \/ Commits(x) \/ Reads(x),
         NEW C \in SUBSET team
  PROVE  \E D \in SUBSET team : Result(C)' \subseteq Result(D)
  <1>1. /\ UNCHANGED <<team, today>>
        /\ Gains(x)' = {} /\ Loses(x)' = {}
        /\ \A y \in team \ {x} : Gains(y)' \subseteq Gains(y) /\ Loses(y) \subseteq Loses(y)'
        /\ hist.revived \subseteq hist'.revived
    BY EndsOthers
  <1>2. \A i \in Result(C)' : /\ i \in Ids
                              /\ i \in Live' \/ \E y \in C \ {x} : i \in Gains(y)
                              /\ \A y \in C \ {x} : i \notin Loses(y)
    BY <1>1 DEF Result
  <1>3. CASE KeepsTable \/ Reads(x)
    <2>1. Live' \subseteq Live
      <3>1. CASE KeepsTable
        BY <1>1, <3>1 DEF KeepsTable, Live, Alive
      <3>2. CASE Reads(x)
        <4>1. \A i \in Ids : rows'[i] = IF i \in Expired(rows) THEN {} ELSE rows[i]
          BY <3>2, PurgeIs DEF Reads
        <4>2. \A i \in Ids : Alive(rows[i])' => Alive(rows[i])
          BY <1>1, <4>1 DEF Alive
        <4> QED
          BY <1>1, <4>2 DEF Live, Alive
      <3> QED
        BY <1>3, <3>1, <3>2
    <2>2. Result(C)' \subseteq Result(C \ {x})
      BY <1>2, <2>1 DEF Result
    <2> QED
      BY <2>2
  <1>4. CASE Commits(x)
    <2>1. \A i \in Live' : (i \in Live \/ i \in Adds(x)) /\ i \notin Loses(x)
      BY <1>1, <1>4, CommitLive
    <2>2. ASSUME NEW y \in C \ {x}, NEW i \in Gains(y) PROVE i \notin Loses(x)
      <3> SUFFICES ASSUME i \in Loses(x) PROVE FALSE
        OBVIOUS
      <3>1. i \in DOMAIN tx[x].own /\ i \in Held(x)
        BY HeldTyped DEF Loses
      <3>2. CASE i \in Adds(y)
        <4>1. i \in Held(y) /\ y \in team /\ y # x
          BY <3>2, HeldTyped DEF Adds
        <4> QED
          BY <3>1, <4>1 DEF Storage, HeldOnce
      <3>3. CASE i \in Coming(y)
        <4>1. tx[y].pc = "insert" /\ i = tx[y].op.id /\ y \in team
          BY <3>3 DEF Coming
        <4> QED
          BY <3>1, <4>1 DEF Storage, Fresh, Unheld
      <3> QED
        BY <2>2, <3>2, <3>3 DEF Gains
    <2> DEFINE D == C \cup {x}
    <2>3. ASSUME NEW i \in Result(C)' PROVE i \in Result(D)
      <3>1. i \in Ids /\ i \notin Loses(x) /\ \A y \in C \ {x} : i \notin Loses(y)
        BY <1>2, <2>1, <2>2
      <3>2. i \in Live \/ \E y \in D : i \in Gains(y)
        BY <1>2, <2>1 DEF Gains
      <3> QED
        BY <3>1, <3>2 DEF Result
    <2>4. Result(C)' \subseteq Result(D) /\ D \in SUBSET team
      BY <2>3
    <2> QED
      BY <2>4
  <1> QED
    BY <1>3, <1>4

LEMMA EndsWithin ==
  ASSUME Storage, Storage', Within, NEW x \in team, NEW t, Ends(x, t),
         KeepsTable \/ Commits(x) \/ Reads(x)
  PROVE  Within'
  <1>1. /\ tx'[x] = t /\ UNCHANGED <<team, today>>
        /\ Gains(x)' = {} /\ Adds(x)' = {}
        /\ \A y \in team \ {x} : /\ Gains(y)' \subseteq Gains(y) /\ Adds(y)' \subseteq Adds(y)
                                 /\ tx'[y] = tx[y]
    BY EndsOthers
  <1>2. \A C \in SUBSET team : \E D \in SUBSET team : Result(C)' \subseteq Result(D)
    BY EndsResult
  <1>3. ASSUME NEW y \in team \ {x} PROVE Cardinality(Adds(y)') <= tx'[y].ops
    <2>1. /\ IsFiniteSet(Adds(y)) /\ Cardinality(Adds(y)) \in Nat
          /\ Cardinality(Adds(y)) <= tx[y].ops /\ tx[y].ops \in Nat
      BY GainsFinite, Parts DEF Within, Storage, TxRecord
    <2>2. IsFiniteSet(Adds(y)') /\ Cardinality(Adds(y)') <= Cardinality(Adds(y))
      BY <1>1, <2>1, FS_Subset
    <2>3. Cardinality(Adds(y)') \in Nat
      BY <2>2, FS_CardinalityType
    <2> QED
      BY <1>1, <2>1, <2>2, <2>3
  <1>4. Cardinality(Adds(x)') <= tx'[x].ops
    <2>1. t.ops = 0
      BY DEF Ends
    <2> QED
      BY <1>1, <2>1, FS_EmptySet
  <1>5. \A y \in team : Gains(y)' \subseteq Gains(y) /\ Cardinality(Adds(y)') <= tx'[y].ops
    BY <1>1, <1>3, <1>4
  <1> QED
    BY <1>1, <1>2, <1>5, WithinLess

LEMMA EffectWithin ==
  ASSUME Storage, Storage', Within, NEW x \in team, Effect(x)
  PROVE  Within'
  <1>1. ASSUME NEW t, Thinks(x, t) PROVE Within'
    BY <1>1, InsertWithin, ThinksWithin
  <1>2. ASSUME NEW t, NEW i, NEW c, Writes(x, t, i, c) PROVE Within'
    BY <1>2, WritesWithin
  <1>3. ASSUME NEW t, Ends(x, t), KeepsTable \/ Commits(x) \/ Reads(x) PROVE Within'
    BY <1>3, EndsWithin
  <1> QED
    BY <1>1, <1>2, <1>3 DEF Effect

\* Deletions and purges take away, and so does time.
LEMMA OthersWithin ==
  ASSUME Storage, Storage', Within, (\E i \in Ids : DeleteMemory(i)) \/ ListMemories \/ NextDay
  PROVE  Within'
  <1>1. UNCHANGED <<team, tx>>
    BY DEF DeleteMemory, ListMemories, NextDay
  <1>2. CASE (\E i \in Ids : DeleteMemory(i)) \/ ListMemories
    <2>1. /\ UNCHANGED today /\ hist'.revived = hist.revived
          /\ \A y \in team : \A j \in DOMAIN tx[y].own : rows'[j] = rows[j]
          /\ \A j \in Ids : rows'[j] = rows[j] \/ rows'[j] = {}
      <3>1. \A y \in team : \A j \in DOMAIN tx[y].own : j \in Ids /\ j \in HeldRows
        BY HeldTyped DEF HeldRows
      <3>2. ASSUME NEW i \in Ids, DeleteMemory(i)
            PROVE  /\ UNCHANGED today /\ hist'.revived = hist.revived
                   /\ \A y \in team : \A j \in DOMAIN tx[y].own : rows'[j] = rows[j]
                   /\ \A j \in Ids : rows'[j] = rows[j] \/ rows'[j] = {}
        <4>1. /\ rows'[i] = {} /\ \A j \in Ids : j # i => rows'[j] = rows[j]
              /\ hist'.revived = hist.revived /\ i \notin HeldRows /\ UNCHANGED today
          BY <3>2, DeleteIs
        <4> QED
          BY <3>1, <4>1
      <3>3. CASE ListMemories
        <4>1. Purge /\ UNCHANGED today
          BY <3>3 DEF ListMemories
        <4>2. /\ \A j \in Ids : rows'[j] = IF j \in Expired(rows) THEN {} ELSE rows[j]
              /\ \A j \in HeldRows : j \in Ids => rows'[j] = rows[j]
              /\ hist'.revived = hist.revived
          BY <4>1, PurgeIs
        <4> QED
          BY <3>1, <4>1, <4>2
      <3> QED
        BY <1>2, <3>2, <3>3
    <2>2. \A y \in team : Gains(y)' = Gains(y) /\ Adds(y)' = Adds(y) /\ Loses(y)' = Loses(y)
      BY <1>1, <2>1 DEF Gains, Adds, Coming, Loses, Alive
    <2>3. Live' \subseteq Live
      BY <2>1 DEF Live, Alive
    <2>4. \A C \in SUBSET team : Result(C)' \subseteq Result(C)
      BY <2>2, <2>3 DEF Result
    <2>5. \A y \in team : Gains(y)' \subseteq Gains(y) /\ Cardinality(Adds(y)') <= tx'[y].ops
      BY <1>1, <2>2 DEF Within
    <2> QED
      BY <1>1, <2>4, <2>5, WithinLess
  <1>3. CASE NextDay
    <2>1. today' = today + 1 /\ UNCHANGED <<rows, hist>> /\ today \in Nat /\ rows \in [Ids -> Cells]
      BY <1>3, Parts DEF NextDay, Storage
    <2>2. ASSUME NEW c \in Cells, Alive(c)' PROVE Alive(c)
      <3>1. PICK r \in c : r.until > today + 1
        BY <2>1, <2>2 DEF Alive
      <3>2. r.until \in Nat
        BY <2>2 DEF Cells, RowType
      <3>3. r.until > today
        BY <2>1, <3>1, <3>2
      <3> QED
        BY <3>3 DEF Alive
    <2>3. Live' \subseteq Live
      <3>1. \A i \in Ids : Alive(rows[i])' => Alive(rows[i])
        <4> SUFFICES ASSUME NEW i \in Ids, Alive(rows[i])' PROVE Alive(rows[i])
          OBVIOUS
        <4>1. rows[i] \in Cells /\ rows'[i] = rows[i]
          BY <2>1
        <4> DEFINE c == rows[i]
        <4>2. \E r \in rows[i] : r.until > today'
          BY <4>1 DEF Alive
        <4> QED
          BY <2>1, <2>2, <4>1, <4>2 DEF Alive
      <3> QED
        BY <2>1, <3>1 DEF Live
    <2>4. ASSUME NEW y \in team
          PROVE  /\ Adds(y)' \subseteq Adds(y) /\ Coming(y)' = Coming(y)
                 /\ \A i \in Loses(y) : i \in Loses(y)' \/ (rows[i] # {} /\ i \notin Live')
      <3>1. \A i \in DOMAIN tx[y].own : tx[y].own[i] \in Cells
        BY Parts, OwnTyped DEF Storage
      <3>2. \A i \in DOMAIN tx[y].own : Alive(tx[y].own[i])' => Alive(tx[y].own[i])
        <4> SUFFICES ASSUME NEW i \in DOMAIN tx[y].own, Alive(tx[y].own[i])'
                     PROVE  Alive(tx[y].own[i])
          OBVIOUS
        <4>1. \E r \in tx[y].own[i] : r.until > today'
          BY <1>1 DEF Alive
        <4> QED
          BY <2>1, <2>2, <3>1, <4>1 DEF Alive
      <3>3. Adds(y)' \subseteq Adds(y) /\ Coming(y)' = Coming(y)
        BY <1>1, <2>1, <3>2 DEF Adds, Coming
      <3>4. \A i \in Loses(y) : i \in Loses(y)' \/ (rows[i] # {} /\ i \notin Live')
        <4> SUFFICES ASSUME NEW i \in Loses(y), i \notin Loses(y)'
                     PROVE  rows[i] # {} /\ i \notin Live'
          OBVIOUS
        <4>1. /\ i \in DOMAIN tx[y].own /\ Alive(rows[i]) /\ ~Alive(tx[y].own[i])
              /\ i \notin hist.revived
          BY DEF Loses
        <4>2. ~Alive(tx[y].own[i])' /\ rows[i] # {}
          BY <3>2, <4>1 DEF Alive
        <4>3. ~Alive(rows[i])'
          BY <1>1, <2>1, <4>1, <4>2 DEF Loses
        <4> QED
          BY <4>2, <4>3 DEF Live
      <3> QED
        BY <3>3, <3>4
    <2>5. \A y \in team : Gains(y)' \subseteq Gains(y)
      BY <2>4 DEF Gains
    <2>6. ASSUME NEW C \in SUBSET team, NEW i \in Result(C)' PROVE i \in Result(C)
      <3>1. i \in Ids /\ \A y \in C : i \notin Loses(y)'
        BY <2>6 DEF Result
      <3>2. i \in Live' \/ \E y \in C : i \in Gains(y)
        BY <2>5, <2>6 DEF Result
      <3>3. ASSUME NEW y \in C, i \in Loses(y) PROVE FALSE
        <4>1. rows[i] # {} /\ i \notin Live'
          BY <2>4, <3>1, <3>3
        <4>2. PICK z \in C : i \in Gains(z)
          BY <3>2, <4>1
        <4>3. i \in Born
          BY <3>1, <4>1 DEF Born, Existing
        <4> QED
          BY <4>1, <4>2, <4>3 DEF Gains, Adds, Coming, Storage, Fresh, Unheld
      <3> QED
        BY <2>3, <3>1, <3>2, <3>3 DEF Result
    <2>7. ASSUME NEW y \in team PROVE Cardinality(Adds(y)') <= tx'[y].ops
      <3>1. /\ IsFiniteSet(Adds(y)) /\ Cardinality(Adds(y)) \in Nat
            /\ Cardinality(Adds(y)) <= tx[y].ops /\ tx[y].ops \in Nat
        BY GainsFinite, Parts DEF Within, Storage, TxRecord
      <3>2. IsFiniteSet(Adds(y)') /\ Cardinality(Adds(y)') <= Cardinality(Adds(y))
        BY <2>4, <3>1, FS_Subset
      <3>3. Cardinality(Adds(y)') \in Nat
        BY <3>2, FS_CardinalityType
      <3> QED
        BY <1>1, <3>1, <3>2, <3>3
    <2>8. \A C \in SUBSET team : Result(C)' \subseteq Result(C)
      BY <2>6
    <2>9. \A C \in SUBSET team : \E D \in SUBSET team : Result(C)' \subseteq Result(D)
      BY <2>8
    <2> QED
      BY <1>1, <2>5, <2>7, <2>9, WithinLess
  <1> QED
    BY <1>2, <1>3

-----------------------------------------------------------------------------
(* The invariant *)

SavedInv == Storage /\ Distinct /\ NoneBack /\ Accounts /\ Within

LEMMA SavedInitInv ==
  ASSUME SavedInit
  PROVE  SavedInv
  <1>1. /\ team \in Teams /\ today = 0 /\ rows = [i \in Ids |-> {}] /\ audit = 0
        /\ tx = [x \in team |-> NoTx] /\ hist = [gone |-> {}, revived |-> {}]
    BY DEF SavedInit
  <1>2. \A x \in team : tx[x] = NoTx
    BY <1>1
  <1>3. /\ NoTx \in TxRecord /\ NoTx.pc = "idle" /\ DOMAIN NoTx.own = {}
        /\ NoTx.known = {} /\ NoTx.todo = {} /\ NoTx.ops = 0 /\ NoTx.op.id = 0 /\ NoTx.audit = 0
    BY NoTxIs, NoOpTyped
  <1>4. RowsTyped
    <2>1. rows \in [Ids -> Cells]
      BY <1>1 DEF Cells
    <2>2. tx \in [team -> TxRecord]
      BY <1>1, <1>3
    <2>3. hist \in [gone : SUBSET Ids, revived : SUBSET Ids]
      BY <1>1
    <2>4. today \in 0 .. MaxDay
      BY <1>1, Bounds
    <2> QED
      BY <1>1, <2>1, <2>2, <2>3, <2>4 DEF RowsTyped
  <1>5. \A x \in team : Held(x) = {} /\ tx[x].pc = "idle" /\ DOMAIN tx[x].own = {}
    BY <1>2, <1>3 DEF Held
  <1>6. \A x \in team : Sound(x, tx[x])
    <2>1. BatchSize[team] \in Nat
      BY <1>4, Parts
    <2> QED
      BY <1>2, <1>3, <2>1 DEF Sound, OpPCs
  <1>7. Storage
    BY <1>4, <1>5, <1>6 DEF Storage, Fresh, HeldOnce
  <1>8. \A i \in Ids : rows[i] = {}
    BY <1>1
  <1>9. Distinct
    <2>1. \A x \in team : \A i \in Ids : Seen(tx[x], i) = {}
      BY <1>5, <1>8 DEF Seen
    <2> QED
      BY <1>5, <1>8, <2>1 DEF Distinct, RowsApart, SeenApart, OwnApart, Apart, Says
  <1>10. NoneBack
    BY <1>1 DEF NoneBack
  <1>11. Accounts
    <2>1. Existing(rows) = {}
      BY <1>8 DEF Existing
    <2>2. \A x \in team : Stored(tx[x]) = {} /\ Found(tx[x]) = {} /\ tx[x].audit = 0
      BY <1>2, <1>3 DEF Stored, Found
    <2>3. Cardinality({}) = 0
      BY FS_EmptySet
    <2>4. \A x \in team : Balanced(tx[x])
      BY <2>2, <2>3 DEF Balanced
    <2> QED
      BY <1>1, <2>1, <2>3, <2>4 DEF Accounts
  <1>12. Within
    <2>1. Live = {}
      BY <1>8 DEF Live, Alive
    <2>2. \A x \in team : Adds(x) = {} /\ Gains(x) = {} /\ Loses(x) = {} /\ tx[x].ops = 0
      BY <1>2, <1>3 DEF Adds, Coming, Gains, Loses
    <2>3. \A C \in SUBSET team : Result(C) = {}
      BY <2>1, <2>2 DEF Result
    <2>4. 0 <= Limit + Others * Spare
      <3>1. /\ Spare \in Nat /\ Spare <= Limit /\ Limit \in Nat /\ Others \in Int
            /\ Cardinality(Writers \cap team) \in Nat
        BY <1>4, SpareIs
      <3> DEFINE n == Cardinality(Writers \cap team)
      <3>2. Others = n - 1 /\ n \in Nat
        BY <3>1 DEF Others
      <3> HIDE DEF n
      <3>3. CASE n = 0
        <4>1. Others * Spare = 0 - Spare
          BY <3>1, <3>2, <3>3
        <4> QED
          BY <3>1, <4>1
      <3>4. CASE n # 0
        <4>1. Others \in Nat
          BY <3>2, <3>4
        <4>2. Others * Spare \in Nat
          BY <3>1, <4>1, TimesMore
        <4> QED
          BY <3>1, <4>2
      <3> QED
        BY <3>3, <3>4
    <2>5. Limit \in Nat /\ 0 <= Limit
      BY Bounds
    <2>6. Cardinality({}) = 0
      BY FS_EmptySet
    <2>7. \A C \in SUBSET team : Cardinality(Result(C)) <= Limit + Others * Spare
      BY <2>3, <2>4, <2>6
    <2>8. \A x \in team : /\ Cardinality(Gains(x)) <= Limit
                          /\ Cardinality(Adds(x)) <= tx[x].ops
                          /\ x \notin Writers => Gains(x) = {}
      BY <2>2, <2>5, <2>6
    <2> QED
      BY <2>7, <2>8 DEF Within
  <1> QED
    BY <1>7, <1>9, <1>10, <1>11, <1>12 DEF SavedInv

LEMMA SavedStutterInv ==
  ASSUME SavedInv, UNCHANGED savedVars
  PROVE  SavedInv'
  <1>1. UNCHANGED <<team, today, rows, tx, audit, hist>>
    BY DEF savedVars
  <1>2. Storage'
    <2>1. /\ Storage /\ today \in 0 .. MaxDay /\ rows \in [Ids -> Cells] /\ audit \in Int
          /\ hist \in [gone : SUBSET Ids, revived : SUBSET Ids]
      BY DEF SavedInv, Storage, RowsTyped
    <2>2. Born' = Born
      BY <1>1 DEF Born, Existing
    <2> QED
      BY <1>1, <2>1, <2>2, RowsMove
  <1>3. Distinct'
    BY <1>1 DEF SavedInv, Distinct, RowsApart, SeenApart, OwnApart, Apart, Says, Seen
  <1>4. NoneBack'
    BY <1>1 DEF SavedInv, NoneBack
  <1>5. Accounts'
    BY <1>1 DEF SavedInv, Accounts, Balanced, Stored, Found, Existing
  <1>6. Within'
    <2>1. Live' = Live /\ Others' = Others /\ Spare' = Spare
      BY <1>1 DEF Live, Alive, Others, Spare
    <2>2. \A x \in team : Gains(x)' = Gains(x) /\ Adds(x)' = Adds(x) /\ Loses(x)' = Loses(x)
      BY <1>1 DEF Gains, Adds, Coming, Loses, Alive
    <2>3. \A C \in SUBSET team : Result(C)' = Result(C)
      BY <2>1, <2>2 DEF Result
    <2> QED
      BY <1>1, <2>1, <2>2, <2>3 DEF SavedInv, Within
  <1> QED
    BY <1>2, <1>3, <1>4, <1>5, <1>6 DEF SavedInv

LEMMA SavedNextInv ==
  ASSUME SavedInv, SavedNext
  PROVE  SavedInv'
  <1>1. Storage /\ Distinct /\ NoneBack /\ Accounts /\ Within
    BY DEF SavedInv
  <1>2. ASSUME NEW x \in team, Effect(x) PROVE SavedInv'
    <2>1. Storage'
      <3>1. ASSUME NEW t, Thinks(x, t) PROVE Storage'
        BY <1>1, <3>1, ThinksStorage
      <3>2. ASSUME NEW t, NEW i, NEW c, Writes(x, t, i, c) PROVE Storage'
        BY <1>1, <3>2, WritesStorage
      <3>3. ASSUME NEW t, Ends(x, t), KeepsTable \/ Commits(x) \/ Reads(x) PROVE Storage'
        BY <1>1, <3>3, EndsStorage
      <3> QED
        BY <1>2, <3>1, <3>2, <3>3 DEF Effect
    <2>2. Distinct'
      BY <1>1, <1>2, EffectApart
    <2>3. NoneBack'
      BY <1>1, <1>2, EffectNoneBack
    <2>4. Accounts'
      BY <1>1, <1>2, EffectAccounts
    <2>5. Within'
      BY <1>1, <1>2, <2>1, EffectWithin
    <2> QED
      BY <2>1, <2>2, <2>3, <2>4, <2>5 DEF SavedInv
  <1>3. ASSUME (\E i \in Ids : DeleteMemory(i)) \/ ListMemories \/ NextDay PROVE SavedInv'
    <2>1. Storage'
      BY <1>1, <1>3, OthersStorage
    <2>2. Distinct'
      BY <1>1, <1>3, OthersApart
    <2>3. NoneBack'
      BY <1>1, <1>3, OthersNoneBack
    <2>4. Accounts'
      BY <1>1, <1>3, OthersAccounts
    <2>5. Within'
      BY <1>1, <1>3, <2>1, OthersWithin
    <2> QED
      BY <2>1, <2>2, <2>3, <2>4, <2>5 DEF SavedInv
  <1> QED
    BY <1>1, <1>2, <1>3, NextEffect

-----------------------------------------------------------------------------
(* What it says about the table *)

LEMMA SavedTypeOKHolds ==
  ASSUME Storage
  PROVE  SavedTypeOK
  <1>1. /\ RowsTyped /\ today \in Nat /\ rows \in [Ids -> Cells] /\ audit \in Int
        /\ hist.gone \subseteq Ids /\ hist.revived \subseteq Ids /\ Born \subseteq Ids
        /\ BatchSize[team] \in Nat
    BY Parts DEF Storage
  <1>2. ASSUME NEW i \in Ids PROVE rows[i] \subseteq RowType /\ Cardinality(rows[i]) <= 1
    <2>1. rows[i] \subseteq RowType /\ \A r, s \in rows[i] : r = s
      BY <1>1 DEF Cells
    <2>2. CASE rows[i] = {}
      BY <2>1, <2>2, FS_EmptySet
    <2>3. CASE rows[i] # {}
      <3>1. PICK r \in rows[i] : TRUE
        BY <2>3
      <3>2. rows[i] = {r}
        BY <2>1, <3>1
      <3>3. Cardinality({r}) = 1
        BY FS_Singleton
      <3> QED
        BY <2>1, <3>2, <3>3
    <2> QED
      BY <2>2, <2>3
  <1>3. ASSUME NEW x \in team
        PROVE  /\ tx[x].pc \in {"idle", "writing", "touch", "insert", "update", "rekey", "delete",
                                "touching"}
               /\ DOMAIN tx[x].own \subseteq Ids
               /\ tx[x].known \cup tx[x].todo \subseteq Ids
               /\ tx[x].ops \in 0 .. BatchSize[team]
    <2>1. tx[x] \in TxRecord /\ Sound(x, tx[x])
      BY <1>1, Parts DEF Storage
    <2>2. tx[x].pc \in PCs /\ tx[x].ops \in Nat
      BY <2>1 DEF TxRecord
    <2>3. tx[x].ops <= BatchSize[team] /\ tx[x].known \cup tx[x].todo \subseteq Born
      BY <2>1 DEF Sound
    <2>4. tx[x].ops \in 0 .. BatchSize[team]
      BY <1>1, <2>2, <2>3
    <2> QED
      BY <1>1, <2>1, <2>2, <2>3, <2>4, OwnTyped DEF PCs, OpPCs
  <1>4. today \in 0 .. MaxDay
    BY <1>1 DEF RowsTyped
  <1> QED
    BY <1>1, <1>2, <1>3, <1>4 DEF SavedTypeOK

LEMMA OneRowHolds ==
  ASSUME Storage, Distinct
  PROVE  OneRowPerContent
  <1> SUFFICES ASSUME NEW c \in Contents PROVE Cardinality(WithContent(rows, c)) <= 1
    BY DEF OneRowPerContent
  <1>1. WithContent(rows, c) = {i \in Ids : Says(rows[i], c)}
    BY CellSets, Parts DEF Storage
  <1>2. \A i, j \in WithContent(rows, c) : i = j
    BY <1>1 DEF Distinct, RowsApart, Apart
  <1> DEFINE W == WithContent(rows, c)
  <1> HIDE DEF W
  <1>3. CASE W = {}
    <2>1. Cardinality({}) = 0
      BY FS_EmptySet
    <2> QED
      BY <1>3, <2>1 DEF W
  <1>4. CASE W # {}
    <2>1. PICK i \in W : TRUE
      BY <1>4
    <2>2. W = {i}
      BY <1>2, <2>1 DEF W
    <2>3. Cardinality({i}) = 1
      BY FS_Singleton
    <2> QED
      BY <2>2, <2>3 DEF W
  <1> QED
    BY <1>3, <1>4

LEMMA LimitHolds ==
  ASSUME Storage, Within
  PROVE  LimitOvershoot
  <1> DEFINE most == Limit + Others * Spare
             seen == VisibleIn(rows)
             L == Result({})
  <1>1. /\ rows \in [Ids -> Cells] /\ today \in Nat /\ hist.revived \in SUBSET Ids
    BY Parts DEF Storage
  <1>2. L \in SUBSET Ids /\ Cardinality(L) <= most
    BY DEF Within, Result
  <1>3. seen \in SUBSET (L \cup hist.revived)
    BY <1>1, CellSets DEF Result, Live
  <1>4. most \in Int
    <2>1. Others \in Int /\ Spare \in Nat /\ Limit \in Nat
      BY SpareIs DEF Storage
    <2> QED
      BY <2>1
  <1> HIDE DEF most, seen, L
  <1>5. IsFiniteSet(L) /\ IsFiniteSet(hist.revived)
    BY <1>1, <1>2, Bounds, FS_Subset
  <1>6. Cardinality(L) \in Nat /\ Cardinality(hist.revived) \in Nat
    BY <1>5, FS_CardinalityType
  <1> DEFINE R == hist.revived
             U == L \cup R
  <1>7. IsFiniteSet(U) /\ Cardinality(U) = Cardinality(L) + Cardinality(R) - Cardinality(L \cap R)
    BY <1>5, FS_Union
  <1>8. Cardinality(L \cap R) \in Nat
    <2>1. IsFiniteSet(L \cap R)
      BY <1>5, FS_Intersection
    <2> QED
      BY <2>1, FS_CardinalityType
  <1>9. Cardinality(seen) <= Cardinality(U) /\ IsFiniteSet(seen)
    BY <1>3, <1>7, FS_Subset
  <1>10. Cardinality(seen) \in Nat /\ Cardinality(U) \in Nat
    BY <1>7, <1>9, FS_CardinalityType
  <1> HIDE DEF U
  <1>11. Cardinality(seen) <= most + Cardinality(R)
    BY <1>2, <1>4, <1>6, <1>7, <1>8, <1>9, <1>10
  <1> QED
    BY <1>11 DEF LimitOvershoot, Others, Spare, most, seen

LEMMA RowsRightHolds ==
  ASSUME SavedInv
  PROVE  RowsRight
  <1>1. SavedTypeOK
    BY SavedTypeOKHolds DEF SavedInv
  <1>2. OneRowPerContent
    BY OneRowHolds DEF SavedInv
  <1>3. AuditMatches
    BY DEF SavedInv, Accounts, AuditMatches
  <1>4. GoneForGood
    BY DEF SavedInv, NoneBack, GoneForGood
  <1>5. LimitOvershoot
    BY LimitHolds DEF SavedInv
  <1> QED
    BY <1>1, <1>2, <1>3, <1>4, <1>5 DEF RowsRight

\* However extractions, turns, deletions and purges overlap, no content has two
\* rows, the compliance log accounts for every row, none that was deleted comes
\* back, and the limit is only overshot by a batch for each further extraction.
THEOREM RowsAreRight == SavedSpec => []RowsRight
  <1>1. SavedInit => SavedInv
    BY SavedInitInv
  <1>2. SavedInv /\ [SavedNext]_savedVars => SavedInv'
    BY SavedNextInv, SavedStutterInv
  <1>3. SavedInv => RowsRight
    BY RowsRightHolds
  <1> QED
    BY <1>1, <1>2, <1>3, PTL DEF SavedSpec

\* What a turn quotes of its memories, whatever the ranking: nothing twice,
\* within both limits, the profile first, nothing passed over before the cut.
THEOREM SelectionIsRight == SavedSpec => []SelectionRight
  <1>1. SavedInit => SavedInv
    BY SavedInitInv
  <1>2. SavedInv /\ [SavedNext]_savedVars => SavedInv'
    BY SavedNextInv, SavedStutterInv
  <1>3. SavedInv => SelectionRight
    <2> SUFFICES ASSUME SavedInv, NEW ranked \in Rankings(rows) PROVE QuotedRight(rows, ranked)
      BY DEF SelectionRight, QuotedRight
    <2>1. rows \in [Ids -> Cells] /\ today \in Nat
      BY Parts DEF SavedInv, Storage
    <2> QED
      BY <2>1, SelectIs
  <1> QED
    BY <1>1, <1>2, <1>3, PTL DEF SavedSpec
=============================================================================
