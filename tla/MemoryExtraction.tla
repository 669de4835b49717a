-------------------------- MODULE MemoryExtraction --------------------------
(***************************************************************************)
(* Long-term memory of one user: consent, the per-conversation "don't      *)
(* remember this" switch, and the detached extraction runs that turn       *)
(* messages into stored facts.                                             *)
(*                                                                         *)
(* An extraction run reads in one session, asks the model while it holds   *)
(* no lock, and writes in one transaction: a shared lock on the consent    *)
(* row, a compare-and-set of the conversation's watermark, the operation.  *)
(* Each process keeps its own set of conversations in flight.  Times are   *)
(* created_at stamps, one per event; 0 stands for NULL.                    *)
(***************************************************************************)
EXTENDS Naturals, FiniteSets, FiniteSetsExt

CONSTANTS
    Processes,      \* server processes, each with its own scheduler
    Conversations,  \* the user's conversations
    MemoryIds,      \* rows user_memories can hold
    Interval,       \* USER_MEMORY_EXTRACTION_TURN_INTERVAL
    MaxEvents,      \* USER_MEMORY_EXTRACTION_MAX_EVENTS
    MaxMemories,    \* USER_MEMORY_MAX_PER_USER
    Settings,       \* what the user may do besides chatting, see SettingKinds
    Switchers,      \* slots for requests that flip a switch, at once or not
    MaxTime         \* bound: number of time stamps

SettingKinds == {"consent", "switch", "items"}

ASSUME SettingsAssumption == Settings \subseteq SettingKinds
ASSUME BatchAssumption == Interval \in 1..MaxEvents /\ MaxEvents \in Nat
ASSUME BoundAssumption == MaxTime \in Nat /\ MaxMemories \in 1..Cardinality(MemoryIds)

VARIABLES
    user,       \* committed users row: memory_enabled, memory_consent_updated_at
    conv,       \* committed conversation rows: switch and watermark
    msgs,       \* USER messages, committed or of a turn still under way
    mem,        \* committed memories: the messages each one was made from
    run,        \* the extraction task of each process and conversation
    withdrawal, \* the consent withdrawal in progress
    switching,  \* the requests that flip a switch: what each has read and will write
    clock,
    claims,     \* history: how many extractions claimed each message
    dropped,    \* history: messages a release of the switch passed over
    exposed     \* history: messages said while a release of the switch was under way

vars == <<user, conv, msgs, mem, run, withdrawal, switching, clock, claims, dropped, exposed>>
settings == <<user, withdrawal, switching>>
history == <<claims, dropped, exposed>>

Times == 1..MaxTime
Runs == Processes \X Conversations
ConvOf(r) == r[2]

NoOp == [kind |-> "none", id |-> "none"]
IdleRun == [stage |-> "idle", watermark |-> 0, floor |-> 0, batch |-> {},
            known |-> {}, op |-> NoOp]
NoWithdrawal == [stage |-> "idle", rows |-> {}, at |-> 0]
NoSwitching == [conv |-> "none", disable |-> FALSE, at |-> 0, seen |-> 0]

Rows == {i \in MemoryIds : mem[i] # {}}

\* Rows an open extraction transaction has inserted, changed or deleted.
Written(r) == IF run[r].stage = "applied" /\ run[r].op.kind # "none"
              THEN {run[r].op.id} ELSE {}
LockedRows == UNION {Written(r) : r \in Runs}

Tick == clock < MaxTime /\ clock' = clock + 1

Init ==
    /\ user = [enabled |-> FALSE, since |-> 0]
    /\ conv = [c \in Conversations |-> [disabled |-> FALSE, watermark |-> 0]]
    /\ msgs = {}
    /\ mem = [i \in MemoryIds |-> {}]
    /\ run = [r \in Runs |-> IdleRun]
    /\ withdrawal = NoWithdrawal
    /\ switching = [s \in Switchers |-> NoSwitching]
    /\ clock = 0
    /\ claims = [t \in Times |-> 0]
    /\ dropped = {} /\ exposed = {}

-----------------------------------------------------------------------------
(* Chat turns *)

\* The turn stamps and flushes the message; it commits when the turn ends.
\* "off" and "optedOut" keep the switch and the consent it was said under.
StartTurn(c) ==
    /\ Tick
    /\ msgs' = msgs \union {[at |-> clock', conv |-> c, committed |-> FALSE,
                             off |-> conv[c].disabled, optedOut |-> ~user.enabled,
                             late |-> FALSE]}
    /\ UNCHANGED <<conv, mem, run, settings, history>>

\* Its turn ended after the turn of a message stamped later.
Overtaken(m) == \E n \in msgs : n.conv = m.conv /\ n.committed /\ n.at > m.at

\* After the commit the turn's process schedules an extraction, unless the
\* conversation it loaded had the switch on or one is in flight here.
CommitTurn(m, p) ==
    /\ ~m.committed
    /\ msgs' = (msgs \ {m}) \union {[m EXCEPT !.committed = TRUE, !.late = Overtaken(m)]}
    /\ run' = IF m.off \/ run[<<p, m.conv>>].stage # "idle" THEN run
              ELSE [run EXCEPT ![<<p, m.conv>>].stage = "scheduled"]
    /\ UNCHANGED <<conv, mem, settings, clock, history>>

AbortTurn(m) ==
    /\ ~m.committed
    /\ msgs' = msgs \ {m}
    /\ UNCHANGED <<conv, mem, run, settings, clock, history>>

-----------------------------------------------------------------------------
(* Extraction *)

Step(r, record) == run' = [run EXCEPT ![r] = record]
Finish(r) == Step(r, IdleRun)

ReadFlags(r) ==
    /\ run[r].stage = "scheduled"
    /\ LET c == conv[ConvOf(r)] IN
       \/ (c.disabled \/ ~user.enabled) /\ Finish(r)
       \/ /\ ~c.disabled /\ user.enabled
          /\ Step(r, [run[r] EXCEPT !.stage = "flags", !.watermark = c.watermark,
                                    !.floor = Max({c.watermark, user.since})])
    /\ UNCHANGED <<conv, msgs, mem, settings, clock, history>>

Oldest(S) == {t \in S : Cardinality({u \in S : u <= t}) <= MaxEvents}

\* list_by_role_since: committed messages after the floor, oldest first.
Pending(c, floor) ==
    Oldest({m.at : m \in {n \in msgs : n.conv = c /\ n.committed /\ n.at > floor}})

ReadPending(r) ==
    /\ run[r].stage = "flags"
    /\ LET batch == Pending(ConvOf(r), run[r].floor) IN
       \/ Cardinality(batch) < Interval /\ Finish(r)
       \/ /\ Cardinality(batch) >= Interval
          /\ Step(r, [run[r] EXCEPT !.stage = "model", !.batch = batch, !.known = Rows])
    /\ UNCHANGED <<conv, msgs, mem, settings, clock, history>>

\* What survives screening: at most one operation here; an update or a
\* deletion may only name a memory the model was shown.
Propose(r) ==
    /\ run[r].stage = "model"
    /\ \E op \in {NoOp, [kind |-> "add", id |-> "none"]}
                 \union [kind : {"update", "forget"}, id : run[r].known] :
          Step(r, [run[r] EXCEPT !.stage = "screened", !.op = op])
    /\ UNCHANGED <<conv, msgs, mem, settings, clock, history>>

\* The write transaction begins by re-reading consent FOR SHARE.
LockConsent(r) ==
    /\ run[r].stage = "screened"
    /\ IF user.enabled THEN Step(r, [run[r] EXCEPT !.stage = "locked"]) ELSE Finish(r)
    /\ UNCHANGED <<conv, msgs, mem, settings, clock, history>>

SharesConsentLockNever(r) == FALSE    \* mutant: consent is read without a lock
SharesConsentLock(r) == run[r].stage \in {"locked", "applied"}

ClaimableIfOn(r) == ~conv[ConvOf(r)].disabled    \* mutant: no compare
Claimable(r) ==
    /\ ~conv[ConvOf(r)].disabled
    /\ conv[ConvOf(r)].watermark = run[r].watermark

\* The UPDATE holds the conversation row until the transaction ends.
ConversationFree(c) == \A r \in Runs : ConvOf(r) = c => run[r].stage # "applied"

LeaveOpen(r) == UNCHANGED run    \* mutant: the transaction is not ended

GiveUpClaim(r) == Finish(r)

ClaimLost(r) ==
    /\ run[r].stage = "locked" /\ ConversationFree(ConvOf(r)) /\ ~Claimable(r)
    /\ GiveUpClaim(r)
    /\ UNCHANGED <<conv, msgs, mem, settings, clock, history>>

Claimed(r, op) == Step(r, [run[r] EXCEPT !.stage = "applied", !.op = op])

\* A new row counts the rows it can see; an update or a deletion needs its row.
Apply(r) ==
    /\ run[r].stage = "locked" /\ ConversationFree(ConvOf(r)) /\ Claimable(r)
    /\ LET op == run[r].op IN
       \/ op.kind = "none" /\ Claimed(r, NoOp)
       \/ op.kind = "add" /\ Cardinality(Rows) >= MaxMemories /\ Claimed(r, NoOp)
       \/ /\ op.kind = "add" /\ Cardinality(Rows) < MaxMemories
          /\ \E i \in MemoryIds \ (Rows \union LockedRows) : Claimed(r, [op EXCEPT !.id = i])
       \/ op.kind \in {"update", "forget"} /\ op.id \notin Rows /\ Claimed(r, NoOp)
       \/ /\ op.kind \in {"update", "forget"}
          /\ op.id \in Rows \ (LockedRows \union withdrawal.rows)
          /\ Claimed(r, op)
    /\ UNCHANGED <<conv, msgs, mem, settings, clock, history>>

\* The run waits for a row the withdrawal deleted and the withdrawal for the
\* run's share lock: PostgreSQL fails one of the two, the run's operation in
\* its savepoint or the withdrawal's transaction.
Deadlock(r) ==
    /\ run[r].stage = "locked" /\ ConversationFree(ConvOf(r)) /\ Claimable(r)
    /\ run[r].op.id \in withdrawal.rows
    /\ \/ Claimed(r, NoOp) /\ UNCHANGED withdrawal
       \/ withdrawal' = NoWithdrawal /\ UNCHANGED run
    /\ UNCHANGED <<user, switching, conv, msgs, mem, clock, history>>

\* The watermark moves to the last message of the batch.
Commit(r) ==
    /\ run[r].stage = "applied"
    /\ LET op == run[r].op IN
       mem' = [i \in MemoryIds |->
                 IF i # op.id THEN mem[i] ELSE IF op.kind = "forget" THEN {} ELSE run[r].batch]
    /\ conv' = [conv EXCEPT ![ConvOf(r)].watermark = Max(run[r].batch)]
    /\ claims' = [t \in Times |-> claims[t] + (IF t \in run[r].batch THEN 1 ELSE 0)]
    /\ Finish(r)
    /\ UNCHANGED <<msgs, settings, clock, dropped, exposed>>

\* The model fails, the database does, or the process stops: nothing is kept.
RunFails(r) ==
    /\ run[r].stage # "idle"
    /\ Finish(r)
    /\ UNCHANGED <<conv, msgs, mem, settings, clock, history>>

-----------------------------------------------------------------------------
(* Settings *)

GrantConsent ==
    /\ "consent" \in Settings /\ ~user.enabled
    /\ Tick
    /\ user' = [enabled |-> TRUE, since |-> clock']
    /\ UNCHANGED <<conv, msgs, mem, run, withdrawal, switching, history>>

\* set_consent(false): the session does not autoflush, so the DELETE runs
\* first; it waits for rows that open transactions have changed and cannot
\* see rows they have inserted.
WithdrawDelete ==
    /\ "consent" \in Settings /\ user.enabled /\ withdrawal.stage = "idle"
    /\ LockedRows \intersect Rows = {}
    /\ Tick
    /\ withdrawal' = [stage |-> "deleted", rows |-> Rows, at |-> clock']
    /\ UNCHANGED <<user, switching, conv, msgs, mem, run, history>>

\* The flag is flushed with the audit entry: it waits for the share locks,
\* then everything commits.
WithdrawCommit ==
    /\ withdrawal.stage = "deleted"
    /\ \A r \in Runs : ~SharesConsentLock(r)
    /\ user' = [enabled |-> FALSE, since |-> withdrawal.at]
    /\ mem' = [i \in MemoryIds |-> IF i \in withdrawal.rows THEN {} ELSE mem[i]]
    /\ withdrawal' = NoWithdrawal
    /\ UNCHANGED <<conv, msgs, run, switching, clock, history>>

\* The database fails or the process stops: the transaction is rolled back.
WithdrawFails ==
    /\ withdrawal.stage = "deleted"
    /\ withdrawal' = NoWithdrawal
    /\ UNCHANGED <<user, switching, conv, msgs, mem, run, clock, history>>

ReleasedToNull == 0    \* mutant: the watermark is cleared
ReleasedWatermark == clock'

\* set_memory_disabled reads the row and, for a release, the clock: that is the
\* watermark it will write.  A switch that is there already is left alone.
RequestSwitch(s, c, disable) ==
    /\ "switch" \in Settings /\ switching[s] = NoSwitching
    /\ conv[c].disabled # disable
    /\ IF disable THEN UNCHANGED clock ELSE Tick
    /\ switching' = [switching EXCEPT ![s] =
          [conv |-> c, disable |-> disable, seen |-> conv[c].watermark,
           at |-> IF disable THEN 0 ELSE ReleasedWatermark]]
    /\ UNCHANGED <<user, withdrawal, conv, msgs, mem, run, history>>

SaidSince(c, t) == {m.at : m \in {n \in msgs : n.conv = c /\ n.at > t}}
SaidUntil(c, t) == {m.at : m \in {n \in msgs : n.conv = c /\ n.at <= t}}

\* Its UPDATE waits for the row's lock (an extraction's, a chat turn's), looks at
\* nothing the row holds by then, and commits.
CommitSwitch(s) ==
    /\ switching[s] # NoSwitching
    /\ LET c == switching[s].conv
           at == switching[s].at
       IN  /\ ConversationFree(c)
           /\ \/ /\ switching[s].disable
                 /\ conv' = [conv EXCEPT ![c].disabled = TRUE]
                 /\ UNCHANGED <<dropped, exposed>>
              \/ /\ ~switching[s].disable
                 /\ conv' = [conv EXCEPT ![c].disabled = FALSE, ![c].watermark = at]
                 /\ dropped' = dropped \union SaidUntil(c, at)
                 /\ exposed' = exposed \union SaidSince(c, at)
    /\ switching' = [switching EXCEPT ![s] = NoSwitching]
    /\ UNCHANGED <<user, withdrawal, msgs, mem, run, clock, claims>>

\* The database fails or the process stops: the transaction is rolled back.
SwitchFails(s) ==
    /\ switching[s] # NoSwitching
    /\ switching' = [switching EXCEPT ![s] = NoSwitching]
    /\ UNCHANGED <<user, withdrawal, conv, msgs, mem, run, clock, history>>

\* A memory the user deletes, or one past its retention.
RemoveMemory(i) ==
    /\ "items" \in Settings /\ i \in Rows \ (LockedRows \union withdrawal.rows)
    /\ mem' = [mem EXCEPT ![i] = {}]
    /\ UNCHANGED <<conv, msgs, run, settings, clock, history>>

-----------------------------------------------------------------------------
Extract(r) ==
    \/ ReadFlags(r) \/ ReadPending(r) \/ Propose(r) \/ LockConsent(r)
    \/ ClaimLost(r) \/ Apply(r) \/ Deadlock(r) \/ Commit(r)

Next ==
    \/ \E c \in Conversations : StartTurn(c)
    \/ \E m \in msgs : (\E p \in Processes : CommitTurn(m, p)) \/ AbortTurn(m)
    \/ \E r \in Runs : Extract(r) \/ RunFails(r)
    \/ GrantConsent \/ WithdrawDelete \/ WithdrawCommit \/ WithdrawFails
    \/ \E s \in Switchers :
          \/ \E c \in Conversations, b \in BOOLEAN : RequestSwitch(s, c, b)
          \/ CommitSwitch(s) \/ SwitchFails(s)
    \/ \E i \in MemoryIds : RemoveMemory(i)

\* A started run goes on, and a withdrawal that can get its lock gets it.
Fairness ==
    /\ \A r \in Runs : WF_vars(Extract(r))
    /\ WF_vars(WithdrawCommit)

Spec == Init /\ [][Next]_vars
FairSpec == Spec /\ Fairness

-----------------------------------------------------------------------------
(* Properties *)

Messages == [at : Times, conv : Conversations, committed : BOOLEAN,
             off : BOOLEAN, optedOut : BOOLEAN, late : BOOLEAN]
Ops == [kind : {"none", "add", "update", "forget"}, id : MemoryIds \union {"none"}]

\* The variables keep their types; a batch is never empty once the model has it.
TypeOK ==
    /\ user \in [enabled : BOOLEAN, since : 0..MaxTime]
    /\ conv \in [Conversations -> [disabled : BOOLEAN, watermark : 0..MaxTime]]
    /\ msgs \subseteq Messages
    /\ mem \in [MemoryIds -> SUBSET Times]
    /\ run \in [Runs -> [stage : {"idle", "scheduled", "flags", "model", "screened",
                                  "locked", "applied"},
                         watermark : 0..MaxTime, floor : 0..MaxTime, batch : SUBSET Times,
                         known : SUBSET MemoryIds, op : Ops]]
    /\ \A r \in Runs : run[r].stage \in {"model", "screened", "locked", "applied"}
                         => run[r].batch # {}
    /\ withdrawal \in [stage : {"idle", "deleted"}, rows : SUBSET MemoryIds, at : 0..MaxTime]
    /\ switching \in [Switchers ->
          {NoSwitching} \union [conv : Conversations, disable : BOOLEAN, at : 0..MaxTime,
                                seen : 0..MaxTime]]
    /\ clock \in 0..MaxTime
    /\ claims \in [Times -> Nat]
    /\ dropped \subseteq Times /\ exposed \subseteq Times

Sources == UNION {mem[i] : i \in MemoryIds}

\* lock_memory_consent: a memory is written only while the user's committed
\* consent is on, however long the model took.
WrittenUnderConsent ==
    \A i \in MemoryIds : mem'[i] # mem[i] /\ mem'[i] # {} => user.enabled

\* set_memory_disabled: nothing said in a conversation while its switch was on
\* ever reaches a memory, whenever the switch was flipped during a run, but for what
\* was said while a release was under way, between its clock and its commit.
SwitchRespected == \A m \in msgs : m.at \in Sources /\ m.off => m.at \in exposed

\* The same without that window (conversation.py:259: "nothing said while it was on
\* is ever read later").  The code does not keep this.
SwitchRespectedAlways == \A m \in msgs : m.at \in Sources => ~m.off

\* claim_memory_extraction: racing extractions never both apply a message, across
\* processes and across resets of the watermark, unless a release that took its
\* watermark before the message was said commits after it was extracted.
ExtractedOnce == \A t \in Times : claims[t] > 1 => t \in exposed

\* A release of c that was overtaken: the row's watermark moved since it read it.
StaleRelease(s, c) ==
    /\ switching[s].conv = c /\ ~switching[s].disable
    /\ switching[s].seen # conv[c].watermark

\* Extraction never moves a conversation's watermark back, so a batch claimed once
\* cannot become pending again; nor does a release, unless another one overtook it.
WatermarkAdvances ==
    \A c \in Conversations :
        \/ conv'[c].watermark >= conv[c].watermark
        \/ \E s \in Switchers : StaleRelease(s, c) /\ conv'[c].watermark = switching[s].at

Considered(m) ==
    claims[m.at] > 0 \/ m.at \in dropped \/ m.at <= user.since \/ m.optedOut

BehindWatermark(m) == m.committed /\ m.at <= conv[m.conv].watermark

\* Conversation.memory_extracted_through_created_at: a message behind the
\* watermark was considered, unless consent or the switch excludes it, in a
\* conversation whose turns commit in the order they started: cutting a batch
\* at its limit, resetting the watermark and losing a claim skip no message.
\* A turn that commits late can be skipped; m.late marks its message.
ConsideredInOrder == \A m \in msgs : BehindWatermark(m) /\ ~m.late => Considered(m)

\* What is read for memories: no message twice, none skipped, none of a time the
\* switch was on, whichever of the racing runs and user actions comes first; what
\* is said while a release of the switch is under way is the exception.
ReadOnceAndAllowed == TypeOK /\ SwitchRespected /\ ExtractedOnce /\ ConsideredInOrder

\* What no step of anybody does: write without consent, or make messages that
\* were claimed pending again.
ConsentKept == [][WrittenUnderConsent /\ WatermarkAdvances]_vars

\* The lock order of a withdrawal and of the extractions never leaves the
\* user's withdrawal waiting for good.
WithdrawalEnds == (withdrawal.stage = "deleted") ~> (withdrawal.stage = "idle")

\* set_consent: there is no state in which consent is withdrawn and data remains.
\* The code does not keep this (see the README).
OffMeansForgotten == ~user.enabled => Rows = {}
=============================================================================
