------------------------------ MODULE ChatTurn ------------------------------
(***************************************************************************)
(* One user's chat requests and the tokens they spend: the limits checked  *)
(* before a turn starts, the request's token budget drawn on by its LLM    *)
(* calls, the single commit that saves a finished turn, and the usage      *)
(* written down however the turn ends.                                     *)
(*                                                                         *)
(* A turn makes its calls in two usage scopes, one after the other: the    *)
(* conversation's summarization (at most one call) and the orchestrator's  *)
(* (calls of parallel plan steps).  A scope's meter reaches the budget and *)
(* the tally only when the scope closes.                                   *)
(***************************************************************************)
EXTENDS Naturals, FiniteSets, SequencesExt

CONSTANTS
    Turns,              \* the user's requests
    Streams,            \* those sent to /chat/stream
    RequestsPerMinute,  \* RATE_LIMIT_REQUESTS_PER_MINUTE
    DailyQuota,         \* TOKEN_QUOTA_DAILY
    ReportAt,           \* 80% of it: the total that is reported
    RequestQuota,       \* TOKEN_QUOTA_PER_REQUEST
    PromptSizes,        \* tokens a call's prompt is estimated to have before the call
    BilledSizes,        \* tokens the provider may report for a call, 0 if it does not
    Parallel,           \* LLM calls of one turn that may run side by side
    MaxCalls,           \* bound: calls made by one turn
    MaxDays,            \* bound: days
    Faults              \* what may go wrong, see FaultKinds

FaultKinds == {"call", "orchestrator", "save", "record", "crash", "disconnect"}

ASSUME TurnsAssumption == IsFiniteSet(Turns) /\ Streams \subseteq Turns
ASSUME QuotaAssumption == /\ {RequestsPerMinute, DailyQuota, RequestQuota} \subseteq Nat
                          /\ ReportAt \in 1..DailyQuota
ASSUME CallAssumption == /\ PromptSizes \subseteq Nat
                         /\ BilledSizes \subseteq Nat /\ BilledSizes # {}
                         /\ IsFiniteSet(BilledSizes)
                         /\ Parallel \in Nat \ {0}
ASSUME BoundAssumption == MaxCalls \in Nat /\ MaxDays \in Nat \ {0}
ASSUME FaultsAssumption == Faults \subseteq FaultKinds

VARIABLES
    turn,       \* each request: stage, budget, meter, calls under way, tally
    today,
    minute,     \* requests counted in the current minute's bucket
    dayTokens,  \* usage_records: tokens of each day's bucket
    records,    \* usage_request_records: tokens by request, 0 for no row
    events,     \* conversation events and compliance rows of each turn
    extracted,  \* turns handed to the memory extractor
    client,     \* the events a streaming client was sent that end the stream
    reports,    \* how often each day was reported to near its quota
    spent,      \* history: tokens of the calls answered to each turn
    uncounted   \* history: turns whose usage a fault kept from being written

vars == <<turn, today, minute, dayTokens, records, events, extracted, client,
          reports, spent, uncounted>>
usage == <<dayTokens, records, reports>>
conversation == <<events, extracted>>
history == <<spent, uncounted>>
clock == <<today, minute>>

Days == 1..MaxDays

NewTurn == [stage |-> "new", day |-> 1, used |-> 0, refused |-> FALSE, meter |-> 0,
            scopeRefused |-> FALSE, calls |-> 0, made |-> 0,
            tally |-> 0]

Init ==
    /\ turn = [t \in Turns |-> NewTurn]
    /\ today = 1
    /\ minute = 0
    /\ dayTokens = [d \in Days |-> 0]
    /\ records = [t \in Turns |-> 0]
    /\ events = [t \in Turns |-> {}]
    /\ extracted = {}
    /\ client = [t \in Turns |-> <<>>]
    /\ reports = [d \in Days |-> 0]
    /\ spent = [t \in Turns |-> 0]
    /\ uncounted = {}

Scopes == {"summarizing", "orchestrating"}
InScope(t) == turn[t].stage \in Scopes
NoCalls(t) == turn[t].calls = 0

\* What a turn is left with when its open scope closes, calls under way
\* cancelled with it.
ClosedIfAnswered(t, stage) ==    \* mutant: an abandoned scope is not tallied
    [turn[t] EXCEPT !.stage = stage, !.used = @ + turn[t].meter,
                    !.tally = IF stage = "left" THEN @ ELSE @ + turn[t].meter,
                    !.meter = 0, !.calls = 0]
Closed(t, stage) ==
    [turn[t] EXCEPT !.stage = stage, !.used = @ + turn[t].meter,
                    !.tally = @ + turn[t].meter, !.meter = 0,
                    !.calls = 0]

\* The request is over: its task's state is gone, except for the record of
\* whether a call of its last scope was refused.
Over(t) == [NewTurn EXCEPT !.stage = "ended", !.scopeRefused = turn[t].scopeRefused]

Tell(t, event) ==
    client' = IF t \in Streams THEN [client EXCEPT ![t] = Append(@, event)] ELSE client

\* An application error is the stream's last event; any other error breaks
\* the connection.
TellError(t) == Tell(t, "error") \/ UNCHANGED client

-----------------------------------------------------------------------------
(* Before the turn: rate limit and daily quota *)

\* The count is committed whatever becomes of the request, and the day the
\* quota is checked for is read here.
CountRequest(t) ==
    /\ turn[t].stage = "new"
    /\ minute' = minute + 1
    /\ turn' = [turn EXCEPT ![t] = IF minute' > RequestsPerMinute THEN Over(t)
                                   ELSE [@ EXCEPT !.stage = "counted", !.day = today]]
    /\ UNCHANGED <<today, usage, conversation, client, history>>

OverDailyQuota(t) == dayTokens[turn[t].day] >= DailyQuota

CheckDailyQuota(t) ==
    /\ turn[t].stage = "counted"
    /\ turn' = [turn EXCEPT ![t] = IF OverDailyQuota(t) THEN Over(t)
                                   ELSE [@ EXCEPT !.stage = "summarizing"]]
    /\ UNCHANGED <<clock, usage, conversation, client, history>>

-----------------------------------------------------------------------------
(* LLM calls *)

\* The prompt is estimated, from its text, with a tokenizer that need not be the
\* provider's.
RefusesThisCall(t, p) ==   \* mutant: a refusal is forgotten
    turn[t].used + turn[t].meter + p > RequestQuota
Refuses(t, p) ==
    \/ turn[t].scopeRefused
    \/ turn[t].refused
    \/ turn[t].used + turn[t].meter + p > RequestQuota

MayCall(t) ==
    /\ InScope(t)
    /\ turn[t].calls < Parallel
    /\ turn[t].made < MaxCalls
    /\ turn[t].stage = "summarizing" => turn[t].made = 0

BeginCall(t) ==
    \E p \in PromptSizes :
        /\ MayCall(t)
        /\ ~Refuses(t, p)
        /\ turn' = [turn EXCEPT ![t].calls = @ + 1, ![t].made = @ + 1]
        /\ UNCHANGED <<clock, usage, conversation, client, history>>

\* The refused caller may treat it as a failed step and go on.
RefuseCall(t) ==
    \E p \in PromptSizes :
        /\ MayCall(t)
        /\ Refuses(t, p)
        /\ turn' = [turn EXCEPT ![t].scopeRefused = TRUE, ![t].refused = TRUE,
                                ![t].made = @ + 1]
        /\ UNCHANGED <<clock, usage, conversation, client, history>>

\* The meter adds what the provider reports, whatever the estimate was.
CallAnswered(t) ==
    \E b \in BilledSizes :
        /\ turn[t].calls > 0
        /\ turn' = [turn EXCEPT ![t].calls = @ - 1, ![t].meter = @ + b]
        /\ spent' = [spent EXCEPT ![t] = @ + b]
        /\ UNCHANGED <<clock, usage, conversation, client, uncounted>>

\* A provider error or a time limit: the call's tokens are never known.
CallFails(t) ==
    /\ "call" \in Faults
    /\ turn[t].calls > 0
    /\ turn' = [turn EXCEPT ![t].calls = @ - 1]
    /\ UNCHANGED <<clock, usage, conversation, client, history>>

-----------------------------------------------------------------------------
(* The turn *)

\* Nothing to summarize, a summary, or a failure that is logged: the scope
\* closes and the next one starts with nothing refused in it.
EndSummary(t) ==
    /\ turn[t].stage = "summarizing"
    /\ NoCalls(t)
    /\ turn' = [turn EXCEPT ![t] = [Closed(t, "orchestrating")
                                        EXCEPT !.scopeRefused = FALSE]]
    /\ UNCHANGED <<clock, usage, conversation, client, history>>

Answerable(t) == ~turn[t].scopeRefused

\* The orchestrator has a response: a refusal in its scope ends the turn all
\* the same, otherwise a stream sends its last chunk and the scope closes.
Respond(t) ==
    /\ turn[t].stage = "orchestrating"
    /\ NoCalls(t)
    /\ IF Answerable(t)
       THEN turn' = [turn EXCEPT ![t] = Closed(t, "saving")] /\ Tell(t, "complete")
       ELSE turn' = [turn EXCEPT ![t] = Closed(t, "failed")] /\ Tell(t, "error")
    /\ UNCHANGED <<clock, usage, conversation, history>>

OrchestratorFails(t) ==
    /\ "orchestrator" \in Faults
    /\ turn[t].stage = "orchestrating"
    /\ turn' = [turn EXCEPT ![t] = Closed(t, "failed")]
    /\ TellError(t)
    /\ UNCHANGED <<clock, usage, conversation, history>>

\* Both messages with their compliance rows, in one commit; then the
\* conversation goes to the extractor.
Save(t) ==
    /\ turn[t].stage = "saving"
    /\ turn' = [turn EXCEPT ![t].stage = "saved"]
    /\ events' = [events EXCEPT ![t] = {"user", "assistant"}]
    /\ extracted' = extracted \cup {t}
    /\ UNCHANGED <<clock, usage, client, history>>

ScheduledThenFails(t) ==    \* mutant: extraction is scheduled before the commit
    /\ "save" \in Faults
    /\ turn[t].stage = "saving"
    /\ turn' = [turn EXCEPT ![t].stage = "failed"]
    /\ extracted' = extracted \cup {t}
    /\ TellError(t)
    /\ UNCHANGED <<clock, usage, events, history>>
SaveFails(t) ==
    /\ "save" \in Faults
    /\ turn[t].stage = "saving"
    /\ turn' = [turn EXCEPT ![t].stage = "failed"]
    /\ TellError(t)
    /\ UNCHANGED <<clock, usage, conversation, history>>

\* A streaming client goes away: the orchestrator's stream is closed, with
\* its scope, and the transaction rolled back.
ClientLeaves(t) ==
    /\ "disconnect" \in Faults
    /\ t \in Streams
    /\ turn[t].stage \in Scopes \cup {"saving"}
    /\ turn' = [turn EXCEPT ![t] = Closed(t, "left")]
    /\ UNCHANGED <<clock, usage, conversation, client, history>>

-----------------------------------------------------------------------------
(* Usage *)

MustRecordIfHere(t) == turn[t].stage \in {"failed", "saved"}    \* mutant
MustRecord(t) == turn[t].stage \in {"failed", "saved", "left"}

\* Both totals come from the statement that adds this request's tokens.
Crosses(before, total) == before < ReportAt /\ ReportAt <= total

Record(t) ==
    LET tokens == turn[t].tally
        total  == dayTokens[today] + tokens
    IN  /\ MustRecord(t)
        /\ turn' = [turn EXCEPT ![t] = Over(t)]
        /\ IF tokens = 0 \/ records[t] # 0
           THEN UNCHANGED usage
           ELSE /\ records' = [records EXCEPT ![t] = tokens]
                /\ dayTokens' = [dayTokens EXCEPT ![today] = total]
                /\ reports' = [reports EXCEPT ![today] =
                                   IF Crosses(dayTokens[today], total)
                                   THEN @ + 1 ELSE @]
        /\ UNCHANGED <<clock, conversation, client, history>>

RecordFails(t) ==
    /\ "record" \in Faults
    /\ MustRecord(t)
    /\ turn' = [turn EXCEPT ![t] = Over(t)]
    /\ uncounted' = uncounted \cup {t}
    /\ UNCHANGED <<clock, usage, conversation, client, spent>>

\* The process dies: every request under way is gone, with its transaction.
Crash ==
    LET running == {t \in Turns : turn[t].stage \notin {"new", "ended"}}
    IN  /\ "crash" \in Faults
        /\ running # {}
        /\ turn' = [t \in Turns |-> IF t \in running
                                    THEN Over(t) ELSE turn[t]]
        /\ uncounted' = uncounted \cup running
        /\ UNCHANGED <<clock, usage, conversation, client, spent>>

NextMinute == /\ minute > 0
              /\ minute' = 0
              /\ UNCHANGED <<turn, today, usage, conversation, client, history>>

NextDay == /\ today < MaxDays
           /\ today' = today + 1
           /\ minute' = 0
           /\ UNCHANGED <<turn, usage, conversation, client, history>>

-----------------------------------------------------------------------------
Admission(t) == CountRequest(t) \/ CheckDailyQuota(t)
Call(t) == BeginCall(t) \/ RefuseCall(t) \/ CallAnswered(t) \/ CallFails(t)
Ending(t) == \/ EndSummary(t) \/ Respond(t) \/ OrchestratorFails(t)
             \/ Save(t) \/ SaveFails(t)
             \/ Record(t) \/ RecordFails(t)

Next == \/ \E t \in Turns : Admission(t) \/ Call(t) \/ Ending(t) \/ ClientLeaves(t)
        \/ Crash \/ NextMinute \/ NextDay

\* An admitted request's task keeps running: its calls come back and it is
\* taken to its end.  Sending a request, leaving and crashing are not fair.
Fairness == \A t \in Turns : /\ WF_vars(CheckDailyQuota(t))
                             /\ WF_vars(CallAnswered(t) \/ CallFails(t))
                             /\ WF_vars(Ending(t))

Spec == Init /\ [][Next]_vars /\ Fairness

-----------------------------------------------------------------------------
Stages == {"new", "counted"} \cup Scopes \cup {"saving", "saved", "failed", "left", "ended"}

\* Type invariant of ChatService's and UsageService's state: meters, tallies
\* and buckets are token counts, and no more calls are under way than may be.
TypeOK ==
    /\ turn \in [Turns -> [stage : Stages, day : Days, used : Nat, refused : BOOLEAN,
                           meter : Nat, scopeRefused : BOOLEAN,
                           calls : 0..Parallel, made : 0..MaxCalls, tally : Nat]]
    /\ today \in Days
    /\ minute \in Nat
    /\ dayTokens \in [Days -> Nat]
    /\ records \in [Turns -> Nat]
    /\ events \in [Turns -> SUBSET {"user", "assistant"}]
    /\ extracted \subseteq Turns
    /\ client \in [Turns -> Seq({"complete", "error"})]
    /\ reports \in [Days -> Nat]
    /\ spent \in [Turns -> Nat]
    /\ uncounted \subseteq Turns

\* Every token a request's calls used is in the daily buckets exactly once
\* when the request is over, whether it was answered, failed, was refused or
\* was abandoned (ChatService._record_usage); only a failed write or a crash
\* may lose it.
TokensCountedOnce ==
    /\ \A t \in Turns : turn[t].stage = "ended" /\ t \notin uncounted => records[t] = spent[t]
    /\ MapThenSumSet(LAMBDA d : dayTokens[d], Days) = MapThenSumSet(LAMBDA t : records[t], Turns)

\* However many requests of the user end at the same time, a day is reported
\* once when its total reaches 80% of the quota, and never below it
\* (UsageService._record_request_tokens takes both totals from one write).
ReportedOnce ==
    \A d \in Days : reports[d] = IF dayTokens[d] >= ReportAt THEN 1 ELSE 0

\* A request passes its token quota by no more than what the provider bills for
\* the calls that were running side by side when the last of them was let through
\* (UsageMeter.check), summarization included and however wrong the estimates were.
BudgetOvershoot ==
    \A t \in Turns : spent[t] <= RequestQuota + Parallel * Max(BilledSizes)

\* Once the quota has refused one of a request's calls, no call of the request
\* is made any more, in this scope or the next (RequestTokenBudget.refused).
RefusedForGood ==
    [][\A t \in Turns : turn[t].refused => turn'[t].calls <= turn[t].calls]_vars

\* A turn one of whose own calls was refused is never answered: a step that
\* swallowed the refusal cannot turn it into an answer that is saved, sent as
\* the stream's last chunk or handed to the extractor (_raise_if_refused).
RefusedTurnHasNoAnswer ==
    \A t \in Turns : turn[t].scopeRefused /\ turn[t].stage # "summarizing" =>
        /\ events[t] = {}
        /\ t \notin extracted
        /\ \A i \in DOMAIN client[t] : client[t][i] # "complete"

\* A turn's two messages are saved together or not at all, only a saved turn
\* reaches the extractor, and a turn whose end told the client nothing but an
\* error has left nothing behind (ChatService._persist_assistant_response).
AllOrNothing ==
    \A t \in Turns :
        /\ events[t] \in {{}, {"user", "assistant"}}
        /\ t \in extracted => events[t] # {}
        /\ client[t] = <<"error">> => events[t] = {}

\* What the turns used is what is counted against them, within the overshoot of
\* calls made side by side, and a day over the threshold is reported once.
UsageRight == TypeOK /\ TokensCountedOnce /\ ReportedOnce /\ BudgetOvershoot

\* A turn is kept whole or not at all, a refused one not at all.
TurnWhole == RefusedTurnHasNoAnswer /\ AllOrNothing

\* A request that used tokens has them recorded in the end, whatever ends it
\* first (the shielded write in ChatService._record_usage).
EventuallyCounted ==
    \A t \in Turns : spent[t] > 0 ~> (records[t] > 0 \/ t \in uncounted)

\* A stream is ended by one event, "complete" or "error" (docs/server/
\* architecture/api.md: a single error event instead of complete).
\* The code does not keep this (see the README).
OneEnding == \A t \in Turns : Len(client[t]) <= 1
=============================================================================
