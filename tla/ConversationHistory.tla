-------------------------- MODULE ConversationHistory --------------------------
(***************************************************************************)
(* One conversation: the turns that read and write its events, the rolling *)
(* summary that replaces the older ones, its archiving, and a client that  *)
(* pages through its messages.  An event is its created_at, stamped when   *)
(* it is inserted and visible to others once its turn commits.             *)
(***************************************************************************)
EXTENDS PromptBudget, SequencesExt

CONSTANTS
    TurnCount,    \* bound: turns, numbered in the order they start
    MaxOpen,      \* bound: turns in progress at once
    KeepLimit,    \* UNSUMMARIZED_EVENT_LIMIT
    FetchLimit,   \* SUMMARIZATION_FETCH_LIMIT
    PageSize,
    SummaryTokens, SystemTokens, MemoryTokens,
    Windows,      \* tokens the model's window leaves besides the output
    Contexts      \* retrieved items a prompt may come with

ASSUME HistoryAssumption ==
    /\ {TurnCount, KeepLimit, FetchLimit, PageSize, MaxOpen} \subseteq Nat \ {0}
    /\ KeepLimit < FetchLimit
    /\ {SummaryTokens, SystemTokens, MemoryTokens} \cup Windows \subseteq Nat
    /\ \A c \in Contexts : c \in Seq([score : Int, tokens : Nat])

Turns == 1 .. TurnCount

VARIABLES
    clock,         \* events stamped so far
    committed,     \* events other transactions see
    conversation,  \* the conversation's row as committed
    rowLock,       \* the turn whose transaction has updated the row, or 0
    turn,          \* turn[t]: the request and the conversation as its session has it
    reader,        \* the paging client
    hist           \* history: what really happened

historyVars == <<clock, committed, conversation, rowLock, turn, reader, hist>>

NoTurn ==
    [pc |-> "idle", summary |-> <<>>, anchor |-> 0, user |-> 0, fold |-> {}, recent |-> {}]
NewReader == [pc |-> "idle", offset |-> 0, seen |-> {}, atStart |-> {}]

HistoryInit ==
    /\ clock = 0
    /\ committed = {}
    /\ conversation = [summary |-> <<>>, anchor |-> 0, archived |-> FALSE]
    /\ rowLock = 0
    /\ turn = [t \in Turns |-> NoTurn]
    /\ reader = NewReader
    /\ hist = [late |-> {}, unfetched |-> {}, foldFailed |-> {}, overlapped |-> FALSE]

Latest(S, n) == {e \in S : Cardinality({f \in S : f > e}) < n}
Newest(S) == CHOOSE e \in S : \A f \in S : f <= e
Chronological(S) ==
    CHOOSE s \in SetToSeqs(S) : \A i, j \in 1 .. Cardinality(S) : i < j => s[i] < s[j]

Active == {t \in Turns : turn[t].pc \notin {"idle", "done", "failed"}}

(***************************************************************************)
(* A turn.                                                                 *)
(***************************************************************************)
\* get_or_raise: the conversation's attributes are those of this moment until
\* the turn itself writes and refreshes them.
OpenTurn(t) ==
    /\ turn[t].pc = "idle" /\ \A s \in Turns : s < t => turn[s].pc # "idle"
    /\ Cardinality(Active) < MaxOpen
    /\ turn' = [turn EXCEPT ![t] =
           IF conversation.archived THEN [NoTurn EXCEPT !.pc = "failed"]
           ELSE [NoTurn EXCEPT !.pc = "opened", !.summary = conversation.summary,
                                !.anchor = conversation.anchor]]
    /\ hist' = [hist EXCEPT !.overlapped = @ \/ Active # {}]
    /\ UNCHANGED <<clock, committed, conversation, rowLock, reader>>

SaveMessage(t) ==
    /\ turn[t].pc = "opened"
    /\ clock' = clock + 1
    /\ turn' = [turn EXCEPT ![t].pc = "saved", ![t].user = clock + 1]
    /\ UNCHANGED <<committed, conversation, rowLock, reader, hist>>

Visible(t) == committed \cup {turn[t].user}

\* _unsummarized_tail of the events fetched.
UnsummarizedTail(t) == {e \in Latest(Visible(t), FetchLimit) : e > turn[t].anchor}

FetchTail(t) ==
    /\ turn[t].pc = "saved"
    /\ LET tail == UnsummarizedTail(t)
           beyond == {e \in Visible(t) : e > turn[t].anchor} \ tail
       IN IF Cardinality(tail) <= KeepLimit
          THEN turn' = [turn EXCEPT ![t].pc = "summarized"] /\ UNCHANGED hist
          ELSE /\ turn' = [turn EXCEPT ![t].pc = "folding",
                                       ![t].fold = tail \ Latest(tail, KeepLimit)]
               /\ hist' = [hist EXCEPT !.unfetched = @ \cup beyond]
    /\ UNCHANGED <<clock, committed, conversation, rowLock, reader>>

\* The model's summary of the previous one and the folded events.  Updating the
\* row waits for any transaction that has updated it, and keeps the others out
\* until this turn ends.
AnchorOf(fold) == Newest(fold)

PreviousFromRow(t) == conversation.summary                          \* mutant
PreviousSummary(t) == turn[t].summary

StoreSummary(t) ==
    /\ turn[t].pc = "folding" /\ rowLock = 0
    /\ rowLock' = t
    /\ turn' = [turn EXCEPT ![t].pc = "summarized",
                            ![t].summary = PreviousSummary(t) \o Chronological(turn[t].fold),
                            ![t].anchor = AnchorOf(turn[t].fold)]
    /\ UNCHANGED <<clock, committed, conversation, reader, hist>>

\* The call fails, is cut off or over quota: the turn goes on without.
SummarizationFails(t) ==
    /\ turn[t].pc = "folding"
    /\ turn' = [turn EXCEPT ![t].pc = "summarized"]
    /\ hist' = [hist EXCEPT !.foldFailed = @ \cup {t}]
    /\ UNCHANGED <<clock, committed, conversation, rowLock, reader>>

\* _build_chat_request: the summary and the latest events but the user's own.
BuildHistory(t) ==
    /\ turn[t].pc = "summarized"
    /\ turn' = [turn EXCEPT ![t].pc = "running",
                            ![t].recent = Latest(Visible(t), KeepLimit) \ {turn[t].user}]
    /\ UNCHANGED <<clock, committed, conversation, rowLock, reader, hist>>

\* An agent's prompt for a turn that runs.  Messages are one token each.
HistoryTokens(t) ==
    (IF turn[t].summary = <<>> THEN <<>> ELSE <<SummaryTokens>>)
        \o [i \in 1 .. Cardinality(turn[t].recent) |-> 1]

Prompt(t, window, memory, context) ==
    Messages(SystemTokens, memory, HistoryTokens(t), context, window)

\* Both events, and the summary if there is one, commit together.
RowAfter(t) ==
    IF rowLock = t
    THEN [conversation EXCEPT !.summary = turn[t].summary, !.anchor = turn[t].anchor]
    ELSE conversation

ReleaseRow(t) == rowLock' = IF rowLock = t THEN 0 ELSE rowLock

Answer(t) ==
    /\ turn[t].pc = "running"
    /\ clock' = clock + 1
    /\ committed' = committed \cup {turn[t].user, clock + 1}
    /\ conversation' = RowAfter(t)
    /\ ReleaseRow(t)
    /\ turn' = [turn EXCEPT ![t] = [NoTurn EXCEPT !.pc = "done"]]
    /\ hist' = [hist EXCEPT !.late =
           IF \E e \in committed : e > turn[t].user THEN @ \cup {turn[t].user} ELSE @]
    /\ UNCHANGED reader

KeepLock(t) == UNCHANGED rowLock                                    \* mutant
Unlock(t) == ReleaseRow(t)

\* Anything that raises rolls the whole turn back.
Fail(t) ==
    /\ t \in Active
    /\ Unlock(t)
    /\ turn' = [turn EXCEPT ![t] = [NoTurn EXCEPT !.pc = "failed"]]
    /\ UNCHANGED <<clock, committed, conversation, reader, hist>>

(***************************************************************************)
(* Archiving and paging.                                                   *)
(***************************************************************************)
Archive ==
    /\ ~conversation.archived /\ rowLock = 0
    /\ conversation' = [conversation EXCEPT !.archived = TRUE]
    /\ UNCHANGED <<clock, committed, rowLock, turn, reader, hist>>

\* list_page: a page by created_at, then a count of what is there by then.
PageFrom(offset) ==
    {e \in committed : LET before == Cardinality({f \in committed : f < e})
                       IN before >= offset /\ before < offset + PageSize}

ReadPage ==
    /\ reader.pc \in {"idle", "more"} /\ ~conversation.archived
    /\ reader' = [reader EXCEPT
           !.pc = "counting", !.seen = @ \cup PageFrom(reader.offset),
           !.atStart = IF reader.pc = "idle" THEN committed ELSE @]
    /\ UNCHANGED <<clock, committed, conversation, rowLock, turn, hist>>

HasMore == reader.offset + PageSize < Cardinality(committed)

CountMessages ==
    /\ reader.pc = "counting"
    /\ reader' = IF HasMore THEN [reader EXCEPT !.pc = "more", !.offset = @ + PageSize]
                 ELSE [reader EXCEPT !.pc = "end"]
    /\ UNCHANGED <<clock, committed, conversation, rowLock, turn, hist>>

Progress(t) ==
    \/ SaveMessage(t)
    \/ FetchTail(t)
    \/ StoreSummary(t)
    \/ BuildHistory(t)
    \/ Answer(t)

HistoryNext ==
    \/ \E t \in Turns : OpenTurn(t) \/ Progress(t) \/ SummarizationFails(t) \/ Fail(t)
    \/ Archive
    \/ ReadPage
    \/ CountMessages

\* A request that was started is worked on; that it fails is never counted on.
HistoryFairness == \A t \in Turns : WF_historyVars(Progress(t))

HistorySpec == HistoryInit /\ [][HistoryNext]_historyVars /\ HistoryFairness

(***************************************************************************)
(* Properties.                                                             *)
(***************************************************************************)
Stages == {"idle", "opened", "saved", "folding", "summarized", "running", "done", "failed"}
Events == 1 .. 2 * TurnCount

\* Every variable has its type.
HistoryTypeOK ==
    /\ clock \in 0 .. 2 * TurnCount
    /\ committed \subseteq Events
    /\ conversation.anchor \in {0} \cup Events /\ conversation.archived \in BOOLEAN
    /\ Range(conversation.summary) \subseteq Events
    /\ rowLock \in {0} \cup Active
    /\ \A t \in Turns : /\ turn[t].pc \in Stages
                        /\ turn[t].user \in {0} \cup Events
                        /\ turn[t].recent \subseteq Events
    /\ reader.pc \in {"idle", "counting", "more", "end"}
    /\ reader.seen \subseteq Events

Increasing(s) == \A i \in 1 .. Len(s) - 1 : s[i] < s[i + 1]

\* An event is folded once and in order, and nothing a prompt quotes is also in
\* the summary before it, however turns overlap and whichever of two summaries
\* is stored last (rolling_summary and its anchor are read and written as one).
NeverTwiceInPrompt ==
    /\ Increasing(conversation.summary)
    /\ \A t \in Turns :
           /\ Increasing(turn[t].summary)
           /\ turn[t].recent \cap Range(turn[t].summary) = {}

\* Once a turn has its history, every event committed before it started is in the
\* summary or quoted, if no turn ever overlapped another, this turn's folding did
\* not fail and the tail never outgrew what is fetched (ensure_summarized).
PromptComplete ==
    \A t \in Turns :
        turn[t].pc = "running" /\ ~hist.overlapped /\ t \notin hist.foldFailed
            /\ hist.unfetched = {} =>
                committed \subseteq Range(turn[t].summary) \cup turn[t].recent

\* An event at or before the stored anchor is missing from the stored summary
\* only if it was committed after a later one, or was beyond what a folding turn
\* fetched: losing one of two summaries loses its anchor with it.
SkippedOnlyWhenLate ==
    {e \in committed : e <= conversation.anchor} \subseteq
        Range(conversation.summary) \cup hist.late \cup hist.unfetched

\* A client that pages to the end has seen every message there was when it
\* started, unless one was committed after a later one (list_page orders by
\* created_at; the count is a second statement).
PagesComplete ==
    reader.pc = "end" /\ hist.late = {} => reader.atStart \subseteq reader.seen

\* The summary, the events quoted beside it and the pages a client reads lose and
\* repeat nothing, up to what overlapping turns and failed foldings explain.
HistoryRight ==
    HistoryTypeOK /\ NeverTwiceInPrompt /\ PromptComplete /\ SkippedOnlyWhenLate /\ PagesComplete

\* A prompt is trimmed as fit_to_budget and build_messages say, the memory block
\* included, for every history a conversation can have.
PromptTrimmed ==
    \A t \in {t \in Turns : turn[t].pc = "running"}, window \in Windows,
       memory \in {0, MemoryTokens}, context \in Contexts :
           TrimmedRight(Prompt(t, window, memory, context), SystemTokens, HistoryTokens(t),
                        context, window)

\* Every turn that was started ends: the row it may have to wait for is let go by
\* whoever holds it, a failing turn included.
TurnsEnd == \A t \in Turns : t \in Active ~> t \notin Active

\* Nothing a conversation holds is ever left out: chat.py:593 calls folding
\* "compression, not loss".
\* The code does not keep this (see the README).
NothingLeftOut ==
    \A t \in Turns : turn[t].pc = "running" =>
        committed \subseteq Range(turn[t].summary) \cup turn[t].recent
================================================================================
