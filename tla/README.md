# A verification project for juris-ai

juris-ai is a legal assistant: a FastAPI server that takes a chat message,
plans and runs agents over retrieved legal sources with an LLM, pauses for a
human's approval before anything is sent, remembers facts about its users and
meters what every turn costs.  Most of its risk is not in a formula but in what
happens between two awaits: requests of several worker processes, one database
transaction per request at READ COMMITTED, a LangGraph checkpoint that commits
separately from the database, external services that may deliver and then fail.
That is what the modules here model.

All paths below are relative to `src/server/src/` unless they start with `docs/`.

Contents: 1 components, 2 modules, 3 correspondence with the code, 4 runs,
5 fairness, 6 proofs, 7 disagreements found, 8 what is not modelled, 9 what could be added,
10 how to run.

## 1. Components

| Component | State | Operations | What is hard | What makes it right |
|---|---|---|---|---|
| **Human approval** (`application/services/approval_lifecycle.py`, `hitl_resume.py`, two repositories, the token verifier) | `approvals` row (status, decision, payload, `expires_at`), `agent_actions` row (status, tool result, `updated_at`), compliance log | decide, expire, claim, run the approved call, store its result, answer, record a failure, retry | two reviewers and any number of retries race; a send that may have happened; a crash between any two commits; a holder slower than the stale threshold | only what was approved is sent, and each delivery beyond the first is one the owner confirmed or one whose predecessor's outcome was lost; a decision is final and logged; a decided turn can always be finished |
| **Paused turns** (`agentic/execution/session.py`, `executor.py`, `application/services/action_workflow.py`) | LangGraph checkpoint (pending interrupt, resume values) beside the rows | run, pause, prepare an action and its approval, resume, answer | the two stores commit separately; a resumed node replays from the top, asks the model again, and matches values to interrupts by position | each pause takes the outcome of its own row, in order; a shown approval is the one the graph waits for |
| **User memory** (`user_memory.py`, `user_memory_extraction.py`) | memory rows, consent flag and `consented_at`, per-conversation watermark and switch | extract in the background, grant and withdraw consent, switch a conversation off and on, delete a memory | extraction reads, calls a model for seconds, then writes; several processes; deadlocks with a withdrawal; a release of the switch reads the clock before it waits for the row | nothing written without consent, each message considered once, a withdrawal forgets |
| **Chat turn** (`chat.py`, `usage.py`, `core/usage.py`, `adapters/clients/llm/base.py`) | conversation events, usage records, rate-limit counter, the request's usage meter | rate limit, daily quota, metered LLM calls, save, stream, record usage | parallel calls on one budget that is checked against estimates, refusals swallowed by best-effort code, disconnects during a `finally`, crashes | used tokens counted once, overshoot bounded, a refused or failed turn leaves nothing |
| **Agent turn** (`agentic/agents/runtime/`) | iteration, tool, hop, decision, rejection and repeat counters, history, partial response | reason, correct, retry, call a tool, delegate, pause, retrieve, judge, reject, end | many ways of asking the model again, each with its own limit, and a clock that can cross the deadline between any two of them | limits hold, an unverified answer is never shown, the turn ends |
| **Conversations and history** (`conversation.py`, `conversation_summarization.py`) | events, rolling summary and its anchor, the archived mark | create, list, page, archive, fold old events into the summary | overlapping turns of one conversation; stamps and commits in different orders | a prompt has nothing twice and skips nothing but what was committed late; a page repeats nothing |
| **Planning** (`agentic/planning/`) | what is left of the request's deadline | templates, LLM plan with one failover, validation | a model-written plan; a clock shared by two models | only acyclic plans of known agents run; the error says what happened |
| **Execution graph** (`agentic/execution/graph/`, `state/assembler.py`) | status and artifact of every step, supersteps, interrupts | run steps by dependency, in parallel; pause and resume; assemble the final status | skip propagation in every finishing order; two steps pausing together | a step runs only after what it depends on completed; none is forgotten |
| **Orchestrator, aggregation, guardrails** (`agentic/orchestration/`, `agentic/guardrails/`) | one request's runs, its prepared approval, the answer and its redactions | handle, stream, resume, review, regenerate, fall back | a blocked answer is regenerated while an approval may be open; overlapping detections | what is shown is this run's, redacted exactly where due; an approval reaches the user |
| **Tools and tool runtime** (`agentic/tools/`) | none | validate, authorize, call, convert a result | a result that says failure after an effect | a gated tool runs only with a valid token |
| **Agents, prompts, token budget** (`agentic/agents/`) | none | build and trim a prompt | arithmetic of several shares | the prompt fits, and what is given up goes in the right order |
| **Answer evaluation** (`agentic/evaluation/answer.py`, `core/judge_availability.py`) | a judge's failure count | score, degrade | a judge that is down | an unavailable judge is not a pass |
| **LLM clients** (`adapters/clients/llm/`) | none across calls | call, stream, fail over, deadline | failing after the first chunk | one answer, from one provider |
| **Retrieval** (`rag/hybrid_retriever.py`, stores, reranker, caches) | embedding cache, failed components | embed, search two stores, fuse, rerank | one or several parts down, an index being written meanwhile, an approximate index that may miss rows | one failed part is survived and named in the mode; what both stores found comes first |
| **Indexing** (`rag/ingestion/`, `rag_index_persistence.py`) | sources, chunks, vectors; a run's open transaction | clean, validate, chunk, embed, persist in batches | batch commits, overlapping runs, edited files, kills | no text is lost on the way; a text and its vector belong together; a processed file is whole |
| **RAG evaluation, sampling** (`rag/evaluation/`) | none the service depends on | grade a golden dataset, judge, sample, gate | missing judges, degraded searches, empty inputs | an exit of 0 means that something was graded, in the mode asked for |
| **Users, authentication, roles** (`auth.py`, `user.py`, RBAC services) | users, roles, tokens | register, sign in, authorize twice per turn, seed roles at start-up | address spelling, racing registrations, several workers seeding, an operator's edits | one account for an address; nobody acts beyond the role they have then |
| **MCP clients** | a connection per call | call a tool | an error raised after delivery; an answer flagged as an error, which comes back as text | a failure or a success on record never makes a call run again unasked |
| **Compliance log** (`compliance_log.py`, writers, purge script) | rows, the immutability trigger | append in the caller's transaction or standalone, purge | a second connection per request from a small pool; table locks of the purge | the rows of a turn are complete; only old rows go |
| **Request plumbing, observability, deployment** | | | | |

How they interact.  `ChatService` opens a usage scope, has the
`Orchestrator` plan, run the graph and aggregate, then commits the turn.  The
graph's nodes run agents; an agent that proposes a gated call interrupts the
graph, `AgentActionWorkflow` writes the action and its approval with the turn.
The approval endpoints record the decision and hand it to `HitlResumeService`,
which runs the call and resumes the graph's checkpoint.  After a turn is
committed `UserMemoryExtractionScheduler` starts an extraction as a background
task.  Components share no memory across processes: they meet in database rows,
in the checkpoint, and in the in-process meter and schedulers.

The line-by-line list of what could go wrong, and which property watches it, is
`hazards` in `PROJECT.json`; components and their status are `components`.

## 2. Modules

| Module | Models | Status |
|---|---|---|
| `HitlApproval` | requests deciding, resuming and retrying one gated call | checked, every safety property proved |
| `ApprovedCall` | abstract: what the approval of a call promises its owner | implemented by `HitlApproval` (`KeepsPromise`) |
| `MCHitlApproval` | refinement mapping, symmetry | |
| `HitlApprovalProofs` | what is approved, logged and final; one claim, one answer, every delivery accounted for; `HitlApproval` implements `ApprovedCall` | proved |
| `HitlThread` | a turn pausing several times, whose replays may propose other calls; checkpoint against rows | checked, its invariants proved |
| `MCHitlRecovery` | both recoveries in one run: a turn of several pauses, and one approval under concurrent requests | |
| `HitlThreadProofs` | each pause takes the outcome of its own row; rows and checkpoint agree; what a conversation's summary, prompts and pages hold | proved |
| `MemoryExtraction`, `MCMemoryExtraction` | extraction against consent, switch and deletions | checked, `ReadOnceAndAllowed` and `ConsentKept` proved |
| `MemoryProofs` | messages read once, in order and if allowed; consent kept; rows right; what is quoted right | proved |
| `SavedMemories`, `MCSavedMemories` | the memory rows: write phases, turns that quote and touch, deletions, expiry, row locks | checked, every safety property proved |
| `ChatTurn` | limits, usage metering, saving, recording | checked, every safety property proved |
| `ChatTurnProofs` | tokens counted once, bounded overshoot, refusals final, turns whole; and of what the turn's agents search: the index right, searches right, grades right | proved |
| `AgentTurn`, `MCAgentTurn` | one agent's turn with its two LLM providers, its limits, its judge and its gate | checked, every safety property proved |
| `AgentTurnProofs` | what a turn may cost; answers verified; nothing begun late | proved |
| `Planning` | templates and the plan validator (operators) | checked in `Orchestration` |
| `Guardrails` | the review of an answer: judge, overlapping detections, redaction (operators) | checked in `Orchestration` |
| `Orchestration`, `MCOrchestration` | one chat request: plan, graph of steps, aggregation, review, regeneration, stream, resume | checked, every safety property proved |
| `OrchestrationProofs` | approvals reach the user; what is sent is right; plans are carried out as accepted | proved |
| `PromptBudget` | `fit_to_budget` and `build_messages` (operators) | checked and proved with `ConversationHistory` |
| `ConversationHistory`, `MCConversationHistory` | overlapping turns, the rolling summary, archiving, a client that pages | checked, every safety property proved |
| `Chunking` | sanitizer, validator and chunker, letter by letter (operators) | checked in `Retrieval` |
| `Indexing` | ingestion runs: batches, transactions, locks, failures, kills | checked in `Retrieval`, `IndexRight` proved |
| `Retrieval`, `MCRetrieval` | hybrid search beside ingestion | checked, `SearchRight` proved |
| `Evaluation` | golden-dataset run, metrics, judge replies, sampler, offline gate (operators) | checked in `Retrieval`, `EvaluationRight` proved |
| `Accounts` | registration, sign-in, role checks, seeding | checked in `Requests` |
| `ComplianceLog` | audit rows, connection pool, retention purge | checked in `Requests` |
| `Requests`, `MCRequests` | a request's path through both | checked, every safety property proved |
| `RequestsProofs` | one account for each mailbox, roles as edited; steps within the role and the retention; the audit trail and the pool | proved |
| `FiniteRecursion` | recursions over well-founded orders, sums over finite sets, finite sets listed in order, for the proofs of the others | proved |

Composition by `EXTENDS`: `Orchestration` runs on `Planning` and `Guardrails`;
`ConversationHistory` on `PromptBudget`; `Evaluation` extends `Retrieval`, which
extends `Indexing`, which extends `Chunking` (a search and an ingestion run share
the index, step by step); `Requests` extends `Accounts` and `ComplianceLog`
(a request holds a connection while a purge holds the table).

The other modules are joined by assumption and guarantee, not by one product.
`HitlThread` has a single attempt at a time, which is `HitlApproval`'s `OneHolder`;
`HitlApproval` treats the graph's answer as one step, whose inside is `HitlThread`
(`MCHitlRecovery` runs both, side by side and sharing nothing); a decide request of
`Requests` ends at its decision's commit, and the resume that follows in the same
request is `HitlApproval`'s; a step of `Orchestration`'s graph is an `AgentTurn`, and
its pause is `HitlThread`'s; `ChatTurn` has the orchestrator's outcome as a choice, of
which `Orchestration` is the inside; the message that `MemoryExtraction` reads is the
one `ChatTurn`'s commit wrote; what `MemoryExtraction` writes in one step is
`SavedMemories`' transaction.  Each shares its interface's vocabulary (a claim, a
resume value, a committed turn) and nothing else, which is what lets each be checked
to exhaustion.

Operators commented "mutant" take no part in a specification.  Each is the
faulty variant of the definition next to it (a dropped guard, a missing reset,
a wrong bound), and `PROJECT.json` names which property it must violate: they
show that a property can fail.

## 3. How the modules correspond to the code

`PROJECT.json` maps every definition to its lines.  What follows is the idea.

### HitlApproval

A step is one transaction or one external call of one request.  A request is a
slot of `req`: `pc` is where it stands between two awaits, and the other fields
are the locals it carries over them.

| Model | Code |
|---|---|
| `approval`, `compliance` | the `approvals` row; `compliance_log` rows written in the same session |
| `action`, `stale` | the `agent_actions` row; whether `updated_at` is older than `HITL_RESUME_STALE_SECONDS` |
| `overdue` | `now >= expires_at` |
| `permitted` | what `AuthorizationService` says of the user's current role |
| `sent` | deliveries by the messaging server: the world's state, read by no action |
| `confirmed`, `lost` | history: takeovers the owner confirmed; outcomes of a call whose commit failed |
| `Decide`, `Expire` | `ApprovalLifecycleService._get_waiting_entity`, `_expire` |
| `SaveDecision` | `_decide` with `ApprovalRepository`'s conditional UPDATE |
| `Retry` | `HitlResumeService.retry` up to the claim; `seen` is the entity the session keeps in its identity map |
| `Claim` | `AgentActionRepository`'s conditional UPDATE to EXECUTING |
| `Load`, `VerifyToken`, `Send`, `StoreResult`, `Answer` | `_resume`, `_execute_approved`, the tool's own verifier session, the messaging tool, the two commits |
| `RecordFailure` | the exception path: rollback, re-read, FAILED |
| `Crash` | a cancelled request or a stopped worker |

An exception from the messaging server (fault `send`) becomes a failed `ToolResult`.
An answer the server flags as an error (fault `reject`) does not: `_call_mcp` returns
it as an ordinary string (`messaging/base.py:98-104`) and the tool runtime wraps it as
`ToolResult(success=True)` (`invocation.py:157-169`), so it is recorded, and told to
the conversation, as a success.  Either may follow a delivery, so both deliver or not.
That the record says what happened to the message is therefore no property of this
code, and none is claimed; what is claimed is which deliveries there can be.  The
fault `store` is the failing commit of a call's outcome: it leaves a FAILED row that
says nothing of the call.  A token is spent once a result is stored or the status is
final. The branch that resumes without a plan snapshot is unreachable from an approval
the code creates and is left out.

### ApprovedCall

No requests and no faults: a decision is taken once, the decided payload is delivered
at most once more than the owner confirmed resends and outcomes were lost, and one
answer ends it, after the last delivery.  `LoseOutcome` is what the promise has to
concede to the code (`hitl_resent`, section 7).  `KeepsPromise` maps the rows and the outside
world to these six variables (deliveries are counted by payload, so a payload nobody
approved has nowhere to go) and asks that every step of every interleaving, with any
two faults, is a step of the promise or a stutter.

### HitlThread

`thread` is the checkpoint, `row` the committed rows, and `attempt` the work in
progress.  `ExecuteGraph` and `ResumeGraph` commit the checkpoint alone;
`ChatCommit` and `ResumeCommit` commit the rows alone.  A resumed node runs again
from its top and reasons afresh: the language model and the evidence retrieval are
asked again, only ungated tool calls are kept.  So each run of the graph proposes its
own sequence of calls (`proposed`, any `Drafts`), may end before it has asked for
all the answers there are, and its i-th gated call takes the i-th answer unchecked.
What the owner decided on is `shown`, the call of the run that paused.  The
properties are therefore about rows and positions: the i-th answer is the decision
and outcome of the i-th row, and an open approval shows the call the paused run
proposed.  That an answer is about the call that takes it is `AnswerIsForProposal`,
which the code does not keep (section 7).  The commit that stores a call's outcome
is one step with the call; its failure is `HitlApproval`'s.  `drifted`
is a history variable: the checkpoint advanced and the rows' transaction was
lost.  Properties that the code cannot keep once that has happened say so.

### MemoryExtraction

The clock stamps messages; a message becomes visible when its turn commits,
possibly after a later one (`late`).  An extraction goes through the
transaction boundaries of `UserMemoryExtractionService`: read the flags, read
the pending messages, call the model with no transaction open, lock the consent
row shared, claim the watermark by compare-and-set, write, commit.  A
withdrawal deletes first and updates the flag second, and waits for the locks
of others as PostgreSQL makes it; a deadlock picks a victim.  One extraction
applies at most one operation.

Flipping a conversation's switch takes two steps (`RequestSwitch`, `CommitSwitch`):
a release reads the clock, and its UPDATE with that watermark may wait for the row's
lock (an extraction's, a chat turn's) before it commits.  Messages said in between
are said with memory off and lie after the watermark.  `exposed` names them, and also
bounds what two overlapping releases can do, of which the later commit may move
the watermark back.  `SwitchRespected`, `ExtractedOnce` and `WatermarkForward` make
these exceptions by name and no other; section 7 has what the docstring promises.

### ChatTurn

A turn goes `new`, `counted` (rate limit), two usage scopes (summarizing,
orchestrating), `saving`, `saved`, recorded.  Calls of one scope run side by
side; each passes the budget check with the prompt's *estimated* tokens (`PromptSizes`) on
the meter as it then is, and when it is answered adds what the provider *bills*
(`BilledSizes`, any of them whatever the estimate was, 0 where the provider reports
nothing).  `ClientLeaves` cancels a streamed request while
it is orchestrating or streaming and leads through the same `finally`; `Crash`
stops a process at any point.

### AgentTurn

`h` is the runtime state, `n` every counter together with its limit's name, and
`pc` the await the turn is at.  The turn is sequential; what interleaves with it
is the clock, which may cross the deadline between any two steps, and every
outcome of the model, the tools, the delegated agent and the judge.  Evidence
and context items are counted as one kind (the code adds to both together and
limits them alike).  Whether a call made progress is a choice: the key the code
compares is a hash of the result.  A question or a failure message is
`Message`, a text that is not an answer.

Its two LLM clients are followed call by call: the primary's failure kinds, when
the fallback is asked, and whose error is raised in the end.  The judge's reply
and the embedding model's answer are choices; what the gate makes of a missing
one is the code's.

### Planning, Guardrails, Orchestration

`stage` is where the request stands between two awaits.  A plan is a sequence of
steps; `Verdict` is the validator with its checks in order.  `time` is the
deadline while the planner and then the failover model are asked: the planner is
given the smaller of its own limit and what is left.  `graph` is the LangGraph
state: `StartWave` begins a superstep, `StepEnds`, `Skip` and `StepPauses` end
its steps in any order, and the wave is over when all have.  `StartAttempt` is
the fresh thread each regeneration gets, `Prepare` the approval that
`_prepare_action` writes for the first interrupt, `Review` the guardrail service
with the regeneration loop around it, `SendSlice` and `SendFinal` the stream,
`Resume` the same graph resumed with a decision.  A text is its words; a
detection is the words it covers, its category and its score, so that
`ResolveOverlaps` and the merging of neighbours are the code's.

### PromptBudget, ConversationHistory

An event is its `created_at`; it is visible to others once its turn has
committed.  A turn saves its message, reads the unsummarized tail, folds what
is over the limit while it holds the conversation row's lock, and answers or
fails.  `Prompt` is what `build_messages` would send of the history it got;
`TrimmedRight` says what that must be without saying how it is found: the
longest recent history, then the best context, that fit.  A text is its token
estimate.  `Dropped` is the loop both lists go through.  The names that
`HitlThread` has too carry the prefix `History`, so that one module can prove
about both.

### SavedMemories

`rows` is what is committed, `tx` each writer's transaction: its operations, the
row it waits for, the savepoint it returns to.  `WaitsFor` is the lock or the
unique index that stops it, `InCycle` a deadlock; `AbortDeadlocked` picks either
victim and what follows is the code's (the operation is skipped, the turn goes
on).  `Purge` and the expiry are those of the write phase.  `SaidAgain` notes the
rows that a touch or an update brings back after they had expired; only the bound
of `LimitOvershoot` reads it.  The names that `MemoryExtraction` has too carry the
prefix `Saved`, so that one module can prove about both.

### Chunking, Indexing, Retrieval

A character is an integer and a letter keeps its identity from the page to a
chunk; what a regular expression recognises is the set of letters that open its
match.  A run of the ingestion command has at most one transaction open; its
writes are pending until `Commit` and lock their rows.  A search embeds its query,
awaits both stores in either order (`search`), fuses and reranks, and reads the
index as it is at each of its reads; scores are any ranking, failures any component.
The vector store searches an approximate index and filters by embedding model
afterwards, so it returns any of the chunks up to the limit, or none (`Neighbours`):
"no results" says nothing of the index, and no property says it does.
The sum of reciprocal ranks is computed in units that make each a whole number.
`DocumentsAssumption` says that the chunker gives each document a sequence of at
most `MaxChunks` texts, which TLC evaluates over every page of the run.

### Evaluation

No variables: its operators are what the evaluation computes, and its properties
quantify over small datasets, results and judge replies.  A missing score is an
empty sequence; a score is a fraction, so rounding plays no part.

### Accounts, ComplianceLog, Requests

A person is a row once registered, an address a spelling.  `at` is where a
request stands; each query takes a connection from the pool that the request
keeps until it commits or fails, and a standalone audit row needs a second one.
PostgreSQL's table locks are the two modes that meet: an insert's and the
purge's `ALTER TABLE`.  The operator and the database are external.

## 4. Runs

State counts are distinct states.  Several properties are the conjunction of
named parts, written above them; a reader can put any part in the run's
configuration.

| Run | Config | Shows | States |
|---|---|---|---|
| `hitl_safety` | `HitlSafety.cfg` | approval, claim, deliveries and answer stay right under any two faults (`RecordsTrue`, `SentOnlyIfApproved`, `ClaimsHold`, `SettledForGood`); `HitlApproval` implements `ApprovedCall` | 403 012 (symmetry) |
| `hitl_resent` | `HitlResent.cfg` | expects a violation of `SentAtMostOnce`: see section 7 | |
| `hitl_recovery` | `HitlRecovery.cfg` | of a turn of several pauses: each pause takes the outcome of its own row, a paused turn is reachable and ends; of one approval: a decided call reaches the conversation if its owner keeps retrying, and no delivery is unaccounted for, also after a holder outlived the stale threshold | 312 426 |
| `memory` | `Memory.cfg` | nothing written without consent or skipped; nothing applied twice or read despite the switch, but in the window of a release; a withdrawal ends | 696 243 |
| `saved_memories` | `SavedMemories.cfg` | one row per fact, every write audited, the limit overshot by no more than the writers that ran together, what is deleted stays away; a prompt quotes the right rows; every transaction ends | 118 363 |
| `chat` | `Chat.cfg` | tokens counted once, overshoot bounded by the bills of the calls side by side, failed or refused turns leave nothing, usage recorded in the end | 465 760 |
| `agent` | `Agent.cfg` | the turn's limits hold on every path, an answer is verified or replaced, nothing starts late, the turn ends | 1 163 738 |
| `orchestration` | `Orchestration.cfg` | dependencies, approvals, redactions and error kinds, over every dependency graph; every request ends or waits for a decision | 213 761 |
| `history` | `ConversationHistory.cfg` | nothing twice in a prompt, nothing skipped but late commits, pages complete, prompts trimmed right; turns end | 42 458 |
| `retrieval` | `Retrieval.cfg` | no letter lost in chunking, text and vector together, a processed file whole; a search's mode is true and its ranking right; grades are right; runs and searches end | 95 526 |
| `requests` | `Requests.cfg` | one account per address, nobody acts beyond the role, audit rows complete, only old rows purged; requests end and workers serve | 108 251 |
| `agent_unverified` | `AgentUnverified.cfg` | expects a violation: see section 7 | |

**HITL bounds.**  Two request slots are enough for every race in the code, since each
conditional UPDATE compares with one other writer, and a slot is reused, so a
behaviour has any number of decisions and retries in sequence. Two users: the owner
and somebody else.  Two payloads: the proposed and an edited one.  `hitl_safety`
allows two faults, because one can be hidden by the recovery and a second hits the
recovery itself (a failed resume whose failure record then fails too), and every kind
of them but `slow`: the failing commit of a result is among them. There a claim goes
stale only when no one holds it: the threshold (600 s) is longer than the configured
timeouts of one resume add up to. `hitl_recovery` drops that assumption with the fault
`slow`.  There `DeliveriesAccounted` still holds, since each takeover of an unknown
send is confirmed; `OneHolder` does not, and is not claimed.  It has one fault per
approval, of any kind but a failing save of the decision: liveness over two takes
several times as long, and was checked once (it holds).

**Thread bounds** (also `hitl_recovery`).  Three gated calls: two let a value be handed
to the next interrupt, three let it be handed past one.  Two drafts, so that a replay
may propose another call than was approved.  Three faults, so each call's resume
can fail once.  The two parts share no variable, so the run takes them one at a time
(`MCNext`): their product would multiply states and show nothing more.

**Memory bounds.**  Two processes on one conversation is the race the watermark's
compare-and-set exists for.  A batch is one message and the time bound is four, so two
turns, an extraction and a release of the switch, or a withdrawal and a grant, fit in
one behaviour in every order.  Two requests may flip the switch at once.  The interval
is one: with more, extractions start later and race less. The time bound stops the
model, not the system: hence `CHECK_DEADLOCK FALSE`.

**Saved-memory bounds.**  Two extractions, or one with up to two turns: a deadlock
needs two writers of two rows, and the limit's overshoot two writers.  Two row
identities and two contents are what a cycle and a duplicate need; the limit is
one.  Two days, so that a touched row outlives one that was not.  Each writer runs
once: `CHECK_DEADLOCK FALSE`.

**Chat bounds.**  Two requests of one user, one streamed; two calls side by side
and three in all; two estimates, so that one call fits in what is left of the
budget and the other does not; bills of nothing, of more than the estimate and of as
much as the whole quota; a daily quota of 5 crossed by the two requests
together; two days, so a turn may be recorded on another day than it was
admitted on.  All faults at any time.  Requests are finite, so the model stops:
`CHECK_DEADLOCK FALSE`.

**Agent bounds.**  `MCAgentTurn.RunLimits` scales the defaults down (10
iterations, 20 tool calls, 5 hops, 30 results, 120 s) and keeps their order: the
step limit above the others, the tool limit above the iteration limit, two
rejected answers.  Limits that are two by default stay two.  Five kinds of call
(plain, gated, denied, delegation, denied delegation) and two answers (a first
one rejected, a second one different).  A turn ends: `CHECK_DEADLOCK FALSE`.

**Orchestration bounds.**  Three steps of two agents with every dependency between
them, cycles included: a skip that propagates needs a chain of three, two parallel
pauses need two roots.  Four refused plans of other kinds.  Two runs, so one
regeneration, and two approvals in sequence.  Two words and five pairs of
detections give every overlap and neighbourhood; a deadline of at most three units
leaves the failover model everything, something, or too little.  One request:
`CHECK_DEADLOCK FALSE`.

**History bounds.**  Three turns, two of them open together; two events kept, four
fetched, so that a fold leaves something out of the window; pages of three; windows
from too small for the memory block to large enough for everything.  Turns are
finite: `CHECK_DEADLOCK FALSE`.

**Retrieval bounds.**  Every page of three lines of eight kinds, cut after the first
line, and in one block too where it opens with a provision or with a footnote that
wraps; chunks of eight characters that overlap by two, so that a
line fits, two do not, and a word can be cut.  Two runs with one edit or two
failures; batches of two of up to five chunks.  One search with two faults beside
a run that fills the index.  Datasets of one or two cases over results of up to
three chunks.  Runs are finite: `CHECK_DEADLOCK FALSE`.

**Requests bounds.**  Two people and a pool of two connections: the smallest in
which everybody holds one and waits for another.  Two workers, one operator's
edit, one restart.  `MCInit` names the pairs of requests that meet over an
address, the pool, the table's lock or a role; `MCNext` keeps restarts, edits and
the purge out of each other's instances.  Requests are finite:
`CHECK_DEADLOCK FALSE`.

## 5. Fairness

Only what the code does by itself is fair; what a user does is not, with one
exception that is named.

- `HitlApproval.ServerFairness`: weak fairness for the next step of each running
  request (its coroutine is scheduled) and for the passing of time (`GoStale`).
  `PersistentOwner` is a strong-fairness assumption about the *user*: the owner
  keeps pressing retry whenever it would be accepted.  The server has no
  background retry, and `DecidedIsAnswered` is false without it; the property
  says that no failure leaves the owner without a button that works.
  Weak fairness is too weak here: a retry is disabled while another attempt
  holds the claim.
- `HitlThread.FairSpec`: the same split, for one attempt and for the owner.
- `MemoryExtraction.Fairness`: a started run goes on, and a withdrawal whose
  lock is free takes it.  Starting turns and changing settings are not fair.
- `ChatTurn.Fairness`: an admitted request is taken to its end; its model calls
  return or fail (they have timeouts).  Sending a request, leaving and crashing
  are not fair.
- `AgentTurn`: a turn outside a human's approval takes its next step.  The
  passing of time is not fair, so `Terminates` does not lean on the deadline:
  the limits alone end the turn.
- `Orchestration`: the request takes its next step unless it waits for a human.
  Planners, steps and judges answer or run out of time; no particular outcome is
  fair, the regeneration and pause limits end the loop.
- `ConversationHistory`: each open turn goes on; starting, archiving and paging
  are not fair.
- `SavedMemories`: strong fairness for a transaction's next statement, because
  PostgreSQL grants a row lock in the order it was asked for, and weak would let
  another writer retake it for ever.  Deadlock detection and commits are such
  statements; deleting and the passing of days are not fair.
- `Retrieval`: a started run proceeds and a search that is not cancelled takes its
  next step.  Failures, kills, edits and cache expiry are not fair.
- `Requests`: a request's next step, a worker's start-up and the purge's next
  statement.  `RequestsEnd` has one premise, that the purge does not wait for
  ever; section 7 says when it does.

## 6. Proofs

Those of the first table are about `HitlApproval`, for any sets of requests, users
and payloads and any number of faults, from `OwnerAssumption`,
`ProposedAssumption` and `FaultAssumption`.  Some need one further hypothesis, which
the theorems state: `ClaimsOutliveResumes` (no fault `slow`).  None leaves out the
failing commit of a result.

| Theorem | States | Needs |
|---|---|---|
| `TypeCorrect` | `Spec => []TypeOK` | |
| `SendsAreApproved` | `Spec => []SentOnlyIfApproved` | |
| `DecisionsAreLogged` | `Spec => []DecisionLogged` | |
| `DecisionsAreFinal` | `Spec => DecisionIsFinal` | |
| `ClaimsAreExclusive` | `Spec => []OneHolder` | claims outlive resumes |
| `AnswersAreGivenOnce` | `Spec => []AnsweredOnce` | claims outlive resumes |
| `AnswersAreLast` | `Spec => NoSendAfterAnswer` | claims outlive resumes |
| `DeliveriesAreAccounted` | `Spec => []DeliveriesAccounted` | claims outlive resumes |
| `RecordsAreTrue` | `Spec => []RecordsTrue` | claims outlive resumes |
| `ClaimsAreHeld` | `Spec => []ClaimsHold` | claims outlive resumes |
| `SettledStays` | `Spec => SettledForGood` | claims outlive resumes |
| `PromiseKept` | `Spec => KeepsPromise` | claims outlive resumes |

**What is approved** (`HitlApprovalProofs`).  `SentOnlyIfApproved` is not
inductive: nothing in it says what a request that is about to send carries.  The
argument follows the payload backwards.  A row that is still WAITING has no
decision (`WaitingUndecided`), so saving one replaces none.  A request that is
saving carries a real decision (`SavesDecision`).  From the claim on, a request
carries the recorded decision and payload (`CarriesDecision`), which is where a
retry's early read of the row matters: what it read can only still be true
because decisions are final.  A request past the role check runs an approving
decision (`RunsApproved`).  Then the payload handed to `Send` is the approved
one.  `IInv` is the conjunction with `TypeOK`, `SentOnlyIfApproved` and
`DecisionLogged`.

**One claim** (`ClaimInv`).  `OneHolder` becomes inductive with
`HolderExecutes`: a held claim sits on a fresh EXECUTING row.  A claim is taken
over a row that is not EXECUTING or that is stale, so over no holder; and a row
under a holder gets stale only by the fault `slow`.  The single answer, and that
nothing is sent after it, follow: only a holder answers or sends, and a row that
is answered has no holder.

**Every delivery accounted for** (`SendInv`).  Call a call resolved when it has a
result or was rejected; resolved is for good (`ResolvedStays`).  An unresolved call may
still be sent, so every request that could reach the send, and every row that a plain
retry could claim, must have a send to spare: `Len(sent) <= confirmed + lost`.  The
send spends it and leaves a request that holds a result.  Storing that result resolves
the call.  If the request dies first, the row stays EXECUTING, and taking it over
costs a confirmation, which restores the spare; if the commit fails, the row becomes
claimable and the outcome counts as lost, which restores it too: that is the step at
which the code gives up sending at most once.  `WithinBudget` states this for each
place a request can be at.  `DeliveriesAccounted` follows (`BudgetAccounts`): where the
row neither holds an outcome nor is claimed, there is a send to spare.

**The refinement** (`PromiseKept`).  Deliveries are counted by payload;
since all have the decided payload (`SentOnlyIfApproved`), that count is the
number of sends and the promise's guard is `Spare`.  `SaveDecision`, a confirmed
`Claim`, a delivering `Send`, a failing `StoreResult` and `Answer` are the promise's five
steps; all others stutter.

The strengthened invariants `ClaimInv` and `SendInv` were also checked by TLC on
the instance of `hitl_safety`.

**Paused turns** (`HitlThreadProofs`), for any number of gated calls, whatever
calls the replays propose, and any faults, from `CallsAssumption` and
`FaultAssumption`.

| Theorem | States |
|---|---|
| `AnswersAreOfTheirRows` | `Spec => []AnswersFollowRows` |
| `ApprovalsFollowGraph` | `Spec => []ApprovalsMatchGraph` |

At most one row is open, and an attempt under way has claimed it (`ClaimedRow`); a row
that waits for a decision is the one the paused graph waits at (`WaitsForDecision`,
`PausedWaits`).  That holds under every fault, also after a commit was lost.  What the
graph was told holds only while none was: `Following` says how far the checkpoint is
ahead of the rows (at most by the attempt's own value, `InStep`), which row each value
is the outcome of (`Told`) and that what was sent is of rows in order, each after all
earlier ones were settled (`SentFits`).  A paused run has proposed exactly the calls
up to the one it waits at, which is why the row prepared for it shows that call
(`PreparedShown`).  `ThreadInv` asks it of `~drifted` alone, which is what makes it
inductive: a lost commit breaks it and says so.

**Conversations** (`HitlThreadProofs`, second part), for any number of turns, open at
once or not, any limits, windows and retrieved items, from `HistoryAssumption`.

| Theorem | States |
|---|---|
| `ConversationsAreRight` | `HistorySpec => []HistoryRight` |
| `PromptsAreTrimmed` | `HistorySpec => []PromptTrimmed` |

Neither that nothing is quoted beside the summary that holds it nor that only late
events are skipped is inductive: both rest on what an anchor means.  `StandsFor`
says it of the row and of what each turn has as the summary: at least `KeepLimit`
of the events seen are after the anchor (so the latest ones, which are quoted, are
not in the summary), a committed event is no earlier than the anchor (so an event
that commits later with an earlier stamp is late), and each event seen up to the
anchor is told, late or was beyond what was fetched.  The same is said beforehand
of what a turn is about to fold (`FoldStands`); other turns' commits leave all of
it true (`StillStands`).  It is true of a summary and its own anchor, which is why
it does not matter whose summary is stored last.  That a prompt is complete holds
where no turn overlapped, whence there is one at a time and every event is before
its message (`Alone`), and where few enough events are left after the anchor to be
quoted (`Few`).  A client's page is placed by how many committed events come before
it; a commit that is not late adds none before an event already there
(`AnswerRead`).  That at most two events per turn are stamped is a count of the
turns that have begun and of those that answered (`Counted`).  TLC checked
`HistoryInv` on the instance of `history` as well.

`PromptTrimmed` is proved of the operators: the loop, a recursive function, exists
and ends at the first that fits, or at the end (`LoopExists`, `DroppedIs`); the
sums are integers, and nothing when all is dropped (`UsedIs`); context is dropped
only where no message was enough (`FitToBudgetIs`); an item of a lower rank has no
higher score (`RanksAre`).

**Memory** (`MemoryProofs`), for any processes, conversations, memories and
settings, from the modules' assumptions.

| Theorem | States |
|---|---|
| `MessagesAreReadOnce` | `Spec => []ReadOnceAndAllowed` |
| `ConsentIsKept` | `Spec => ConsentKept` |
| `RowsAreRight` | `SavedSpec => []RowsRight` |
| `SelectionIsRight` | `SavedSpec => []SelectionRight` |

An extraction reads and writes far apart; `MemoryInv` says what it still knows
when it writes (`RunRight`): from the consent lock on, that consent is on and no
withdrawal gets past its first statement; from the claim on, that its messages are
behind the watermark and nobody else's.  `InOrder` accounts for every message at or
behind a watermark: considered, or overtaken by a later message of its
conversation while it was under way.  Of two runs that read the same watermark the
compare-and-set lets one claim; and what was said with the switch on stays out for
good because it is behind the watermark, the switch is still on, or it was said while
a release was under way (`OffIsExcluded`).  A release writes what it read when it
began, whatever the row holds by then; `CommitSwitchKeeps` accounts for the messages
before that clock (`dropped`) and after it (`exposed`).

The rows are proved for any set of writers and turns, contents, limits and days.
Every step of a transaction is one of three (`Effect`): it makes up its mind
(`Thinks`), writes one row it holds (`Writes`) or ends (`Ends`), and each part of
`SavedInv` is shown once for the three and for what the user and the clock do.
`Distinct` is `OneRowPerContent` for every transaction's own view as well: what it
has not committed is nobody else's, because a content it wrote is one the unique
index keeps for it.  `NoneBack` says that a row that is gone is in nobody's view,
though transactions may still know its id.  `Accounts` carries the balance of the
log through each transaction: what it will record is what it stored less what it
removed, and two transactions never hold the same row.  `LimitOvershoot` is about
the committed rows, and what one commit adds depends on what the others have
already.  `Within` therefore bounds, for every set of open transactions, what would
be live if exactly these committed (`Result`), by the limit and what each further
writer may add: its batch, or the limit, whichever is less, since it counts at
least its own rows.  The bound for the empty set is the property.
`SelectionIsRight` is about operators, but of sequences that a choice defines:
`Sorted` exists (by a smallest set without an ordering), so the selection is the
longest start of the merged lists that fits.

The proof found `LimitOvershoot` to be false for other constants than the run had:
a transaction that inserts a fact, lets it expire before it commits and says it
again (possible where a batch has three operations and the retention is short) did
not count as reviving it, and TLC gave the trace for a team of one writer and one
turn with `BatchSize` 3.  `hist.revived` now has the rows that had expired in
the transaction's own view too, which is what the property had meant.

**Chat turn** (`ChatTurnProofs`), for any requests, streams, calls side by side,
quotas, sizes, days and faults, from the module's assumptions.

| Theorem | States |
|---|---|
| `UsageIsRight` | `Spec => []UsageRight` |
| `TurnsAreWhole` | `Spec => []TurnWhole` |
| `RefusalIsFinal` | `Spec => RefusedForGood` |

`ChatInv` is `TurnRight` of every request (what its stage says about its meter, its
row and its events) with `Balanced`: the buckets hold what the meters have recorded.
The latter is a sum over a set of requests of any size. `FiniteRecursion` proves what
is needed of `MapThenSumSet`: the sum does not depend on the order its elements are
taken in (`SumsByElement`) and grows by what one of its terms grows by (`TotalGrows`).
These are inductions over finite sets.  They are made without an induction theorem
that takes a predicate: the subsets that fail the claim are a set, and a smallest one
of them (`SubsetsFounded`, from the well-founded subset order) gives the
contradiction.  The bound on the overshoot follows request by request (`WithinBound`):
a call is admitted only on a meter within the quota, and at most `Parallel` are then
under way, so what is used, metered and may still be billed, the largest bill for each
call, stays within the bound.  Nothing is asked of the estimates.

**Agent turn** (`AgentTurnProofs`), for any model, tools, judge, policy and limits,
from the module's assumptions.

| Theorem | States | Needs |
|---|---|---|
| `AnswersAreVerified` | `Spec => []AnswerVerifiedOrReplaced` | |
| `TurnsAreBounded` | `Spec => []Bounded`: all parts of `WorkBounded` but the last | |
| `WorkIsBounded` | `Spec => []WorkBounded` | `ToolsOutlast` |
| `NothingIsBegunLate` | `Spec => NothingStartsLate` | |

Each bound needs to know what is already promised when a counter is looked at: a model
call under way has its iteration (`CallsCounted`), a repeat counts only once its
result is in (`StreakCounted`), an outage closes the turn (`OutageCloses`).  That the
runtime's own errors come up only once the time is up is the last part of
`WorkBounded`.  It needs that no tool call is refused for want of budget, and that
holds because each tool call has an iteration of its own (`ToolsBehind`): so the
theorem's hypothesis `ToolsOutlast`, the iteration limit is below the tool limit, as
the defaults 10 and 20 are.  With limits the other way round a corrective retrieval
can be refused for want of a tool call in mid-turn; it closes the turn as partial, and
the runtime then raises for a turn that no longer runs.

**Orchestration** (`OrchestrationProofs`), for any templates, proposals, detections
and bounds, from `OrchestrationAssumption`.

| Theorem | States |
|---|---|
| `ApprovalsReachTheUser` | `Spec => []ApprovalKept` |
| `AnswersAreOfTheirRun` | `Spec => []AnsweredByThisRun` |
| `ResponsesAreRight` | `Spec => []ResponseRight` |
| `PlansAreFollowed` | `Spec => []PlanFollowed` |

`ApprovalKept` is inductive once it is known at which stages an approval can be
open and that the attempt it names is the present one (`ApprovalInv`): a run is
begun only where none is open, since the regeneration loop stops at a prepared
action, and every response records whether one is.  `AnsweredByThisRun` needs to
know that every artifact in the graph was written by a step that ran in this
attempt (`ArtifactsOfRun`), which a regeneration keeps because it begins with an
empty graph, and that the plan's steps are ones the graph has (`PlanIds`,
`GraphShape`), which the plan's acceptance gives.

Three definitions are recursive functions: the overlaps of `ResolveOverlaps`, the
closure of `TransitiveDependencies`, the depth-first visit of `Acyclic`.  Nothing
can be said of one before it is known to exist.  `RecursionDefines`
(`FiniteRecursion`) shows that for
any recursion that looks only at smaller arguments (`Local`) of a well-founded
order (`Founded`), by a smallest argument that has no solution below it; a smallest
counterexample then replaces each induction over the argument.  That is where the
assumption that the analyzer reports finitely many detections is used; a plan's
steps are finitely many because it is a sequence.

`ResponseRight` adds to `AnswerInv` how the models asked for a plan have failed so
far (`PlannerInv`), and that what is kept of overlapping detections rivals nothing
else kept and holds every detection without a rival (`KeptRight`, `ReviewRight`).
`PlanFollowed` needs `FlowInv`: the plan is none or one the validator accepted; what
has ended or is under way depends only on what has ended; a completed step ran in
this attempt, and ran only once what it depends on had completed.  The direct
dependencies a step checks then give all transitive ones (`FoundStaysWithin`: the
closure stays within any closed set), two steps of one agent are ordered and so
never under way together, and if some steps were left when none is ready, the visit
would have found their cycle (`NoCycle`).

**Requests** (`RequestsProofs`), for any people, workers, addresses, pool and
bounds, from the modules' assumptions.

| Theorem | States |
|---|---|
| `AccountsStayRight` | `Spec => []AccountsRight` |
| `StepsStayAllowed` | `Spec => StepsAllowed` |
| `AuditStaysRight` | `Spec => []AuditRight` |

`OneAccountPerAddress` compares normalised addresses, the unique index compares
stored ones.  `AccountInv` closes the gap: every stored address is its own normal
form (`StoredNormal`) and no two rows store the same (`StoredOnce`), so an insert
that the index lets through adds a new mailbox, whatever its earlier lookup read.
`SeedingKeepsEdits` holds because a worker adds a role only where the table has
none at the insert.  `StepsStayAllowed` sorts the steps of a request into six kinds
(`StepKinds`); only two of them let a turn in or prepare a call, and both read the
role at that step.  A turn that was writing an audit row goes on to a later stage
and never into `authorised` (`WritingGoesOn`), so no third kind hides there.  The
purge takes `Deleted`, rows past the retention, and nothing else removes a row.

`AuditRight` needs to know what a request holds at each stage of its path
(`AuditInv`): `PathRight` gives the connections (none, one, or two while a
standalone row is written), the rows flushed and not yet committed, the stages its
job can be at, and what row is being written.  Every step of a request is then one
move (`MovesTo`, `RequestKeeps`) to a stage with what is due there, adding either
both of a turn's rows or neither.  That no more connections are out than `PoolSize`
is a statement about their sum over all requests: a move changes one term, upwards
only when a connection is free (`PoolKept`, by `TotalGrows`).  The trigger is back
on before the purge commits (`PurgeRight`).  Two assumptions are used: the requests
are finitely many, and the rows past the retention are none of theirs
(`OldRowsAssumption`), so the purge cannot take one of a turn's two rows.

**Retrieval and its grades** (`ChatTurnProofs`, from `Indexing`'s part on), for any
files, documents, runs, batch sizes, searches, depths and failures, from
`IndexingAssumption`, `DocumentsAssumption` and `RetrievalAssumption`; the grades,
for any cases, results and replies, from `EvaluationAssumption` too (lists are lists,
a reply has the fields the code reads).

| Theorem | States |
|---|---|
| `IndexStaysRight` | `RetrievalSpec => []IndexRight` |
| `SearchesAreRight` | `RetrievalSpec => []SearchRight` |
| `GradesAreRight` | `RetrievalSpec => []EvaluationRight` |

Neither part of `IndexRight` is inductive: both speak of files no two runs had open
together and of what was committed, and say nothing of the transaction about to be.
`IndexInv` adds, for each run, which chunks its transaction can hold at each point of
a batch and that they are the file's as it was read (`Fits`), and, of a file that
is not shared, that what is behind the run is in the index (`Done`).  What it skipped
because the row had that text already is still so (`Written`): another run could
have changed it, but then the file would be shared, since two runs at a file share
it (`RunsApart`).  A file is reported only once it is closed (`ReportedIsClosed`).  A
commit lays the transaction over the table (`OverlaidIs`), so text and vector agree
afterwards wherever they did before or the batch has reached.

`SearchInv` says what has been lost at each point of a search and what is still
awaited (`Told`): a lost vector search is not awaited, so it cannot be lost twice.
What either store returns is any ranking of any rows it may find.  `Ranked` and
`Drawn` say how the fused list and the result are ordered and which rows are in them.
That what both stores found comes first is arithmetic: two reciprocals, however far
down the lists, outweigh one at the top (`TwoOutweighOne`) because the lists are no
longer than `RrfK + 1`, which `RetrievalAssumption` says (the code's are 20 and 61);
the units are whole because each `RrfK + r` divides the product of them all
(`UnitDivides`, by `RecursionDefines`).  A sorted order exists for any scores
(`BestFirstIs`), so `CHOOSE` finds one.

The grades are counting.  The matched pieces inject into the hits (`PerfectHolds`),
the first hit among all results is within the first k when any is (`RankIs`), and a
share of a finite set lies between nothing and one (`ShareIs`, `VerdictsAre`).  Only
`GradedModeRan` speaks of the search's state, and follows from `Told` and `Drawn`.

Only model-checked: `TextKept`, and `DeliveriesAccounted` when a resume outlives its claim.
Out of the prover's reach: liveness under fairness and `ENABLED`, so `TurnsEnd` and
its like are TLC's.  Induction over data works where the recursion is over finite
sets and the claim can be written as a set of subsets, as for the sums of `ChatTurn`
and `Requests`, the recursions of `Planning` and `Guardrails` and the loops of
`PromptBudget`; for what the chunker's folds make of a page, which is what `TextKept`
is about, it was not attempted.

## 7. Disagreements found

`agent_unverified` (`UnverifiedNotShown`) is a run that TLC must find violated.  A
rejected answer stays the step's response while a tool or delegation follows; if
the turn then ends on an unaccepted FINAL or NEED_INPUT, that answer is shown.  The
code's comment says a rejected answer must not reach the user.

`hitl_resent` (`SentAtMostOnce`) is another.  The result of an approved call is
committed after the call.  If that commit fails (`hitl_resume.py:585`), the exception
path marks the action FAILED with no stored result, and FAILED can be claimed by a
plain retry: the message goes out twice, and nobody was asked.
`docs/server/architecture/api.md:545` says the call is sent at most once.  What the
code does keep is `DeliveriesAccounted`.

The following are definitions of the modules that no passing run lists, because
the code does not keep them.  Adding the name to the run's configuration gives the
trace.

1. `RefusalIsTrue` (`hitl_safety`).  A retry reads the action before it claims it,
   and the session's identity map hides what another attempt stored in between
   (`hitl_resume.py:432`).  The late attempt sends nothing, but it stores that the role
   no longer allows the call over the outcome of one that was delivered.
   `api.md:546` says the permission is checked only when the call has not run.
2. `DecisionStands` (`hitl_safety`).  Expiry is tested before the status and written
   unconditionally, so a second decision posted after `expires_at` turns an
   APPROVED row into EXPIRED, and the verifier then refuses the owner's retry.
   `api.md` says the expiry applies only to deciding.
3. `ReportedCallRan` (`hitl_recovery`).  An answer the messaging server flags as an
   error is recorded and reported as a success though nothing may have been sent
   (`messaging/base.py:98-104`, `invocation.py:157-169`; the docstring there says that
   failures become a failed `ToolResult`).  Or: the graph pauses at its second gated
   call and the turn's commit fails; the retry resumes the *second* interrupt with the
   *first* call's stored result, so the agent reports a call that was never approved.
   `session.py:178` requires the call to have been executed.
4. `AnswerIsForProposal` (`hitl_recovery`).  A resumed node asks the model again, which
   may propose another call; that call takes the answer of the one its owner saw, by
   position (`continuation.py:479-503`).  The end-to-end tests script a model of which
   "the SAME send decision comes back twice" (`tests/e2e/hitl_helpers.py:79`).
5. `SwitchRespectedAlways` (`memory`).  A release of the switch takes the clock before
   its UPDATE waits for the row (`conversation.py:278-285`); what is said in between,
   still with memory off, lies after the watermark and is read.  The docstring
   (`:258`) says nothing said while it was on is ever read later.  Of two overlapping
   releases the later commit can also move the watermark back, and what was read in
   between is read again.
6. `OffMeansForgotten` (`memory`).  A withdrawal deletes, then updates the flag; a
   fact committed in between stays.  `user_memory.py:201` says there is no such
   window.
7. `OneEnding` (`chat`).  The last chunk is sent as `complete` before the answer is
   saved; a failing save sends `error` after it.
8. `OnePauseAtATime` (`orchestration`).  Two parallel steps pause in one superstep;
   an approval is prepared for the first interrupt only (`session.py:403`).
9. `ValidPlanAnswered` (`orchestration`).  A plan may give one agent two steps in
   sequence (`validator.py:128` refuses only concurrent ones), and the response
   validator then refuses the answer for a duplicate agent.
10. `NothingLeftOut` (`history`).  When folding fails, or the tail is longer than what
   is fetched, older events are in neither the summary nor the prompt
   (`chat.py:593`).

Seen while modelling:

- Approval: for the same reason as (1), a late retry that the verifier refuses stores a
  failure over the delivered result, and the conversation is told the call failed.
- Chat: `core/usage.py:129` says a request passes its quota by at most one call's output
  and by calls that run in parallel.  Prompts are estimated with a tokenizer that need
  not be the provider's, so the whole bill of each call side by side counts.
- Memory: a message of an overlapping turn that commits with an older stamp than
  the watermark is never considered; `ConsideredInOrder` excludes such messages by
  name (`late`).  The per-user limit is read under a shared lock, so extractions may
  pass it together; `LimitOvershoot` says by how much.  The write re-checks only the consent
  flag (`user_memory_extraction.py:532`): messages read under a consent that was
  withdrawn and granted again before the write are still written.
- Agent turn: the `RuntimeError` for a limit reached during a corrective retrieval
  escapes only between two readings of the clock (`RaisesOnlyWhenLate`); the
  deadline crossed during a correction ends the turn as `failed_llm`;
  `attempt_count` counts every reasoning call, so after three tool calls an unusable
  answer is no longer retried; a blank NEED_INPUT raises `EmptyContentError`.  When
  both providers fail, the docstring of `failover.py` says the primary's error is
  raised; the fallback's quota error is raised instead.  Empty completions are
  billed and not metered.  Replies of the judge that cannot be used are cached.
- Orchestration: a resumed turn reviews the same artifacts again; `pii.py` says a
  structured identifier is always redacted, and one that loses an overlap to a
  named entity with a higher score may not be.
- Compliance log: a purge that finds a turn's row uncommitted waits for it, while the
  turn's own standalone row queues behind the purge: neither goes on unless
  somebody stops the script.  A failed turn leaves PLAN rows with no REQUEST_RECEIVED row.  A
  migration's docstring says that the window without the trigger is visible to
  others; the purge runs in one transaction, so it is not.
- Accounts: sign-in compares the address as typed with the normalised one that was
  stored; no refresh token is ever made, so the refresh endpoint never succeeds;
  `seed_default_agent_policies` overwrites an operator's edit at every start.
- Indexing: a file that got shorter keeps its old last chunks, though
  `chunk_mapper.py:131` speaks of replacing; two runs over an edited file can leave
  a vector of the older text (`shared` excludes them by name); an unclosed footnote
  goes on to the next provision, and `_split_long_text` loses the text between two
  cuts of an over-long word; a section header of an omitted section is a pattern
  that nothing uses (`chunker.py:78`).
- Retrieval: when the cache of embeddings is out, a search becomes keyword-only;
  an empty keyword-only search with the reranker down reports "no results".
- Evaluation: a NaN score of the judge becomes 1.0 on the legacy path
  (`evaluator.py:176`); a blank answer scores 0.0 and drags the mean although
  `faithfulness.py:77` says it does not; a blank evidence entry hides the case's
  sources; a retrieval that holds every piece of evidence in one chunk can fail the
  precision bar; an empty dataset exits 0 without a gate.

## 8. Not modelled, and why

- Texts, prompts, scores, schemas and the wording of replies are data: a choice
  among the outcomes the control flow tells apart.
- PostgreSQL is READ COMMITTED with row locks: a conditional UPDATE is one step,
  a transaction's other rows appear with its commit.  Deadlock detection picks
  either victim.  Redis' counter is an atomic increment with a window.
- HITL: one gated call (calls do not share rows); clock skew between workers;
  several interrupts pending at once (what LangGraph does then is its own code).
- Memory: what the model proposes and which contents the guard lets through.
- Chat: a disconnect of an unstreamed request (the server does not notice it);
  request ids are made by the server, so none is replayed.
- Agent: a delegated turn is its outcome (it is another `AgentTurn`); replay after
  an approval is `HitlThread`'s; termination reasons are not kept; the judge's
  score, its cache and citations.
- LLM clients: streaming, which nothing calls.
- Retrieval and indexing: similarity, text matching and cross-encoder scores; the
  file formats' parsers; the streaming variants of the repository.
- Evaluation: `RetrievalQualityGate`, which only tests build; the prompts of the
  ragas adapter; that the sampler is wired anywhere (it is not).
- Users: password hashing, the profile update, the agent tool policies (written at
  every start, never edited by the service).
- Tools and MCP clients: one connection per call and nothing kept between calls;
  their outcomes are in `HitlApproval` and `AgentTurn`, the rest is I/O.
- Not modelled at all: request plumbing, observability, configuration, deployment,
  migrations, the web client.  They are wiring, conversion and I/O; what of them
  matters (one transaction per request) is in every module.

## 9. What the project could add

Proofs: `Chunking`'s `TextKept`, by the folds' loop invariants.  Models: several
interrupts of one graph, once it is known what the checkpointer does with them.

Modules keep to what the proof system can use: parameters are constants with
named assumptions, each operation is an action, invariants are named conjuncts,
and no module declares a RECURSIVE operator.

## 10. Running

    tlc -workers 2 -config HitlSafety.cfg MCHitlApproval.tla
    tlc -workers 2 -config Orchestration.cfg MCOrchestration.tla
    tlapm HitlApprovalProofs.tla
    tlapm HitlThreadProofs.tla
    tlapm MemoryProofs.tla
    tlapm ChatTurnProofs.tla
    tlapm AgentTurnProofs.tla
    tlapm OrchestrationProofs.tla
    tlapm RequestsProofs.tla
    tlapm FiniteRecursion.tla

Each run in `PROJECT.json` names its module and config.  None takes more than
about three minutes on two workers.
