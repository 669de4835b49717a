--------------------------- MODULE ComplianceLog ----------------------------
(***************************************************************************)
(* The audit trail: who writes a row in which transaction, the database    *)
(* connections a request holds while it does, and the retention purge with *)
(* the immutability trigger it switches off.                               *)
(*                                                                         *)
(* A request's rows are of two kinds.  The received and returned rows, a   *)
(* decision's and a memory operation's are flushed in the request's own    *)
(* transaction (ComplianceLogService).  The plan, retrieval, tool,         *)
(* decision and guardrail rows of a turn are each written and committed in *)
(* a session of their own (StandaloneComplianceLogWriter), for which the   *)
(* request, already holding a connection, needs a second one.              *)
(*                                                                         *)
(* PostgreSQL is modelled by the two lock modes that meet here: an INSERT  *)
(* takes ROW EXCLUSIVE on the table until its transaction ends, ALTER      *)
(* TABLE .. TRIGGER needs SHARE ROW EXCLUSIVE, and a new transaction's     *)
(* INSERT queues behind a waiting ALTER TABLE.                             *)
(***************************************************************************)
EXTENDS Naturals, FiniteSets, FiniteSetsExt

CONSTANTS
    Requests,   \* the requests that write rows
    PoolSize,   \* connections of the application's engine
    OldRows     \* rows older than any retention

ASSUME PoolAssumption == PoolSize \in Nat \ {0} /\ IsFiniteSet(Requests)

VARIABLES
    log,        \* the committed rows
    unsaved,    \* [Requests -> rows of the request's open transaction]
    held,       \* [Requests -> 0..2]: connections the request holds
    retention,  \* "unset" or "days": COMPLIANCE_LOG_RETENTION_DAYS
    guarded,    \* the trigger, as committed in the catalog
    purge       \* [at, off]: the purge script and the trigger as it left it

logVars == <<log, unsaved, held, retention, guarded, purge>>

-----------------------------------------------------------------------------
(* Rows: the event, who acted, and the request it belongs to. *)

Row(t, event, actor) == [of |-> t, event |-> event, actor |-> actor]

RequestReceived(t)    == Row(t, "request_received", "user")
ResponseReturned(t)   == Row(t, "response_returned", "agent")
PlanCreated(t)        == Row(t, "plan_created", "agent")
RetrievalPerformed(t) == Row(t, "retrieval_performed", "agent")
ToolCallExecuted(t)   == Row(t, "tool_call_executed", "agent")
AgentDecision(t)      == Row(t, "agent_decision", "agent")
GuardrailFired(t)     == Row(t, "guardrail_fired", "agent")
ApprovalDecision(t)   == Row(t, "hitl_approval_decision", "user")
MemoryOperation(t)    == Row(t, "memory_operation", "user")

(* The methods of StandaloneComplianceLogWriter a turn calls. *)
Standalone(t) == {PlanCreated(t), RetrievalPerformed(t), ToolCallExecuted(t),
                  AgentDecision(t), GuardrailFired(t)}

Rows(t) == Standalone(t)
           \cup {RequestReceived(t), ResponseReturned(t),
                 ApprovalDecision(t), MemoryOperation(t)}

(* The requests are of now, and so are their rows. *)
ASSUME OldRowsAssumption == \A t \in Requests : OldRows \cap Rows(t) = {}

-----------------------------------------------------------------------------
(* Connections and the table's lock. *)

Free == PoolSize - SumFunction(held)

Connect(t) == Free > 0 /\ held' = [held EXCEPT ![t] = @ + 1]
Release(t) == held' = [held EXCEPT ![t] = @ - 1]

PurgeHolds == purge.at \in {"disabled", "deleted"}
PurgeWaits == purge.at = "waiting"

(* A transaction that has inserted holds its lock; another has to queue. *)
InsertsFreely(t) == unsaved[t] # {} \/ ~(PurgeHolds \/ PurgeWaits)
TableIsFree == \A t \in Requests : unsaved[t] = {}

-----------------------------------------------------------------------------
(* A row in the request's own transaction: flushed, not committed. *)

Flush(t, row) ==
    /\ InsertsFreely(t)
    /\ unsaved' = [unsaved EXCEPT ![t] = @ \cup {row}]
    /\ UNCHANGED <<log, held, retention, guarded, purge>>

(* The request's commit saves its rows and gives the connection back. *)
CommitWith(t, rows) ==
    /\ InsertsFreely(t)
    /\ log' = log \cup unsaved[t] \cup rows
    /\ unsaved' = [unsaved EXCEPT ![t] = {}]
    /\ held' = [held EXCEPT ![t] = 0]
    /\ UNCHANGED <<retention, guarded, purge>>

(* get_db_session: any exception rolls back, and the session is closed. *)
Rollback(t) ==
    /\ unsaved' = [unsaved EXCEPT ![t] = {}]
    /\ held' = [held EXCEPT ![t] = 0]
    /\ UNCHANGED <<log, retention, guarded, purge>>

-----------------------------------------------------------------------------
(* A row in a session of its own: the connection, the insert and commit. *)

OpenWriter(t) ==
    Connect(t) /\ UNCHANGED <<log, unsaved, retention, guarded, purge>>

(* The writer's transaction has inserted nothing yet, so it queues. *)
WriteStandalone(t, row) ==
    /\ ~(PurgeHolds \/ PurgeWaits)
    /\ log' = log \cup {row}
    /\ Release(t)
    /\ UNCHANGED <<unsaved, retention, guarded, purge>>

(* _run swallows every failure: of the insert, or of the pool's timeout. *)
LoseStandalone(t) ==
    Release(t) /\ UNCHANGED <<log, unsaved, retention, guarded, purge>>

\* mutant: the engine waits for a connection without a limit
NeverTimesOut == FALSE

(* pool_timeout: nobody waits for a connection longer than this. *)
PoolTimesOut == Free = 0

-----------------------------------------------------------------------------
(* scripts/python/purge_compliance_log.py, on the admin engine. *)

StartPurge ==
    /\ purge.at = "none" /\ retention # "unset"
    /\ purge' = [purge EXCEPT !.at = "waiting"]
    /\ UNCHANGED <<log, unsaved, held, retention, guarded>>

(* The script's transaction is open: the catalog still shows the trigger on. *)
GuardSeenByOthers == guarded

DisableGuard ==
    /\ PurgeWaits /\ TableIsFree
    /\ purge' = [at |-> "disabled", off |-> TRUE]
    /\ guarded' = GuardSeenByOthers
    /\ UNCHANGED <<log, unsaved, held, retention>>

(* delete_older_than: what is older than the cutoff, and nothing else. *)
Deleted == log \cap OldRows

(* The delete and the enabling are still one transaction: kept on commit. *)
DeleteOld ==
    /\ purge.at = "disabled" /\ purge.off
    /\ purge' = [at |-> "deleted", off |-> FALSE]
    /\ UNCHANGED <<log, unsaved, held, retention, guarded>>

CommitPurge ==
    /\ purge.at = "deleted"
    /\ purge' = [purge EXCEPT !.at = "done"]
    /\ guarded' = ~purge.off
    /\ log' = log \ Deleted
    /\ UNCHANGED <<unsaved, held, retention>>

(* A failed statement, or an operator who stops the script: a rollback. *)
AbortPurge ==
    /\ PurgeWaits \/ PurgeHolds
    /\ purge' = [at |-> "done", off |-> FALSE]
    /\ UNCHANGED <<log, unsaved, held, retention, guarded>>

-----------------------------------------------------------------------------
LogTypeOK ==
    /\ log \subseteq (UNION {Rows(t) : t \in Requests}) \cup OldRows
    /\ \A t \in Requests : unsaved[t] \subseteq Rows(t) \ Standalone(t)
    /\ held \in [Requests -> 0..2] /\ SumFunction(held) <= PoolSize
    /\ retention \in {"unset", "days"} /\ guarded \in BOOLEAN
    /\ purge \in [at : {"none", "waiting", "disabled", "deleted", "done"},
                  off : BOOLEAN]

(* The received row and the returned row of a turn are committed together   *)
(* or not at all (chat.py: the one commit covers both); only what standalone*)
(* writers wrote may outlive a failed turn.                                 *)
RowsComplete ==
    \A t \in Requests : RequestReceived(t) \in log <=> ResponseReturned(t) \in log

(* Nobody but the purge ever sees the immutability trigger switched off,    *)
(* however the purge ends (purge_compliance_log.py: disable, delete and     *)
(* enable are one transaction).                                             *)
GuardStays == guarded

(* No step of anybody removes a row that is not older than the retention.   *)
OnlyOldRowsPurged == log \ log' \subseteq OldRows
=============================================================================
