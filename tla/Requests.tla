------------------------------ MODULE Requests ------------------------------
(***************************************************************************)
(* The path of a request through sign-up, authentication, the two checks   *)
(* of what its person may do, and the audit trail, with the operator, the  *)
(* starting workers and the retention purge beside it.                     *)
(*                                                                         *)
(* The dependency get_db_session is one session per request: the first     *)
(* query, in get_current_user, takes a connection that the request keeps   *)
(* until it commits or fails.  Reading the role and writing a standalone   *)
(* row each need a second connection.                                      *)
(*                                                                         *)
(* Of the turn itself only the order of these calls is here; what the      *)
(* agents, the approval and the saved conversation do is in the other      *)
(* modules.                                                                *)
(***************************************************************************)
EXTENDS Accounts, ComplianceLog

ASSUME OneRequestEach == Requests = People

VARIABLES
    job,     \* [People -> Jobs]: what a person's request is
    at,      \* [People -> Stages]: how far it has come
    row,     \* [People -> [row, next]]: the standalone row being written
    ask,     \* [People -> Asks]: what the turn comes to, whoever decides it
    ready    \* [People -> Tools or "nothing"]: the gated call prepared

vars == <<accountVars, logVars, job, at, row, ask, ready>>
turnVars == <<job, at, row, ask, ready>>

Jobs == {"none", "signup", "turn", "decide", "memory"}
Tools == {"email_send", "mcp_tool"}
Stages == {"idle", "known", "received", "authorised", "planned", "called",
           "worked", "acted", "judged", "reviewed", "writing", "flushed", "ended"}

(* The classifier's capabilities, the rows of the agents' work and of the   *)
(* final decision, and the gated call they decide on: fixed at the start,   *)
(* as nothing here depends on how they come about.                          *)
Asks == [capabilities : SUBSET Actions,
         uses : {"nothing", "failed tool", "evidence"},
         final : BOOLEAN, harmful : BOOLEAN,
         call : Tools \cup {"nothing"}]

NoRow == [row |-> "none", next |-> "none"]

Serving == \E w \in Workers : worker[w].at = "serving"
Ended(p) == at[p] = "ended"
Open(p) == at[p] \notin {"idle", "ended"}

Goto(p, s) == at' = [at EXCEPT ![p] = s]
KeepTurn == UNCHANGED <<job, row, ask, ready>>

-----------------------------------------------------------------------------
(* Any request: its end by an exception, a disconnect or its worker's end. *)

Abandon(p) ==
    /\ Rollback(p) /\ Goto(p, "ended")
    /\ ready' = [ready EXCEPT ![p] = "nothing"]
    /\ row' = [row EXCEPT ![p] = NoRow]
    /\ UNCHANGED <<accountVars, job, ask>>

Fail(p) == Open(p) /\ Abandon(p)

(* The first query: a connection and the person's row, or a refusal. *)
Authenticate(p) ==
    /\ job[p] \in {"turn", "decide", "memory"} /\ at[p] = "idle" /\ Serving
    /\ IF Authenticated(p) THEN OpenWriter(p) /\ Goto(p, "known")
       ELSE UNCHANGED logVars /\ Goto(p, "ended")
    /\ KeepTurn /\ UNCHANGED accountVars

AuthenticationTimesOut(p) ==
    /\ job[p] \in {"turn", "decide", "memory"} /\ at[p] = "idle" /\ Serving
    /\ PoolTimesOut
    /\ Goto(p, "ended") /\ KeepTurn /\ UNCHANGED <<accountVars, logVars>>

-----------------------------------------------------------------------------
(* A sign-up: the form, then the sign-in.  It compares the address as typed *)
(* with the stored one, so a spelling that was registered and is not in     *)
(* lower case is refused.                                                   *)

SignUp(p) ==
    /\ job[p] = "signup" /\ Serving
    /\ \/ /\ at[p] = "idle" /\ signup[p] = "none"
          /\ \E e \in Spellings : LookUpAddress(p, e)
          /\ UNCHANGED at
       \/ /\ at[p] = "idle" /\ InsertUser(p)
          /\ Goto(p, IF user'[p] = NoUser THEN "ended" ELSE "known")
       \/ /\ at[p] = "known"
          /\ \E e \in Spellings : SignIn(p, e) \/ RefuseSignIn(p, e)
          /\ Goto(p, "ended")
    /\ KeepTurn /\ UNCHANGED logVars

(* Short requests that write one row in their own transaction: a decision   *)
(* on an approval, an operation on the person's saved memories.             *)
OwnRow(p) == IF job[p] = "decide" THEN ApprovalDecision(p) ELSE MemoryOperation(p)

FlushOwnRow(p) ==
    /\ job[p] \in {"decide", "memory"} /\ at[p] = "known"
    /\ Flush(p, OwnRow(p)) /\ Goto(p, "flushed")
    /\ KeepTurn /\ UNCHANGED accountVars

CommitOwnRow(p) ==
    /\ job[p] \in {"decide", "memory"} /\ at[p] = "flushed"
    /\ CommitWith(p, {}) /\ Goto(p, "ended")
    /\ KeepTurn /\ UNCHANGED accountVars

-----------------------------------------------------------------------------
(* A turn. *)

\* mutant: the received row is committed by itself
SaveMessageApart(p) ==
    /\ InsertsFreely(p) /\ log' = log \cup {RequestReceived(p)}
    /\ UNCHANGED <<unsaved, held, retention, guarded, purge>>

(* _persist_user_message: the question and its row, in the turn's session. *)
SaveMessage(p) == Flush(p, RequestReceived(p))

Receive(p) ==
    /\ job[p] = "turn" /\ at[p] = "known"
    /\ SaveMessage(p) /\ Goto(p, "received")
    /\ KeepTurn /\ UNCHANGED accountVars

(* authorize_request: the classifier's capabilities, then the role in a     *)
(* session of its own, given back at once; nothing asked, nothing read.     *)
AuthorizeRequest(p) ==
    /\ at[p] = "received" /\ (ask[p].capabilities # {} => Free > 0)
    /\ IF IntentAllowed(p, ask[p].capabilities)
       THEN Goto(p, "authorised") /\ KeepTurn /\ UNCHANGED <<accountVars, logVars>>
       ELSE Abandon(p)

(* prepare: the action's row, then authorize_action with a fresh read.      *)
PrepareAction(p) ==
    /\ at[p] = "worked" /\ ask[p].call # "nothing" /\ Free > 0
    /\ IF ActionAllowed(p, ask[p].call, "send")
       THEN /\ Goto(p, "acted")
            /\ ready' = [ready EXCEPT ![p] = ask[p].call]
            /\ UNCHANGED <<accountVars, logVars, job, row, ask>>
       ELSE Abandon(p)

(* A check that finds no connection in time raises, and the turn fails. *)
CheckTimesOut(p) ==
    /\ \/ at[p] = "received" /\ ask[p].capabilities # {}
       \/ at[p] = "worked" /\ ask[p].call # "nothing"
    /\ PoolTimesOut /\ Abandon(p)

-----------------------------------------------------------------------------
(* The standalone rows of a turn, at the points the orchestrator and the    *)
(* agents write them, and the stage the turn goes on to.                    *)

RowsAt(p) ==
    CASE at[p] = "authorised"                             -> {PlanCreated(p)}
      [] at[p] = "planned" /\ ask[p].uses # "nothing"     -> {ToolCallExecuted(p)}
      [] at[p] = "called"  /\ ask[p].uses = "evidence"    -> {RetrievalPerformed(p)}
      [] at[p] = "acted"   /\ ask[p].final                -> {AgentDecision(p)}
      [] at[p] = "judged"  /\ ask[p].harmful              -> {GuardrailFired(p)}
      [] OTHER                                            -> {}

After(s) == CASE s = "authorised" -> "planned"
              [] s = "planned"    -> "called"
              [] s = "called"     -> "worked"
              [] s = "worked"     -> "acted"
              [] s = "acted"      -> "judged"
              [] s = "judged"     -> "reviewed"

StartRow(p, r) ==
    /\ r \in RowsAt(p) /\ OpenWriter(p)
    /\ Goto(p, "writing")
    /\ row' = [row EXCEPT ![p] = [row |-> r, next |-> After(at[p])]]
    /\ UNCHANGED <<accountVars, job, ask, ready>>

RowEnded(p) ==
    /\ at[p] = "writing" /\ Goto(p, row[p].next)
    /\ row' = [row EXCEPT ![p] = NoRow]
    /\ UNCHANGED <<accountVars, job, ask, ready>>

WriteRow(p) == RowEnded(p) /\ WriteStandalone(p, row[p].row)

(* Nothing makes a write that waits for the table's lock fail. *)
LoseRow(p) == RowEnded(p) /\ LoseStandalone(p)

(* No connection for the writer in time: swallowed, the turn goes on. *)
RowTimesOut(p) ==
    /\ RowsAt(p) # {} /\ PoolTimesOut
    /\ Goto(p, After(at[p]))
    /\ KeepTurn /\ UNCHANGED <<accountVars, logVars>>

(* No tool was used, or it brought no evidence; no agent's answer was final, *)
(* the guardrails passed it; no gated call is asked for.                    *)
PassesOn(p) ==
    /\ \/ at[p] \in {"planned", "called", "acted", "judged"} /\ RowsAt(p) = {}
       \/ at[p] = "worked" /\ ask[p].call = "nothing"
    /\ Goto(p, After(at[p]))
    /\ KeepTurn /\ UNCHANGED <<accountVars, logVars>>

(* _persist_assistant_response: the answer's row and the turn's commit. *)
Respond(p) ==
    /\ at[p] = "reviewed"
    /\ CommitWith(p, {ResponseReturned(p)}) /\ Goto(p, "ended")
    /\ KeepTurn /\ UNCHANGED accountVars

-----------------------------------------------------------------------------
(* The steps of a request that are taken without anybody's failing. *)
Step(p) ==
    \/ SignUp(p) \/ Authenticate(p) \/ AuthenticationTimesOut(p)
    \/ FlushOwnRow(p) \/ CommitOwnRow(p) \/ Receive(p)
    \/ AuthorizeRequest(p) \/ PrepareAction(p) \/ CheckTimesOut(p)
    \/ \E r \in RowsAt(p) : StartRow(p, r)
    \/ WriteRow(p) \/ RowTimesOut(p) \/ PassesOn(p) \/ Respond(p)

Operator ==
    /\ \/ \E r \in RoleNames : \E new \in Role : EditRole(r, new)
       \/ \E p \in People : \E new \in User : ChangeUser(p, new)
       \/ \E p \in People : TokenExpires(p)
    /\ UNCHANGED <<logVars, turnVars>>

Start(w) ==
    (LookUpRoles(w) \/ SeedRoles(w)) /\ UNCHANGED <<logVars, turnVars>>

Purge ==
    (DisableGuard \/ DeleteOld \/ CommitPurge) /\ UNCHANGED <<accountVars, turnVars>>

Next ==
    \/ \E p \in People : Step(p) \/ Fail(p) \/ LoseRow(p)
    \/ \E w \in Workers :
          Start(w) \/ (Restart(w) /\ UNCHANGED <<logVars, turnVars>>)
    \/ Operator
    \/ Purge
    \/ (StartPurge \/ AbortPurge) /\ UNCHANGED <<accountVars, turnVars>>

(* A fresh database with the workers starting, or one in use; who signs up  *)
(* has no row yet, and the others are signed in.                            *)
Init ==
    /\ job \in [People -> Jobs]
    /\ \E state \in {"starting", "serving"} :
         /\ worker = [w \in Workers |-> [at |-> state, missing |-> {}]]
         /\ role = [r \in RoleNames |->
                       IF state = "starting" THEN NoRole
                       ELSE [permissions |-> DefaultRoles[r], enabled |-> TRUE]]
    /\ \E typed \in [People -> Spellings] :
         /\ \A p, q \in People : Normalised[typed[p]] = Normalised[typed[q]] => p = q
         /\ user = [p \in People |->
                       IF job[p] = "signup" THEN NoUser
                       ELSE NewUser(Stored(typed[p]))]
    /\ session = [p \in People |-> IF job[p] = "signup" THEN "none" ELSE "valid"]
    /\ signup = [p \in People |-> "none"]
    /\ edits = 0 /\ restarts = 0 /\ edited = [r \in RoleNames |-> NoRole]
    /\ log = OldRows /\ unsaved = [p \in People |-> {}]
    /\ held = [p \in People |-> 0]
    /\ retention \in {"unset", "days"} /\ guarded = TRUE
    /\ purge = [at |-> "none", off |-> FALSE]
    /\ at = [p \in People |-> "idle"] /\ row = [p \in People |-> NoRow]
    /\ ask \in [People -> Asks] /\ ready = [p \in People |-> "nothing"]

(* A request's task, a starting worker and a running purge are scheduled;   *)
(* nobody owes a failure, an edit, a restart or a purge.                    *)
Fairness ==
    /\ \A p \in People : WF_vars(Step(p))
    /\ \A w \in Workers : WF_vars(Start(w))
    /\ WF_vars(Purge)

Spec == Init /\ [][Next]_vars /\ Fairness

-----------------------------------------------------------------------------
TypeOK ==
    /\ AccountsTypeOK /\ LogTypeOK
    /\ job \in [People -> Jobs] /\ at \in [People -> Stages]
    /\ \A p \in People :
          at[p] = "writing" <=> row[p].next # NoRow.next
    /\ ask \in [People -> Asks]
    /\ ready \in [People -> Tools \cup {"nothing"}]

(* A request is let in and a gated call prepared only on what the person's  *)
(* role grants at that very moment: a role disabled, or a permission taken, *)
(* after the first check stops the second (check_action reads the role      *)
(* afresh, and a disabled role grants nothing).                             *)
ActsWithinRole ==
    \A p \in People :
        LET may == {a \in Actions : /\ user[p] # NoUser /\ role[user[p].role] # NoRole
                                    /\ role[user[p].role].enabled
                                    /\ a \in role[user[p].role].permissions}
        IN  /\ at'[p] = "authorised" /\ at[p] # "authorised" => ask[p].capabilities \subseteq may
            /\ ready'[p] \in Tools \ {ready[p]} =>
                  ready'[p] = "email_send" /\ "send" \in may

(* Every request ends, however many others hold the connections it needs a  *)
(* second one from (the pool's time-out), unless a purge waits for the      *)
(* table for ever: it waits for an open turn's row while that turn's        *)
(* standalone row waits behind it.                                          *)
RequestsEnd ==
    <>[](~PurgeWaits) => \A p \in People : Open(p) ~> Ended(p)

(* Workers that start together and find the same roles missing cost each    *)
(* other a restart, not the service (create_if_missing()).                  *)
WorkersServe == \A w \in Workers : worker[w].at # "serving" ~> worker[w].at = "serving"

(* The accounts and roles that requests are checked against: one account    *)
(* for each mailbox, and every role as its operator left it.                *)
AccountsRight == OneAccountPerAddress /\ SeedingKeepsEdits

(* The compliance log under turns, failures and purges.                     *)
AuditRight == TypeOK /\ RowsComplete /\ GuardStays

(* No step removes a row still to be kept, or acts beyond the person's role. *)
StepsAllowed == [][ActsWithinRole /\ OnlyOldRowsPurged]_vars

(* Requests end and workers serve.                                          *)
AllServed == RequestsEnd /\ WorkersServe
=============================================================================
