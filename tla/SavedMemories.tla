------------------------------ MODULE SavedMemories ------------------------------
(***************************************************************************)
(* The rows of one user's long-term memory under everything that reads and *)
(* writes them: the write phases of extractions, which remember, update    *)
(* and forget facts; chat turns, which quote some and extend their life;   *)
(* and the user, who lists and deletes them.                               *)
(*                                                                         *)
(* Every actor but the user is one transaction at READ COMMITTED: others   *)
(* see its changes when it commits, and whoever wants a row it changed, or *)
(* the content of one, waits until it ends.                                *)
(***************************************************************************)
EXTENDS Integers, Sequences, FiniteSets, SequencesExt

CONSTANTS
    Writers,    \* extractions, at most one write phase of each at a time
    Chats,      \* chat turns
    Contents,   \* normalised contents that passed the guard, one hash each
    Profile,    \* the contents of kind "profile"
    Cost,       \* tokens a content takes in the prompt
    Teams,      \* bound: who is active together
    MaxIds,     \* bound: rows ever inserted
    MaxDay,     \* bound: days
    Retention,  \* USER_MEMORY_RETENTION_DAYS
    Limit,      \* USER_MEMORY_MAX_PER_USER
    BatchSize,  \* bound: operations of an extraction in each team
    TopK,       \* USER_MEMORY_RETRIEVAL_TOP_K
    MaxProfile, \* USER_MEMORY_MAX_PROFILE_ITEMS
    MaxTokens   \* USER_MEMORY_MAX_PROMPT_TOKENS

ASSUME SavedAssumption ==
    /\ Profile \subseteq Contents /\ Cost \in [Contents -> Nat]
    /\ Writers \cap Chats = {} /\ Teams \subseteq SUBSET (Writers \cup Chats)
    /\ \A T \in Teams : IsFiniteSet(T)
    /\ BatchSize \in [Teams -> Nat]
    /\ {MaxIds, MaxDay, Limit, TopK, MaxTokens, Retention, MaxProfile} \subseteq Nat

Ids == 1 .. MaxIds
Txs == Writers \cup Chats

VARIABLES
    team,   \* the actors of this behaviour
    today,
    rows,   \* rows[i]: the committed row with id i, {} when there is none
    tx,     \* each actor's transaction
    audit,  \* rows stored less rows removed, by the committed compliance entries
    hist    \* history: rows removed, and expired rows that were said again

savedVars == <<team, today, rows, tx, audit, hist>>

Expiry(day) == day + Retention

NoOperation == [id |-> 0, content |-> {}, at |-> 0]
NoTx == [pc |-> "idle", own |-> <<>>, known |-> {}, todo |-> {}, ops |-> 0, op |-> NoOperation,
         audit |-> 0]

SavedInit ==
    /\ team \in Teams
    /\ today = 0
    /\ rows = [i \in Ids |-> {}]
    /\ tx = [x \in team |-> NoTx]
    /\ audit = 0
    /\ hist = [gone |-> {}, revived |-> {}]

\* The rows as a transaction sees them.
View(x) == [i \in Ids |-> IF i \in DOMAIN tx[x].own THEN tx[x].own[i] ELSE rows[i]]
Existing(V) == {i \in Ids : V[i] # {}}
Row(V, i) == CHOOSE r \in V[i] : TRUE
Expired(V) == {i \in Existing(V) : Row(V, i).until <= today}
VisibleIn(V) == Existing(V) \ Expired(V)

\* find_active_by_hash takes no account of the expiry.
WithContent(V, c) == {i \in Existing(V) : Row(V, i).content = c}

\* The rows a transaction has changed, and the one an update of its content has
\* locked before it looks at the index.
Held(x) == DOMAIN tx[x].own \cup (IF tx[x].pc = "rekey" THEN {tx[x].op.id} ELSE {})
Holders(x, i) == {y \in team \ {x} : i \in Held(y)}
HeldRows == UNION {Held(y) : y \in team}

\* Those who are changing a row with this content, whose index entry an insert
\* must wait for.
ContentHolders(x, c) ==
    {y \in team \ {x} : \E i \in Held(y) : \E r \in View(y)[i] \cup rows[i] : r.content = c}

(***************************************************************************)
(* An extraction's write phase.                                            *)
(***************************************************************************)
Set(x, t) == tx' = [tx EXCEPT ![x] = t]

\* purge_expired commits on its own before the model is asked; it waits for the
\* rows it would delete.
Purge ==
    /\ Expired(rows) \cap HeldRows = {}
    /\ rows' = [i \in Ids |-> IF i \in Expired(rows) THEN {} ELSE rows[i]]
    /\ audit' = audit - Cardinality(Expired(rows))
    /\ hist' = [hist EXCEPT !.gone = @ \cup Expired(rows)]

ReadRelated(x) ==
    /\ tx[x].pc = "idle"
    /\ Purge
    /\ Set(x, [NoTx EXCEPT !.pc = "writing", !.known = VisibleIn(rows)])
    /\ UNCHANGED <<team, today>>

MayStart(x) == tx[x].pc = "writing" /\ tx[x].ops < BatchSize[team]
Start(x, pc, id, c) ==
    Set(x, [tx[x] EXCEPT !.pc = pc, !.op = [id |-> id, content |-> c, at |-> today]])
Rejected(x) == Set(x, [tx[x] EXCEPT !.ops = @ + 1])

Full(x) == Cardinality(VisibleIn(View(x))) >= Limit

FreeIds ==
    Ids \ (Existing(rows) \cup hist.gone \cup HeldRows \cup {tx[x].op.id : x \in team})

\* remember: a duplicate is touched, a full store refuses, and the content is
\* embedded before it is inserted.
Remember(x, c) ==
    /\ MayStart(x)
    /\ LET same == WithContent(View(x), c)
       IN \/ same # {} /\ Start(x, "touch", CHOOSE i \in same : TRUE, {c})
          \/ same = {} /\ Full(x) /\ Rejected(x)
          \/ /\ same = {} /\ ~Full(x) /\ FreeIds # {}
             /\ Start(x, "insert", CHOOSE i \in FreeIds : \A j \in FreeIds : i <= j, {c})
    /\ UNCHANGED <<team, today, rows, audit, hist>>

Change(x, i, pc, c) ==
    /\ MayStart(x) /\ i \in tx[x].known
    /\ IF View(x)[i] = {} THEN Rejected(x) ELSE Start(x, pc, i, c)
    /\ UNCHANGED <<team, today, rows, audit, hist>>

Update(x, i, c) == Change(x, i, "update", {c})
Forget(x, i) == Change(x, i, "delete", {})

WaitsFor(x) ==
    LET t == tx[x]
        byRow == Holders(x, t.op.id)
        byContent == UNION {ContentHolders(x, c) : c \in t.op.content}
    IN CASE t.pc \in {"insert", "rekey"} -> byContent
         [] t.pc \in {"touch", "delete", "update"} -> byRow
         [] t.pc = "touching" /\ \A i \in t.todo : Holders(x, i) # {} ->
                UNION {Holders(x, i) : i \in t.todo}
         [] OTHER -> {}

Own(x, i, r) ==
    LET own == tx[x].own
    IN [tx[x] EXCEPT !.own = [j \in DOMAIN own \cup {i} |-> IF j = i THEN r ELSE own[j]]]
OpDone(t) == [t EXCEPT !.pc = "writing", !.ops = @ + 1, !.op = NoOperation]

\* hist: a row that had expired, to this transaction at least, is said again.
SaidAgain(x, i) == hist' = [hist EXCEPT !.revived = @ \cup ({i} \cap Expired(View(x)))]

Touched(x, i, at) == {[r EXCEPT !.until = Expiry(at)] : r \in View(x)[i]}

\* Refreshing a row that is gone raises, and the operation is rolled back.
Touch(x) ==
    LET i == tx[x].op.id IN
    /\ tx[x].pc = "touch" /\ WaitsFor(x) = {}
    /\ Set(x, OpDone(IF Touched(x, i, tx[x].op.at) = {} THEN tx[x]
                     ELSE Own(x, i, Touched(x, i, tx[x].op.at))))
    /\ SaidAgain(x, i)
    /\ UNCHANGED <<team, today, rows, audit>>

InsertAlways(x, i, c) == TRUE                                       \* mutant
\* The unique index of a user's active contents.
Unique(x, i, c) == WithContent(View(x), c) \subseteq {i}

\* The loser of two inserts returns the winner's row and records nothing.
Insert(x) ==
    LET op == tx[x].op IN
    /\ tx[x].pc = "insert" /\ WaitsFor(x) = {}
    /\ \E c \in op.content :
           Set(x, OpDone(IF ~Unique(x, op.id, c) THEN tx[x]
               ELSE [Own(x, op.id, {[content |-> c, until |-> Expiry(op.at)]})
                        EXCEPT !.audit = @ + 1]))
    /\ UNCHANGED <<team, today, rows, audit, hist>>

LockForUpdate(x) ==
    /\ tx[x].pc = "update" /\ WaitsFor(x) = {}
    /\ Set(x, IF View(x)[tx[x].op.id] = {} THEN OpDone(tx[x]) ELSE [tx[x] EXCEPT !.pc = "rekey"])
    /\ UNCHANGED <<team, today, rows, audit, hist>>

ApplyUpdate(x) ==
    LET op == tx[x].op IN
    /\ tx[x].pc = "rekey" /\ WaitsFor(x) = {}
    /\ \E c \in op.content :
           IF ~Unique(x, op.id, c)
           THEN Set(x, OpDone(tx[x])) /\ UNCHANGED hist
           ELSE /\ Set(x, OpDone(Own(x, op.id, {[content |-> c, until |-> Expiry(op.at)]})))
                /\ SaidAgain(x, op.id)
    /\ UNCHANGED <<team, today, rows, audit>>

\* A row that is gone by now is not found, and nothing is recorded.
ApplyForget(x) ==
    LET i == tx[x].op.id IN
    /\ tx[x].pc = "delete" /\ WaitsFor(x) = {}
    /\ Set(x, OpDone(IF View(x)[i] = {} THEN tx[x]
                     ELSE [Own(x, i, {}) EXCEPT !.audit = @ - 1]))
    /\ UNCHANGED <<team, today, rows, audit, hist>>

CommitOwn(x) ==
    /\ LET V == View(x) IN
       /\ rows' = V
       /\ audit' = audit + tx[x].audit
       /\ hist' = [gone |-> hist.gone \cup (Existing(rows) \ Existing(V)),
                   revived |-> hist.revived \cup (Expired(rows) \cap VisibleIn(V))]
    /\ Set(x, NoTx)
    /\ UNCHANGED <<team, today>>

CommitWrites(x) == tx[x].pc = "writing" /\ CommitOwn(x)

\* The write fails, or the process stops.
Rollback(x) ==
    /\ tx[x].pc # "idle"
    /\ Set(x, NoTx)
    /\ UNCHANGED <<team, today, rows, audit, hist>>

(***************************************************************************)
(* A chat turn: what it quotes, and the rows it touches and keeps locked   *)
(* until it ends.                                                          *)
(***************************************************************************)
\* list_live_by_kind: the facts used last first.
Before(V, i, j) ==
    \/ Row(V, i).until > Row(V, j).until
    \/ Row(V, i).until = Row(V, j).until /\ i > j
Sorted(S, Precedes(_, _)) ==
    CHOOSE s \in SetToSeqs(S) : \A k, l \in 1 .. Cardinality(S) : k < l => Precedes(s[k], s[l])
ProfileFirst(V) ==
    LET P == {i \in VisibleIn(V) : Row(V, i).content \in Profile}
        ordered == Sorted(P, LAMBDA i, j : Before(V, i, j))
    IN SubSeq(ordered, 1, IF Len(ordered) < MaxProfile THEN Len(ordered) ELSE MaxProfile)

\* search_similar, ranked with the bonus for recent use: any ranking of any of
\* the live rows.
Rankings(V) == UNION {SetToSeqs(S) : S \in SUBSET VisibleIn(V)}

\* _select: the profile, then what is ranked highest, up to TopK, cut where the
\* tokens run out.
AddAll(profile, ranked) == profile \o ranked                        \* mutant
AddRanked(profile, ranked) ==
    profile \o Sorted(Range(ranked) \ Range(profile), LAMBDA i, j :
        \E k, l \in DOMAIN ranked : k < l /\ ranked[k] = i /\ ranked[l] = j)

Tokens(V, s) == FoldLeft(LAMBDA n, i : n + Cost[Row(V, i).content], 0, s)
Fits(V, s) == Len(s) <= TopK /\ Tokens(V, s) <= MaxTokens
Select(V, ranked) ==
    LET chosen == AddRanked(ProfileFirst(V), ranked)
        n == CHOOSE n \in 0 .. Len(chosen) :
                 /\ Fits(V, SubSeq(chosen, 1, n))
                 /\ n < Len(chosen) => ~Fits(V, SubSeq(chosen, 1, n + 1))
    IN SubSeq(chosen, 1, n)

Retrieve(x) ==
    /\ tx[x].pc = "idle"
    /\ \E ranked \in Rankings(rows) :
           Set(x, [NoTx EXCEPT !.pc = "touching", !.todo = Range(Select(rows, ranked)),
                               !.op = [NoOperation EXCEPT !.at = today]])
    /\ UNCHANGED <<team, today, rows, audit, hist>>

\* One UPDATE for all of them, row after row in the order the database finds
\* them; those deleted meanwhile are passed over.
TouchNext(x, i) ==
    /\ tx[x].pc = "touching" /\ i \in tx[x].todo /\ Holders(x, i) = {}
    /\ LET touched == Touched(x, i, tx[x].op.at) IN
       Set(x, [(IF touched = {} THEN tx[x] ELSE Own(x, i, touched)) EXCEPT !.todo = @ \ {i}])
    /\ SaidAgain(x, i)
    /\ UNCHANGED <<team, today, rows, audit>>

EndTurn(x) == tx[x].pc = "touching" /\ tx[x].todo = {} /\ CommitOwn(x)

(***************************************************************************)
(* Deadlocks: the database aborts the statement of one that waits in a     *)
(* cycle.  An extraction's savepoint undoes that operation, a turn's undoes *)
(* the whole retrieval, and it goes on without memories.                   *)
(***************************************************************************)
InCycle(x) == \E n \in 1 .. Cardinality(team) :
    \E p \in [0 .. n -> team] :
        p[0] = x /\ p[n] = x /\ \A k \in 1 .. n : p[k] \in WaitsFor(p[k - 1])

RetryStatement(t) == t                                              \* mutant
AfterAbort(t) == IF t.pc = "touching" THEN [NoTx EXCEPT !.pc = "touching"] ELSE OpDone(t)

AbortDeadlocked(x) ==
    /\ WaitsFor(x) # {} /\ InCycle(x)
    /\ Set(x, AfterAbort(tx[x]))
    /\ UNCHANGED <<team, today, rows, audit, hist>>

(***************************************************************************)
(* The user, and time.                                                     *)
(***************************************************************************)
Deleted(i) == rows[i] # {}

\* delete_memory: the row it found may be gone by the time it is deleted.
DeleteMemory(i) ==
    /\ i \in Existing(rows) \cup hist.gone /\ i \notin HeldRows
    /\ rows' = [rows EXCEPT ![i] = {}]
    /\ audit' = IF Deleted(i) THEN audit - 1 ELSE audit
    /\ hist' = [hist EXCEPT !.gone = @ \cup {i}]
    /\ UNCHANGED <<team, today, tx>>

ListMemories == Expired(rows) # {} /\ Purge /\ UNCHANGED <<team, today, tx>>

NextDay == today < MaxDay /\ today' = today + 1 /\ UNCHANGED <<team, rows, tx, audit, hist>>

Statement(x) ==
    \/ Touch(x)
    \/ Insert(x)
    \/ LockForUpdate(x)
    \/ ApplyUpdate(x)
    \/ ApplyForget(x)
    \/ CommitWrites(x)
    \/ \E i \in Ids : TouchNext(x, i)
    \/ EndTurn(x)
    \/ AbortDeadlocked(x)

SavedNext ==
    \/ \E x \in Writers \cap team :
           \/ ReadRelated(x)
           \/ \E c \in Contents : Remember(x, c) \/ \E i \in Ids : Update(x, i, c)
           \/ \E i \in Ids : Forget(x, i)
    \/ \E x \in Chats \cap team : Retrieve(x)
    \/ \E x \in team : Statement(x) \/ Rollback(x)
    \/ \E i \in Ids : DeleteMemory(i)
    \/ ListMemories
    \/ NextDay

\* A transaction that was begun goes on to its end; the database lets those who
\* wait for a row have it in the order they came, so none is passed over for ever.
SavedFairness == \A x \in Txs : SF_savedVars(x \in team /\ Statement(x))

SavedSpec == SavedInit /\ [][SavedNext]_savedVars /\ SavedFairness

(***************************************************************************)
(* Properties.                                                             *)
(***************************************************************************)
Busy(x) == x \in team /\ tx[x].pc # "idle"
RowType == [content : Contents, until : Nat]

\* Every variable has its type.
SavedTypeOK ==
    /\ today \in 0 .. MaxDay
    /\ \A i \in Ids : rows[i] \subseteq RowType /\ Cardinality(rows[i]) <= 1
    /\ \A x \in team :
           /\ tx[x].pc \in {"idle", "writing", "touch", "insert", "update", "rekey", "delete",
                           "touching"}
           /\ DOMAIN tx[x].own \subseteq Ids
           /\ tx[x].known \cup tx[x].todo \subseteq Ids
           /\ tx[x].ops \in 0 .. BatchSize[team]
    /\ audit \in Int
    /\ hist.gone \cup hist.revived \subseteq Ids

\* However extractions overlap, no two rows of the user have the same content
\* (the check in remember is not enough, the index decides).
OneRowPerContent == \A c \in Contents : Cardinality(WithContent(rows, c)) <= 1

\* The compliance log accounts for every row: stored less removed are the rows
\* there are, whatever was refused, rolled back or deleted by someone else first.
AuditMatches == audit = Cardinality(Existing(rows))

\* The limit is counted before the insert and not under an exclusive lock: each
\* further extraction may add a batch of its own, but no more than the limit, and
\* an expired row that is said again before it is purged is not counted at all.
LimitOvershoot ==
    LET others == Cardinality(Writers \cap team) - 1
    IN Cardinality(VisibleIn(rows)) <=
           Limit + others * Min({Limit, BatchSize[team]}) + Cardinality(hist.revived)

\* What a turn quotes is never quoted twice, keeps to both limits, has the
\* profile first and leaves out nothing that came before what it quotes.
SelectionRight == (\A x \in team : ~Busy(x)) =>
    \A ranked \in Rankings(rows) :
        LET s == Select(rows, ranked)
            inOrder == ProfileFirst(rows) \o ranked
        IN /\ IsInjective(s) /\ Fits(rows, s)
           /\ \A k \in 1 .. Len(s), m \in DOMAIN inOrder :
                  (\A l \in 1 .. m : inOrder[l] # s[k]) => inOrder[m] \in Range(s)
           /\ Range(s) # Range(inOrder) =>
                  \E i \in Range(inOrder) \ Range(s) : ~Fits(rows, Append(s, i))

\* A row that was deleted, purged or forgotten is never there again: no touch of
\* a turn or an extraction that still knows it brings it back.
GoneForGood == \A i \in hist.gone : rows[i] = {}

\* The table under any overlap of extractions, turns and deletions: one row for
\* each content, every row accounted for, none back from the dead, few too many.
RowsRight == SavedTypeOK /\ OneRowPerContent /\ AuditMatches /\ LimitOvershoot /\ GoneForGood

\* Every transaction ends, although extractions and turns change rows in any
\* order and wait for each other.
TransactionsEnd == \A x \in Txs : Busy(x) ~> ~Busy(x)
================================================================================
