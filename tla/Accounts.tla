------------------------------ MODULE Accounts ------------------------------
(***************************************************************************)
(* Who may ask for what: registration and sign-in, the roles and their     *)
(* permissions, and the seeding of the default roles when a worker starts. *)
(*                                                                         *)
(* A person is a user row once registered.  An address is a spelling; two  *)
(* spellings are the same mailbox when Normalised maps them to the same    *)
(* one (user.py strips and lower-cases).  The database refuses a second    *)
(* row with the same stored address and a second role of the same name.    *)
(* What the code's "read", "analyze" and "generate" permissions grant is   *)
(* one permission here, "read": they are always given together.            *)
(*                                                                         *)
(* No endpoint edits a role or deactivates an account: an operator does,   *)
(* in the database, and those two actions are external.                    *)
(***************************************************************************)
EXTENDS Naturals, FiniteSets

CONSTANTS
    People,         \* the persons who use the service
    Spellings,      \* the addresses they may type
    Normalised,     \* [Spellings -> Spellings]: strip().lower()
    Workers,        \* the processes that serve requests and seed the roles
    MaxEdits,       \* bound: changes an operator makes
    MaxRestarts,    \* bound: restarts of a worker that was serving
    NoUser, NoRole  \* no row

ASSUME NormalisedAssumption ==
    /\ Normalised \in [Spellings -> Spellings]
    /\ \A s \in Spellings : Normalised[Normalised[s]] = Normalised[s]
ASSUME AccountBounds == MaxEdits \in Nat /\ MaxRestarts \in Nat

VARIABLES
    user,       \* [People -> User or NoUser]: table users
    role,       \* [RoleNames -> Role or NoRole]: tables roles, role_permissions
    signup,     \* [People -> {"none"} or the spelling found free]
    session,    \* [People -> {"none", "valid", "expired"}]: the access token
    worker,     \* [Workers -> [at, missing]]: a worker's start-up
    edits,      \* how many changes the operator made
    restarts,   \* how many workers restarted after they had served
    edited      \* [RoleNames -> Role or NoRole]: the operator's last word

accountVars == <<user, role, signup, session, worker, edits, restarts, edited>>

-----------------------------------------------------------------------------
(* Rows. *)

Actions == {"read", "send"}
RoleNames == {"member", "reader"}
DefaultRole == "member"

(* "retired" is a permission name that is no longer an action type. *)
PermissionNames == Actions \cup {"retired"}

User == [email : Spellings, active : BOOLEAN, role : RoleNames]
Role == [permissions : SUBSET PermissionNames, enabled : BOOLEAN]

DefaultRoles ==
    [r \in RoleNames |->
        IF r = DefaultRole THEN {"read", "send"} ELSE {"read"}]

NewUser(e) == [email |-> e, active |-> TRUE, role |-> DefaultRole]

Registered == {p \in People : user[p] # NoUser}

(* get_by_email: the address as it was typed, compared with the stored one. *)
HasEmail(p, e) == user[p] # NoUser /\ user[p].email = e

(* exists_by_email. *)
EmailTaken(e) == \E p \in People : HasEmail(p, e)

-----------------------------------------------------------------------------
(* What a person may do. *)

(* get_for_user: the role named in the user row. *)
RoleOf(p) == IF user[p] = NoUser THEN NoRole ELSE role[user[p].role]

\* mutant: the role's permissions are read and its enabled flag is not
GrantedThoughDisabled(p) ==
    IF RoleOf(p) = NoRole THEN {} ELSE RoleOf(p).permissions \cap Actions

(* permissions_for: read afresh each time; names that are no action go. *)
Granted(p) ==
    IF RoleOf(p) = NoRole THEN {}
    ELSE IF ~RoleOf(p).enabled THEN {} ELSE RoleOf(p).permissions \cap Actions

(* RBACPolicy.default: the tools of both agents, by the action they need. *)
AgentTools == [retriever |-> {"read"}, email_send |-> {"send"}]
AgentMay(tool, action) ==
    tool \in DOMAIN AgentTools /\ action \in AgentTools[tool]

(* RBACService.check_intent and check_action. *)
IntentAllowed(p, wanted) == wanted \subseteq Granted(p)

ActionAllowed(p, tool, action) ==
    action \in Granted(p) /\ AgentMay(tool, action)

(* get_current_user: a valid access token of a row that exists and is active. *)
Authenticated(p) ==
    session[p] = "valid" /\ user[p] # NoUser /\ user[p].active

-----------------------------------------------------------------------------
(* Registration: the look and the insert are two statements. *)

Stored(e) == Normalised[e]

LookUpAddress(p, e) ==
    /\ user[p] = NoUser /\ signup[p] = "none"
    /\ ~EmailTaken(Normalised[e])
    /\ signup' = [signup EXCEPT ![p] = e]
    /\ UNCHANGED <<user, role, session, worker, edits, restarts, edited>>

(* The unique index decides; the loser rolls back and the error goes up. *)
InsertUser(p) ==
    /\ signup[p] # "none"
    /\ user' = IF EmailTaken(Stored(signup[p])) THEN user
               ELSE [user EXCEPT ![p] = NewUser(Stored(signup[p]))]
    /\ signup' = [signup EXCEPT ![p] = "none"]
    /\ UNCHANGED <<role, session, worker, edits, restarts, edited>>

CreateAccessToken(p) == session' = [session EXCEPT ![p] = "valid"]

(* authenticate, with the right password.  A wrong one changes nothing, as  *)
(* an unknown address or an inactive account.                               *)
SignIn(p, e) ==
    /\ HasEmail(p, e) /\ user[p].active
    /\ CreateAccessToken(p)
    /\ UNCHANGED <<user, role, signup, worker, edits, restarts, edited>>

RefuseSignIn(p, e) ==
    ~(HasEmail(p, e) /\ user[p].active) /\ UNCHANGED accountVars

(* The exp claim passes.  Only access tokens are ever made, so the refresh  *)
(* endpoint, which asks for a token of type "refresh", never succeeds.      *)
TokenExpires(p) ==
    /\ session[p] = "valid"
    /\ session' = [session EXCEPT ![p] = "expired"]
    /\ UNCHANGED <<user, role, signup, worker, edits, restarts, edited>>

-----------------------------------------------------------------------------
(* Start-up of a worker: seed_default_roles, one transaction. *)

Missing(w) == {r \in RoleNames : role[r] = NoRole}

\* mutant: a role that exists is written as well, as the agent policies are
SeededOver(w) ==
    [r \in RoleNames |-> [permissions |-> DefaultRoles[r], enabled |-> TRUE]]

(* create_if_missing: only the names found missing are added. *)
Seeded(w) ==
    [r \in RoleNames |->
        IF r \in worker[w].missing
        THEN [permissions |-> DefaultRoles[r], enabled |-> TRUE]
        ELSE role[r]]

LookUpRoles(w) ==
    /\ worker[w].at = "starting"
    /\ worker' = [worker EXCEPT ![w] = [at |-> "seeding", missing |-> Missing(w)]]
    /\ UNCHANGED <<user, role, signup, session, edits, restarts, edited>>

(* A name that another worker added meanwhile violates the unique index:    *)
(* lifespan() fails, and the container's restart policy starts it again.    *)
SeedRoles(w) ==
    /\ worker[w].at = "seeding"
    /\ IF \E r \in worker[w].missing : role[r] # NoRole
       THEN /\ worker' = [worker EXCEPT ![w] = [at |-> "starting", missing |-> {}]]
            /\ UNCHANGED role
       ELSE /\ role' = Seeded(w)
            /\ worker' = [worker EXCEPT ![w] = [at |-> "serving", missing |-> {}]]
    /\ UNCHANGED <<user, signup, session, edits, restarts, edited>>

Restart(w) ==
    /\ worker[w].at = "serving" /\ restarts < MaxRestarts
    /\ restarts' = restarts + 1
    /\ worker' = [worker EXCEPT ![w] = [at |-> "starting", missing |-> {}]]
    /\ UNCHANGED <<user, role, signup, session, edits, edited>>

-----------------------------------------------------------------------------
(* The operator, in the database. *)

EditRole(r, new) ==
    /\ edits < MaxEdits /\ role[r] # NoRole
    /\ new \in {[role[r] EXCEPT !.enabled = ~@]}
                 \cup {[role[r] EXCEPT !.permissions = @ \ {n}] : n \in role[r].permissions}
                 \cup {[role[r] EXCEPT !.permissions = @ \cup {n}] :
                          n \in PermissionNames \ role[r].permissions}
    /\ edits' = edits + 1
    /\ role' = [role EXCEPT ![r] = new]
    /\ edited' = [edited EXCEPT ![r] = new]
    /\ UNCHANGED <<user, signup, session, worker, restarts>>

ChangeUser(p, new) ==
    /\ edits < MaxEdits /\ user[p] # NoUser
    /\ new \in {[user[p] EXCEPT !.active = ~@]}
                 \cup {[user[p] EXCEPT !.role = r] : r \in RoleNames \ {user[p].role}}
    /\ edits' = edits + 1
    /\ user' = [user EXCEPT ![p] = new]
    /\ UNCHANGED <<role, signup, session, worker, restarts, edited>>

-----------------------------------------------------------------------------
AccountsTypeOK ==
    /\ user \in [People -> User \cup {NoUser}]
    /\ role \in [RoleNames -> Role \cup {NoRole}]
    /\ signup \in [People -> Spellings \cup {"none"}]
    /\ session \in [People -> {"none", "valid", "expired"}]
    /\ worker \in [Workers -> [at : {"starting", "seeding", "serving"},
                               missing : SUBSET RoleNames]]
    /\ edits \in 0..MaxEdits /\ restarts \in 0..MaxRestarts
    /\ edited \in [RoleNames -> Role \cup {NoRole}]

(* Two registrations with two spellings of one mailbox, whichever look and  *)
(* insert come first, leave one account: UserService._normalize_email() and *)
(* the unique index, not exists_by_email(), which both may pass.            *)
OneAccountPerAddress ==
    \A p, q \in Registered :
        Normalised[user[p].email] = Normalised[user[q].email] => p = q

(* What an operator made of a role survives every start of every worker,    *)
(* one that looked before the change and seeds after it included            *)
(* (wiring/factories/roles.py: an existing role is left exactly as it is).  *)
SeedingKeepsEdits ==
    \A r \in RoleNames : edited[r] # NoRole => role[r] = edited[r]
=============================================================================
