--------------------------- MODULE RequestsProofs ---------------------------
(***************************************************************************)
(* Requests, proved for any people, workers, addresses, pool and bounds:   *)
(* one account for each mailbox, the operator's word on every role, steps  *)
(* that stay within the person's role and the retention, and an audit      *)
(* trail that is whole and guarded within the pool's connections.          *)
(***************************************************************************)
EXTENDS Requests, FiniteRecursion

\* Rows are stored with the address normalised, and no two with the same one.
StoredNormal == \A p \in Registered : Normalised[user[p].email] = user[p].email
StoredOnce   == \A p, q \in Registered : user[p].email = user[q].email => p = q

AccountShape ==
    /\ user \in [People -> User \cup {NoUser}]
    /\ signup \in [People -> Spellings \cup {"none"}]
    /\ role \in [RoleNames -> Role \cup {NoRole}]
    /\ edited \in [RoleNames -> Role \cup {NoRole}]

AccountInv == AccountShape /\ StoredNormal /\ StoredOnce /\ SeedingKeepsEdits

-----------------------------------------------------------------------------
LEMMA StoredIsNormal ==
  \A e \in Spellings : Stored(e) \in Spellings /\ Normalised[Stored(e)] = Stored(e)
  BY NormalisedAssumption DEF Stored

\* Whoever leaves the four tables alone leaves what is said of them.
LEMMA AccountsLeftAlone ==
  ASSUME AccountInv, UNCHANGED <<user, signup, role, edited>>
  PROVE  AccountInv'
  BY DEF AccountInv, AccountShape, StoredNormal, StoredOnce, SeedingKeepsEdits, Registered

\* A free spelling is noted: no row changes.
LEMMA LookUpAddressKeeps ==
  ASSUME AccountInv, NEW p \in People, NEW e \in Spellings, LookUpAddress(p, e)
  PROVE  AccountInv'
  <1>1. signup' \in [People -> Spellings \cup {"none"}]
    BY DEF AccountInv, AccountShape, LookUpAddress
  <1> QED
    BY <1>1 DEF AccountInv, AccountShape, StoredNormal, StoredOnce, SeedingKeepsEdits, Registered,
                LookUpAddress

\* A row is added only if its address is nobody's.
LEMMA InsertUserKeeps ==
  ASSUME AccountInv, NEW p \in People, InsertUser(p)
  PROVE  AccountInv'
  <1> DEFINE e == signup[p]
  <1>1. e \in Spellings
    BY DEF AccountInv, AccountShape, InsertUser
  <1>2. Stored(e) \in Spellings /\ Normalised[Stored(e)] = Stored(e)
    BY <1>1, StoredIsNormal
  <1>3. signup' \in [People -> Spellings \cup {"none"}] /\ UNCHANGED <<role, edited>>
    BY DEF AccountInv, AccountShape, InsertUser
  <1>4. CASE EmailTaken(Stored(e))
    BY <1>3, <1>4 DEF InsertUser, AccountInv, AccountShape, StoredNormal, StoredOnce,
                      SeedingKeepsEdits, Registered
  <1>5. CASE ~EmailTaken(Stored(e))
    <2>1. user' = [user EXCEPT ![p] = NewUser(Stored(e))]
      BY <1>5 DEF InsertUser
    <2>2. NewUser(Stored(e)) \in User /\ NewUser(Stored(e)).email = Stored(e)
      BY <1>2 DEF NewUser, User, RoleNames, DefaultRole
    <2>3. user' \in [People -> User \cup {NoUser}]
      BY <2>1, <2>2 DEF AccountInv, AccountShape
    <2>4. \A q \in Registered : user[q].email # Stored(e)
      BY <1>5 DEF EmailTaken, HasEmail, Registered
    <2>5. \A q \in People : user'[q] = IF q = p THEN NewUser(Stored(e)) ELSE user[q]
      BY <2>1 DEF AccountInv, AccountShape
    <2>6. StoredNormal'
      BY <1>2, <2>2, <2>5 DEF AccountInv, StoredNormal, Registered
    <2>7. StoredOnce'
      BY <2>2, <2>4, <2>5 DEF AccountInv, StoredOnce, Registered
    <2> QED
      BY <1>3, <2>3, <2>6, <2>7 DEF AccountInv, AccountShape, SeedingKeepsEdits
  <1> QED
    BY <1>4, <1>5

\* The operator moves a person to another role, or switches the account: the
\* address stays.
LEMMA ChangeUserKeeps ==
  ASSUME AccountInv, NEW p \in People, NEW new \in User, ChangeUser(p, new)
  PROVE  AccountInv'
  <1>1. user[p] \in User /\ user[p] # NoUser
    BY DEF AccountInv, AccountShape, ChangeUser
  <1>2. new.email = user[p].email
    BY <1>1 DEF ChangeUser, User
  <1>3. user' = [user EXCEPT ![p] = new] /\ UNCHANGED <<signup, role, edited>>
    BY DEF ChangeUser
  <1>4. user' \in [People -> User \cup {NoUser}]
    BY <1>3 DEF AccountInv, AccountShape
  <1>5. \A q \in People : user'[q] = IF q = p THEN new ELSE user[q]
    BY <1>3 DEF AccountInv, AccountShape
  <1>6. StoredNormal' /\ StoredOnce'
    BY <1>1, <1>2, <1>5 DEF AccountInv, StoredNormal, StoredOnce, Registered
  <1> QED
    BY <1>3, <1>4, <1>6 DEF AccountInv, AccountShape, SeedingKeepsEdits

LEMMA EditRoleKeeps ==
  ASSUME AccountInv, NEW r \in RoleNames, NEW new \in Role, EditRole(r, new)
  PROVE  AccountInv'
  <1>1. /\ role' = [role EXCEPT ![r] = new] /\ edited' = [edited EXCEPT ![r] = new]
        /\ UNCHANGED <<user, signup>>
    BY DEF EditRole
  <1>2. /\ role' \in [RoleNames -> Role \cup {NoRole}]
        /\ edited' \in [RoleNames -> Role \cup {NoRole}]
    BY <1>1 DEF AccountInv, AccountShape
  <1>3. SeedingKeepsEdits'
    BY <1>1 DEF AccountInv, AccountShape, SeedingKeepsEdits
  <1> QED
    BY <1>1, <1>2, <1>3 DEF AccountInv, AccountShape, StoredNormal, StoredOnce, Registered

\* A role that an operator has edited exists, so no worker finds it missing and
\* still adds it: it would violate the unique index.
LEMMA SeedRolesKeeps ==
  ASSUME AccountInv, NEW w \in Workers, SeedRoles(w)
  PROVE  AccountInv'
  <1>1. UNCHANGED <<user, signup, edited>>
    BY DEF SeedRoles
  <1>2. CASE UNCHANGED role
    BY <1>1, <1>2, AccountsLeftAlone
  <1>3. CASE role' = Seeded(w) /\ \A r \in worker[w].missing : role[r] = NoRole
    <2>1. \A r \in RoleNames :
             [permissions |-> DefaultRoles[r], enabled |-> TRUE] \in Role
      BY DEF DefaultRoles, Role, PermissionNames, Actions
    <2>2. role' \in [RoleNames -> Role \cup {NoRole}]
      BY <1>3, <2>1 DEF Seeded, AccountInv, AccountShape
    <2>3. \A r \in RoleNames : role[r] # NoRole => role'[r] = role[r]
      BY <1>3 DEF Seeded
    <2>4. SeedingKeepsEdits'
      BY <1>1, <2>3 DEF AccountInv, SeedingKeepsEdits
    <2> QED
      BY <1>1, <2>2, <2>4 DEF AccountInv, AccountShape, StoredNormal, StoredOnce, Registered
  <1> QED
    BY <1>2, <1>3 DEF SeedRoles

-----------------------------------------------------------------------------
\* A sign-up looks, inserts or signs in; every other step of a request leaves
\* the accounts alone.
LEMMA SignUpKeeps ==
  ASSUME AccountInv, NEW p \in People, SignUp(p)
  PROVE  AccountInv'
  <1>1. ASSUME NEW e \in Spellings, LookUpAddress(p, e) PROVE AccountInv'
    BY <1>1, LookUpAddressKeeps
  <1>2. CASE InsertUser(p)
    BY <1>2, InsertUserKeeps
  <1>3. ASSUME NEW e \in Spellings, SignIn(p, e) \/ RefuseSignIn(p, e) PROVE AccountInv'
    BY <1>3, AccountsLeftAlone DEF SignIn, RefuseSignIn, accountVars
  <1> QED
    BY <1>1, <1>2, <1>3 DEF SignUp

LEMMA OtherStepsKeep ==
  ASSUME NEW p \in People, Step(p), ~SignUp(p)
  PROVE  UNCHANGED accountVars
  <1>1. ASSUME Authenticate(p) \/ AuthenticationTimesOut(p) PROVE UNCHANGED accountVars
    BY <1>1 DEF Authenticate, AuthenticationTimesOut
  <1>2. ASSUME FlushOwnRow(p) \/ CommitOwnRow(p) \/ Receive(p) PROVE UNCHANGED accountVars
    BY <1>2 DEF FlushOwnRow, CommitOwnRow, Receive
  <1>3. ASSUME AuthorizeRequest(p) PROVE UNCHANGED accountVars
    BY <1>3 DEF AuthorizeRequest, Abandon
  <1>4. ASSUME PrepareAction(p) PROVE UNCHANGED accountVars
    BY <1>4 DEF PrepareAction, Abandon
  <1>5. ASSUME CheckTimesOut(p) PROVE UNCHANGED accountVars
    BY <1>5 DEF CheckTimesOut, Abandon
  <1>6. ASSUME NEW r, StartRow(p, r) PROVE UNCHANGED accountVars
    BY <1>6 DEF StartRow
  <1>7. ASSUME WriteRow(p) \/ RowTimesOut(p) PROVE UNCHANGED accountVars
    BY <1>7 DEF WriteRow, RowEnded, RowTimesOut
  <1>8. ASSUME PassesOn(p) \/ Respond(p) PROVE UNCHANGED accountVars
    BY <1>8 DEF PassesOn, Respond
  <1> QED
    BY <1>1, <1>2, <1>3, <1>4, <1>5, <1>6, <1>7, <1>8 DEF Step

LEMMA AccountStep ==
  ASSUME AccountInv, [Next]_vars
  PROVE  AccountInv'
  <1>1. ASSUME UNCHANGED accountVars PROVE AccountInv'
    BY <1>1, AccountsLeftAlone DEF accountVars
  <1>2. ASSUME NEW p \in People, Step(p) PROVE AccountInv'
    BY <1>1, <1>2, SignUpKeeps, OtherStepsKeep
  <1>3. ASSUME NEW p \in People, Fail(p) \/ LoseRow(p) PROVE AccountInv'
    BY <1>1, <1>3 DEF Fail, Abandon, LoseRow, RowEnded
  <1>4. ASSUME NEW w \in Workers, LookUpRoles(w) \/ Restart(w) PROVE AccountInv'
    BY <1>4, AccountsLeftAlone DEF LookUpRoles, Restart
  <1>5. ASSUME NEW w \in Workers, SeedRoles(w) PROVE AccountInv'
    BY <1>5, SeedRolesKeeps
  <1>6. ASSUME NEW r \in RoleNames, NEW new \in Role, EditRole(r, new) PROVE AccountInv'
    BY <1>6, EditRoleKeeps
  <1>7. ASSUME NEW p \in People, NEW new \in User, ChangeUser(p, new) PROVE AccountInv'
    BY <1>7, ChangeUserKeeps
  <1>8. ASSUME NEW p \in People, TokenExpires(p) PROVE AccountInv'
    BY <1>8, AccountsLeftAlone DEF TokenExpires
  <1>9. ASSUME Operator PROVE AccountInv'
    BY <1>6, <1>7, <1>8, <1>9 DEF Operator
  <1>10. ASSUME Purge PROVE AccountInv'
    BY <1>1, <1>10 DEF Purge
  <1>11. ASSUME UNCHANGED vars PROVE AccountInv'
    BY <1>1, <1>11 DEF vars
  <1> QED
    BY <1>1, <1>2, <1>3, <1>4, <1>5, <1>9, <1>10, <1>11 DEF Next, Start

LEMMA AccountStart == Init => AccountInv
  <1> SUFFICES ASSUME Init PROVE AccountInv
    OBVIOUS
  <1>1. PICK typed \in [People -> Spellings] :
           /\ \A p, q \in People : Normalised[typed[p]] = Normalised[typed[q]] => p = q
           /\ user = [p \in People |-> IF job[p] = "signup" THEN NoUser
                                      ELSE NewUser(Stored(typed[p]))]
    BY DEF Init
  <1>2. \A p \in People : /\ NewUser(Stored(typed[p])) \in User
                          /\ NewUser(Stored(typed[p])).email = Stored(typed[p])
    BY <1>1, StoredIsNormal DEF NewUser, User, RoleNames, DefaultRole
  <1>3. user \in [People -> User \cup {NoUser}]
    BY <1>1, <1>2
  <1>4. \A p \in Registered : user[p] = NewUser(Stored(typed[p]))
    BY <1>1 DEF Registered
  <1>5. StoredNormal
    BY <1>1, <1>2, <1>4, StoredIsNormal DEF StoredNormal, Registered
  <1>6. StoredOnce
    BY <1>1, <1>2, <1>4 DEF StoredOnce, Registered, Stored
  <1>7. \A r \in RoleNames : [permissions |-> DefaultRoles[r], enabled |-> TRUE] \in Role
    BY DEF DefaultRoles, Role, PermissionNames, Actions
  <1>8. role \in [RoleNames -> Role \cup {NoRole}]
    BY <1>7 DEF Init
  <1>9. /\ signup \in [People -> Spellings \cup {"none"}]
        /\ edited = [r \in RoleNames |-> NoRole]
    BY DEF Init
  <1> QED
    BY <1>3, <1>5, <1>6, <1>8, <1>9 DEF AccountInv, AccountShape, SeedingKeepsEdits

\* However registrations, starting workers and an operator's edits interleave,
\* a mailbox has one account (UserService._normalize_email and the unique index)
\* and a role is as its operator left it (create_if_missing).
THEOREM AccountsStayRight == Spec => []AccountsRight
  <1>1. Init => AccountInv
    BY AccountStart
  <1>2. AccountInv /\ [Next]_vars => AccountInv'
    BY AccountStep
  <1>3. AccountInv => AccountsRight
    BY DEF AccountInv, AccountsRight, StoredNormal, StoredOnce, OneAccountPerAddress
  <1> QED
    BY <1>1, <1>2, <1>3, PTL DEF Spec

-----------------------------------------------------------------------------
\* Where a turn may go on to once a standalone row is written: never back to
\* before the first check of the person's role.
LaterStages == {"planned", "called", "worked", "acted", "judged", "reviewed"}

TurnShape ==
    /\ at \in [People -> Stages]
    /\ ready \in [People -> Tools \cup {"nothing"}]
    /\ row = [p \in People |-> row[p]]
    /\ ask \in [People -> Asks]

WritingGoesOn == \A p \in People : at[p] = "writing" => row[p].next \in LaterStages

TurnInv == TurnShape /\ WritingGoesOn

\* What a step of a turn may do, besides leaving the turn alone: go on to a stage
\* that needs no permission, be let in, or prepare a call.
GoesOn(p) == \E s \in Stages \ {"authorised", "writing"} : Goto(p, s) /\ UNCHANGED ready
LetIn(p) ==
    /\ Goto(p, "authorised") /\ IntentAllowed(p, ask[p].capabilities)
    /\ UNCHANGED <<ready, row>>
Prepares(p) ==
    /\ Goto(p, "acted") /\ ActionAllowed(p, ask[p].call, "send")
    /\ ready' = [ready EXCEPT ![p] = ask[p].call]
    /\ ask[p].call \in Tools /\ UNCHANGED row
GivesUp(p) == Abandon(p)
BeginsRow(p) ==
    /\ Goto(p, "writing") /\ UNCHANGED ready
    /\ \E r : \E s \in LaterStages : row' = [row EXCEPT ![p] = [row |-> r, next |-> s]]

LEMMA StagesAfter ==
  /\ \A p : RowsAt(p) # {} =>
        at[p] \in {"authorised", "planned", "called", "acted", "judged"}
  /\ \A s \in {"authorised", "planned", "called", "worked", "acted", "judged"} :
        After(s) \in LaterStages
  BY DEF RowsAt, After, LaterStages

LEMMA LaterAreStages == LaterStages \subseteq Stages \ {"authorised", "writing"}
  BY DEF LaterStages, Stages

\* Each step of a request is one of these.
LEMMA StepKinds ==
  ASSUME TurnInv, NEW p \in People,
         Step(p) \/ Fail(p) \/ LoseRow(p)
  PROVE  \/ UNCHANGED <<at, ready, row>>
         \/ GoesOn(p) /\ (UNCHANGED row \/ row' = [row EXCEPT ![p] = NoRow])
         \/ LetIn(p) \/ Prepares(p) \/ GivesUp(p) \/ BeginsRow(p)
  <1> DEFINE Kind == \/ UNCHANGED <<at, ready, row>>
                     \/ GoesOn(p) /\ (UNCHANGED row \/ row' = [row EXCEPT ![p] = NoRow])
                     \/ LetIn(p) \/ Prepares(p) \/ GivesUp(p) \/ BeginsRow(p)
  <1> USE DEF KeepTurn
  <1>1. ASSUME SignUp(p) PROVE Kind
    BY <1>1 DEF SignUp, GoesOn, Stages
  <1>2. ASSUME Authenticate(p) \/ AuthenticationTimesOut(p) PROVE Kind
    BY <1>2 DEF Authenticate, AuthenticationTimesOut, GoesOn, Stages
  <1>3. ASSUME FlushOwnRow(p) \/ CommitOwnRow(p) \/ Receive(p) PROVE Kind
    BY <1>3 DEF FlushOwnRow, CommitOwnRow, Receive, GoesOn, Stages
  <1>4. ASSUME AuthorizeRequest(p) PROVE Kind
    BY <1>4 DEF AuthorizeRequest, LetIn, GivesUp
  <1>5. ASSUME PrepareAction(p) PROVE Kind
    <2>1. ask[p].call \in Tools
      BY <1>5 DEF PrepareAction, Asks, TurnInv, TurnShape
    <2> QED
      BY <1>5, <2>1 DEF PrepareAction, Prepares, GivesUp
  <1>6. ASSUME CheckTimesOut(p) \/ Fail(p) PROVE Kind
    BY <1>6 DEF CheckTimesOut, Fail, GivesUp
  <1>7. ASSUME NEW r, StartRow(p, r) PROVE Kind
    <2>1. After(at[p]) \in LaterStages
      BY <1>7, StagesAfter DEF StartRow
    <2> QED
      BY <1>7, <2>1 DEF StartRow, BeginsRow
  <1>8. ASSUME WriteRow(p) \/ LoseRow(p) PROVE Kind
    <2>1. RowEnded(p)
      BY <1>8 DEF WriteRow, LoseRow
    <2>2. row[p].next \in Stages \ {"authorised", "writing"}
      BY <2>1, LaterAreStages DEF RowEnded, TurnInv, WritingGoesOn
    <2> QED
      BY <2>1, <2>2 DEF RowEnded, GoesOn
  <1>9. ASSUME RowTimesOut(p) \/ PassesOn(p) PROVE Kind
    <2>1. at[p] \in {"authorised", "planned", "called", "worked", "acted", "judged"}
      BY <1>9, StagesAfter DEF RowTimesOut, PassesOn
    <2>2. After(at[p]) \in Stages \ {"authorised", "writing"}
      BY <2>1, StagesAfter, LaterAreStages
    <2>3. Goto(p, After(at[p])) /\ UNCHANGED <<ready, row>>
      BY <1>9 DEF RowTimesOut, PassesOn
    <2> QED
      BY <2>2, <2>3 DEF GoesOn
  <1>10. ASSUME Respond(p) PROVE Kind
    BY <1>10 DEF Respond, GoesOn, Stages
  <1> QED
    BY <1>1, <1>2, <1>3, <1>4, <1>5, <1>6, <1>7, <1>8, <1>9, <1>10 DEF Step

LEMMA AskStays ==
  ASSUME NEW p \in People, Step(p) \/ Fail(p) \/ LoseRow(p)
  PROVE  UNCHANGED ask
  <1> USE DEF KeepTurn
  <1>1. ASSUME NEW r, StartRow(p, r) PROVE UNCHANGED ask
    BY <1>1 DEF StartRow
  <1>2. ASSUME \/ SignUp(p) \/ Authenticate(p) \/ AuthenticationTimesOut(p)
               \/ FlushOwnRow(p) \/ CommitOwnRow(p) \/ Receive(p)
               \/ RowTimesOut(p) \/ PassesOn(p) \/ Respond(p)
        PROVE  UNCHANGED ask
    BY <1>2 DEF SignUp, Authenticate, AuthenticationTimesOut, FlushOwnRow, CommitOwnRow, Receive,
                RowTimesOut, PassesOn, Respond
  <1>3. ASSUME AuthorizeRequest(p) \/ PrepareAction(p) \/ CheckTimesOut(p) \/ Fail(p)
        PROVE  UNCHANGED ask
    BY <1>3 DEF AuthorizeRequest, PrepareAction, CheckTimesOut, Fail, Abandon
  <1>4. ASSUME WriteRow(p) \/ LoseRow(p) PROVE UNCHANGED ask
    BY <1>4 DEF WriteRow, LoseRow, RowEnded
  <1> QED
    BY <1>1, <1>2, <1>3, <1>4 DEF Step

\* Turns that nobody takes further stay as they are.
LEMMA TurnsLeftAlone ==
  ASSUME TurnInv, UNCHANGED <<at, ready, row, ask>>
  PROVE  TurnInv' /\ ActsWithinRole
  BY DEF TurnInv, TurnShape, WritingGoesOn, ActsWithinRole

\* What a role grants is what its enabled row holds.
LEMMA GrantedIsHeld ==
  \A p : \A a \in Granted(p) :
     /\ user[p] # NoUser /\ role[user[p].role] # NoRole
     /\ role[user[p].role].enabled /\ a \in role[user[p].role].permissions
  BY DEF Granted, RoleOf

LEMMA OnlyEmailSends == \A tool \in Tools : AgentMay(tool, "send") => tool = "email_send"
  BY DEF Tools, AgentMay, AgentTools

LEMMA GoesOnKeeps ==
  ASSUME TurnInv, UNCHANGED ask, NEW p \in People, GoesOn(p),
         UNCHANGED row \/ row' = [row EXCEPT ![p] = NoRow]
  PROVE  TurnInv' /\ ActsWithinRole
  <1>1. PICK s \in Stages \ {"authorised", "writing"} :
           at' = [at EXCEPT ![p] = s] /\ UNCHANGED ready
    BY DEF GoesOn, Goto
  <1>2. \A q \in People : at'[q] = IF q = p THEN s ELSE at[q]
    BY <1>1 DEF TurnInv, TurnShape
  <1>3. \A q \in People : q # p => row'[q] = row[q]
    BY DEF TurnInv, TurnShape
  <1>4. TurnShape'
    BY <1>1 DEF TurnInv, TurnShape
  <1>5. WritingGoesOn'
    BY <1>2, <1>3 DEF TurnInv, WritingGoesOn
  <1>6. ActsWithinRole
    BY <1>1, <1>2 DEF ActsWithinRole
  <1> QED
    BY <1>4, <1>5, <1>6 DEF TurnInv

LEMMA LetInKeeps ==
  ASSUME TurnInv, UNCHANGED ask, NEW p \in People, LetIn(p)
  PROVE  TurnInv' /\ ActsWithinRole
  <1>1. \A q \in People : at'[q] = IF q = p THEN "authorised" ELSE at[q]
    BY DEF LetIn, Goto, TurnInv, TurnShape
  <1>2. TurnInv'
    BY <1>1 DEF LetIn, Goto, TurnInv, TurnShape, WritingGoesOn, Stages
  <1>3. ask[p].capabilities \subseteq Granted(p) /\ ask[p].capabilities \subseteq Actions
    BY DEF LetIn, IntentAllowed, TurnInv, TurnShape, Asks
  <1>4. ActsWithinRole
    BY <1>1, <1>3, GrantedIsHeld DEF ActsWithinRole, LetIn
  <1> QED
    BY <1>2, <1>4

LEMMA PreparesKeeps ==
  ASSUME TurnInv, UNCHANGED ask, NEW p \in People, Prepares(p)
  PROVE  TurnInv' /\ ActsWithinRole
  <1>1. /\ \A q \in People : at'[q] = IF q = p THEN "acted" ELSE at[q]
        /\ \A q \in People : ready'[q] = IF q = p THEN ask[p].call ELSE ready[q]
    BY DEF Prepares, Goto, TurnInv, TurnShape
  <1>2. TurnInv'
    BY <1>1 DEF Prepares, Goto, TurnInv, TurnShape, WritingGoesOn, Stages
  <1>3. ask[p].call = "email_send" /\ "send" \in Granted(p)
    BY OnlyEmailSends DEF Prepares, ActionAllowed
  <1>4. "send" \in Actions
    BY DEF Actions
  <1>5. ActsWithinRole
    BY <1>1, <1>3, <1>4, GrantedIsHeld DEF ActsWithinRole
  <1> QED
    BY <1>2, <1>5

LEMMA GivesUpKeeps ==
  ASSUME TurnInv, UNCHANGED ask, NEW p \in People, GivesUp(p)
  PROVE  TurnInv' /\ ActsWithinRole
  <1>1. /\ \A q \in People : at'[q] = IF q = p THEN "ended" ELSE at[q]
        /\ \A q \in People : ready'[q] = IF q = p THEN "nothing" ELSE ready[q]
        /\ \A q \in People : q # p => row'[q] = row[q]
    BY DEF GivesUp, Abandon, Goto, TurnInv, TurnShape
  <1>2. TurnShape'
    BY DEF GivesUp, Abandon, Goto, TurnInv, TurnShape, Stages
  <1>3. WritingGoesOn'
    BY <1>1 DEF TurnInv, WritingGoesOn
  <1>4. ActsWithinRole
    BY <1>1 DEF ActsWithinRole, Tools
  <1> QED
    BY <1>2, <1>3, <1>4 DEF TurnInv

LEMMA BeginsRowKeeps ==
  ASSUME TurnInv, UNCHANGED ask, NEW p \in People, BeginsRow(p)
  PROVE  TurnInv' /\ ActsWithinRole
  <1>1. PICK r, s : s \in LaterStages /\ row' = [row EXCEPT ![p] = [row |-> r, next |-> s]]
    BY DEF BeginsRow
  <1>2. /\ \A q \in People : at'[q] = IF q = p THEN "writing" ELSE at[q]
        /\ \A q \in People : row'[q] = IF q = p THEN [row |-> r, next |-> s] ELSE row[q]
    BY <1>1 DEF BeginsRow, Goto, TurnInv, TurnShape
  <1>3. TurnShape'
    BY <1>1 DEF BeginsRow, Goto, TurnInv, TurnShape, Stages
  <1>4. WritingGoesOn'
    BY <1>1, <1>2 DEF TurnInv, WritingGoesOn
  <1>5. ActsWithinRole
    BY <1>2 DEF ActsWithinRole, BeginsRow
  <1> QED
    BY <1>3, <1>4, <1>5 DEF TurnInv

LEMMA RequestStep ==
  ASSUME TurnInv, NEW p \in People, Step(p) \/ Fail(p) \/ LoseRow(p)
  PROVE  TurnInv' /\ ActsWithinRole
  BY AskStays, StepKinds, TurnsLeftAlone, GoesOnKeeps, LetInKeeps, PreparesKeeps, GivesUpKeeps,
     BeginsRowKeeps

LEMMA TurnStep ==
  ASSUME TurnInv, [Next]_vars
  PROVE  TurnInv' /\ ActsWithinRole
  <1>1. ASSUME UNCHANGED turnVars PROVE TurnInv' /\ ActsWithinRole
    BY <1>1, TurnsLeftAlone DEF turnVars
  <1>2. ASSUME NEW p \in People, Step(p) \/ Fail(p) \/ LoseRow(p)
        PROVE  TurnInv' /\ ActsWithinRole
    BY <1>2, RequestStep
  <1>3. ASSUME NEW w \in Workers, Start(w) \/ (Restart(w) /\ UNCHANGED <<logVars, turnVars>>)
        PROVE  UNCHANGED turnVars
    BY <1>3 DEF Start
  <1>4. ASSUME Operator \/ Purge PROVE UNCHANGED turnVars
    BY <1>4 DEF Operator, Purge
  <1>5. ASSUME UNCHANGED vars PROVE UNCHANGED turnVars
    BY <1>5 DEF vars, turnVars
  <1> QED
    BY <1>1, <1>2, <1>3, <1>4, <1>5 DEF Next

LEMMA TurnStart == Init => TurnInv
  BY DEF Init, TurnInv, TurnShape, WritingGoesOn, Stages

-----------------------------------------------------------------------------
\* A request only adds rows; the purge takes what is older than the retention.
LEMMA RequestsOnlyAdd ==
  ASSUME NEW p \in People, Step(p) \/ Fail(p) \/ LoseRow(p)
  PROVE  log \subseteq log'
  <1>1. ASSUME UNCHANGED logVars PROVE log \subseteq log'
    BY <1>1 DEF logVars
  <1>2. ASSUME Abandon(p) PROVE log \subseteq log'
    BY <1>2 DEF Abandon, Rollback
  <1>3. ASSUME SignUp(p) \/ AuthenticationTimesOut(p) \/ RowTimesOut(p) \/ PassesOn(p)
        PROVE  log \subseteq log'
    BY <1>1, <1>3 DEF SignUp, AuthenticationTimesOut, RowTimesOut, PassesOn
  <1>4. ASSUME Authenticate(p) PROVE log \subseteq log'
    BY <1>1, <1>4 DEF Authenticate, OpenWriter
  <1>5. ASSUME FlushOwnRow(p) \/ Receive(p) PROVE log \subseteq log'
    BY <1>5 DEF FlushOwnRow, Receive, SaveMessage, Flush
  <1>6. ASSUME CommitOwnRow(p) \/ Respond(p) PROVE log \subseteq log'
    BY <1>6 DEF CommitOwnRow, Respond, CommitWith
  <1>7. ASSUME AuthorizeRequest(p) \/ PrepareAction(p) \/ CheckTimesOut(p) \/ Fail(p)
        PROVE  log \subseteq log'
    BY <1>1, <1>2, <1>7 DEF AuthorizeRequest, PrepareAction, CheckTimesOut, Fail, logVars
  <1>8. ASSUME NEW r, StartRow(p, r) PROVE log \subseteq log'
    BY <1>8 DEF StartRow, OpenWriter
  <1>9. ASSUME WriteRow(p) \/ LoseRow(p) PROVE log \subseteq log'
    BY <1>9 DEF WriteRow, WriteStandalone, LoseRow, LoseStandalone
  <1> QED
    BY <1>2, <1>3, <1>4, <1>5, <1>6, <1>7, <1>8, <1>9 DEF Step

LEMMA LogStep ==
  ASSUME [Next]_vars
  PROVE  OnlyOldRowsPurged
  <1>1. ASSUME log \subseteq log' PROVE OnlyOldRowsPurged
    BY <1>1 DEF OnlyOldRowsPurged
  <1>2. ASSUME UNCHANGED logVars PROVE OnlyOldRowsPurged
    BY <1>2 DEF OnlyOldRowsPurged, logVars
  <1>3. ASSUME NEW p \in People, Step(p) \/ Fail(p) \/ LoseRow(p) PROVE OnlyOldRowsPurged
    BY <1>1, <1>3, RequestsOnlyAdd
  <1>4. ASSUME Purge PROVE OnlyOldRowsPurged
    BY <1>4 DEF Purge, DisableGuard, DeleteOld, CommitPurge, Deleted, OnlyOldRowsPurged
  <1>5. ASSUME StartPurge \/ AbortPurge PROVE OnlyOldRowsPurged
    BY <1>5 DEF StartPurge, AbortPurge, OnlyOldRowsPurged
  <1>6. ASSUME NEW w \in Workers, Start(w) \/ (Restart(w) /\ UNCHANGED <<logVars, turnVars>>)
        PROVE  UNCHANGED logVars
    BY <1>6 DEF Start
  <1>7. ASSUME Operator PROVE UNCHANGED logVars
    BY <1>7 DEF Operator
  <1>8. ASSUME UNCHANGED vars PROVE UNCHANGED logVars
    BY <1>8 DEF vars, logVars
  <1> QED
    BY <1>2, <1>3, <1>4, <1>5, <1>6, <1>7, <1>8 DEF Next

\* Whatever an operator changes between the two checks, a request is let in and a
\* gated call prepared only on what the person's role holds at that moment
\* (check_intent, check_action), and no row is removed before its retention is
\* over (delete_older_than).
THEOREM StepsStayAllowed == Spec => StepsAllowed
  <1>1. Init => TurnInv
    BY TurnStart
  <1>2. TurnInv /\ [Next]_vars => TurnInv'
    BY TurnStep
  <1>3. TurnInv /\ [Next]_vars => [ActsWithinRole /\ OnlyOldRowsPurged]_vars
    BY TurnStep, LogStep
  <1> QED
    BY <1>1, <1>2, <1>3, PTL DEF Spec, StepsAllowed

-----------------------------------------------------------------------------
(* The audit trail *)

\* What a request holds and has flushed at a stage: no connection before it is known
\* and after its end, a second one while a standalone row is written.
Used(p, s) ==
    IF job[p] = "signup" \/ s \in {"idle", "ended"} THEN 0 ELSE IF s = "writing" THEN 2 ELSE 1
Flushed(p, s) ==
    IF job[p] = "turn" /\ s \notin {"idle", "known", "ended"} THEN {RequestReceived(p)}
    ELSE IF job[p] \in {"decide", "memory"} /\ s = "flushed" THEN {OwnRow(p)} ELSE {}
StagesOf(p) ==
    {s \in Stages :
        /\ job[p] = "none" => s = "idle"
        /\ job[p] = "signup" => s \in {"idle", "known", "ended"}
        /\ job[p] \in {"decide", "memory"} => s \in {"idle", "known", "flushed", "ended"}
        /\ job[p] = "turn" => s # "flushed"}
RowFits(p, s, r) ==
    IF s = "writing" THEN r.row \in Standalone(p) /\ r.next \in LaterStages ELSE r = NoRow

PathRight(p) ==
    /\ held[p] = Used(p, at[p]) /\ unsaved[p] = Flushed(p, at[p])
    /\ at[p] \in StagesOf(p) /\ RowFits(p, at[p], row[p])

LogShape ==
    /\ job \in [People -> Jobs] /\ held \in [People -> 0..2]
    /\ unsaved = [p \in People |-> unsaved[p]]
    /\ log \subseteq (UNION {Rows(t) : t \in People}) \cup OldRows
    /\ retention \in {"unset", "days"}
    /\ purge \in [at : {"none", "waiting", "disabled", "deleted", "done"}, off : BOOLEAN]

\* The purge's transaction commits the trigger as it put it back.
PurgeRight == purge.at = "deleted" => ~purge.off

AuditInv ==
    /\ LogShape /\ PurgeRight /\ RowsComplete /\ GuardStays
    /\ SumFunction(held) <= PoolSize
    /\ \A p \in People : PathRight(p)

WorkersShape ==
    /\ session \in [People -> {"none", "valid", "expired"}]
    /\ worker \in [Workers -> [at : {"starting", "seeding", "serving"},
                               missing : SUBSET RoleNames]]
    /\ edits \in 0..MaxEdits /\ restarts \in 0..MaxRestarts

LEMMA HeldTotal ==
  ASSUME DOMAIN held = People
  PROVE  SumFunction(held) = Total(held, People)
  BY DEF SumFunction, SumFunctionOnSet, FoldFunctionOnSet, MapThenFoldSet, Total, Sums, Added,
         Pick, Rest

LEMMA HeldTotalNext ==
  ASSUME DOMAIN held' = People
  PROVE  SumFunction(held)' = Total(held', People)
  BY DEF SumFunction, SumFunctionOnSet, FoldFunctionOnSet, MapThenFoldSet, Total, Sums, Added,
         Pick, Rest

\* No connection is taken beyond the pool's size.
LEMMA PoolKept ==
  ASSUME LogShape, SumFunction(held) <= PoolSize, NEW p \in People, NEW m \in 0..2,
         held' = [held EXCEPT ![p] = m],
         m <= held[p] \/ (m = held[p] + 1 /\ Free > 0)
  PROVE  held' \in [People -> 0..2] /\ SumFunction(held)' <= PoolSize
  <1> DEFINE n == m - held[p]
  <1>1. /\ held \in [People -> 0..2] /\ held[p] \in 0..2 /\ n \in Int /\ PoolSize \in Nat
        /\ held' \in [People -> 0..2]
    BY PoolAssumption DEF LogShape
  <1>2. Grows(held, held', People, p, n)
    <2>1. held \in [People -> Int] /\ held[p] + n = m
      BY <1>1
    <2> HIDE DEF n
    <2> QED
      BY <1>1, <2>1 DEF Grows
  <1>3. Total(held, People) \in Int /\ Total(held', People) = Total(held, People) + n
    <2> HIDE DEF n
    <2> QED
      BY <1>2, TotalGrows, OneRequestEach, PoolAssumption
  <1>4. SumFunction(held) = Total(held, People)
    BY <1>1, HeldTotal
  <1>5. SumFunction(held)' = Total(held', People)
    BY <1>1, HeldTotalNext
  <1> QED
    BY <1>1, <1>3, <1>4, <1>5 DEF Free

LEMMA RowsApart ==
  \A p, q \in People : p # q => Rows(p) \cap Rows(q) = {}
  BY DEF Rows, Standalone, PlanCreated, RetrievalPerformed, ToolCallExecuted, AgentDecision,
         GuardrailFired, RequestReceived, ResponseReturned, ApprovalDecision, MemoryOperation, Row

LEMMA RowsOfTurn ==
  \A p : /\ RequestReceived(p) \in Rows(p) /\ ResponseReturned(p) \in Rows(p)
         /\ OwnRow(p) \in Rows(p)
         /\ RequestReceived(p) \notin Standalone(p) /\ ResponseReturned(p) \notin Standalone(p)
         /\ RequestReceived(p) # OwnRow(p) /\ ResponseReturned(p) # OwnRow(p)
         /\ RequestReceived(p) # ResponseReturned(p)
         /\ Standalone(p) \subseteq Rows(p) /\ OwnRow(p) \notin Standalone(p)
  BY DEF Rows, Standalone, PlanCreated, RetrievalPerformed, ToolCallExecuted, AgentDecision,
         GuardrailFired, RequestReceived, ResponseReturned, ApprovalDecision, MemoryOperation, Row,
         OwnRow

\* A request goes to another stage with what is held and flushed there, and may add
\* rows of its own to the log.
MovesTo(p, s, r, added) ==
    /\ s \in StagesOf(p) /\ RowFits(p, s, r)
    /\ at' = [at EXCEPT ![p] = s] /\ row' = [row EXCEPT ![p] = r]
    /\ held' = [held EXCEPT ![p] = Used(p, s)]
    /\ unsaved' = [unsaved EXCEPT ![p] = Flushed(p, s)]
    /\ Used(p, s) <= held[p] \/ (Used(p, s) = held[p] + 1 /\ Free > 0)
    /\ log' = log \cup added /\ added \subseteq Rows(p)
    /\ RequestReceived(p) \in added <=> ResponseReturned(p) \in added
    /\ UNCHANGED <<job, retention, guarded, purge>>

LEMMA RequestKeeps ==
  ASSUME AuditInv, TurnInv, NEW p \in People, NEW s, NEW r, NEW added, MovesTo(p, s, r, added)
  PROVE  AuditInv'
  <1> USE DEF MovesTo
  <1>1. /\ LogShape /\ RowsComplete /\ SumFunction(held) <= PoolSize
        /\ \A q \in People : PathRight(q)
        /\ at \in [People -> Stages] /\ DOMAIN row = People
        /\ unsaved = [q \in People |-> unsaved[q]]
    BY DEF AuditInv, LogShape, TurnInv, TurnShape
  <1>2. Used(p, s) \in 0..2
    BY DEF Used
  <1>3. held' \in [People -> 0..2] /\ SumFunction(held)' <= PoolSize
    BY <1>1, <1>2, PoolKept
  <1>4. ASSUME NEW q \in People PROVE PathRight(q)'
    <2>1. CASE q = p
      <3>1. at'[p] = s /\ row'[p] = r /\ held'[p] = Used(p, s) /\ unsaved'[p] = Flushed(p, s)
        BY <1>1 DEF LogShape
      <3> QED
        BY <2>1, <3>1 DEF PathRight, Used, Flushed, OwnRow, StagesOf, RowFits
    <2>2. CASE q # p
      <3>1. at'[q] = at[q] /\ row'[q] = row[q] /\ held'[q] = held[q] /\ unsaved'[q] = unsaved[q]
        BY <1>1, <2>2 DEF LogShape
      <3>2. PathRight(q)
        BY <1>1
      <3> QED
        BY <3>1, <3>2 DEF PathRight, Used, Flushed, OwnRow, StagesOf, RowFits
    <2> QED
      BY <2>1, <2>2
  <1>5. LogShape'
    BY <1>1, <1>3 DEF LogShape
  <1>6. RowsComplete'
    <2> SUFFICES ASSUME NEW t \in Requests
                 PROVE  RequestReceived(t) \in log' <=> ResponseReturned(t) \in log'
      BY DEF RowsComplete
    <2>1. RequestReceived(t) \in log <=> ResponseReturned(t) \in log
      BY <1>1 DEF RowsComplete
    <2>2. t # p => RequestReceived(t) \notin added /\ ResponseReturned(t) \notin added
      BY RowsApart, RowsOfTurn, OneRequestEach
    <2> QED
      BY <2>1, <2>2
  <1> QED
    BY <1>3, <1>4, <1>5, <1>6 DEF AuditInv, PurgeRight, GuardStays

\* What is known of a request's four fields.
LEMMA FieldsKnown ==
  ASSUME AuditInv, TurnInv, NEW p \in People
  PROVE  /\ PathRight(p) /\ at[p] \in Stages /\ job[p] \in Jobs
         /\ row = [row EXCEPT ![p] = row[p]] /\ held = [held EXCEPT ![p] = held[p]]
         /\ unsaved = [unsaved EXCEPT ![p] = unsaved[p]] /\ at = [at EXCEPT ![p] = at[p]]
         /\ ask[p] \in Asks
  <1>1. /\ at \in [People -> Stages] /\ job \in [People -> Jobs] /\ held \in [People -> 0..2]
        /\ row = [q \in People |-> row[q]] /\ ask \in [People -> Asks]
    BY DEF AuditInv, LogShape, TurnInv, TurnShape
  <1>2. unsaved = [q \in People |-> unsaved[q]]
    BY DEF AuditInv, LogShape
  <1> QED
    BY <1>1, <1>2 DEF AuditInv

\* A step between stages that hold and have flushed the same.
LEMMA GoesOnAlike ==
  ASSUME AuditInv, TurnInv, NEW p \in People, NEW s \in StagesOf(p), Goto(p, s),
         "writing" \notin {at[p], s},
         Used(p, s) = Used(p, at[p]), Flushed(p, s) = Flushed(p, at[p]),
         UNCHANGED <<logVars, job, row>>
  PROVE  AuditInv'
  <1>1. /\ PathRight(p)
        /\ row = [row EXCEPT ![p] = row[p]] /\ held = [held EXCEPT ![p] = held[p]]
        /\ unsaved = [unsaved EXCEPT ![p] = unsaved[p]]
    BY FieldsKnown
  <1>2. held[p] = Used(p, s) /\ unsaved[p] = Flushed(p, s) /\ RowFits(p, s, NoRow)
        /\ row[p] = NoRow
    BY <1>1 DEF PathRight, RowFits
  <1>3. Used(p, s) <= held[p]
    BY <1>2 DEF Used
  <1>4. /\ at' = [at EXCEPT ![p] = s] /\ row' = [row EXCEPT ![p] = NoRow]
        /\ held' = [held EXCEPT ![p] = Used(p, s)]
        /\ unsaved' = [unsaved EXCEPT ![p] = Flushed(p, s)]
        /\ log' = log \cup {} /\ UNCHANGED <<job, retention, guarded, purge>>
    BY <1>1, <1>2 DEF Goto, logVars
  <1>5. MovesTo(p, s, NoRow, {})
    BY <1>2, <1>3, <1>4 DEF MovesTo
  <1> QED
    BY <1>5, RequestKeeps

\* Whatever it was doing, a request that fails gives back its connections and its
\* transaction.
LEMMA AbandonKeeps ==
  ASSUME AuditInv, TurnInv, NEW p \in People, at[p] # "idle", Abandon(p)
  PROVE  AuditInv'
  <1>1. PathRight(p) /\ job[p] \in Jobs
    BY FieldsKnown
  <1>2. "ended" \in StagesOf(p)
    BY <1>1 DEF PathRight, StagesOf, Jobs, Stages
  <1>3. /\ Used(p, "ended") = 0 /\ Flushed(p, "ended") = {} /\ RowFits(p, "ended", NoRow)
        /\ held[p] \in 0..2
    BY <1>1 DEF Used, Flushed, RowFits, PathRight
  <1>4. /\ at' = [at EXCEPT ![p] = "ended"] /\ row' = [row EXCEPT ![p] = NoRow]
        /\ held' = [held EXCEPT ![p] = Used(p, "ended")]
        /\ unsaved' = [unsaved EXCEPT ![p] = Flushed(p, "ended")]
        /\ log' = log \cup {} /\ UNCHANGED <<job, retention, guarded, purge>>
    BY <1>3 DEF Abandon, Rollback, Goto
  <1>5. Used(p, "ended") <= held[p]
    BY <1>3
  <1>6. MovesTo(p, "ended", NoRow, {})
    BY <1>2, <1>3, <1>4, <1>5 DEF MovesTo
  <1> QED
    BY <1>6, RequestKeeps

LEMMA AuthenticateKeeps ==
  ASSUME AuditInv, TurnInv, NEW p \in People,
         Authenticate(p) \/ AuthenticationTimesOut(p)
  PROVE  AuditInv'
  <1>1. /\ PathRight(p) /\ job[p] \in {"turn", "decide", "memory"} /\ at[p] = "idle"
        /\ unsaved = [unsaved EXCEPT ![p] = unsaved[p]] /\ row = [row EXCEPT ![p] = row[p]]
    BY FieldsKnown DEF Authenticate, AuthenticationTimesOut
  <1>2. "ended" \in StagesOf(p) /\ "known" \in StagesOf(p)
    BY <1>1 DEF StagesOf, Stages
  <1>3. CASE Goto(p, "ended") /\ UNCHANGED <<logVars, job, row>>
    <2>1. Used(p, "ended") = Used(p, at[p]) /\ Flushed(p, "ended") = Flushed(p, at[p])
      BY <1>1 DEF Used, Flushed
    <2> QED
      BY <1>1, <1>2, <1>3, <2>1, GoesOnAlike
  <1>4. CASE OpenWriter(p) /\ Goto(p, "known") /\ UNCHANGED <<job, row>>
    <2>1. /\ held[p] = 0 /\ unsaved[p] = {} /\ row[p] = NoRow
          /\ Used(p, "known") = 1 /\ Flushed(p, "known") = {} /\ RowFits(p, "known", NoRow)
      BY <1>1 DEF PathRight, Used, Flushed, RowFits
    <2>2. /\ at' = [at EXCEPT ![p] = "known"] /\ row' = [row EXCEPT ![p] = NoRow]
          /\ held' = [held EXCEPT ![p] = Used(p, "known")]
          /\ unsaved' = [unsaved EXCEPT ![p] = Flushed(p, "known")]
          /\ log' = log \cup {} /\ UNCHANGED <<job, retention, guarded, purge>>
      <3>1. held' = [held EXCEPT ![p] = held[p] + 1] /\ held[p] + 1 = 1
        BY <1>4, <2>1 DEF OpenWriter, Connect
      <3>2. held' = [held EXCEPT ![p] = Used(p, "known")]
        BY <2>1, <3>1
      <3>3. unsaved' = [unsaved EXCEPT ![p] = Flushed(p, "known")] /\ log' = log \cup {}
        BY <1>1, <1>4, <2>1 DEF OpenWriter
      <3>4. at' = [at EXCEPT ![p] = "known"] /\ row' = [row EXCEPT ![p] = NoRow]
        BY <1>1, <1>4, <2>1 DEF Goto
      <3> QED
        BY <1>4, <3>2, <3>3, <3>4 DEF OpenWriter
    <2>3. Used(p, "known") = held[p] + 1 /\ Free > 0
      BY <1>4, <2>1 DEF OpenWriter, Connect
    <2>4. MovesTo(p, "known", NoRow, {})
      BY <1>2, <2>1, <2>2, <2>3 DEF MovesTo
    <2> QED
      BY <2>4, RequestKeeps
  <1> QED
    BY <1>3, <1>4 DEF Authenticate, AuthenticationTimesOut, KeepTurn

\* A sign-up has sessions of its own, given back before the next question: it
\* holds no connection between its steps.
LEMMA SignUpKeepsLog ==
  ASSUME AuditInv, TurnInv, NEW p \in People, SignUp(p)
  PROVE  AuditInv'
  <1>1. /\ PathRight(p) /\ job[p] = "signup" /\ at[p] \in {"idle", "known"}
        /\ at = [at EXCEPT ![p] = at[p]]
    BY FieldsKnown DEF SignUp
  <1>2. PICK s \in {"idle", "known", "ended"} : Goto(p, s)
    <2>1. CASE UNCHANGED at
      BY <1>1, <2>1 DEF Goto
    <2>2. CASE Goto(p, IF user'[p] = NoUser THEN "ended" ELSE "known")
      BY <2>2 DEF Goto
    <2>3. CASE Goto(p, "ended")
      BY <2>3
    <2> QED
      BY <2>1, <2>2, <2>3 DEF SignUp
  <1>3. s \in StagesOf(p)
    BY <1>1 DEF StagesOf, Stages
  <1>4. Used(p, s) = Used(p, at[p]) /\ Flushed(p, s) = Flushed(p, at[p])
    BY <1>1 DEF Used, Flushed
  <1>5. UNCHANGED <<logVars, job, row>>
    BY DEF SignUp, KeepTurn
  <1> QED
    BY <1>1, <1>2, <1>3, <1>4, <1>5, GoesOnAlike

LEMMA FlushesKeep ==
  ASSUME AuditInv, TurnInv, NEW p \in People, FlushOwnRow(p) \/ Receive(p)
  PROVE  AuditInv'
  <1> DEFINE s == IF job[p] = "turn" THEN "received" ELSE "flushed"
             r == IF job[p] = "turn" THEN RequestReceived(p) ELSE OwnRow(p)
  <1>1. /\ PathRight(p) /\ job[p] \in {"turn", "decide", "memory"} /\ at[p] = "known"
        /\ held = [held EXCEPT ![p] = held[p]] /\ row = [row EXCEPT ![p] = row[p]]
    BY FieldsKnown DEF FlushOwnRow, Receive
  <1>2. s \in StagesOf(p)
    BY <1>1 DEF StagesOf, Stages
  <1>3. /\ held[p] = Used(p, s) /\ unsaved[p] = {} /\ row[p] = NoRow
        /\ Flushed(p, s) = {r} /\ RowFits(p, s, NoRow) /\ Used(p, s) = 1
    BY <1>1 DEF PathRight, Used, Flushed, RowFits
  <1>4. Goto(p, s) /\ Flush(p, r) /\ KeepTurn
    BY DEF FlushOwnRow, Receive, SaveMessage
  <1> HIDE DEF s, r
  <1>5. /\ at' = [at EXCEPT ![p] = s] /\ row' = [row EXCEPT ![p] = NoRow]
        /\ held' = [held EXCEPT ![p] = Used(p, s)]
        /\ unsaved' = [unsaved EXCEPT ![p] = Flushed(p, s)]
        /\ log' = log \cup {} /\ UNCHANGED <<job, retention, guarded, purge>>
    BY <1>1, <1>3, <1>4 DEF Goto, Flush, KeepTurn
  <1>6. Used(p, s) <= held[p]
    BY <1>3
  <1>7. MovesTo(p, s, NoRow, {})
    BY <1>2, <1>3, <1>5, <1>6 DEF MovesTo
  <1> QED
    BY <1>7, RequestKeeps

\* The commit saves the flushed row; a turn's adds the answer's row to the same
\* transaction.
LEMMA CommitsKeep ==
  ASSUME AuditInv, TurnInv, NEW p \in People, CommitOwnRow(p) \/ Respond(p)
  PROVE  AuditInv'
  <1> DEFINE rows == IF job[p] = "turn" THEN {ResponseReturned(p)} ELSE {}
             added == unsaved[p] \cup rows
  <1>1. /\ PathRight(p) /\ job[p] \in Jobs
        /\ row = [row EXCEPT ![p] = row[p]]
        /\ \/ job[p] \in {"decide", "memory"} /\ at[p] = "flushed"
           \/ at[p] = "reviewed"
    BY FieldsKnown DEF CommitOwnRow, Respond
  <1>2. \/ job[p] \in {"decide", "memory"} /\ at[p] = "flushed" /\ CommitWith(p, {})
        \/ job[p] = "turn" /\ at[p] = "reviewed" /\ CommitWith(p, {ResponseReturned(p)})
    BY <1>1 DEF CommitOwnRow, Respond, PathRight, StagesOf, Jobs
  <1>3. "ended" \in StagesOf(p)
    BY <1>2 DEF StagesOf, Stages
  <1>4. /\ unsaved[p] = IF job[p] = "turn" THEN {RequestReceived(p)} ELSE {OwnRow(p)}
        /\ row[p] = NoRow /\ held[p] = 1
    BY <1>1, <1>2 DEF PathRight, Flushed, RowFits, Used
  <1>5. /\ added \subseteq Rows(p)
        /\ RequestReceived(p) \in added <=> ResponseReturned(p) \in added
    BY <1>4, RowsOfTurn
  <1>6. CommitWith(p, rows) /\ Goto(p, "ended") /\ KeepTurn
    BY <1>2 DEF CommitOwnRow, Respond
  <1>7. Used(p, "ended") = 0 /\ Flushed(p, "ended") = {} /\ RowFits(p, "ended", NoRow)
    BY DEF Used, Flushed, RowFits
  <1>8. log' = log \cup added
    BY <1>6 DEF CommitWith
  <1> HIDE DEF rows, added
  <1>9. /\ at' = [at EXCEPT ![p] = "ended"] /\ row' = [row EXCEPT ![p] = NoRow]
        /\ held' = [held EXCEPT ![p] = Used(p, "ended")]
        /\ unsaved' = [unsaved EXCEPT ![p] = Flushed(p, "ended")]
        /\ UNCHANGED <<job, retention, guarded, purge>>
    BY <1>1, <1>4, <1>6, <1>7 DEF Goto, CommitWith, KeepTurn
  <1>10. Used(p, "ended") <= held[p]
    BY <1>4, <1>7
  <1>11. MovesTo(p, "ended", NoRow, added)
    BY <1>3, <1>5, <1>7, <1>8, <1>9, <1>10 DEF MovesTo
  <1> QED
    BY <1>11, RequestKeeps

\* A turn's stages between the received row and its commit hold and have flushed
\* the same.
LEMMA TurnGoesOn ==
  ASSUME AuditInv, TurnInv, NEW p \in People,
         NEW s \in LaterStages \cup {"authorised"}, Goto(p, s),
         at[p] \in LaterStages \cup {"received", "authorised"}, UNCHANGED <<logVars, job, row>>
  PROVE  AuditInv'
  <1>1. PathRight(p) /\ job[p] \in Jobs
    BY FieldsKnown
  <1>2. job[p] = "turn"
    BY <1>1 DEF PathRight, StagesOf, Jobs, LaterStages
  <1>3. s \in StagesOf(p)
    BY <1>2 DEF StagesOf, Stages, LaterStages
  <1>4. Used(p, s) = Used(p, at[p])
    BY <1>2 DEF Used, LaterStages
  <1>5. Flushed(p, s) = Flushed(p, at[p])
    BY <1>2 DEF Flushed, LaterStages
  <1>6. "writing" \notin {at[p], s}
    BY DEF LaterStages
  <1> QED
    BY <1>3, <1>4, <1>5, <1>6, GoesOnAlike

LEMMA ChecksKeep ==
  ASSUME AuditInv, TurnInv, NEW p \in People,
         AuthorizeRequest(p) \/ PrepareAction(p) \/ CheckTimesOut(p)
  PROVE  AuditInv'
  <1>1. at[p] \in LaterStages \cup {"received", "authorised"} /\ at[p] # "idle"
    BY DEF AuthorizeRequest, PrepareAction, CheckTimesOut, LaterStages
  <1>2. CASE Abandon(p)
    BY <1>1, <1>2, AbandonKeeps
  <1>3. CASE Goto(p, "authorised") /\ UNCHANGED <<logVars, job, row>>
    BY <1>1, <1>3, TurnGoesOn
  <1>4. CASE Goto(p, "acted") /\ UNCHANGED <<logVars, job, row>>
    <2>1. "acted" \in LaterStages
      BY DEF LaterStages
    <2> QED
      BY <1>1, <1>4, <2>1, TurnGoesOn
  <1>5. \/ Abandon(p)
        \/ Goto(p, "authorised") /\ UNCHANGED <<logVars, job, row>>
        \/ Goto(p, "acted") /\ UNCHANGED <<logVars, job, row>>
    BY DEF AuthorizeRequest, PrepareAction, CheckTimesOut, KeepTurn
  <1> QED
    BY <1>2, <1>3, <1>4, <1>5

LEMMA PassesKeep ==
  ASSUME AuditInv, TurnInv, NEW p \in People, RowTimesOut(p) \/ PassesOn(p)
  PROVE  AuditInv'
  <1>1. at[p] \in {"authorised", "planned", "called", "worked", "acted", "judged"}
    BY StagesAfter DEF RowTimesOut, PassesOn
  <1>2. After(at[p]) \in LaterStages
    BY <1>1, StagesAfter
  <1>3. Goto(p, After(at[p])) /\ UNCHANGED <<logVars, job, row>>
    BY DEF RowTimesOut, PassesOn, KeepTurn
  <1>4. at[p] \in LaterStages \cup {"received", "authorised"}
    BY <1>1 DEF LaterStages
  <1> QED
    BY <1>2, <1>3, <1>4, TurnGoesOn

\* The second connection is taken for the time of the standalone row.
LEMMA StartRowKeeps ==
  ASSUME AuditInv, TurnInv, NEW p \in People, NEW r, StartRow(p, r)
  PROVE  AuditInv'
  <1> DEFINE new == [row |-> r, next |-> After(at[p])]
  <1>1. /\ PathRight(p) /\ job[p] \in Jobs /\ unsaved = [unsaved EXCEPT ![p] = unsaved[p]]
    BY FieldsKnown
  <1>2. /\ at[p] \in {"authorised", "planned", "called", "acted", "judged"}
        /\ After(at[p]) \in LaterStages
    <2>1. RowsAt(p) # {}
      BY DEF StartRow
    <2> QED
      BY <2>1, StagesAfter
  <1>3. r \in Standalone(p)
    BY DEF StartRow, RowsAt, Standalone
  <1>4. job[p] = "turn"
    BY <1>1, <1>2 DEF PathRight, StagesOf, Jobs
  <1>5. /\ held[p] = 1 /\ Used(p, "writing") = 2
        /\ unsaved[p] = Flushed(p, "writing") /\ "writing" \in StagesOf(p)
    BY <1>1, <1>2, <1>4 DEF PathRight, Used, Flushed, StagesOf, Stages
  <1>6. RowFits(p, "writing", new)
    BY <1>2, <1>3 DEF RowFits
  <1>7. OpenWriter(p) /\ Goto(p, "writing") /\ row' = [row EXCEPT ![p] = new] /\ UNCHANGED job
    BY DEF StartRow
  <1> HIDE DEF new
  <1>8. held' = [held EXCEPT ![p] = held[p] + 1] /\ held[p] + 1 = 2 /\ Free > 0
    BY <1>5, <1>7 DEF OpenWriter, Connect
  <1>9. held' = [held EXCEPT ![p] = Used(p, "writing")] /\ Used(p, "writing") = held[p] + 1
    BY <1>5, <1>8
  <1>10. /\ unsaved' = [unsaved EXCEPT ![p] = Flushed(p, "writing")] /\ log' = log \cup {}
         /\ UNCHANGED <<retention, guarded, purge>>
    BY <1>1, <1>5, <1>7 DEF OpenWriter
  <1>11. MovesTo(p, "writing", new, {})
    BY <1>5, <1>6, <1>7, <1>8, <1>9, <1>10 DEF MovesTo, Goto
  <1> QED
    BY <1>11, RequestKeeps

\* The row is committed or lost, and the connection given back.
LEMMA RowEndKeeps ==
  ASSUME AuditInv, TurnInv, NEW p \in People, WriteRow(p) \/ LoseRow(p)
  PROVE  AuditInv'
  <1> DEFINE s == row[p].next
             added == IF WriteRow(p) THEN {row[p].row} ELSE {}
  <1>1. /\ PathRight(p) /\ job[p] \in Jobs /\ unsaved = [unsaved EXCEPT ![p] = unsaved[p]]
        /\ at[p] = "writing"
    BY FieldsKnown DEF WriteRow, LoseRow, RowEnded
  <1>2. s \in LaterStages /\ row[p].row \in Standalone(p)
    BY <1>1 DEF PathRight, RowFits
  <1>3. job[p] = "turn"
    BY <1>1 DEF PathRight, StagesOf, Jobs
  <1>4. Goto(p, s) /\ row' = [row EXCEPT ![p] = NoRow] /\ UNCHANGED job /\ Release(p)
    BY DEF WriteRow, LoseRow, RowEnded, WriteStandalone, LoseStandalone
  <1>5. UNCHANGED <<unsaved, retention, guarded, purge>>
    BY DEF WriteRow, LoseRow, WriteStandalone, LoseStandalone
  <1>6. added \subseteq Standalone(p)
    BY <1>2
  <1>7. /\ added \subseteq Rows(p)
        /\ RequestReceived(p) \in added <=> ResponseReturned(p) \in added
    BY <1>6, RowsOfTurn
  <1>8. log' = log \cup added
    <2>1. CASE WriteRow(p)
      BY <2>1 DEF WriteRow, WriteStandalone
    <2>2. CASE ~WriteRow(p)
      BY <2>2 DEF LoseRow, LoseStandalone
    <2> QED
      BY <2>1, <2>2
  <1> HIDE DEF added, s
  <1>9. s \in StagesOf(p) /\ s # "writing" /\ s \notin {"idle", "known", "ended"}
    BY <1>2, <1>3 DEF StagesOf, Stages, LaterStages
  <1>10. /\ held[p] = 2 /\ Used(p, s) = 1 /\ unsaved[p] = Flushed(p, s)
    BY <1>1, <1>3, <1>9 DEF PathRight, Used, Flushed
  <1>11. RowFits(p, s, NoRow)
    BY <1>9 DEF RowFits
  <1>12. held' = [held EXCEPT ![p] = held[p] - 1] /\ held[p] - 1 = 1
    BY <1>4, <1>10 DEF Release
  <1>13. held' = [held EXCEPT ![p] = Used(p, s)] /\ Used(p, s) <= held[p]
    BY <1>10, <1>12
  <1>14. unsaved' = [unsaved EXCEPT ![p] = Flushed(p, s)]
    BY <1>1, <1>5, <1>10
  <1>15. MovesTo(p, s, NoRow, added)
    BY <1>4, <1>5, <1>7, <1>8, <1>9, <1>11, <1>13, <1>14 DEF MovesTo, Goto
  <1> QED
    BY <1>15, RequestKeeps

LEMMA RequestKeepsLog ==
  ASSUME AuditInv, TurnInv, NEW p \in People, Step(p) \/ Fail(p) \/ LoseRow(p)
  PROVE  AuditInv'
  <1>1. CASE Fail(p)
    BY <1>1, AbandonKeeps DEF Fail, Open
  <1> QED
    BY <1>1, SignUpKeepsLog, AuthenticateKeeps, FlushesKeep, CommitsKeep, ChecksKeep,
       StartRowKeeps, RowEndKeeps, PassesKeep DEF Step

\* Turns that stay where they are keep what they hold and have flushed.
LEMMA PathsLeftAlone ==
  ASSUME \A p \in People : PathRight(p), UNCHANGED <<job, at, row, held, unsaved>>
  PROVE  \A p \in People : PathRight(p)'
  BY DEF PathRight, Used, Flushed, OwnRow, StagesOf, RowFits

LEMMA PoolLeftAlone ==
  ASSUME AuditInv, UNCHANGED held
  PROVE  (SumFunction(held) <= PoolSize)'
  <1>1. DOMAIN held = People /\ SumFunction(held) <= PoolSize
    BY DEF AuditInv, LogShape
  <1>2. SumFunction(held) = Total(held, People) /\ SumFunction(held)' = Total(held', People)
    BY <1>1, HeldTotal, HeldTotalNext
  <1> QED
    BY <1>1, <1>2

LEMMA AuditLeftAlone ==
  ASSUME AuditInv, UNCHANGED <<logVars, turnVars>>
  PROVE  AuditInv'
  <1>1. \A p \in People : PathRight(p)'
    BY PathsLeftAlone DEF AuditInv, logVars, turnVars
  <1>2. LogShape' /\ PurgeRight' /\ RowsComplete' /\ GuardStays'
    BY DEF AuditInv, LogShape, PurgeRight, RowsComplete, GuardStays, logVars, turnVars
  <1>3. (SumFunction(held) <= PoolSize)'
    BY PoolLeftAlone DEF logVars
  <1> QED
    BY <1>1, <1>2, <1>3 DEF AuditInv

\* The trigger is off only inside the purge's transaction, and what the purge takes
\* is nobody's request.
LEMMA PurgeKeepsLog ==
  ASSUME AuditInv, UNCHANGED turnVars,
         StartPurge \/ DisableGuard \/ DeleteOld \/ CommitPurge \/ AbortPurge
  PROVE  AuditInv'
  <1>1. UNCHANGED <<job, at, row, held, unsaved, retention>>
    BY DEF turnVars, StartPurge, DisableGuard, DeleteOld, CommitPurge, AbortPurge
  <1>2. LogShape /\ PurgeRight /\ RowsComplete /\ GuardStays /\ SumFunction(held) <= PoolSize
    BY DEF AuditInv
  <1>3. \A p \in People : PathRight(p)'
    BY <1>1, PathsLeftAlone DEF AuditInv
  <1>4. (SumFunction(held) <= PoolSize)'
    BY <1>1, PoolLeftAlone
  <1>5. /\ purge' \in [at : {"none", "waiting", "disabled", "deleted", "done"}, off : BOOLEAN]
        /\ PurgeRight'
    <2>1. CASE StartPurge
      BY <1>2, <2>1 DEF StartPurge, LogShape, PurgeRight
    <2>2. CASE DisableGuard
      BY <2>2 DEF DisableGuard, PurgeRight
    <2>3. CASE DeleteOld
      BY <2>3 DEF DeleteOld, PurgeRight
    <2>4. CASE CommitPurge
      BY <1>2, <2>4 DEF CommitPurge, LogShape, PurgeRight
    <2>5. CASE AbortPurge
      BY <2>5 DEF AbortPurge, PurgeRight
    <2> QED
      BY <2>1, <2>2, <2>3, <2>4, <2>5
  <1>6. GuardStays'
    <2>1. CASE CommitPurge
      BY <1>2, <2>1 DEF CommitPurge, GuardStays, PurgeRight
    <2>2. CASE DisableGuard
      BY <1>2, <2>2 DEF DisableGuard, GuardSeenByOthers, GuardStays
    <2>3. CASE StartPurge \/ DeleteOld \/ AbortPurge
      BY <1>2, <2>3 DEF StartPurge, DeleteOld, AbortPurge, GuardStays
    <2> QED
      BY <2>1, <2>2, <2>3
  <1>7. log' \subseteq log /\ log \ log' \subseteq OldRows
    BY DEF StartPurge, DisableGuard, DeleteOld, CommitPurge, AbortPurge, Deleted
  <1>8. RowsComplete'
    <2> SUFFICES ASSUME NEW t \in Requests
                 PROVE  RequestReceived(t) \in log' <=> ResponseReturned(t) \in log'
      BY DEF RowsComplete
    <2>1. RequestReceived(t) \notin OldRows /\ ResponseReturned(t) \notin OldRows
      BY RowsOfTurn, OldRowsAssumption
    <2>2. RequestReceived(t) \in log <=> ResponseReturned(t) \in log
      BY <1>2 DEF RowsComplete
    <2> QED
      BY <1>7, <2>1, <2>2
  <1>9. LogShape'
    BY <1>1, <1>2, <1>5, <1>7 DEF LogShape
  <1> QED
    BY <1>3, <1>4, <1>5, <1>6, <1>8, <1>9 DEF AuditInv

LEMMA AuditStep ==
  ASSUME AuditInv, TurnInv, [Next]_vars
  PROVE  AuditInv'
  <1>1. ASSUME NEW p \in People, Step(p) \/ Fail(p) \/ LoseRow(p) PROVE AuditInv'
    BY <1>1, RequestKeepsLog
  <1>2. ASSUME NEW w \in Workers, Start(w) \/ (Restart(w) /\ UNCHANGED <<logVars, turnVars>>)
        PROVE  AuditInv'
    BY <1>2, AuditLeftAlone DEF Start
  <1>3. ASSUME Operator PROVE AuditInv'
    BY <1>3, AuditLeftAlone DEF Operator
  <1>4. ASSUME Purge \/ ((StartPurge \/ AbortPurge) /\ UNCHANGED <<accountVars, turnVars>>)
        PROVE  AuditInv'
    BY <1>4, PurgeKeepsLog DEF Purge
  <1>5. ASSUME UNCHANGED vars PROVE AuditInv'
    BY <1>5, AuditLeftAlone DEF vars, turnVars
  <1> QED
    BY <1>1, <1>2, <1>3, <1>4, <1>5 DEF Next

LEMMA AuditStart == Init => AuditInv
  <1> SUFFICES ASSUME Init PROVE AuditInv
    OBVIOUS
  <1>1. /\ job \in [People -> Jobs] /\ held = [p \in People |-> 0]
        /\ unsaved = [p \in People |-> {}] /\ at = [p \in People |-> "idle"]
        /\ row = [p \in People |-> NoRow] /\ log = OldRows /\ guarded = TRUE
        /\ purge = [at |-> "none", off |-> FALSE] /\ retention \in {"unset", "days"}
    BY DEF Init
  <1>2. LogShape /\ PurgeRight /\ GuardStays
    <2>1. held \in [People -> 0..2] /\ unsaved = [p \in People |-> unsaved[p]]
      BY <1>1
    <2>2. purge \in [at : {"none", "waiting", "disabled", "deleted", "done"}, off : BOOLEAN]
      BY <1>1
    <2>3. LogShape
      <3>1. log \subseteq (UNION {Rows(t) : t \in People}) \cup OldRows
        BY <1>1
      <3>2. job \in [People -> Jobs] /\ retention \in {"unset", "days"}
        BY <1>1
      <3> QED
        BY <2>1, <2>2, <3>1, <3>2 DEF LogShape
    <2>4. PurgeRight
      BY <1>1 DEF PurgeRight
    <2>5. GuardStays
      BY <1>1 DEF GuardStays
    <2> QED
      BY <2>3, <2>4, <2>5
  <1>3. RowsComplete
    BY <1>1, RowsOfTurn, OldRowsAssumption DEF RowsComplete
  <1>4. SumFunction(held) <= PoolSize
    <2>1. Total(held, People) = 0
      BY <1>1, TotalOfNothing, OneRequestEach, PoolAssumption
    <2>2. SumFunction(held) = Total(held, People)
      BY <1>1, HeldTotal
    <2> QED
      BY <2>1, <2>2, PoolAssumption
  <1>5. ASSUME NEW p \in People PROVE PathRight(p)
    BY <1>1 DEF PathRight, Used, Flushed, StagesOf, RowFits, Stages, Jobs
  <1> QED
    BY <1>2, <1>3, <1>4, <1>5 DEF AuditInv

-----------------------------------------------------------------------------
\* Workers, tokens and the bounds of the operator.
LEMMA WorkersLeftAlone ==
  ASSUME WorkersShape, UNCHANGED <<session, worker, edits, restarts>>
  PROVE  WorkersShape'
  BY DEF WorkersShape

LEMMA WorkersStep ==
  ASSUME WorkersShape, [Next]_vars
  PROVE  WorkersShape'
  <1>1. ASSUME UNCHANGED accountVars PROVE WorkersShape'
    BY <1>1, WorkersLeftAlone DEF accountVars
  <1>2. ASSUME NEW p \in People, SignUp(p) PROVE WorkersShape'
    <2>1. session' \in [People -> {"none", "valid", "expired"}]
      BY <1>2 DEF SignUp, LookUpAddress, InsertUser, SignIn, RefuseSignIn, CreateAccessToken,
                  accountVars, WorkersShape
    <2>2. UNCHANGED <<worker, edits, restarts>>
      BY <1>2 DEF SignUp, LookUpAddress, InsertUser, SignIn, RefuseSignIn, accountVars
    <2> QED
      BY <2>1, <2>2 DEF WorkersShape
  <1>3. ASSUME NEW p \in People, Step(p) PROVE WorkersShape'
    BY <1>1, <1>2, <1>3, OtherStepsKeep
  <1>4. ASSUME NEW p \in People, Fail(p) \/ LoseRow(p) PROVE WorkersShape'
    BY <1>1, <1>4 DEF Fail, Abandon, LoseRow, RowEnded
  <1>5. ASSUME NEW w \in Workers, LookUpRoles(w) \/ SeedRoles(w) PROVE WorkersShape'
    <2>1. \A missing \in SUBSET RoleNames : \A s \in {"starting", "seeding", "serving"} :
             [worker EXCEPT ![w] = [at |-> s, missing |-> missing]] \in
                [Workers -> [at : {"starting", "seeding", "serving"}, missing : SUBSET RoleNames]]
      BY DEF WorkersShape
    <2>2. Missing(w) \in SUBSET RoleNames /\ {} \in SUBSET RoleNames
      BY DEF Missing
    <2>3. /\ worker' \in [Workers -> [at : {"starting", "seeding", "serving"},
                                      missing : SUBSET RoleNames]]
          /\ UNCHANGED <<session, edits, restarts>>
      <3>1. CASE LookUpRoles(w)
        BY <3>1, <2>1, <2>2 DEF LookUpRoles
      <3>2. CASE SeedRoles(w)
        <4>1. \E s \in {"starting", "serving"} :
                 worker' = [worker EXCEPT ![w] = [at |-> s, missing |-> {}]]
          BY <3>2 DEF SeedRoles
        <4>2. UNCHANGED <<session, edits, restarts>>
          BY <3>2 DEF SeedRoles
        <4> QED
          BY <4>1, <4>2, <2>1, <2>2
      <3> QED
        BY <1>5, <3>1, <3>2
    <2> QED
      BY <2>3 DEF WorkersShape
  <1>6. ASSUME NEW w \in Workers, Restart(w) PROVE WorkersShape'
    BY <1>6, AccountBounds DEF Restart, WorkersShape
  <1>7. ASSUME Operator PROVE WorkersShape'
    <2>1. session' \in [People -> {"none", "valid", "expired"}]
      BY <1>7 DEF Operator, EditRole, ChangeUser, TokenExpires, WorkersShape
    <2>2. edits' \in 0..MaxEdits
      BY <1>7, AccountBounds DEF Operator, EditRole, ChangeUser, TokenExpires, WorkersShape
    <2>3. UNCHANGED <<worker, restarts>>
      BY <1>7 DEF Operator, EditRole, ChangeUser, TokenExpires
    <2> QED
      BY <2>1, <2>2, <2>3 DEF WorkersShape
  <1>8. ASSUME Purge PROVE WorkersShape'
    BY <1>1, <1>8 DEF Purge
  <1>9. ASSUME UNCHANGED vars PROVE WorkersShape'
    BY <1>1, <1>9 DEF vars
  <1> QED
    BY <1>1, <1>3, <1>4, <1>5, <1>6, <1>7, <1>8, <1>9 DEF Next, Start

LEMMA WorkersStart == Init => WorkersShape
  BY AccountBounds DEF Init, WorkersShape

LEMMA AuditInvEnough ==
  ASSUME AccountInv, TurnInv, AuditInv, WorkersShape
  PROVE  AuditRight
  <1>1. AccountsTypeOK
    BY DEF AccountInv, AccountShape, WorkersShape, AccountsTypeOK
  <1>2. ASSUME NEW p \in People
        PROVE  /\ unsaved[p] \subseteq Rows(p) \ Standalone(p)
               /\ at[p] = "writing" <=> row[p].next # NoRow.next
    <2>1. PathRight(p)
      BY DEF AuditInv
    <2>2. unsaved[p] \subseteq {RequestReceived(p), OwnRow(p)}
      BY <2>1 DEF PathRight, Flushed
    <2>3. at[p] = "writing" <=> row[p].next # NoRow.next
      BY <2>1 DEF PathRight, RowFits, NoRow, LaterStages
    <2> QED
      BY <2>2, <2>3, RowsOfTurn
  <1>3. guarded \in BOOLEAN
    BY DEF AuditInv, GuardStays
  <1>4. LogTypeOK
    BY <1>2, <1>3, OneRequestEach DEF AuditInv, LogShape, LogTypeOK
  <1>5. TypeOK
    BY <1>1, <1>2, <1>4 DEF TypeOK, TurnInv, TurnShape, AuditInv, LogShape
  <1> QED
    BY <1>5 DEF AuditRight, AuditInv

\* However turns, decisions, failures and a purge interleave, a turn's received and
\* returned rows are committed together or not at all (chat.py's one commit), nobody
\* ever sees the immutability trigger off (purge_compliance_log.py's one
\* transaction), and no more connections are out than the pool has.
THEOREM AuditStaysRight == Spec => []AuditRight
  <1>1. Init => AccountInv /\ TurnInv /\ AuditInv /\ WorkersShape
    BY AccountStart, TurnStart, AuditStart, WorkersStart
  <1>2. AccountInv /\ TurnInv /\ AuditInv /\ WorkersShape /\ [Next]_vars
           => AccountInv' /\ TurnInv' /\ AuditInv' /\ WorkersShape'
    BY AccountStep, TurnStep, AuditStep, WorkersStep
  <1>3. AccountInv /\ TurnInv /\ AuditInv /\ WorkersShape => AuditRight
    BY AuditInvEnough
  <1> QED
    BY <1>1, <1>2, <1>3, PTL DEF Spec
=============================================================================
