---------------------------- MODULE Administration ----------------------------
(***************************************************************************)
(* Accounts, sessions and the records administrators maintain: sign-in and *)
(* its lockout, sliding sessions, password changes (server/auth), the user *)
(* dialog (users.service.ts), the dialogs of SKUs, their units, godowns,   *)
(* parties and categories (masters.service.ts), the import of SKUs, and    *)
(* the audit trail all of them write.                                      *)
(*                                                                         *)
(* Requests interleave at their awaits.  An edit reads the row, updates it *)
(* and writes its audit record in one transaction; the read takes no lock, *)
(* the update holds the row until the commit, so that update, audit and    *)
(* commit are one step.  What follows the commit is another step, which a  *)
(* crash may prevent.                                                      *)
(***************************************************************************)
EXTENDS Integers, FiniteSets

CONSTANTS
    User,           \* accounts, existing ones and those that may be created
    Seeded,         \* what prisma/seed.ts creates: administrators and masters
    NoUser,         \* no user, or no record
    Token,          \* session tokens
    NoToken,
    Client,         \* browsers; each waits for its answer
    Sku, Uom, Godown, Supplier, Customer, Category,     \* master records
    Unit,           \* SKUs with the units that are not their base unit
    Name,           \* what the columns without a meaning here may hold
    NoName,         \* the column of a record that does not exist
    Idle,           \* SESSION_TTL_HOURS
    Absolute,       \* SESSION_ABSOLUTE_LIFETIME_MS
    MaxFailed,      \* LOGIN_MAX_ATTEMPTS
    Lockout,        \* LOGIN_LOCKOUT_MINUTES
    LastMoment,     \* bound: how far the clock runs
    MaxRequests     \* bound: requests that change something

ASSUME AdministrationAssumption ==
    /\ Unit \subseteq Sku \X Uom
    /\ Seeded \subseteq User \cup Sku \cup Uom
    /\ Unit \cap (User \cup Sku \cup Godown \cup Supplier \cup Customer \cup Category \cup Uom) = {}
    /\ Name # {} /\ NoName \notin Name /\ NoToken \notin Token
    /\ Idle \in Nat \ {0} /\ Absolute \in Nat \ {0}
    /\ MaxFailed \in Nat \ {0} /\ Lockout \in Nat \ {0}
    /\ LastMoment \in Nat /\ MaxRequests \in Nat

Master == Sku \cup Unit \cup Godown \cup Supplier \cup Customer \cup Category \cup Uom
Record == User \cup Master

ASSUME NoUserAssumption == NoUser \notin Record

Role == {"ADMIN", "OPERATOR"}

\* What the audit trail shows of a record, of publicUserSelect or the whole row of
\* a master, as far as administrators edit it; active stands for the status of a
\* SKU, too.
Data == [name : Name, role : Role, active : BOOLEAN]
Columns == {"name", "role", "active"}
Missing == [name |-> NoName, role |-> "OPERATOR", active |-> FALSE]

\* An import names the codes it created, and shows no row.
CodeOnly == [name |-> NoName, role |-> "OPERATOR", active |-> TRUE]

VARIABLES
    now,        \* the clock
    data,       \* the committed rows of users and masters
    failed,     \* failed_login_count
    locked,     \* locked_until
    session,    \* the session rows; "used" is the time of the last request that was admitted
    told,       \* the newData of the last audit record of each record
    work,       \* what each browser does
    requests    \* how many of them were made

accounts == <<failed, locked>>
vars == <<now, data, accounts, session, told, work, requests>>

Exists(r) == data[r] # Missing

NoSession == [user |-> NoUser, created |-> 0, expires |-> 0, used |-> 0]
IsOpen(t) == session[t] # NoSession

Resting == [pc |-> "rest", token |-> NoToken, user |-> NoUser,
            role |-> "OPERATOR", record |-> NoUser, patch |-> Missing, sends |-> {},
            seen |-> Missing, right |-> FALSE]

Step == {"rest", "dialog", "check", "welcome", "read", "save", "signout", "reset",
         "others"}

SessionRow == [user : User \cup {NoUser}, created : Nat, expires : Nat, used : Nat]
Work == [pc : Step, token : Token \cup {NoToken}, user : User \cup {NoUser}, role : Role,
         record : Record \cup {NoUser}, patch : Data \cup {Missing}, sends : SUBSET Columns,
         seen : Data \cup {Missing}, right : BOOLEAN]

TypeOK ==
    /\ now \in 0..LastMoment
    /\ data \in [Record -> Data \cup {Missing}]
    /\ failed \in [User -> 0..MaxFailed - 1]
    /\ locked \in [User -> Nat]
    /\ session \in [Token -> SessionRow]
    /\ told \in [Record -> Data \cup {Missing, CodeOnly}]
    /\ work \in [Client -> Work]
    /\ requests \in 0..MaxRequests

\* prisma/seed.ts writes no audit records: told starts with what it created.
Init ==
    LET seeded == [r \in Record |->
            IF r \in Seeded
            THEN [name |-> CHOOSE n \in Name : TRUE, active |-> TRUE,
                  role |-> IF r \in User THEN "ADMIN" ELSE "OPERATOR"]
            ELSE Missing]
    IN  /\ now = 0
        /\ data = seeded
        /\ failed = [u \in User |-> 0]
        /\ locked = [u \in User |-> 0]
        /\ session = [t \in Token |-> NoSession]
        /\ told = seeded
        /\ work = [c \in Client |-> Resting]
        /\ requests = 0

-----------------------------------------------------------------------------
(***************************************************************************)
(* Sessions.                                                               *)
(***************************************************************************)

Earlier(m, n) == IF m < n THEN m ELSE n

\* createSession.
NewSession(u) == [user |-> u, created |-> now, expires |-> now + Idle, used |-> now]

\* deleteSession, deleteUserSessions and deleteOtherSessions.
Deleted(tokens) == [t \in Token |-> IF t \in tokens THEN NoSession ELSE session[t]]
TokensOf(u) == {t \in Token : IsOpen(t) /\ session[t].user = u}

\* Mutant of Valid: only an administrator's sign-out ends the sessions of an
\* inactive user.
ValidUntilDeleted(s) == s.expires > now /\ s.created + Absolute > now

\* validateSessionToken refuses expired sessions and those of inactive users.
Valid(s) == s.expires > now /\ s.created + Absolute > now /\ data[s.user].active

\* Mutant of Extended: the window is extended in its last quarter only.
ExtendedLate(s) ==
    IF 4 * (s.expires - now) < Idle
    THEN [s EXCEPT !.expires = Earlier(now + Idle, s.created + Absolute)] ELSE s

\* The idle window is extended once more than half of it has elapsed.
Extended(s) ==
    IF 2 * (s.expires - now) < Idle
    THEN [s EXCEPT !.expires = Earlier(now + Idle, s.created + Absolute)] ELSE s

\* validateSessionToken: what it leaves of the session row.
Validated(t) ==
    [session EXCEPT ![t] =
        IF ~IsOpen(t) THEN NoSession
        ELSE IF Valid(@) THEN [Extended(@) EXCEPT !.used = now]
        ELSE NoSession]

\* The role of the user who is signed in with t, if there is one.
SignedIn(t) == IsOpen(t) /\ Valid(session[t])
RoleOf(t) == data[session[t].user].role

\* user.manage and master.manage; every other request needs less.
Manages(role) == role = "ADMIN"

\* A page or a request that changes nothing else: requireUser, apiRoute.
Visit(t) ==
    /\ IsOpen(t)
    /\ session' = Validated(t)
    /\ UNCHANGED <<now, data, accounts, told, work, requests>>

Tick ==
    /\ now < LastMoment
    /\ now' = now + 1
    /\ UNCHANGED <<data, accounts, session, told, work, requests>>

Do(c, w) == work' = [work EXCEPT ![c] = w]
Asks == requests < MaxRequests /\ requests' = requests + 1

-----------------------------------------------------------------------------
(***************************************************************************)
(* Sign-in.                                                                *)
(***************************************************************************)

\* login reads the account and verifies the password, which may be the right
\* one; while the account is locked, or for an unknown email, nothing changes.
Login(c, u, verified) ==
    /\ work[c].pc = "rest" /\ Asks
    /\ Exists(u)
    /\ locked[u] <= now
    /\ Do(c, [Resting EXCEPT !.pc = "check", !.user = u,
                             !.right = (verified /\ data[u].active)])
    /\ UNCHANGED <<now, data, accounts, session, told>>

\* registerFailedAttempt: one transaction; the count is incremented where it is.
CheckFails(c) ==
    LET u == work[c].user
        count == failed[u] + 1
    IN  /\ work[c].pc = "check" /\ ~work[c].right
        /\ failed' = [failed EXCEPT ![u] = IF count >= MaxFailed THEN 0 ELSE count]
        /\ locked' = [locked EXCEPT ![u] = IF count >= MaxFailed THEN now + Lockout ELSE @]
        /\ Do(c, Resting)
        /\ UNCHANGED <<now, data, session, told, requests>>

\* The counters are cleared, and the sign-in is audited.
CheckPasses(c) ==
    LET u == work[c].user
    IN  /\ work[c].pc = "check" /\ work[c].right
        /\ failed' = [failed EXCEPT ![u] = 0]
        /\ locked' = [locked EXCEPT ![u] = 0]
        /\ Do(c, [work[c] EXCEPT !.pc = "welcome"])
        /\ UNCHANGED <<now, data, session, told, requests>>

\* createSession: its own statement, after the transaction.
OpenSession(c, t) ==
    /\ work[c].pc = "welcome"
    /\ ~IsOpen(t)
    /\ session' = [session EXCEPT ![t] = NewSession(work[c].user)]
    /\ Do(c, Resting)
    /\ UNCHANGED <<now, data, accounts, told, requests>>

Logout(t) ==
    /\ IsOpen(t)
    /\ session' = Deleted({t})
    /\ UNCHANGED <<now, data, accounts, told, work, requests>>

-----------------------------------------------------------------------------
(***************************************************************************)
(* Passwords.                                                              *)
(***************************************************************************)

\* apiRoute admits a request that only administrators may make.
Admit(c, t, w) ==
    /\ Asks
    /\ SignedIn(t) /\ Manages(RoleOf(t))
    /\ session' = Validated(t)
    /\ Do(c, [w EXCEPT !.token = t, !.user = session[t].user, !.role = RoleOf(t)])

\* resetPassword: hash the password, then one transaction, then the sign-out.
AskReset(c, t, u) ==
    /\ work[c].pc = "rest"
    /\ Exists(u)
    /\ Admit(c, t, [Resting EXCEPT !.pc = "reset", !.record = u])
    /\ UNCHANGED <<now, data, accounts, told>>

Reset(c) ==
    LET u == work[c].record
    IN  /\ work[c].pc = "reset"
        /\ failed' = [failed EXCEPT ![u] = 0]
        /\ locked' = [locked EXCEPT ![u] = 0]
        /\ Do(c, [work[c] EXCEPT !.pc = "signout"])
        /\ UNCHANGED <<now, data, session, told, requests>>

\* changeOwnPassword, by any signed-in user: once the current password is
\* verified the new one is stored, then the other sessions are ended.
AskChange(c, t) ==
    /\ work[c].pc = "rest" /\ Asks
    /\ SignedIn(t)
    /\ session' = Validated(t)
    /\ Do(c, [Resting EXCEPT !.pc = "others", !.token = t, !.user = session[t].user])
    /\ UNCHANGED <<now, data, accounts, told>>

DeleteOthers(c) ==
    /\ work[c].pc = "others"
    /\ session' = Deleted(TokensOf(work[c].user) \ {work[c].token})
    /\ Do(c, Resting)
    /\ UNCHANGED <<now, data, accounts, told, requests>>

-----------------------------------------------------------------------------
(***************************************************************************)
(* Editing users and masters.                                              *)
(***************************************************************************)

\* A dialog starts from the row that the page it is on has shown; it may be
\* closed again without a trace.
OpenDialog(c, kind) ==
    /\ work[c].pc = "rest" /\ requests < MaxRequests
    /\ \E r \in kind : Exists(r) /\ Do(c, [Resting EXCEPT !.pc = "dialog", !.record = r, !.seen = data[r]])
    /\ UNCHANGED <<now, data, accounts, session, told, requests>>

OpenUserDialog(c) == OpenDialog(c, User)
OpenSkuDialog(c) == OpenDialog(c, Sku)
OpenGodownDialog(c) == OpenDialog(c, Godown)
OpenPartyDialog(c) == OpenDialog(c, Supplier \cup Customer)
OpenCategoryToggle(c) == OpenDialog(c, Category)

\* What the fields of a dialog can be changed to.
Editable(r) == IF r \in User THEN Columns ELSE {"name", "active"}

Changed(row, r) ==
    {new \in Data : \E k \in Editable(r) : new = [row EXCEPT ![k] = new[k]]}

\* Administrators cannot deactivate or demote themselves.
LocksOut(actor, role, r, patch, sends) ==
    /\ r = actor
    /\ \/ "active" \in sends /\ ~patch.active
       \/ "role" \in sends /\ patch.role # role

\* Submit: the dialogs send all of their fields; the API takes any of them.
Submit(c, t, patch, sends) ==
    LET r == work[c].record
    IN  /\ work[c].pc = "dialog"
        /\ patch \in Changed(work[c].seen, r)
        /\ sends = Editable(r) \/ \E k \in Editable(r) : sends = {k}
        /\ Admit(c, t, IF LocksOut(session[t].user, RoleOf(t), r, patch, sends) THEN Resting
                       ELSE [work[c] EXCEPT !.pc = "read", !.patch = patch, !.sends = sends])
        /\ UNCHANGED <<now, data, accounts, told>>

\* The transaction reads the row it is about to change.
Read(c) ==
    /\ work[c].pc = "read"
    /\ Do(c, [work[c] EXCEPT !.pc = "save", !.seen = data[work[c].record]])
    /\ UNCHANGED <<now, data, accounts, session, told, requests>>

Patched(row, patch, sends) ==
    [name |-> IF "name" \in sends THEN patch.name ELSE row.name,
     role |-> IF "role" \in sends THEN patch.role ELSE row.role,
     active |-> IF "active" \in sends THEN patch.active ELSE row.active]

\* A role change or deactivation.
AccessChanged(r, row, patch, sends) ==
    /\ r \in User
    /\ \/ "active" \in sends /\ ~patch.active /\ row.active
       \/ "role" \in sends /\ patch.role # row.role

\* Mutant of Recorded: the audit shows what was read, with the changes.
RecordedFromRead(w, after) == Patched(w.seen, w.patch, w.sends)

\* The newData of the audit record: the row as the update returned it.
Recorded(w, after) == after

\* The update, its audit record and the commit, for a record of one kind.
Save(c, kind, next) ==
    LET w == work[c]
        after == Patched(data[w.record], w.patch, w.sends)
    IN  /\ w.pc = "save" /\ w.record \in kind
        /\ data' = [data EXCEPT ![w.record] = after]
        /\ told' = [told EXCEPT ![w.record] = Recorded(w, after)]
        /\ Do(c, next)
        /\ UNCHANGED <<now, accounts, session, requests>>

\* A role change or deactivation also signs the user out, once it is committed.
SaveUser(c) ==
    LET w == work[c]
    IN  Save(c, User, IF AccessChanged(w.record, w.seen, w.patch, w.sends)
                      THEN [w EXCEPT !.pc = "signout"] ELSE Resting)

\* What a SKU or a godown in use must keep is in Warehouse.
SaveSku(c) == Save(c, Sku, Resting)
SaveGodown(c) == Save(c, Godown, Resting)
SaveSupplier(c) == Save(c, Supplier, Resting)
SaveCustomer(c) == Save(c, Customer, Resting)
SaveCategory(c) == Save(c, Category, Resting)

\* deleteUserSessions, after the commit.
SignOut(c) ==
    /\ work[c].pc = "signout"
    /\ session' = Deleted(TokensOf(work[c].record))
    /\ Do(c, Resting)
    /\ UNCHANGED <<now, data, accounts, told, requests>>

\* setSkuUnit inserts the unit or changes its factor.
SetUnit(c, t, unit, row) ==
    /\ work[c].pc = "rest"
    /\ unit \in Unit /\ Exists(unit[1]) /\ Exists(unit[2])
    /\ Admit(c, t, Resting)
    /\ data' = [data EXCEPT ![unit] = row]
    /\ told' = [told EXCEPT ![unit] = row]
    /\ UNCHANGED <<now, accounts>>

\* The audit record of a removal has no newData.
RemoveUnit(c, t, unit) ==
    /\ work[c].pc = "rest"
    /\ unit \in Unit /\ Exists(unit)
    /\ Admit(c, t, Resting)
    /\ data' = [data EXCEPT ![unit] = Missing]
    /\ told' = [told EXCEPT ![unit] = Missing]
    /\ UNCHANGED <<now, accounts>>

-----------------------------------------------------------------------------
(***************************************************************************)
(* Creating users and masters: an insert, which a unique code or email may *)
(* refuse, and its audit record.                                           *)
(***************************************************************************)

Create(c, t, r, row) ==
    /\ work[c].pc = "rest"
    /\ ~Exists(r)
    /\ Admit(c, t, Resting)
    /\ data' = [data EXCEPT ![r] = row]
    /\ told' = [told EXCEPT ![r] = row]
    /\ UNCHANGED <<now, accounts>>

NewMaster == [name : Name, role : {"OPERATOR"}, active : {TRUE}]

CreateUser(c, t) == \E u \in User, row \in Data : row.active /\ Create(c, t, u, row)
CreateSku(c, t) == \E x \in Sku, row \in NewMaster : Create(c, t, x, row)
CreateGodown(c, t) == \E g \in Godown, row \in NewMaster : Create(c, t, g, row)
CreateSupplier(c, t) == \E p \in Supplier, row \in NewMaster : Create(c, t, p, row)
CreateCustomer(c, t) == \E p \in Customer, row \in NewMaster : Create(c, t, p, row)
CreateCategory(c, t) == \E k \in Category, row \in NewMaster : Create(c, t, k, row)
CreateUom(c, t) == \E m \in Uom, row \in NewMaster : Create(c, t, m, row)

\* importSkus: all SKUs of the file or none; its audit record lists the codes.
ImportSkus(c, t, file) ==
    /\ work[c].pc = "rest"
    /\ file \subseteq Sku /\ file # {}
    /\ \A x \in file : ~Exists(x)
    /\ Admit(c, t, Resting)
    /\ \E row \in NewMaster :
          data' = [r \in Record |-> IF r \in file THEN row ELSE data[r]]
    /\ told' = [r \in Record |-> IF r \in file THEN CodeOnly ELSE told[r]]
    /\ UNCHANGED <<now, accounts>>

\* The server stops: requests that are served end where they are.
Crash(c) ==
    /\ work[c].pc \notin {"rest", "dialog"}
    /\ Do(c, Resting)
    /\ UNCHANGED <<now, data, accounts, session, told, requests>>

Next ==
    \/ Tick
    \/ \E t \in Token : Visit(t) \/ Logout(t)
    \/ \E c \in Client :
          \/ CheckFails(c) \/ CheckPasses(c) \/ DeleteOthers(c) \/ Reset(c) \/ SignOut(c) \/ Crash(c)
          \/ \E u \in User, verified \in BOOLEAN : Login(c, u, verified)
          \/ OpenUserDialog(c) \/ OpenSkuDialog(c) \/ OpenGodownDialog(c) \/ OpenPartyDialog(c)
          \/ OpenCategoryToggle(c)
          \/ Read(c) \/ SaveUser(c) \/ SaveSku(c) \/ SaveGodown(c)
          \/ SaveSupplier(c) \/ SaveCustomer(c) \/ SaveCategory(c)
          \/ \E t \in Token :
                \/ OpenSession(c, t)
                \/ AskChange(c, t)
                \/ \E u \in User : AskReset(c, t, u)
                \/ \E patch \in Data, sends \in SUBSET Columns : Submit(c, t, patch, sends)
                \/ \E unit \in Unit : (\E row \in NewMaster : SetUnit(c, t, unit, row)) \/ RemoveUnit(c, t, unit)
                \/ CreateUser(c, t) \/ CreateSku(c, t) \/ CreateGodown(c, t) \/ CreateSupplier(c, t)
                \/ CreateCustomer(c, t) \/ CreateCategory(c, t) \/ CreateUom(c, t)
                \/ \E file \in SUBSET Sku : ImportSkus(c, t, file)

Spec == Init /\ [][Next]_vars

-----------------------------------------------------------------------------
(***************************************************************************)
(* Properties.                                                             *)
(***************************************************************************)

\* "Always called inside the business transaction so the audit trail can never
\* disagree with what was committed" (audit.service.ts:47): the row that the last
\* audit record of a user or master shows is the row that is stored, however
\* the edits of several administrators interleave.  Imports show codes only.
AuditTellsTheState == \A r \in Record : told[r] \in {data[r], CodeOnly}

\* "Expiry is sliding (idle timeout) within an absolute lifetime" (session.ts:55):
\* a session that was used less than half the idle timeout ago is never
\* expired, except by its absolute lifetime, which no use extends.
SessionsSlide ==
    \A t \in Token : IsOpen(t) =>
        LET s == session[t]
        IN  /\ 2 * (Earlier(s.expires, s.created + Absolute) - s.used) >= Idle
               \/ Earlier(s.expires, s.created + Absolute) = s.created + Absolute
            /\ s.expires <= s.created + (IF Idle < Absolute THEN Absolute ELSE Idle)

\* "A role change or deactivation must take effect immediately, not at session
\* expiry" (users.service.ts:63): whoever is admitted is active at that moment
\* and is admitted with the role stored at that moment, also if the sign-out
\* after the change was lost in a crash or a login overlapped it.
AdmissionIsCurrent ==
    [][/\ \A t \in Token :
              IsOpen(t) /\ session'[t] # NoSession /\ session'[t].used # session[t].used
                  => data[session[t].user].active
       /\ \A c \in Client : work'[c].pc # work[c].pc /\ work'[c].pc \in {"read", "reset"}
                  => data[work'[c].user].active /\ Manages(data[work'[c].user].role)]_vars
==============================================================================
