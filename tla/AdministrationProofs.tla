------------------------- MODULE AdministrationProofs -------------------------
(***************************************************************************)
(* Proofs about accounts, sessions, masters and their audit trail, for any *)
(* sets of users, browsers, tokens and records, any time-outs and any      *)
(* number of requests.                                                     *)
(***************************************************************************)
EXTENDS Administration, TLAPS

-----------------------------------------------------------------------------
(***************************************************************************)
(* Types.  A record that is being edited is one of a kind that nothing     *)
(* removes: without this an edit could complete a row that is gone.        *)
(***************************************************************************)

Editing(w) == w.pc \in {"dialog", "read", "save"}
Kept == User \cup Sku \cup Godown \cup Supplier \cup Customer \cup Category

Edited(w) ==
    /\ Editing(w) => w.record \in Kept /\ data[w.record] \in Data
    /\ w.pc = "dialog" => w.seen \in Data
    /\ w.pc \in {"read", "save"} => w.patch \in Data

Typed ==
    /\ TypeOK
    /\ \A c \in Client : Edited(work[c])

LEMMA KindsApart ==
    /\ Kept \subseteq Record /\ Kept \cap Unit = {} /\ Uom \cap Unit = {}
    /\ Missing \notin Data
    /\ \A row \in Data : row # Missing
BY AdministrationAssumption DEF AdministrationAssumption, Kept, Record, Master, Data, Missing

LEMMA RestingIsWork == Resting \in Work /\ ~Editing(Resting)
BY DEF Resting, Work, Step, Role, Missing, Editing

LEMMA InitTyped == Init => Typed
<1> SUFFICES ASSUME Init PROVE Typed
    OBVIOUS
<1>1. PICK n \in Name : n = CHOOSE m \in Name : TRUE
      BY AdministrationAssumption DEF AdministrationAssumption
<1>2. data \in [Record -> Data \cup {Missing}]
      BY <1>1 DEF Init, Data, Role
<1>3. told \in [Record -> Data \cup {Missing, CodeOnly}]
      BY <1>1 DEF Init, Data, Role
<1>4. session \in [Token -> SessionRow]
      BY DEF Init, SessionRow, NoSession
<1>5. work \in [Client -> Work] /\ \A c \in Client : work[c].pc = "rest"
      BY RestingIsWork DEF Init, Resting
<1> QED BY <1>2, <1>3, <1>4, <1>5, AdministrationAssumption
        DEF Init, Typed, TypeOK, AdministrationAssumption, Editing, Edited

\* What a browser's step leaves.
LEMMA DoTyped ==
    ASSUME Typed, NEW c \in Client, NEW w \in Work, Do(c, w)
    PROVE  /\ work' \in [Client -> Work]
           /\ work'[c] = w
           /\ \A d \in Client \ {c} : work'[d] = work[d]
BY DEF Typed, TypeOK, Do

LEMMA ValidatedTyped ==
    ASSUME Typed, NEW t \in Token
    PROVE  Validated(t) \in [Token -> SessionRow]
<1>1. session \in [Token -> SessionRow] /\ now \in Nat
      BY AdministrationAssumption DEF Typed, TypeOK, AdministrationAssumption
<1>2. NoSession \in SessionRow
      BY DEF NoSession, SessionRow
<1>3. ASSUME NEW s \in SessionRow PROVE [Extended(s) EXCEPT !.used = now] \in SessionRow
      BY <1>1, AdministrationAssumption DEF Extended, Earlier, SessionRow, AdministrationAssumption
<1> QED BY <1>1, <1>2, <1>3 DEF Validated

LEMMA DeletedTyped ==
    ASSUME Typed, NEW T
    PROVE  Deleted(T) \in [Token -> SessionRow]
BY DEF Typed, TypeOK, Deleted, NoSession, SessionRow

\* A request that is admitted, whatever it goes on to do.
LEMMA AdmitTyped ==
    ASSUME Typed, NEW c \in Client, NEW t \in Token, NEW w \in Work, Admit(c, t, w)
    PROVE  /\ session' \in [Token -> SessionRow]
           /\ requests' \in 0..MaxRequests
           /\ work' \in [Client -> Work]
           /\ work'[c] = [w EXCEPT !.token = t, !.user = session[t].user, !.role = RoleOf(t)]
           /\ \A d \in Client \ {c} : work'[d] = work[d]
<1>1. session' \in [Token -> SessionRow]
      BY ValidatedTyped DEF Admit
<1>2. requests' \in 0..MaxRequests
      BY AdministrationAssumption DEF Admit, Asks, Typed, TypeOK, AdministrationAssumption
<1>3. session[t].user \in User \cup {NoUser} /\ RoleOf(t) \in Role
      BY DEF Admit, Manages, Role, Typed, TypeOK, SessionRow
<1>4. DEFINE v == [w EXCEPT !.token = t, !.user = session[t].user, !.role = RoleOf(t)]
<1>5. v \in Work
      BY <1>3 DEF Work
<1>6. Do(c, v)
      BY DEF Admit
<1> QED BY <1>1, <1>2, <1>5, <1>6, DoTyped

\* What is not about the browser c and keeps the rows of edited records.
LEMMA EditsKept ==
    ASSUME Typed, NEW c \in Client,
           \A d \in Client \ {c} : work'[d] = work[d],
           \A r \in Kept : data[r] \in Data => data'[r] \in Data,
           Edited(work[c])'
    PROVE  (\A d \in Client : Edited(work[d]))'
BY DEF Typed, Edited, Editing

LEMMA EditsAlone ==
    ASSUME Typed, UNCHANGED work,
           \A r \in Kept : data[r] \in Data => data'[r] \in Data
    PROVE  (\A d \in Client : Edited(work[d]))'
BY DEF Typed, Edited, Editing

LEMMA NotEditing ==
    ASSUME NEW w, ~Editing(w)
    PROVE  Edited(w)
BY DEF Edited, Editing

\* A request that inserts or changes rows at once: every one of them is named
\* in the audit trail.
LEMMA SetTyped ==
    ASSUME Typed, NEW c \in Client, NEW t \in Token, Admit(c, t, Resting),
           data' \in [Record -> Data \cup {Missing}],
           told' \in [Record -> Data \cup {Missing, CodeOnly}],
           \A r \in Kept : data[r] \in Data => data'[r] \in Data,
           UNCHANGED <<now, accounts>>
    PROVE  Typed'
<1> USE DEF accounts
<1>1. /\ session' \in [Token -> SessionRow]
      /\ requests' \in 0..MaxRequests
      /\ work' \in [Client -> Work]
      /\ work'[c] = [Resting EXCEPT !.token = t, !.user = session[t].user, !.role = RoleOf(t)]
      /\ \A d \in Client \ {c} : work'[d] = work[d]
      BY AdmitTyped, RestingIsWork
<1>2. work'[c].pc = "rest"
      BY <1>1 DEF Resting
<1>3. (\A d \in Client : Edited(work[d]))'
      BY <1>1, <1>2, EditsKept DEF Edited, Editing
<1> QED BY <1>1, <1>3 DEF Typed, TypeOK

LEMMA NextTyped == Typed /\ [Next]_vars => Typed'
<1> SUFFICES ASSUME Typed, [Next]_vars PROVE Typed'
    OBVIOUS
<1> USE DEF accounts
<1>0. /\ Resting \in Work /\ Resting.pc = "rest"
      /\ now \in Nat
      /\ MaxFailed \in Nat \ {0} /\ Lockout \in Nat
      /\ \A c \in Client : work[c] \in Work /\ Edited(work[c])
      BY RestingIsWork, AdministrationAssumption
      DEF Resting, Typed, TypeOK, AdministrationAssumption
<1>1. CASE UNCHANGED vars
      BY <1>1 DEF vars, Typed, TypeOK, Edited, Editing
<1>2. CASE Tick
  <2>1. now' \in 0..LastMoment
        BY <1>0, <1>2, AdministrationAssumption DEF Tick, AdministrationAssumption, Typed, TypeOK
  <2> QED BY <1>2, <2>1, EditsAlone DEF Tick, Typed, TypeOK
<1>3. ASSUME NEW t \in Token, Visit(t) \/ Logout(t) PROVE Typed'
  <2>1. session' \in [Token -> SessionRow]
        BY <1>3, ValidatedTyped, DeletedTyped DEF Visit, Logout
  <2> QED BY <1>3, <2>1, EditsAlone DEF Visit, Logout, Typed, TypeOK
<1>4. ASSUME NEW c \in Client,
             \/ CheckFails(c) \/ CheckPasses(c) \/ DeleteOthers(c) \/ Reset(c)
             \/ SignOut(c) \/ Crash(c)
      PROVE  Typed'
  <2>1. PICK w \in Work : Do(c, w) /\ ~Editing(w)
    <3>1. \/ Do(c, Resting) \/ Do(c, [work[c] EXCEPT !.pc = "welcome"])
          \/ Do(c, [work[c] EXCEPT !.pc = "signout"])
          BY <1>4 DEF CheckFails, CheckPasses, DeleteOthers, Reset, SignOut, Crash
    <3>2. /\ [work[c] EXCEPT !.pc = "welcome"] \in Work
          /\ [work[c] EXCEPT !.pc = "signout"] \in Work
          BY <1>0 DEF Work, Step
    <3> QED BY <1>0, <3>1, <3>2, RestingIsWork DEF Editing, Work
  <2>2. session' \in [Token -> SessionRow]
        BY <1>4, DeletedTyped
        DEF CheckFails, CheckPasses, DeleteOthers, Reset, SignOut, Crash, Typed, TypeOK
  <2>3. failed' \in [User -> 0..MaxFailed - 1] /\ locked' \in [User -> Nat]
    <3>1. CASE CheckFails(c)
      <4> DEFINE u == work[c].user
                 count == failed[u] + 1
                 f == IF count >= MaxFailed THEN 0 ELSE count
                 l == IF count >= MaxFailed THEN now + Lockout ELSE locked[u]
      <4>1. failed' = [failed EXCEPT ![u] = f] /\ locked' = [locked EXCEPT ![u] = l]
            BY <3>1 DEF CheckFails
      <4>2. ASSUME u \in User PROVE f \in 0..MaxFailed - 1 /\ l \in Nat
            BY <1>0, <4>2 DEF Typed, TypeOK
      <4> HIDE DEF u, f, l
      <4>3. failed' \in [User -> 0..MaxFailed - 1]
            BY <4>1, <4>2 DEF Typed, TypeOK
      <4>4. locked' \in [User -> Nat]
            BY <4>1, <4>2 DEF Typed, TypeOK
      <4> QED BY <4>3, <4>4
    <3>2. CASE CheckPasses(c) \/ Reset(c)
          BY <1>0, <3>2 DEF CheckPasses, Reset, Typed, TypeOK
    <3>3. CASE DeleteOthers(c) \/ SignOut(c) \/ Crash(c)
          BY <3>3 DEF DeleteOthers, SignOut, Crash, Typed, TypeOK
    <3> QED BY <1>4, <3>1, <3>2, <3>3
  <2>4. UNCHANGED <<now, data, told, requests>>
        BY <1>4 DEF CheckFails, CheckPasses, DeleteOthers, Reset, SignOut, Crash
  <2>5. /\ work' \in [Client -> Work] /\ work'[c] = w
        /\ \A d \in Client \ {c} : work'[d] = work[d]
        BY <2>1, DoTyped
  <2>6. (\A d \in Client : Edited(work[d]))'
        BY <2>1, <2>4, <2>5, EditsKept DEF Edited, Editing
  <2> QED BY <2>2, <2>3, <2>4, <2>5, <2>6 DEF Typed, TypeOK
<1>5. ASSUME NEW c \in Client, NEW u \in User, NEW verified \in BOOLEAN, Login(c, u, verified)
      PROVE  Typed'
  <2> DEFINE w == [Resting EXCEPT !.pc = "check", !.user = u,
                                  !.right = (verified /\ data[u].active)]
  <2>1. \A row \in Data \cup {Missing} : (verified /\ row.active) \in BOOLEAN
        BY DEF Data, Missing
  <2>2. (verified /\ data[u].active) \in BOOLEAN
        BY <2>1 DEF Typed, TypeOK, Record
  <2>3. \A right \in BOOLEAN :
            LET v == [Resting EXCEPT !.pc = "check", !.user = u, !.right = right]
            IN  v \in Work /\ v.pc = "check"
        BY <1>0 DEF Work, Step
  <2>4. w \in Work /\ w.pc = "check"
        BY <2>2, <2>3
  <2>5. /\ work' \in [Client -> Work] /\ work'[c] = w
        /\ \A d \in Client \ {c} : work'[d] = work[d]
        BY <1>5, <2>4, DoTyped DEF Login
  <2>6. (\A d \in Client : Edited(work[d]))'
        BY <1>5, <2>4, <2>5, EditsKept DEF Login, Edited, Editing
  <2>7. requests' \in 0..MaxRequests
        BY <1>5, AdministrationAssumption
        DEF Login, Asks, Typed, TypeOK, AdministrationAssumption
  <2> QED BY <1>5, <2>5, <2>6, <2>7 DEF Login, Typed, TypeOK
<1>6. ASSUME NEW c \in Client, NEW t \in Token, OpenSession(c, t) PROVE Typed'
  <2>1. Earlier(now, now) \in Nat /\ now + Idle \in Nat
        BY <1>0, AdministrationAssumption DEF Earlier, AdministrationAssumption
  <2>2. NewSession(work[c].user) \in SessionRow
        BY <1>0, <2>1 DEF NewSession, SessionRow, Work
  <2>3. session' \in [Token -> SessionRow]
        BY <1>6, <2>2 DEF OpenSession, Typed, TypeOK
  <2>4. /\ work' \in [Client -> Work] /\ work'[c] = Resting
        /\ \A d \in Client \ {c} : work'[d] = work[d]
        BY <1>0, <1>6, DoTyped DEF OpenSession
  <2>5. (\A d \in Client : Edited(work[d]))'
        BY <1>0, <1>6, <2>4, EditsKept DEF OpenSession, Edited, Editing
  <2> QED BY <1>6, <2>3, <2>4, <2>5 DEF OpenSession, Typed, TypeOK
<1>7. ASSUME NEW c \in Client, NEW t \in Token, AskChange(c, t) PROVE Typed'
  <2> DEFINE w == [Resting EXCEPT !.pc = "others", !.token = t, !.user = session[t].user]
  <2>1. w \in Work /\ w.pc = "others"
        BY <1>0 DEF Work, Step, Typed, TypeOK, SessionRow
  <2>2. /\ work' \in [Client -> Work] /\ work'[c] = w
        /\ \A d \in Client \ {c} : work'[d] = work[d]
        BY <1>7, <2>1, DoTyped DEF AskChange
  <2>3. (\A d \in Client : Edited(work[d]))'
        BY <1>7, <2>1, <2>2, EditsKept DEF AskChange, Edited, Editing
  <2>4. requests' \in 0..MaxRequests
        BY <1>7, AdministrationAssumption
        DEF AskChange, Asks, Typed, TypeOK, AdministrationAssumption
  <2>5. session' \in [Token -> SessionRow]
        BY <1>7, ValidatedTyped DEF AskChange
  <2> QED BY <1>7, <2>2, <2>3, <2>4, <2>5 DEF AskChange, Typed, TypeOK
<1>8. ASSUME NEW c \in Client, NEW t \in Token, NEW u \in User, AskReset(c, t, u) PROVE Typed'
  <2> DEFINE w == [Resting EXCEPT !.pc = "reset", !.record = u]
  <2>1. w \in Work /\ w.pc = "reset"
        BY <1>0 DEF Work, Step, Record
  <2>2. /\ session' \in [Token -> SessionRow]
        /\ requests' \in 0..MaxRequests
        /\ work' \in [Client -> Work]
        /\ work'[c] = [w EXCEPT !.token = t, !.user = session[t].user, !.role = RoleOf(t)]
        /\ \A d \in Client \ {c} : work'[d] = work[d]
        BY <1>8, <2>1, AdmitTyped DEF AskReset
  <2>3. work'[c].pc = "reset"
        BY <2>1, <2>2 DEF Work
  <2>4. (\A d \in Client : Edited(work[d]))'
        BY <1>8, <2>2, <2>3, EditsKept DEF AskReset, Edited, Editing
  <2> QED BY <1>8, <2>2, <2>4 DEF AskReset, Typed, TypeOK
<1>9. ASSUME NEW c \in Client, NEW kind \in SUBSET Kept, OpenDialog(c, kind) PROVE Typed'
  <2>1. PICK r \in kind :
            /\ Exists(r)
            /\ Do(c, [Resting EXCEPT !.pc = "dialog", !.record = r, !.seen = data[r]])
        BY <1>9 DEF OpenDialog
  <2> DEFINE w == [Resting EXCEPT !.pc = "dialog", !.record = r, !.seen = data[r]]
  <2>2. r \in Kept /\ r \in Record /\ data[r] \in Data
        BY <2>1, KindsApart DEF Exists, Typed, TypeOK
  <2>3. w \in Work /\ w.pc = "dialog" /\ w.record = r /\ w.seen = data[r]
        BY <1>0, <2>2 DEF Work, Step
  <2>4. /\ work' \in [Client -> Work] /\ work'[c] = w
        /\ \A d \in Client \ {c} : work'[d] = work[d]
        BY <2>1, <2>3, DoTyped
  <2>5. (\A d \in Client : Edited(work[d]))'
        BY <1>9, <2>2, <2>3, <2>4, EditsKept DEF OpenDialog, Edited, Editing
  <2> QED BY <1>9, <2>4, <2>5 DEF OpenDialog, Typed, TypeOK
<1>10. ASSUME NEW c \in Client, NEW t \in Token, NEW patch \in Data, NEW sends \in SUBSET Columns,
              Submit(c, t, patch, sends)
       PROVE  Typed'
  <2> DEFINE w == [work[c] EXCEPT !.pc = "read", !.patch = patch, !.sends = sends]
  <2>1. /\ w \in Work /\ w.pc = "read" /\ w.patch = patch
        /\ w.record = work[c].record
        BY <1>0 DEF Work, Step
  <2>2. work[c].record \in Kept /\ data[work[c].record] \in Data
        BY <1>0, <1>10 DEF Submit, Edited, Editing
  <2>3. PICK v \in {w, Resting} : Admit(c, t, v)
        BY <1>10 DEF Submit
  <2>4. /\ session' \in [Token -> SessionRow]
        /\ requests' \in 0..MaxRequests
        /\ work' \in [Client -> Work]
        /\ work'[c] = [v EXCEPT !.token = t, !.user = session[t].user, !.role = RoleOf(t)]
        /\ \A d \in Client \ {c} : work'[d] = work[d]
        BY <1>0, <2>1, <2>3, AdmitTyped
  <2>5. /\ work'[c].pc = v.pc /\ work'[c].record = v.record /\ work'[c].patch = v.patch
        BY <1>0, <2>1, <2>4 DEF Work
  <2>6. Edited(work[c])'
        BY ZenonT(60), <1>0, <1>10, <2>1, <2>2, <2>3, <2>5 DEF Submit, Edited, Editing
  <2>7. (\A d \in Client : Edited(work[d]))'
        BY <1>10, <2>4, <2>6, EditsKept DEF Submit
  <2> QED BY <1>10, <2>4, <2>7 DEF Submit, Typed, TypeOK
<1>11. ASSUME NEW c \in Client, Read(c) PROVE Typed'
  <2> DEFINE w == [work[c] EXCEPT !.pc = "save", !.seen = data[work[c].record]]
  <2>1. /\ work[c].record \in Kept /\ data[work[c].record] \in Data
        /\ work[c].patch \in Data
        BY <1>0, <1>11 DEF Read, Edited, Editing
  <2>2. w \in Work /\ w.pc = "save" /\ w.record = work[c].record /\ w.patch = work[c].patch
        BY <1>0, <2>1 DEF Work, Step
  <2>3. /\ work' \in [Client -> Work] /\ work'[c] = w
        /\ \A d \in Client \ {c} : work'[d] = work[d]
        BY <1>11, <2>2, DoTyped DEF Read
  <2>4. (\A d \in Client : Edited(work[d]))'
        BY <1>11, <2>1, <2>2, <2>3, EditsKept DEF Read, Edited, Editing
  <2> QED BY <1>11, <2>3, <2>4 DEF Read, Typed, TypeOK
<1>12. ASSUME NEW c \in Client, NEW kind \in SUBSET Kept, NEW next \in Work, ~Editing(next),
              Save(c, kind, next)
       PROVE  Typed'
  <2> DEFINE r == work[c].record
             after == Patched(data[r], work[c].patch, work[c].sends)
  <2>1. r \in Kept /\ data[r] \in Data /\ work[c].patch \in Data
        BY <1>0, <1>12 DEF Save, Edited, Editing
  <2>2. after \in Data
        BY <2>1 DEF Patched, Data
  <2>3. /\ data' = [data EXCEPT ![r] = after] /\ told' = [told EXCEPT ![r] = after]
        /\ UNCHANGED <<now, accounts, session, requests>>
        BY <1>12 DEF Save, Recorded
  <2>4. /\ work' \in [Client -> Work] /\ work'[c] = next
        /\ \A d \in Client \ {c} : work'[d] = work[d]
        BY <1>12, DoTyped DEF Save
  <2>5. \A k \in Kept : data[k] \in Data => data'[k] \in Data
        BY <2>1, <2>2, <2>3, KindsApart DEF Typed, TypeOK
  <2>6. (\A d \in Client : Edited(work[d]))'
        BY <1>12, <2>4, <2>5, EditsKept, NotEditing DEF Edited, Editing
  <2>7. data' \in [Record -> Data \cup {Missing}]
        BY <2>2, <2>3 DEF Typed, TypeOK
  <2>8. told' \in [Record -> Data \cup {Missing, CodeOnly}]
        BY <2>2, <2>3 DEF Typed, TypeOK
  <2> QED BY <2>3, <2>4, <2>6, <2>7, <2>8 DEF Typed, TypeOK
<1>13. ASSUME NEW c \in Client, NEW t \in Token, NEW r \in Record \ Kept,
              NEW row \in Data \cup {Missing}, Admit(c, t, Resting),
              data' = [data EXCEPT ![r] = row], told' = [told EXCEPT ![r] = row],
              UNCHANGED <<now, accounts>>
       PROVE  Typed'
       BY <1>13, SetTyped, KindsApart DEF Typed, TypeOK
<1>14. ASSUME NEW c \in Client, NEW t \in Token, NEW r \in Record, NEW row \in Data,
              Create(c, t, r, row)
       PROVE  Typed'
  <2>1. /\ data' \in [Record -> Data \cup {Missing}]
        /\ told' \in [Record -> Data \cup {Missing, CodeOnly}]
        /\ \A k \in Kept : data[k] \in Data => data'[k] \in Data
        BY <1>14, KindsApart DEF Create, Typed, TypeOK
  <2> QED BY <1>14, <2>1, SetTyped DEF Create
<1>15. ASSUME NEW c \in Client, NEW t \in Token, NEW file \in SUBSET Sku, ImportSkus(c, t, file)
       PROVE  Typed'
  <2>1. NewMaster \subseteq Data
        BY DEF NewMaster, Data, Role
  <2>2. PICK row \in Data : data' = [r \in Record |-> IF r \in file THEN row ELSE data[r]]
        BY <1>15, <2>1 DEF ImportSkus
  <2>3. /\ data' \in [Record -> Data \cup {Missing}]
        /\ told' \in [Record -> Data \cup {Missing, CodeOnly}]
        /\ \A k \in Kept : data[k] \in Data => data'[k] \in Data
        BY <1>15, <2>2, KindsApart DEF ImportSkus, Typed, TypeOK
  <2> QED BY <1>15, <2>3, SetTyped DEF ImportSkus
<1>16. ASSUME NEW c \in Client, NEW t \in Token,
              \/ CreateUser(c, t) \/ CreateSku(c, t) \/ CreateGodown(c, t)
              \/ CreateSupplier(c, t) \/ CreateCustomer(c, t) \/ CreateCategory(c, t)
              \/ CreateUom(c, t)
       PROVE  Typed'
  <2>1. NewMaster \subseteq Data /\ Kept \cup Uom \subseteq Record
        BY KindsApart DEF NewMaster, Data, Role, Record, Master
  <2>2. \E r \in Kept \cup Uom, row \in Data : Create(c, t, r, row)
        BY <1>16, <2>1
        DEF CreateUser, CreateSku, CreateGodown, CreateSupplier, CreateCustomer, CreateCategory,
            CreateUom, Kept
  <2> QED BY <1>14, <2>1, <2>2
<1>17. ASSUME NEW c \in Client, NEW t \in Token, NEW unit \in Unit,
              (\E row \in NewMaster : SetUnit(c, t, unit, row)) \/ RemoveUnit(c, t, unit)
       PROVE  Typed'
  <2>1. NewMaster \subseteq Data /\ unit \in Record \ Kept
        BY KindsApart DEF NewMaster, Data, Role, Record, Master
  <2> QED BY <1>13, <1>17, <2>1 DEF SetUnit, RemoveUnit
<1>18. ASSUME NEW c \in Client,
              \/ OpenUserDialog(c) \/ OpenSkuDialog(c) \/ OpenGodownDialog(c)
              \/ OpenPartyDialog(c) \/ OpenCategoryToggle(c)
       PROVE  Typed'
  <2>1. \E kind \in SUBSET Kept : OpenDialog(c, kind)
        BY <1>18
        DEF OpenUserDialog, OpenSkuDialog, OpenGodownDialog, OpenPartyDialog, OpenCategoryToggle,
            Kept
  <2> QED BY <1>9, <2>1
<1>19. ASSUME NEW c \in Client,
              \/ SaveUser(c) \/ SaveSku(c) \/ SaveGodown(c)
              \/ SaveSupplier(c) \/ SaveCustomer(c) \/ SaveCategory(c)
       PROVE  Typed'
  <2>1. /\ [work[c] EXCEPT !.pc = "signout"] \in Work
        /\ ~Editing([work[c] EXCEPT !.pc = "signout"])
        BY <1>0 DEF Work, Step, Editing
  <2>2. \E kind \in SUBSET Kept, next \in Work : ~Editing(next) /\ Save(c, kind, next)
    <3>1. CASE SaveUser(c)
          BY <3>1, <2>1, RestingIsWork DEF SaveUser, Kept
    <3>2. CASE ~SaveUser(c)
          BY <1>19, <3>2, RestingIsWork
          DEF SaveSku, SaveGodown, SaveSupplier, SaveCustomer, SaveCategory, Kept
    <3> QED BY <3>1, <3>2
  <2> QED BY <1>12, <2>2
<1> QED
    BY <1>1, <1>2, <1>3, <1>4, <1>5, <1>6, <1>7, <1>8, <1>10, <1>11, <1>15, <1>16, <1>17,
       <1>18, <1>19
    DEF Next

LEMMA AlwaysTyped == Spec => []Typed
BY InitTyped, NextTyped, PTL DEF Spec

\* The rows, sessions and requests have their types; no edit completes a row
\* that is gone.
THEOREM TypeCorrect == Spec => []TypeOK
<1>1. Typed => TypeOK
      BY DEF Typed
<1> QED BY <1>1, AlwaysTyped, PTL

-----------------------------------------------------------------------------
(***************************************************************************)
(* The audit trail.  An edit that read an old row still records the row as *)
(* its own update returned it, so no history of the reads is needed.       *)
(***************************************************************************)

LEMMA NextTold == Typed /\ AuditTellsTheState /\ [Next]_vars => AuditTellsTheState'
<1> SUFFICES ASSUME Typed, AuditTellsTheState, [Next]_vars PROVE AuditTellsTheState'
    OBVIOUS
<1>1. CASE UNCHANGED <<data, told>>
      BY <1>1 DEF AuditTellsTheState
<1>2. ASSUME NEW r \in Record, NEW row,
             data' = [data EXCEPT ![r] = row], told' = [told EXCEPT ![r] = row]
      PROVE  AuditTellsTheState'
      BY <1>2 DEF AuditTellsTheState, Typed, TypeOK
<1>3. ASSUME NEW c \in Client, NEW kind \in SUBSET Kept, NEW next, Save(c, kind, next)
      PROVE  AuditTellsTheState'
      BY <1>2, <1>3, KindsApart DEF Save, Recorded
<1>4. ASSUME NEW c \in Client, NEW t \in Token, NEW file \in SUBSET Sku, ImportSkus(c, t, file)
      PROVE  AuditTellsTheState'
      BY <1>4 DEF ImportSkus, AuditTellsTheState
<1>5. ASSUME NEW c \in Client, NEW t \in Token, NEW r \in Record, NEW row, Create(c, t, r, row)
      PROVE  AuditTellsTheState'
      BY <1>2, <1>5 DEF Create
<1>6. ASSUME NEW c \in Client, NEW t \in Token, NEW unit \in Unit,
             (\E row \in NewMaster : SetUnit(c, t, unit, row)) \/ RemoveUnit(c, t, unit)
      PROVE  AuditTellsTheState'
      BY <1>2, <1>6 DEF SetUnit, RemoveUnit, Record, Master
<1>7. CASE UNCHANGED vars
      BY <1>1, <1>7 DEF vars
<1>8. CASE Tick
      BY <1>1, <1>8 DEF Tick
<1>9. ASSUME NEW t \in Token, Visit(t) \/ Logout(t) PROVE AuditTellsTheState'
      BY <1>1, <1>9 DEF Visit, Logout
<1>10. ASSUME NEW c \in Client,
              \/ CheckFails(c) \/ CheckPasses(c) \/ DeleteOthers(c) \/ Reset(c)
              \/ SignOut(c) \/ Crash(c) \/ Read(c)
              \/ \E u \in User, verified \in BOOLEAN : Login(c, u, verified)
       PROVE  AuditTellsTheState'
       BY <1>1, <1>10
       DEF CheckFails, CheckPasses, DeleteOthers, Reset, SignOut, Crash, Read, Login
<1>11. ASSUME NEW c \in Client,
              \/ OpenUserDialog(c) \/ OpenSkuDialog(c) \/ OpenGodownDialog(c)
              \/ OpenPartyDialog(c) \/ OpenCategoryToggle(c)
       PROVE  AuditTellsTheState'
       BY <1>1, <1>11
       DEF OpenUserDialog, OpenSkuDialog, OpenGodownDialog, OpenPartyDialog, OpenCategoryToggle,
           OpenDialog
<1>12. ASSUME NEW c \in Client,
              \/ SaveUser(c) \/ SaveSku(c) \/ SaveGodown(c)
              \/ SaveSupplier(c) \/ SaveCustomer(c) \/ SaveCategory(c)
       PROVE  AuditTellsTheState'
       BY <1>3, <1>12
       DEF SaveUser, SaveSku, SaveGodown, SaveSupplier, SaveCustomer, SaveCategory, Kept
<1>13. ASSUME NEW c \in Client, NEW t \in Token,
              \/ OpenSession(c, t)
              \/ AskChange(c, t)
              \/ \E u \in User : AskReset(c, t, u)
              \/ \E patch \in Data, sends \in SUBSET Columns : Submit(c, t, patch, sends)
       PROVE  AuditTellsTheState'
       BY <1>1, <1>13 DEF OpenSession, AskChange, AskReset, Submit
<1>14. ASSUME NEW c \in Client, NEW t \in Token,
              \/ CreateUser(c, t) \/ CreateSku(c, t) \/ CreateGodown(c, t)
              \/ CreateSupplier(c, t) \/ CreateCustomer(c, t) \/ CreateCategory(c, t)
              \/ CreateUom(c, t)
       PROVE  AuditTellsTheState'
  <2>1. \E r \in Record : \E row : Create(c, t, r, row)
        BY <1>14, Zenon
        DEF CreateUser, CreateSku, CreateGodown, CreateSupplier, CreateCustomer, CreateCategory,
            CreateUom, Record, Master
  <2> QED BY <1>5, <2>1
<1> QED
    BY <1>4, <1>6, <1>7, <1>8, <1>9, <1>10, <1>11, <1>12, <1>13, <1>14
    DEF Next

\* The last audit record of a user or a master shows the row that is stored,
\* whatever edits, imports and crashes interleave.
THEOREM AuditHolds == Spec => []AuditTellsTheState
<1>1. Init => AuditTellsTheState
      BY DEF Init, AuditTellsTheState
<1> QED BY <1>1, NextTold, AlwaysTyped, PTL DEF Spec

-----------------------------------------------------------------------------
(***************************************************************************)
(* Sessions.  Only signing in, being admitted, and signing out write their *)
(* rows.                                                                   *)
(***************************************************************************)

\* What SessionsSlide says of one session row.
Slides(s) ==
    /\ 2 * (Earlier(s.expires, s.created + Absolute) - s.used) >= Idle
       \/ Earlier(s.expires, s.created + Absolute) = s.created + Absolute
    /\ s.expires <= s.created + (IF Idle < Absolute THEN Absolute ELSE Idle)

LEMMA SlidesIsThat == SessionsSlide <=> \A t \in Token : IsOpen(t) => Slides(session[t])
BY DEF SessionsSlide, Slides

\* One step writes at most the rows of sessions that are opened, validated or
\* deleted.
LEMMA SessionSteps ==
    ASSUME Typed, Next
    PROVE  \/ UNCHANGED session
           \/ \E T : session' = Deleted(T)
           \/ \E t \in Token : session' = Validated(t)
           \/ \E t \in Token : \E u : ~IsOpen(t) /\ session' = [session EXCEPT ![t] = NewSession(u)]
<1> DEFINE Known == \/ UNCHANGED session
                    \/ \E T : session' = Deleted(T)
                    \/ \E t \in Token : session' = Validated(t)
                    \/ \E t \in Token : \E u :
                          ~IsOpen(t) /\ session' = [session EXCEPT ![t] = NewSession(u)]
<1>1. CASE Tick
      BY <1>1 DEF Tick
<1>2. ASSUME NEW t \in Token, Visit(t) \/ Logout(t) PROVE Known
      BY <1>2 DEF Visit, Logout
<1>3. ASSUME NEW c \in Client,
             \/ CheckFails(c) \/ CheckPasses(c) \/ Reset(c) \/ Crash(c) \/ Read(c)
             \/ \E u \in User, verified \in BOOLEAN : Login(c, u, verified)
      PROVE  UNCHANGED session
      BY <1>3 DEF CheckFails, CheckPasses, Reset, Crash, Read, Login
<1>4. ASSUME NEW c \in Client, DeleteOthers(c) \/ SignOut(c) PROVE \E T : session' = Deleted(T)
      BY <1>4 DEF DeleteOthers, SignOut
<1>5. ASSUME NEW c \in Client,
             \/ OpenUserDialog(c) \/ OpenSkuDialog(c) \/ OpenGodownDialog(c)
             \/ OpenPartyDialog(c) \/ OpenCategoryToggle(c)
      PROVE  UNCHANGED session
      BY <1>5
      DEF OpenUserDialog, OpenSkuDialog, OpenGodownDialog, OpenPartyDialog, OpenCategoryToggle,
          OpenDialog
<1>6. ASSUME NEW c \in Client,
             \/ SaveUser(c) \/ SaveSku(c) \/ SaveGodown(c)
             \/ SaveSupplier(c) \/ SaveCustomer(c) \/ SaveCategory(c)
      PROVE  UNCHANGED session
      BY <1>6
      DEF SaveUser, SaveSku, SaveGodown, SaveSupplier, SaveCustomer, SaveCategory, Save
<1>7. ASSUME NEW c \in Client, NEW t \in Token, OpenSession(c, t)
      PROVE  \E u : ~IsOpen(t) /\ session' = [session EXCEPT ![t] = NewSession(u)]
      BY <1>7 DEF OpenSession
<1>8. ASSUME NEW c \in Client, NEW t \in Token,
             \/ AskChange(c, t)
             \/ \E u \in User : AskReset(c, t, u)
             \/ \E patch \in Data, sends \in SUBSET Columns : Submit(c, t, patch, sends)
      PROVE  session' = Validated(t)
      BY <1>8 DEF AskChange, AskReset, Submit, Admit
<1>9. ASSUME NEW c \in Client, NEW t \in Token,
             \/ CreateUser(c, t) \/ CreateSku(c, t) \/ CreateGodown(c, t)
             \/ CreateSupplier(c, t) \/ CreateCustomer(c, t) \/ CreateCategory(c, t)
             \/ CreateUom(c, t)
             \/ \E unit \in Unit :
                   (\E row \in NewMaster : SetUnit(c, t, unit, row)) \/ RemoveUnit(c, t, unit)
             \/ \E file \in SUBSET Sku : ImportSkus(c, t, file)
      PROVE  session' = Validated(t)
      BY <1>9
      DEF CreateUser, CreateSku, CreateGodown, CreateSupplier, CreateCustomer, CreateCategory,
          CreateUom, Create, SetUnit, RemoveUnit, ImportSkus, Admit
<1> HIDE DEF Known
<1>10. Known
       BY <1>1, <1>2, <1>3, <1>4, <1>5, <1>6, <1>7, <1>8, <1>9 DEF Next, Known
<1> QED BY <1>10 DEF Known

LEMMA NextSlides == Typed /\ SessionsSlide /\ [Next]_vars => SessionsSlide'
<1> SUFFICES ASSUME Typed, SessionsSlide, [Next]_vars, NEW t \in Token, IsOpen(t)'
             PROVE  Slides(session[t])'
    BY SlidesIsThat DEF SessionsSlide, Slides
<1>0. /\ now \in Nat /\ session \in [Token -> SessionRow]
      /\ Idle \in Nat \ {0} /\ Absolute \in Nat \ {0}
      BY AdministrationAssumption DEF Typed, TypeOK, AdministrationAssumption
<1>1. CASE session'[t] = session[t]
      BY <1>1, SlidesIsThat DEF IsOpen, Slides
<1>2. ASSUME NEW u, session'[t] = NewSession(u) PROVE Slides(session[t])'
      BY <1>0, <1>2 DEF Slides, NewSession, Earlier
<1>3. ASSUME NEW s \in SessionRow, Slides(s), Valid(s),
             session'[t] = [Extended(s) EXCEPT !.used = now]
      PROVE  Slides(session[t])'
  <2>1. /\ s.expires \in Nat /\ s.created \in Nat /\ s.used \in Nat
        /\ s.expires > now /\ s.created + Absolute > now
        BY <1>3 DEF SessionRow, Valid
  <2>2. CASE 2 * (s.expires - now) < Idle
        BY <1>0, <1>3, <2>1, <2>2 DEF Extended, Slides, Earlier, SessionRow
  <2>3. CASE ~(2 * (s.expires - now) < Idle)
        BY <1>0, <1>3, <2>1, <2>3 DEF Extended, Slides, Earlier, SessionRow
  <2> QED BY <2>2, <2>3
<1>4. CASE UNCHANGED vars
      BY <1>1, <1>4 DEF vars
<1>5. ASSUME NEW T, session' = Deleted(T) PROVE Slides(session[t])'
      BY <1>1, <1>5 DEF Deleted, IsOpen
<1>6. ASSUME NEW k \in Token, session' = Validated(k) PROVE Slides(session[t])'
  <2>1. CASE k # t
        BY <1>0, <1>1, <1>6, <2>1 DEF Validated
  <2>2. CASE k = t
    <3>1. /\ IsOpen(t) /\ Valid(session[t])
          /\ session'[t] = [Extended(session[t]) EXCEPT !.used = now]
          BY <1>0, <1>6, <2>2 DEF Validated, IsOpen
    <3> QED BY <1>0, <1>3, <3>1, SlidesIsThat
  <2> QED BY <2>1, <2>2
<1>7. ASSUME NEW k \in Token, NEW u, session' = [session EXCEPT ![k] = NewSession(u)]
      PROVE  Slides(session[t])'
      BY <1>0, <1>1, <1>2, <1>7
<1> QED BY <1>4, <1>5, <1>6, <1>7, <1>1, SessionSteps

\* A session in use does not expire before its absolute lifetime, which no use
\* extends, for any time-outs.
THEOREM SessionsSlideHolds == Spec => []SessionsSlide
<1>1. Init => SessionsSlide
      BY DEF Init, SessionsSlide, IsOpen
<1> QED BY <1>1, NextSlides, AlwaysTyped, PTL DEF Spec

-----------------------------------------------------------------------------
(***************************************************************************)
(* Admission: of every step, from types alone.                             *)
(***************************************************************************)

\* A session whose row shows a new use has been validated by this step.
LEMMA UsedIsActive ==
    ASSUME Typed, Next, NEW t \in Token,
           IsOpen(t), session'[t] # NoSession, session'[t].used # session[t].used
    PROVE  data[session[t].user].active
<1>1. session \in [Token -> SessionRow]
      BY DEF Typed, TypeOK
<1>2. ASSUME NEW T, session' = Deleted(T) PROVE FALSE
      BY <1>2 DEF Deleted
<1>3. ASSUME NEW k \in Token, NEW u, ~IsOpen(k), session' = [session EXCEPT ![k] = NewSession(u)]
      PROVE  FALSE
      BY <1>1, <1>3 DEF IsOpen
<1>4. PICK k \in Token : session' = Validated(k)
      BY <1>2, <1>3, SessionSteps
<1> QED BY <1>1, <1>4 DEF Validated, Valid, IsOpen

\* Whoever starts an edit or a reset was admitted by this step, as a manager.
LEMMA AdmittedManages ==
    ASSUME Typed, Next, NEW c \in Client,
           work'[c].pc # work[c].pc, work'[c].pc \in {"read", "reset"}
    PROVE  data[work'[c].user].active /\ Manages(data[work'[c].user].role)
<1>0. work \in [Client -> Work] /\ Resting \in Work /\ Resting.pc = "rest"
      BY RestingIsWork DEF Typed, TypeOK, Resting
<1> DEFINE Good == data[work'[c].user].active /\ Manages(data[work'[c].user].role)
<1>1. ASSUME NEW d \in Client, NEW t \in Token, NEW w \in Work, Admit(d, t, w) PROVE Good
  <2>1. /\ work'[d] = [w EXCEPT !.token = t, !.user = session[t].user, !.role = RoleOf(t)]
        /\ \A e \in Client \ {d} : work'[e] = work[e]
        BY <1>1, AdmitTyped
  <2>2. d = c
        BY <2>1
  <2>3. work'[c].user = session[t].user
        BY <2>1, <2>2 DEF Work
  <2> QED BY <1>1, <2>3 DEF Admit, SignedIn, Valid, RoleOf
<1>2. ASSUME NEW d \in Client, NEW w, Do(d, w), w.pc \notin {"read", "reset"} PROVE FALSE
      BY <1>0, <1>2 DEF Do
<1>3. UNCHANGED work => FALSE
      OBVIOUS
<1> HIDE DEF Good
<1>4. ASSUME Tick PROVE Good
      BY <1>3, <1>4 DEF Tick
<1>5. ASSUME NEW t \in Token, Visit(t) \/ Logout(t) PROVE Good
      BY <1>3, <1>5 DEF Visit, Logout
<1>6. ASSUME NEW d \in Client,
             \/ CheckFails(d) \/ CheckPasses(d) \/ DeleteOthers(d) \/ Reset(d)
             \/ SignOut(d) \/ Crash(d) \/ Read(d)
      PROVE  Good
  <2>1. \/ Do(d, Resting) \/ Do(d, [work[d] EXCEPT !.pc = "welcome"])
        \/ Do(d, [work[d] EXCEPT !.pc = "signout"])
        \/ Do(d, [work[d] EXCEPT !.pc = "save", !.seen = data[work[d].record]])
        BY <1>6 DEF CheckFails, CheckPasses, DeleteOthers, Reset, SignOut, Crash, Read
  <2>2. \A pc \in Step : [work[d] EXCEPT !.pc = pc].pc = pc
        BY <1>0 DEF Work
  <2>3. [work[d] EXCEPT !.pc = "save", !.seen = data[work[d].record]].pc = "save"
        BY <1>0 DEF Work
  <2> QED BY <1>0, <1>2, <2>1, <2>2, <2>3 DEF Step
<1>7. ASSUME NEW d \in Client, NEW u \in User, NEW verified \in BOOLEAN, Login(d, u, verified)
      PROVE  Good
  <2>1. [Resting EXCEPT !.pc = "check", !.user = u,
                        !.right = (verified /\ data[u].active)].pc = "check"
        BY DEF Resting
  <2> QED BY <1>2, <1>7, <2>1 DEF Login
<1>8. ASSUME NEW d \in Client, NEW kind, OpenDialog(d, kind) PROVE Good
  <2>1. PICK r \in kind : Do(d, [Resting EXCEPT !.pc = "dialog", !.record = r, !.seen = data[r]])
        BY <1>8 DEF OpenDialog
  <2>2. [Resting EXCEPT !.pc = "dialog", !.record = r, !.seen = data[r]].pc = "dialog"
        BY DEF Resting
  <2> QED BY <1>2, <2>1, <2>2
<1>9. ASSUME NEW d \in Client,
             \/ SaveUser(d) \/ SaveSku(d) \/ SaveGodown(d)
             \/ SaveSupplier(d) \/ SaveCustomer(d) \/ SaveCategory(d)
      PROVE  Good
  <2>1. Do(d, Resting) \/ Do(d, [work[d] EXCEPT !.pc = "signout"])
        BY <1>9
        DEF SaveUser, SaveSku, SaveGodown, SaveSupplier, SaveCustomer, SaveCategory, Save
  <2>2. [work[d] EXCEPT !.pc = "signout"].pc = "signout"
        BY <1>0 DEF Work
  <2> QED BY <1>0, <1>2, <2>1, <2>2
<1>10. ASSUME NEW d \in Client, NEW t \in Token, OpenSession(d, t) PROVE Good
       BY <1>0, <1>2, <1>10 DEF OpenSession
<1>11. ASSUME NEW d \in Client, NEW t \in Token, AskChange(d, t) PROVE Good
  <2>1. [Resting EXCEPT !.pc = "others", !.token = t, !.user = session[t].user].pc = "others"
        BY DEF Resting
  <2> QED BY <1>2, <1>11, <2>1 DEF AskChange
<1>12. ASSUME NEW d \in Client, NEW t \in Token, NEW u \in User, AskReset(d, t, u) PROVE Good
  <2>1. [Resting EXCEPT !.pc = "reset", !.record = u] \in Work
        BY <1>0 DEF Work, Step, Record
  <2> QED BY <1>1, <1>12, <2>1 DEF AskReset
<1>13. ASSUME NEW d \in Client, NEW t \in Token, NEW patch \in Data, NEW sends \in SUBSET Columns,
              Submit(d, t, patch, sends)
       PROVE  Good
  <2>1. [work[d] EXCEPT !.pc = "read", !.patch = patch, !.sends = sends] \in Work
        BY <1>0 DEF Work, Step
  <2>2. \E w \in Work : Admit(d, t, w)
        BY <1>0, <1>13, <2>1 DEF Submit
  <2> QED BY <1>1, <2>2
<1>14. ASSUME NEW d \in Client, NEW t \in Token,
              \/ CreateUser(d, t) \/ CreateSku(d, t) \/ CreateGodown(d, t)
              \/ CreateSupplier(d, t) \/ CreateCustomer(d, t) \/ CreateCategory(d, t)
              \/ CreateUom(d, t)
              \/ \E unit \in Unit :
                    (\E row \in NewMaster : SetUnit(d, t, unit, row)) \/ RemoveUnit(d, t, unit)
              \/ \E file \in SUBSET Sku : ImportSkus(d, t, file)
       PROVE  Good
  <2>1. Admit(d, t, Resting)
        BY <1>14
        DEF CreateUser, CreateSku, CreateGodown, CreateSupplier, CreateCustomer, CreateCategory,
            CreateUom, Create, SetUnit, RemoveUnit, ImportSkus
  <2> QED BY <1>0, <1>1, <2>1
<1>15. ASSUME NEW d \in Client,
              \/ OpenUserDialog(d) \/ OpenSkuDialog(d) \/ OpenGodownDialog(d)
              \/ OpenPartyDialog(d) \/ OpenCategoryToggle(d)
       PROVE  Good
       BY <1>8, <1>15
       DEF OpenUserDialog, OpenSkuDialog, OpenGodownDialog, OpenPartyDialog, OpenCategoryToggle
<1>16. Good
       BY <1>4, <1>5, <1>6, <1>7, <1>9, <1>10, <1>11, <1>12, <1>13, <1>14, <1>15 DEF Next
<1> QED BY <1>16 DEF Good

\* Whoever is admitted is active, and starts to change what administrators
\* maintain with the role stored at that moment: the property of AdmissionIsCurrent.
THEOREM AdmissionHolds == Spec => AdmissionIsCurrent
<1>1. ASSUME Typed, Next
      PROVE  /\ \A t \in Token :
                    IsOpen(t) /\ session'[t] # NoSession /\ session'[t].used # session[t].used
                        => data[session[t].user].active
             /\ \A c \in Client : work'[c].pc # work[c].pc /\ work'[c].pc \in {"read", "reset"}
                        => data[work'[c].user].active /\ Manages(data[work'[c].user].role)
      BY <1>1, UsedIsActive, AdmittedManages
<1>2. ASSUME UNCHANGED vars
      PROVE  /\ \A t \in Token :
                    IsOpen(t) /\ session'[t] # NoSession /\ session'[t].used # session[t].used
                        => data[session[t].user].active
             /\ \A c \in Client : work'[c].pc # work[c].pc /\ work'[c].pc \in {"read", "reset"}
                        => data[work'[c].user].active /\ Manages(data[work'[c].user].role)
      BY <1>2 DEF vars
<1> QED BY <1>1, AlwaysTyped, PTL DEF Spec, AdmissionIsCurrent
==============================================================================
