-------------------------------- MODULE Dialogs --------------------------------
(***************************************************************************)
(* The dialogs and small forms of the pages, one at a time, as React runs  *)
(* them around useApiMutation: what a dialog holds outlives its closing,   *)
(* closing does not call back what was sent, and the answer arrives        *)
(* whenever it does.  A form is abstracted to one value, of the row it     *)
(* edits or typed; what the server refuses, to the field it blames.        *)
(***************************************************************************)
EXTENDS Naturals

CONSTANTS
    Content,    \* what a row, and a form, can hold
    Nothing,    \* a form with nothing typed into it
    NoDialog,   \* a page without any of these
    MaxSent     \* bound: requests sent from one page

ASSUME DialogsAssumption == Nothing \notin Content /\ MaxSent \in Nat

VARIABLES
    dialog,     \* the component that is mounted
    open,       \* whether it is on the screen
    form,       \* what it holds
    holds,      \* what was last put there for its user to see: opened with, typed or cleared
    page,       \* the row as the page shows it
    row,        \* the row as the server keeps it
    request,    \* what is on its way, and what has become of it
    sent,       \* how many were sent
    error,      \* the error it keeps: of which request, and whether a message is seen
    done,       \* the request whose success it reports
    since,      \* how many requests were answered before it was opened
    carried     \* the requests the server carried out

dialogVars == <<dialog, open, form, holds, page, row, request, sent, error, done, since, carried>>

NoRequest == [phase |-> "NONE", body |-> Nothing]
NoError == [of |-> 0, seen |-> TRUE]

-----------------------------------------------------------------------------
(***************************************************************************)
(* What the server's schemas look at in the fields a user fills in.  A     *)
(* checkbox, and the keys of what is edited, are never refused.            *)
(***************************************************************************)

SkuSchema(editing) ==
    {"name", "description", "categoryId", "baseUomId", "hsnCode", "gstRate", "tallyStockItemName"}
        \cup (IF editing THEN {"status"} ELSE {"code"})
GodownSchema(editing) ==
    {"name", "address", "tallyGodownName"} \cup (IF editing THEN {} ELSE {"code"})
PartySchema(editing) ==
    {"name", "gstin", "email", "phone", "address"} \cup (IF editing THEN {} ELSE {"code"})
UserSchema(editing) ==
    {"name", "mobile", "role"} \cup (IF editing THEN {} ELSE {"email", "password"})
ReorderRuleSchema(editing) ==
    {"reorderLevel"} \cup (IF editing THEN {} ELSE {"skuId", "godownId"})
SkuUnitSchema == {"uomId", "factor"}
UomSchema == {"code", "name"}
CategorySchema == {"name"}
PasswordResetSchema == {"password"}
PasswordChangeSchema == {"currentPassword", "newPassword"}
LoginSchema == {"email", "password"}
ReasonSchema == {"reason"}
ReviewSchema == {"note"}
ImportSchema == {"csv", "asOf"}

-----------------------------------------------------------------------------
(***************************************************************************)
(* The components.  starts: opening puts the row, nothing or what it held  *)
(* into the form.  forgets: opening resets the error.  refused, marks: the *)
(* fields the server may blame and those an error is shown beside.         *)
(* alerts: errors of other fields are told as well, not only those that    *)
(* blame none.  then: what a success does.                                 *)
(***************************************************************************)

Component(name, starts, forgets, refused, marks, alerts, then) ==
    [name |-> name, starts |-> starts, forgets |-> forgets, refused |-> refused,
     marks |-> marks, alerts |-> alerts, then |-> then]

\* A dialog that edits the page's row, or starts a new one from nothing.
Editor(name, editing, refused, marks) ==
    Component(name, IF editing THEN "ROW" ELSE "EMPTY", TRUE,
              refused, marks, FALSE, {"CLOSE"})

SkuFormDialog(editing) ==
    Editor("SKU", editing, SkuSchema(editing),
           {"code", "name", "categoryId", "baseUomId", "hsnCode", "gstRate",
            "tallyStockItemName", "description"} \cup (IF editing THEN {"status"} ELSE {}))
GodownFormDialog(editing) ==
    Editor("GODOWN", editing, GodownSchema(editing), {"code", "name", "address", "tallyGodownName"})
PartyFormDialog(editing) ==
    Editor("PARTY", editing, PartySchema(editing),
           {"code", "name", "gstin", "phone", "email", "address"})
UserFormDialog(editing) ==
    Editor("USER", editing, UserSchema(editing),
           {"name", "email", "mobile", "role"} \cup (IF editing THEN {} ELSE {"password"}))
ReorderRuleDialog(editing) ==
    Editor("RULE", editing, ReorderRuleSchema(editing),
           {"reorderLevel"} \cup (IF editing THEN {} ELSE {"skuId", "godownId"}))

\* Stays open for the next unit; the units listed are removed by a mutation of its own.
SkuUnitsDialog(removing) ==
    Component("UNITS", "EMPTY", TRUE, IF removing THEN {} ELSE SkuUnitSchema,
              {"uomId", "factor"}, removing, IF removing THEN {} ELSE {"CLEAR"})

\* Says what was imported; keeps its file.
CsvImportDialog ==
    Component("IMPORT", "EMPTY", TRUE, ImportSchema, {"asOf"}, TRUE, {"DONE"})
ResetPasswordDialog ==
    Component("RESET", "EMPTY", TRUE, PasswordResetSchema, {"password"}, TRUE, {"CLEAR", "DONE"})

\* The reason outlives the dialog until it was accepted; of a reversal, even then.
ReasonActionButton ==
    Component("REASON", "KEPT", TRUE, ReasonSchema, {"reason"}, TRUE, {"CLOSE", "CLEAR"})
ReverseEntryButton ==
    Component("REVERSE", "KEPT", FALSE, ReasonSchema, {"reason"}, TRUE, {"CLOSE"})

\* Forms and buttons of the page itself, never closed.
UomForm == Component("UOM", "INLINE", FALSE, UomSchema, {}, TRUE, {"CLEAR"})
CategoryForm == Component("CATEGORY", "INLINE", FALSE, CategorySchema, {"name"}, TRUE, {"CLEAR"})
CategoryToggleButton == Component("TOGGLE", "INLINE", FALSE, {}, {}, TRUE, {})
ChangePasswordForm ==
    Component("PASSWORD", "INLINE", FALSE, PasswordChangeSchema, {"currentPassword", "newPassword"},
              FALSE, {"CLEAR", "DONE"})
LoginForm == Component("LOGIN", "INLINE", FALSE, LoginSchema, {"email", "password"}, FALSE, {})
AdjustmentReview == Component("REVIEW", "INLINE", FALSE, ReviewSchema, {"note"}, TRUE, {})
RunTallySyncButton == Component("SYNC", "INLINE", FALSE, {}, {}, TRUE, {"DONE"})
RetryTallyJobButton == Component("RETRY", "INLINE", FALSE, {}, {}, TRUE, {})

Dialog ==
    (UNION {{SkuFormDialog(e), GodownFormDialog(e), PartyFormDialog(e), UserFormDialog(e),
             ReorderRuleDialog(e), SkuUnitsDialog(e)} : e \in BOOLEAN})
    \cup {CsvImportDialog, ResetPasswordDialog, ReasonActionButton, ReverseEntryButton,
          UomForm, CategoryForm, CategoryToggleButton, ChangePasswordForm, LoginForm,
          AdjustmentReview, RunTallySyncButton, RetryTallyJobButton}

Inline(d) == d.starts = "INLINE"

DialogTypeOK ==
    /\ dialog \in Dialog \cup {NoDialog}
    /\ open \in BOOLEAN
    /\ {form, holds, page, row} \subseteq Content \cup {Nothing}
    /\ request \in [phase : {"NONE", "SENT", "CARRIED", "REFUSED"}, body : Content \cup {Nothing}]
    /\ {sent, done, since} \subseteq 0..MaxSent
    /\ error \in [of : 0..MaxSent, seen : BOOLEAN]
    /\ carried \subseteq 1..MaxSent

\* Only the editors show a row of the page.
RowsOf(d) == IF d # NoDialog /\ d.starts = "ROW" THEN Content ELSE {Nothing}

\* The component mounts: useState's initial values.
Mounted(d) ==
    /\ dialog = d
    /\ open = (d # NoDialog /\ Inline(d))
    /\ row \in RowsOf(d) /\ page = row
    /\ form = Nothing /\ holds = Nothing
    /\ request = NoRequest /\ sent = 0 /\ error = NoError /\ done = 0
    /\ since = 0 /\ carried = {}

-----------------------------------------------------------------------------
(***************************************************************************)
(* The page around it.                                                     *)
(***************************************************************************)

\* Someone else saves the row.
OthersSave(content) ==
    /\ dialog.starts = "ROW" /\ row' = content
    /\ UNCHANGED <<dialog, open, form, holds, page, request, sent, error, done, since, carried>>

\* router.refresh, of this component or of the change feed.
Refresh ==
    /\ page' = row
    /\ UNCHANGED <<dialog, open, form, holds, row, request, sent, error, done, since, carried>>

-----------------------------------------------------------------------------
(***************************************************************************)
(* Its user.                                                               *)
(***************************************************************************)

\* Mutant of ErrorAtOpening: opening does not reset the mutation.
ErrorKept(d) == error

\* save.reset() of openDialog.
ErrorAtOpening(d) == IF d.forgets THEN NoError ELSE error

\* setForm(initial) of openDialog, with the page's row as it is now, or with nothing.
FormAtOpening(d) ==
    CASE d.starts = "ROW" -> page [] d.starts = "EMPTY" -> Nothing [] OTHER -> form

OpenDialog ==
    /\ ~open
    /\ open' = TRUE
    /\ form' = FormAtOpening(dialog)
    /\ holds' = CASE dialog.starts = "ROW" -> page [] dialog.starts = "EMPTY" -> Nothing
                  [] OTHER -> form
    /\ error' = ErrorAtOpening(dialog)
    /\ done' = 0
    /\ since' = IF request = NoRequest THEN sent ELSE sent - 1
    /\ UNCHANGED <<dialog, page, row, request, sent, carried>>

\* Cancel, Done, Escape: nothing but the dialog's being open changes.
CloseDialog ==
    /\ open /\ ~Inline(dialog)
    /\ open' = FALSE
    /\ UNCHANGED <<dialog, form, holds, page, row, request, sent, error, done, since, carried>>

\* A dialog that reports its success shows no form.
FormShown == open /\ (done = 0 \/ Inline(dialog))

Type(content) ==
    /\ FormShown /\ dialog.refused # {}
    /\ form' = content /\ holds' = content
    /\ UNCHANGED <<dialog, open, page, row, request, sent, error, done, since, carried>>

\* onSubmit, mutate: the button is disabled while a request is pending, and an import
\* has none without a file.
SubmitDialog ==
    /\ FormShown /\ request = NoRequest /\ sent < MaxSent
    /\ dialog = CsvImportDialog => form # Nothing
    /\ request' = [phase |-> "SENT", body |-> form]
    /\ sent' = sent + 1
    /\ error' = NoError
    /\ done' = IF dialog = ChangePasswordForm THEN 0 ELSE done
    /\ UNCHANGED <<dialog, open, form, holds, page, row, since, carried>>

\* The two new passwords differ: nothing is sent.
PasswordsDiffer ==
    /\ dialog = ChangePasswordForm /\ request = NoRequest
    /\ done' = 0
    /\ UNCHANGED <<dialog, open, form, holds, page, row, request, sent, error, since, carried>>

-----------------------------------------------------------------------------
(***************************************************************************)
(* The server, and its answer.                                             *)
(***************************************************************************)

Carry ==
    /\ request.phase = "SENT"
    /\ request' = [request EXCEPT !.phase = "CARRIED"]
    /\ carried' = carried \cup {sent}
    /\ row' = IF dialog.starts = "ROW" /\ request.body # Nothing THEN request.body ELSE row
    /\ UNCHANGED <<dialog, open, form, holds, page, sent, error, done, since>>

RefuseRequest ==
    /\ request.phase = "SENT"
    /\ request' = [request EXCEPT !.phase = "REFUSED"]
    /\ UNCHANGED <<dialog, open, form, holds, page, row, sent, error, done, since, carried>>

\* The mutation's result is not undefined: setOpen(false), the inputs emptied,
\* setDone(true).
Succeeded ==
    LET clears == "CLEAR" \in dialog.then
    IN  /\ request.phase = "CARRIED" /\ dialog # LoginForm
        /\ request' = NoRequest
        /\ open' = (open /\ "CLOSE" \notin dialog.then)
        /\ form' = IF clears THEN Nothing ELSE form
        /\ holds' = IF clears THEN Nothing ELSE holds
        /\ done' = IF "DONE" \in dialog.then THEN sent ELSE done
        /\ UNCHANGED <<dialog, page, row, sent, error, since, carried>>

\* Signed in: on to the page the user wanted.
SignedIn ==
    /\ request.phase = "CARRIED" /\ dialog = LoginForm
    /\ dialog' = NoDialog /\ open' = FALSE
    /\ form' = Nothing /\ holds' = Nothing
    /\ request' = NoRequest /\ sent' = 0 /\ error' = NoError /\ done' = 0
    /\ since' = 0 /\ carried' = {}
    /\ UNCHANGED <<page, row>>

\* What the user is told of an error: that of a field beside it, any other in an alert.
Seen(d, field) == field \in d.marks \/ field = "" \/ d.alerts

ErrorShown(field) == [of |-> sent, seen |-> Seen(dialog, field)]

\* The error of a field, or of none.
Failed ==
    /\ request.phase = "REFUSED"
    /\ request' = NoRequest
    /\ \E field \in dialog.refused \cup {""} : error' = ErrorShown(field)
    /\ UNCHANGED <<dialog, open, form, holds, page, row, sent, done, since, carried>>

\* NETWORK_ERROR: whether it was carried out or not, no answer came.
AnswerLost ==
    /\ request # NoRequest
    /\ request' = NoRequest
    /\ error' = ErrorShown("")
    /\ UNCHANGED <<dialog, open, form, holds, page, row, sent, done, since, carried>>

DialogNext ==
    /\ dialog # NoDialog
    /\ \/ \E content \in Content : OthersSave(content) \/ Type(content)
       \/ Refresh \/ OpenDialog \/ CloseDialog \/ SubmitDialog \/ PasswordsDiffer
       \/ Carry \/ RefuseRequest \/ Succeeded \/ SignedIn \/ Failed \/ AnswerLost

-----------------------------------------------------------------------------
(***************************************************************************)
(* Properties.                                                             *)
(***************************************************************************)

\* Nothing of an earlier use shows when a dialog is opened again, as each of the
\* openDialog functions sets out to do (sku-form-dialog.tsx:74, csv-import-dialog.tsx:49):
\* it holds the page's row of that moment, nothing, or the reason typed before, and
\* then what its user types; an error it shows is of a request not yet answered when
\* it was opened, but for a reversal's.  Every refusal is told, whichever field is
\* blamed.  What it reports as done was carried out.
DialogsTellTheTruth ==
    open =>
        /\ form = holds
        /\ error.of > since \/ error = NoError \/ dialog = ReverseEntryButton
        /\ error.seen
        /\ done # 0 => done \in carried /\ done > since
==============================================================================
