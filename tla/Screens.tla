-------------------------------- MODULE Screens --------------------------------
(***************************************************************************)
(* A tab of the browser: on a screen a document is entered on, or on a     *)
(* page with a dialog.  When the form gives way to its document, the page  *)
(* of the document has buttons of its own; the sign-in page has its form.  *)
(***************************************************************************)
EXTENDS Forms, Dialogs

tab == <<vars, dialogVars>>

\* A tab opened on a page: which form it would have had does not matter.
OnPage ==
    /\ Init /\ kind = "OPENING"
    /\ \E d \in Dialog : Mounted(d)

OnForm == Init /\ Mounted(NoDialog)

TabInit == OnForm \/ OnPage

\* The button of the page that a document's form leads to.
ButtonOf(k) ==
    CASE k \in Priced -> ReasonActionButton
      [] k = "ADJUSTMENT" -> AdjustmentReview
      [] OTHER -> ReverseEntryButton

\* router.push of the form: to its document, or to the sign-in page.
Arrive(d) ==
    /\ phase = "DONE" /\ dialog = NoDialog /\ sent = 0
    /\ dialog' = d /\ open' = Inline(d)
    /\ UNCHANGED <<vars, form, holds, page, row, request, sent, error, done, since, carried>>

TabNext ==
    \/ dialog = NoDialog /\ Next /\ UNCHANGED dialogVars
    \/ DialogNext /\ UNCHANGED vars
    \/ Arrive(ButtonOf(kind)) \/ Arrive(LoginForm)

TabSpec == TabInit /\ [][TabNext]_tab
==============================================================================
