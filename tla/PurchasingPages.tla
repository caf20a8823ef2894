--------------------------- MODULE PurchasingPages ---------------------------
(***************************************************************************)
(* What the pages of an order, its receipts and its returns offer, and what *)
(* the routes behind them accept, in every state of Purchasing.            *)
(*                                                                         *)
(* A page is rendered from a read of the documents and names what the user  *)
(* may do next; the service decides again, from its own reading of the same *)
(* rows, when the request comes.  Left out: what a user types (reasons,     *)
(* dates) and the choice of a godown.                                       *)
(***************************************************************************)
EXTENDS Purchasing, Permissions

-----------------------------------------------------------------------------
(***************************************************************************)
(* The routes: whom they admit, and what the services accept from him.     *)
(***************************************************************************)

UpdateRoute(role) == Can(role, "po.manage") /\ Editable
SubmitRoute(role) == Can(role, "po.manage") /\ Editable
CancelRoute(role) == Can(role, "po.manage") /\ Cancellable
ShortCloseRoute(role) == Can(role, "po.manage") /\ ShortClosable
ReceiveRoute(role) == Can(role, "grn.create")
ReturnRoute(role) == Can(role, "return.create")
ReverseRoute(role) == Can(role, "ledger.reverse")

Receives(lines) == ValidGrn(lines) /\ Receivable(lines)

\* The goods may also have left the godown, which no page shows.
TakesReturn(g, lines) == ValidReturn(lines) /\ WithinReturnable(g, lines)

-----------------------------------------------------------------------------
(***************************************************************************)
(* The pages.                                                              *)
(***************************************************************************)

HasReceipts == \E i \in Item : received[i] > 0

\* Mutant of PendingLines: a line is shown until something of it is received.
UntouchedLines == {i \in Item : received[i] = 0}

\* The lines the receive form is given.
PendingLines == {i \in Item : ordered[i] - received[i] > 0}

\* What PurchaseOrderPage decides may be done in the header.
PurchaseOrderPage(role) ==
    LET canManage == Can(role, "po.manage")
    IN  [canEdit |-> canManage /\ status = "DRAFT",
         canSubmit |-> canManage /\ status = "DRAFT",
         canCancel |-> canManage /\ status \in {"DRAFT", "OPEN"} /\ ~HasReceipts,
         canShortClose |-> canManage /\ status = "PARTIALLY_RECEIVED"]

\* The links and buttons PurchaseOrderActions makes of that.
PurchaseOrderActions(page) ==
    {a \in {"edit", "cancel", "short-close", "submit"} :
        \/ a = "edit" /\ page.canEdit
        \/ a = "cancel" /\ page.canCancel
        \/ a = "short-close" /\ page.canShortClose
        \/ a = "submit" /\ page.canSubmit}

\* What ReceiveGoodsForm is shown with: the quantity pending of each line.
ReceiveGoodsForm(role) ==
    LET receivable == status \in {"OPEN", "PARTIALLY_RECEIVED"} /\ Can(role, "grn.create")
    IN  [i \in IF receivable THEN PendingLines ELSE {} |-> ordered[i] - received[i]]

\* The edit page sends everybody else back to the order.
EditPage(role) == Can(role, "po.manage") /\ ~(status # "DRAFT")

\* GrnPage: its entries with a button "Reverse", and the link "Return to supplier".
ReversibleEntries(role, g) ==
    {n \in InLedger(grn[g].lines) : Can(role, "ledger.reverse") /\ ~grn[g].lines[n].reversed}

ReturnLink(role, g) ==
    /\ Can(role, "return.create")
    /\ grn[g].status # "REVERSED"
    /\ \E n \in DOMAIN grn[g].lines : grn[g].lines[n].accepted > grn[g].lines[n].returned

\* getReturnableGrn: has the line a ledger entry, and is that entry reversed.
EntryOf(line) == [posted |-> line.accepted > 0, reversedBy |-> line.reversed]

\* NewPurchaseReturnPage: the quantity of each line that can be returned.
ReturnableLines(g) ==
    [n \in DOMAIN grn[g].lines |->
        LET line == grn[g].lines[n]
        IN  IF ~EntryOf(line).posted \/ EntryOf(line).reversedBy
            THEN 0 ELSE line.accepted - line.returned]

\* ReturnForm: an input is disabled when nothing of its line can be returned.
Enterable(returnable) == {n \in DOMAIN returnable : returnable[n] # 0}

-----------------------------------------------------------------------------
(***************************************************************************)
(* Property.                                                               *)
(***************************************************************************)

Quantities == UNION {1..(1 + ordered[i]) : i \in Item}

\* A receipt of n units of order line i, under any batch number.
ReceiptOf(i, n) == <<[item |-> i, number |-> CHOOSE number \in Number : TRUE, got |-> n, accepted |-> n]>>

\* The lines of receipts with returns that stand and have to be reversed first.
Outstanding ==
    {ReturnLineAt(id).source : id \in {r \in ReturnLines : ~ReturnLineAt(r).reversed}}

Posted == {g \in Grn : grn[g].status # "ABSENT"}

\* "Header actions for a purchase order; the page decides which are allowed"
\* (purchase-order-actions.tsx:11), and the services decide again: whatever
\* receipts, returns and reversals made of the order, a user is offered exactly
\* what the routes accept from him.  A form takes each quantity the service
\* accepts and shows the largest one, an order that waits for goods always has a
\* line to receive, what can still be returned is linked from its receipt, and an
\* entry whose button is refused has a standing return to "reverse first".
PagesOfferWhatRoutesAccept ==
    /\ \A role \in Role :
          /\ PurchaseOrderActions(PurchaseOrderPage(role)) =
                {a \in {"edit", "cancel", "short-close", "submit"} :
                    \/ a = "edit" /\ UpdateRoute(role)
                    \/ a = "cancel" /\ CancelRoute(role)
                    \/ a = "short-close" /\ ShortCloseRoute(role)
                    \/ a = "submit" /\ SubmitRoute(role)}
          /\ EditPage(role) <=> UpdateRoute(role)
    /\ \A role \in Role : ~ReceiveRoute(role) => DOMAIN ReceiveGoodsForm(role) = {}
    /\ \A q \in {Quantities} :
       \A form \in {ReceiveGoodsForm(role) : role \in {r \in Role : ReceiveRoute(r)}} :
          /\ {k \in (DOMAIN form) \X q : k[2] <= form[k[1]]} =
                {k \in Item \X q : Receives(ReceiptOf(k[1], k[2]))}
          /\ status \in {"OPEN", "PARTIALLY_RECEIVED"} => DOMAIN form # {}
    /\ \A q \in {Quantities}, outstanding \in {Outstanding}, g \in Posted :
          \A returnable \in {ReturnableLines(g)} :
             LET lines == grn[g].lines
                 admitted == {role \in Role : ReturnRoute(role)}
                 linked == {role \in Role : ReturnLink(role, g)}
                 takes == {k \in (DOMAIN lines) \X q :
                             TakesReturn(g, <<[line |-> k[1], quantity |-> k[2]]>>)}
                 shown == {k \in Enterable(returnable) \X q : k[2] <= returnable[k[1]]}
                 offered == {n \in DOMAIN lines : Reversible(lines[n]) \/ <<g, n>> \in outstanding}
             IN  /\ linked \in {{}, admitted}
                 /\ takes = IF linked = {} THEN {} ELSE shown
                 /\ \A role \in Role : ReversibleEntries(role, g) =
                       IF ReverseRoute(role) THEN offered ELSE {}
==============================================================================
