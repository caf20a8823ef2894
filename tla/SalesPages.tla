------------------------------ MODULE SalesPages -----------------------------
(***************************************************************************)
(* What the pages of an invoice, its dispatches and its customer returns    *)
(* offer, and what the routes behind them accept, in every state of Sales.  *)
(*                                                                         *)
(* As in PurchasingPages, both sides read the same rows, at another time    *)
(* and by another computation.  Left out: the choice of a customer and of   *)
(* a batch, whose stock is not on these pages.                             *)
(***************************************************************************)
EXTENDS Sales, Permissions

-----------------------------------------------------------------------------
(***************************************************************************)
(* The routes: whom they admit, and what the services accept from him.     *)
(***************************************************************************)

CancelRoute(role) == Can(role, "invoice.manage") /\ Cancellable
DispatchRoute(role) == Can(role, "dispatch.create")
ReturnRoute(role) == Can(role, "return.create")
ReverseRoute(role) == Can(role, "ledger.reverse")

\* The goods may have left the godown, which these pages do not show.
Dispatches(lines) == ValidDispatch(lines) /\ Dispatchable(lines)
TakesReturn(d, lines) == ValidReturn(lines) /\ WithinReturnable(d, lines)

-----------------------------------------------------------------------------
(***************************************************************************)
(* The pages.                                                              *)
(***************************************************************************)

\* What InvoicePage offers above the items of the invoice.
InvoicePage(role) ==
    LET nothingDispatched == \A s \in Sku : dispatched[s] = 0
    IN  [cancel |-> status = "OPEN" /\ nothingDispatched /\ Can(role, "invoice.manage"),
         dispatch |-> status \in {"OPEN", "PARTIALLY_DISPATCHED"} /\ Can(role, "dispatch.create")]

\* listOpenInvoices: is the invoice one of those the dispatch form offers.
ListedAsOpen == status \in {"OPEN", "PARTIALLY_DISPATCHED"}

\* Mutant of RemainingBySku: the quantity shown is what was invoiced.
InvoicedBySku == [s \in {x \in Sku : invoiced[x] > dispatched[x]} |-> invoiced[s]]

\* NewDispatchPage: the SKUs that can be chosen, with the quantity remaining.
RemainingBySku == [s \in {x \in Sku : invoiced[x] > dispatched[x]} |-> invoiced[s] - dispatched[s]]

DispatchForm(role) ==
    [s \in IF ListedAsOpen /\ Can(role, "dispatch.create") THEN DOMAIN RemainingBySku ELSE {} |->
        RemainingBySku[s]]

\* The link "Record customer return" of a dispatch.
ReturnLink(role, d) == Can(role, "return.create") /\ dispatch[d].status # "REVERSED"

\* getReturnableDispatch: is the entry of a line reversed.
ReversedBy(line) == line.reversed

\* NewSalesReturnPage: the quantity of each line that can be returned.
ReturnableLines(d) ==
    [n \in DOMAIN dispatch[d].lines |->
        LET line == dispatch[d].lines[n]
        IN  IF ReversedBy(line) THEN 0 ELSE line.quantity - line.returned]

\* LedgerTable: the entries of a dispatch with a button "Reverse".
ReversibleEntries(role, d) ==
    {n \in DOMAIN dispatch[d].lines : Can(role, "ledger.reverse") /\ ~dispatch[d].lines[n].reversed}

-----------------------------------------------------------------------------
(***************************************************************************)
(* Property.                                                               *)
(***************************************************************************)

Quantities == UNION {1..(1 + OnHand(b) + Supplied(b)) : b \in Batch}

\* A dispatch of n units out of one batch, against the invoice.
DispatchOf(b, n) == <<[sku |-> SkuOf[b], batch |-> b, quantity |-> n]>>

\* The lines of dispatches with returns that stand and have to be reversed first.
Outstanding ==
    {ReturnLineAt(id).source : id \in {r \in ReturnLines : ~ReturnLineAt(r).reversed}}

\* "With an invoice, only its SKUs that still have quantity remaining can be
\* dispatched" (dispatch-form.tsx:55), and the services decide again: whatever
\* dispatches, returns and reversals made of the invoice, a user is offered what
\* the routes accept from him.  An invoice can be dispatched against exactly while
\* the form shows a quantity of it, no form shows more than the service takes, no
\* return that would be taken is left without a way to it, and an entry whose
\* button is refused has a standing customer return to "reverse first".
PagesOfferWhatRoutesAccept ==
    LET linked == {d \in Dispatch : dispatch[d].status # "ABSENT"}
    IN  /\ \A accepted \in {{k \in Batch \X Quantities : Dispatches(DispatchOf(k[1], k[2]))}} :
              \A role \in Role : \A page \in {InvoicePage(role)}, form \in {DispatchForm(role)} :
                  /\ page.cancel <=> CancelRoute(role)
                  /\ page.dispatch <=> DispatchRoute(role) /\ DOMAIN form # {}
                  /\ {k \in Batch \X Quantities : SkuOf[k[1]] \in DOMAIN form /\ k[2] <= form[SkuOf[k[1]]]}
                       = (IF DispatchRoute(role) THEN accepted ELSE {})
        /\ \A outstanding \in {Outstanding} : \A d \in linked : \A returnable \in {ReturnableLines(d)} :
              LET lines == dispatch[d].lines
                  admitted == {role \in Role : ReturnRoute(role)}
                  offered == {role \in Role : ReturnLink(role, d)}
                  takes == {k \in (DOMAIN lines) \X Quantities :
                              TakesReturn(d, <<[line |-> k[1], quantity |-> k[2]]>>)}
                  shown == {k \in (DOMAIN lines) \X Quantities : k[2] <= returnable[k[1]]}
              IN  /\ offered \subseteq admitted
                  /\ IF offered # {} THEN shown = takes /\ admitted \subseteq offered ELSE takes = {}
                  /\ \A n \in DOMAIN lines :
                        {role \in Role : n \in ReversibleEntries(role, d)} =
                        IF Reversible(lines[n]) \/ <<d, n>> \in outstanding
                        THEN {role \in Role : ReverseRoute(role)} ELSE {}
==============================================================================
