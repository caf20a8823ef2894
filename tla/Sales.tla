-------------------------------- MODULE Sales --------------------------------
(***************************************************************************)
(* One customer invoice, the dispatches that fulfil it, dispatches without  *)
(* an invoice, and customer returns: invoices/invoice.service.ts,           *)
(* dispatch/dispatch.service.ts, returns/sales-return.service.ts and the    *)
(* reversals that reach them.                                              *)
(*                                                                         *)
(* A transaction locks the invoice and then the dispatch before it reads    *)
(* what it changes (a return only the dispatch, whose lines it changes), so *)
(* that it is one step; a refused one leaves no trace.  Other documents may *)
(* carry the goods from one godown to another.                             *)
(***************************************************************************)
EXTENDS Documents

CONSTANTS
    Sku,            \* what can be on the invoice, one line each
    Batch,
    SkuOf,          \* the SKU of each batch
    Godown,
    Dispatch,       \* dispatches that may be posted
    Return,         \* customer returns that may be posted
    InvoiceInput,   \* the quantities a user may invoice, 0 if not on the invoice
    DispatchInput,  \* what a user may dispatch
    ReturnInput,    \* what a user may take back
    InitialStock    \* the goods there are, by godown and batch

Status == {"ABSENT", "OPEN", "PARTIALLY_DISPATCHED", "COMPLETE", "CANCELLED"}

DispatchLine == [sku : Sku, batch : Batch, quantity : Nat \ {0}, returned : Int, reversed : BOOLEAN]
DispatchDoc == [status : DocStatus \ {"ABSENT"}, godown : Godown, linked : BOOLEAN, lines : Seq(DispatchLine)]
ReturnLine == [source : Dispatch \X Nat, godown : Godown, quantity : Nat \ {0}, reversed : BOOLEAN]

ASSUME SalesAssumption ==
    /\ SkuOf \in [Batch -> Sku]
    /\ InvoiceInput \subseteq [Sku -> Nat]
    /\ \A input \in InvoiceInput : \E s \in Sku : input[s] > 0
    /\ \A input \in DispatchInput :
          /\ input.godown \in Godown /\ input.linked \in BOOLEAN
          /\ input.lines \in Seq([sku : Sku, batch : Batch, quantity : Nat \ {0}])
    /\ \A input \in ReturnInput :
          /\ input.godown \in Godown
          /\ input.lines \in Seq([line : Nat, quantity : Nat \ {0}])
    /\ InitialStock \in [Godown \X Batch -> Nat]
    /\ IsFiniteSet(Godown)

VARIABLES
    status,      \* invoice.status
    invoiced,    \* quantity of each invoice line
    dispatched,  \* dispatched_qty of each invoice line
    dispatch,    \* the dispatches: status, godown, whether for the invoice, lines
    return,      \* the customer returns: status and lines, each of a dispatch line
    stock        \* stock_balance

vars == <<status, invoiced, dispatched, dispatch, return, stock>>

TypeOK ==
    /\ status \in Status
    /\ invoiced \in [Sku -> Nat]
    /\ dispatched \in [Sku -> Int]
    /\ dispatch \in [Dispatch -> DispatchDoc \cup {NotPosted}]
    /\ return \in [Return -> [status : DocStatus, lines : Seq(ReturnLine)]]
    /\ stock \in [Godown \X Batch -> Nat]

Init ==
    /\ status = "ABSENT"
    /\ invoiced = [s \in Sku |-> 0]
    /\ dispatched = [s \in Sku |-> 0]
    /\ dispatch = [d \in Dispatch |-> NotPosted]
    /\ return = [r \in Return |-> NotPosted]
    /\ stock = InitialStock

-----------------------------------------------------------------------------
(***************************************************************************)
(* The invoice.                                                            *)
(***************************************************************************)

Create(input) ==
    /\ status = "ABSENT"
    /\ status' = "OPEN"
    /\ invoiced' = input
    /\ UNCHANGED <<dispatched, dispatch, return, stock>>

\* Mutant of Cancellable: the status is not looked at.
CancellableAnyTime == status # "ABSENT"

Cancellable == status = "OPEN" /\ \A s \in Sku : dispatched[s] <= 0

Cancel ==
    /\ Cancellable
    /\ status' = "CANCELLED"
    /\ UNCHANGED <<invoiced, dispatched, dispatch, return, stock>>

\* recomputeInvoiceStatus, once the lines have dispatched out.
Recomputed(out) ==
    IF status = "CANCELLED" THEN "CANCELLED"
    ELSE IF \A s \in Sku : out[s] >= invoiced[s] THEN "COMPLETE"
    ELSE IF \E s \in Sku : out[s] > 0 THEN "PARTIALLY_DISPATCHED" ELSE "OPEN"

\* dispatched_qty of each line is incremented and the status derived again.
Book(delta) ==
    /\ dispatched' = [s \in Sku |-> dispatched[s] + delta[s]]
    /\ status' = Recomputed(dispatched')

-----------------------------------------------------------------------------
(***************************************************************************)
(* Dispatches.                                                             *)
(***************************************************************************)

QuantityOf(lines, s) ==
    SumLines(lines, LAMBDA n : lines[n].sku = s, LAMBDA n : lines[n].quantity)

OutOf(lines, b) ==
    SumLines(lines, LAMBDA n : lines[n].batch = b, LAMBDA n : lines[n].quantity)

\* Mutant of WithinRemaining: what was dispatched before is not subtracted.
WithinInvoiced(lines) == \A s \in Sku : QuantityOf(lines, s) <= invoiced[s]

\* OVER_DISPATCH otherwise.
WithinRemaining(lines) ==
    \A s \in Sku : QuantityOf(lines, s) <= invoiced[s] - dispatched[s]

Dispatchable(lines) ==
    /\ status \in {"OPEN", "PARTIALLY_DISPATCHED"}
    /\ \A n \in DOMAIN lines : invoiced[lines[n].sku] > 0
    /\ WithinRemaining(lines)

\* applyDispatchToInvoice
ApplyToInvoice(lines) ==
    /\ Dispatchable(lines)
    /\ Book([s \in Sku |-> QuantityOf(lines, s)])

\* dispatchCreateSchema, and getBatchForSku: a batch is one of the line's SKU.
ValidDispatch(lines) ==
    /\ NoDuplicateLines([n \in DOMAIN lines |-> <<lines[n].sku, lines[n].batch>>])
    /\ \A n \in DOMAIN lines : SkuOf[lines[n].batch] = lines[n].sku

PostDispatch(d, input) ==
    /\ dispatch[d].status = "ABSENT"
    /\ ValidDispatch(input.lines)
    /\ IF input.linked THEN ApplyToInvoice(input.lines) ELSE UNCHANGED <<dispatched, status>>
    /\ stock' = [k \in Godown \X Batch |->
          IF k[1] = input.godown THEN stock[k] - OutOf(input.lines, k[2]) ELSE stock[k]]
    /\ \A k \in Godown \X Batch : stock'[k] >= 0
    /\ dispatch' = [dispatch EXCEPT ![d] =
          [status |-> "POSTED", godown |-> input.godown, linked |-> input.linked,
           lines |-> [n \in DOMAIN input.lines |->
               [sku |-> input.lines[n].sku, batch |-> input.lines[n].batch,
                quantity |-> input.lines[n].quantity, returned |-> 0, reversed |-> FALSE]]]]
    /\ UNCHANGED <<invoiced, return>>

\* Mutant of NothingReturned: returns do not hold a dispatch line.
ReturnedOrNot(line) == TRUE

NothingReturned(line) == line.returned <= 0

\* CANNOT_REVERSE otherwise.
Reversible(line) == ~line.reversed /\ NothingReturned(line)

\* Mutant of Release: an entry of a dispatch without an invoice is released too.
ReleaseAlways(d, line) == Book([s \in Sku |-> IF s = line.sku THEN -line.quantity ELSE 0])

\* releaseInvoiceDispatch
Release(d, line) ==
    IF dispatch[d].linked
    THEN Book([s \in Sku |-> IF s = line.sku THEN -line.quantity ELSE 0])
    ELSE UNCHANGED <<dispatched, status>>

\* reverseEntry on the ledger entry of line n, with onDispatchEntryReversed.
ReverseDispatchEntry(d, n) ==
    LET line == dispatch[d].lines[n]
        lines == [dispatch[d].lines EXCEPT ![n].reversed = TRUE]
    IN  /\ Reversible(line)
        /\ Release(d, line)
        /\ stock' = [stock EXCEPT ![<<dispatch[d].godown, line.batch>>] = @ + line.quantity]
        /\ dispatch' = [dispatch EXCEPT ![d].lines = lines,
              ![d].status = Derived(Len(lines), Cardinality(ReversedLines(lines)))]
        /\ UNCHANGED <<invoiced, return>>

-----------------------------------------------------------------------------
(***************************************************************************)
(* Customer returns.                                                       *)
(***************************************************************************)

\* What can still come back of a dispatch line.
Returnable(line) == IF line.reversed THEN 0 ELSE line.quantity - line.returned

TakenBack(lines, n) == SumLines(lines, LAMBDA m : lines[m].line = n, LAMBDA m : lines[m].quantity)

IntoBatch(d, lines, b) ==
    SumLines(lines, LAMBDA m : dispatch[d].lines[lines[m].line].batch = b, LAMBDA m : lines[m].quantity)

\* salesReturnCreateSchema: a dispatch line is named once.
ValidReturn(lines) == NoDuplicateLines([m \in DOMAIN lines |-> lines[m].line])

\* OVER_RETURN otherwise, or a line of another dispatch.
WithinReturnable(d, lines) ==
    \A m \in DOMAIN lines :
        /\ lines[m].line \in DOMAIN dispatch[d].lines
        /\ lines[m].quantity <= Returnable(dispatch[d].lines[lines[m].line])

PostReturn(r, d, input) ==
    /\ return[r].status = "ABSENT"
    /\ dispatch[d].status # "ABSENT"
    /\ ValidReturn(input.lines)
    /\ WithinReturnable(d, input.lines)
    /\ stock' = [k \in Godown \X Batch |->
          IF k[1] = input.godown THEN stock[k] + IntoBatch(d, input.lines, k[2]) ELSE stock[k]]
    /\ return' = [return EXCEPT ![r] =
          [status |-> "POSTED",
           lines |-> [m \in DOMAIN input.lines |->
               [source |-> <<d, input.lines[m].line>>, godown |-> input.godown,
                quantity |-> input.lines[m].quantity, reversed |-> FALSE]]]]
    /\ dispatch' = [dispatch EXCEPT ![d].lines =
          [n \in DOMAIN @ |-> ReturnedMore(@[n], TakenBack(input.lines, n))]]
    /\ UNCHANGED <<status, invoiced, dispatched>>

\* INSUFFICIENT_STOCK otherwise: the goods left the godown they came back to.
StillThere(k, quantity) == stock[k] >= quantity

\* reverseEntry on the ledger entry of line m, with onSalesReturnEntryReversed.
ReverseReturnEntry(r, m) ==
    LET line == return[r].lines[m]
        lines == [return[r].lines EXCEPT ![m].reversed = TRUE]
        d == line.source[1]
        n == line.source[2]
        k == <<line.godown, dispatch[d].lines[n].batch>>
    IN  /\ ~line.reversed
        /\ StillThere(k, line.quantity)
        /\ stock' = [stock EXCEPT ![k] = @ - line.quantity]
        /\ dispatch' = [dispatch EXCEPT ![d].lines[n] = ReturnedMore(@, -line.quantity)]
        /\ return' = [return EXCEPT ![r].lines = lines,
              ![r].status = Derived(Len(lines), Cardinality(ReversedLines(lines)))]
        /\ UNCHANGED <<status, invoiced, dispatched>>

\* A transfer, or its reversal, takes goods to another godown.
MoveGoods(b, from, to, quantity) ==
    /\ from # to
    /\ stock[<<from, b>>] >= quantity
    /\ stock' = [stock EXCEPT ![<<from, b>>] = @ - quantity, ![<<to, b>>] = @ + quantity]
    /\ UNCHANGED <<status, invoiced, dispatched, dispatch, return>>

Next ==
    \/ \E input \in InvoiceInput : Create(input)
    \/ Cancel
    \/ \E d \in Dispatch :
          \/ \E input \in DispatchInput : PostDispatch(d, input)
          \/ \E n \in DOMAIN dispatch[d].lines : ReverseDispatchEntry(d, n)
    \/ \E r \in Return :
          \/ \E d \in Dispatch, input \in ReturnInput : PostReturn(r, d, input)
          \/ \E m \in DOMAIN return[r].lines : ReverseReturnEntry(r, m)
    \/ \E b \in Batch, from, to \in Godown : MoveGoods(b, from, to, 1)

Spec == Init /\ [][Next]_vars

-----------------------------------------------------------------------------
(***************************************************************************)
(* Properties.                                                             *)
(***************************************************************************)

DispatchLines == UNION {{d} \X DOMAIN dispatch[d].lines : d \in Dispatch}
ReturnLines == UNION {{r} \X DOMAIN return[r].lines : r \in Return}
DispatchLineAt(id) == dispatch[id[1]].lines[id[2]]
ReturnLineAt(id) == return[id[1]].lines[id[2]]

\* What the standing dispatches took out against invoice line s.
DispatchedNow(s) ==
    SumFunctionOnSet([id \in DispatchLines |-> DispatchLineAt(id).quantity],
        {id \in DispatchLines : /\ dispatch[id[1]].linked
                                /\ DispatchLineAt(id).sku = s
                                /\ ~DispatchLineAt(id).reversed})

ReturnedNow(source) ==
    SumFunctionOnSet([id \in ReturnLines |-> ReturnLineAt(id).quantity],
        {id \in ReturnLines : ReturnLineAt(id).source = source /\ ~ReturnLineAt(id).reversed})

\* dispatched_qty and returned_qty, which four services increment and decrement,
\* agree with the documents: with the standing dispatches of the invoice (customer
\* returns do not reopen it) and with the standing returns of the dispatch line.
CountersMatchDocuments ==
    /\ \A s \in Sku : dispatched[s] = DispatchedNow(s)
    /\ \A id \in DispatchLines : DispatchLineAt(id).returned = ReturnedNow(id)

\* However dispatches in several parts, their reversals and further dispatches
\* follow each other, no more is out than was invoiced, and no more came back
\* than went out: the services never run into invoice_item_qty_chk or
\* outward_item_returned_chk.
NeverOverDispatched ==
    /\ \A s \in Sku : dispatched[s] \in 0..invoiced[s]
    /\ \A id \in DispatchLines : DispatchLineAt(id).returned \in 0..DispatchLineAt(id).quantity

OnHand(b) == SumFunctionOnSet([g \in Godown |-> stock[<<g, b>>]], Godown)
Supplied(b) == SumFunctionOnSet([g \in Godown |-> InitialStock[<<g, b>>]], Godown)

\* "A line with customer returns must have those returns reversed first, or stock
\* would be restored twice" (dispatch.service.ts): reversing a dispatch and taking
\* its goods back never leave more of a batch in the godowns than there was, and
\* reversing a return never less than nothing in the one the goods came back to.
NeverRestoredTwice ==
    /\ \A b \in Batch : OnHand(b) <= Supplied(b)
    /\ \A k \in Godown \X Batch : stock[k] >= 0

\* The invoice status says what its standing dispatches add up to, and nothing is
\* out against an invoice that was cancelled.
StatusFollowsDispatches ==
    /\ status \in {"ABSENT", "OPEN", "CANCELLED"} => \A s \in Sku : DispatchedNow(s) = 0
    /\ status = "PARTIALLY_DISPATCHED" =>
          (\E s \in Sku : DispatchedNow(s) > 0) /\ (\E s \in Sku : DispatchedNow(s) < invoiced[s])
    /\ status = "COMPLETE" => \A s \in Sku : DispatchedNow(s) = invoiced[s]
==============================================================================
