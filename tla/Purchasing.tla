------------------------------ MODULE Purchasing -----------------------------
(***************************************************************************)
(* One purchase order with its goods receipts and supplier returns:        *)
(* purchasing/purchase-order.service.ts, purchasing/grn.service.ts,        *)
(* returns/purchase-return.service.ts and the reversals that reach them.   *)
(*                                                                         *)
(* Every transaction on an order begins with the lock of its purchase_order *)
(* row (or with a conditional UPDATE of it) and reads the rest afterwards, *)
(* so that one transaction is one step; a refused one leaves no trace.     *)
(* Other documents share the stock and change it at any moment. The stock  *)
(* kept is that of the godown that receives; a return may name another one, *)
(* whose stock is what other documents make it.                            *)
(***************************************************************************)
EXTENDS Documents

CONSTANTS
    Item,           \* order lines
    Batch,          \* stock rows the receipts go to, of one godown
    Number,         \* batch numbers that may be entered
    BatchFor,       \* the batch that an item and an entered number resolve to
    Grn,            \* goods receipts that may be posted
    Return,         \* supplier returns that may be posted
    OrderInput,     \* the ordered quantities a user may enter
    GrnInput,       \* the lines a user may receive
    ReturnInput,    \* the lines a user may return, away: from another godown
    MaxStock        \* bound: the stock other documents can leave of a batch

Status == {"ABSENT", "DRAFT", "OPEN", "PARTIALLY_RECEIVED", "FULLY_RECEIVED",
           "SHORT_CLOSED", "CANCELLED"}

GrnLine == [item : Item, batch : Batch, accepted : Nat, returned : Int, reversed : BOOLEAN]
ReturnLine == [source : Grn \X Nat, away : BOOLEAN, quantity : Nat \ {0}, reversed : BOOLEAN]

ASSUME PurchasingAssumption ==
    /\ MaxStock \in Nat
    /\ Item # {}
    /\ BatchFor \in [Item \X Number -> Batch]
    /\ OrderInput \subseteq [Item -> Nat \ {0}]
    /\ GrnInput \subseteq
          Seq([item : Item, number : Number, got : Nat \ {0}, accepted : Nat]) \ {<<>>}
    /\ ReturnInput \subseteq
          Seq([line : Nat, away : BOOLEAN, quantity : Nat \ {0}]) \ {<<>>}
    /\ \A lines \in ReturnInput : \A m, n \in DOMAIN lines : lines[m].away = lines[n].away

VARIABLES
    status,     \* purchase_order.status
    ordered,    \* ordered_qty of each line
    received,   \* received_qty of each line
    grn,        \* the goods receipts: status and lines
    return,     \* the supplier returns: status and lines, each of a GRN line
    stock       \* stock_balance

vars == <<status, ordered, received, grn, return, stock>>

TypeOK ==
    /\ status \in Status
    /\ ordered \in [Item -> Nat]
    /\ received \in [Item -> Int]
    /\ grn \in [Grn -> [status : DocStatus, lines : Seq(GrnLine)]]
    /\ return \in [Return -> [status : DocStatus, lines : Seq(ReturnLine)]]
    /\ stock \in [Batch -> Nat]

Init ==
    /\ status = "ABSENT"
    /\ ordered = [i \in Item |-> 0]
    /\ received = [i \in Item |-> 0]
    /\ grn = [g \in Grn |-> NotPosted]
    /\ return = [r \in Return |-> NotPosted]
    /\ stock = [b \in Batch |-> 0]

-----------------------------------------------------------------------------
(***************************************************************************)
(* The order.                                                              *)
(***************************************************************************)

Create(input, submit) ==
    /\ status = "ABSENT"
    /\ status' = IF submit THEN "OPEN" ELSE "DRAFT"
    /\ ordered' = input
    /\ UNCHANGED <<received, grn, return, stock>>

Editable == status = "DRAFT"

UpdateDraft(input) ==
    /\ Editable
    /\ ordered' = input
    /\ UNCHANGED <<status, received, grn, return, stock>>

Submit ==
    /\ Editable
    /\ status' = "OPEN"
    /\ UNCHANGED <<ordered, received, grn, return, stock>>

Cancellable == status \in {"DRAFT", "OPEN"} /\ \A i \in Item : received[i] <= 0

Cancel ==
    /\ Cancellable
    /\ status' = "CANCELLED"
    /\ UNCHANGED <<ordered, received, grn, return, stock>>

ShortClosable == status = "PARTIALLY_RECEIVED"

ShortClose ==
    /\ ShortClosable
    /\ status' = "SHORT_CLOSED"
    /\ UNCHANGED <<ordered, received, grn, return, stock>>

\* The receipt status that the quantities of the lines stand for.
Progress(rec) ==
    IF \A i \in Item : rec[i] >= ordered[i] THEN "FULLY_RECEIVED"
    ELSE IF \A i \in Item : rec[i] <= 0 THEN "OPEN" ELSE "PARTIALLY_RECEIVED"

\* Mutant of Recomputed: the quantities are read before they are changed.
RecomputedBefore(rec) ==
    IF status \in {"DRAFT", "CANCELLED", "SHORT_CLOSED"} THEN status ELSE Progress(received)

\* Mutant of Recomputed: a short-closed order is not left alone.
RecomputedAlways(rec) == IF status \in {"DRAFT", "CANCELLED"} THEN status ELSE Progress(rec)

\* recomputePurchaseOrderStatus, once the lines have received rec.
Recomputed(rec) ==
    IF status \in {"DRAFT", "CANCELLED", "SHORT_CLOSED"} THEN status ELSE Progress(rec)

\* received_qty of each item is incremented and the status derived again.
Book(delta) ==
    /\ received' = [i \in Item |-> received[i] + delta[i]]
    /\ status' = Recomputed(received')

-----------------------------------------------------------------------------
(***************************************************************************)
(* Goods receipts.                                                         *)
(***************************************************************************)

\* Mutant of AcceptedOf: a later line of the same item replaces an earlier one.
AcceptedLast(lines, i) ==
    LET here == {n \in DOMAIN lines : lines[n].item = i}
    IN  IF here = {} THEN 0 ELSE lines[Max(here)].accepted

AcceptedOf(lines, i) == SumLines(lines, LAMBDA n : lines[n].item = i, LAMBDA n : lines[n].accepted)

\* resolveBatch: every number of an item that is not batch-tracked means the same.
BatchOf(line) == BatchFor[line.item, line.number]

IntoBatch(lines, b) == SumLines(lines, LAMBDA n : BatchOf(lines[n]) = b, LAMBDA n : lines[n].accepted)

\* grnCreateSchema and grnItemSchema, over quantities and batch numbers.
ValidGrn(lines) ==
    /\ \A n \in DOMAIN lines : lines[n].accepted <= lines[n].got
    /\ NoDuplicateLines([n \in DOMAIN lines |-> <<lines[n].item, lines[n].number>>])

\* Mutant of WithinPending: each line is compared, not their sum per order line.
EachWithinPending(lines) ==
    \A n \in DOMAIN lines :
        lines[n].accepted <= ordered[lines[n].item] - received[lines[n].item]

\* OVER_RECEIPT otherwise.
WithinPending(lines) == \A i \in Item : AcceptedOf(lines, i) <= ordered[i] - received[i]

Receivable(lines) ==
    /\ status \in {"OPEN", "PARTIALLY_RECEIVED"}
    /\ WithinPending(lines)

PostGrn(g, lines) ==
    /\ grn[g].status = "ABSENT"
    /\ ValidGrn(lines)
    /\ Receivable(lines)
    /\ stock' = [b \in Batch |-> stock[b] + IntoBatch(lines, b)]
    /\ grn' = [grn EXCEPT ![g] =
          [status |-> "POSTED",
           lines |-> [n \in DOMAIN lines |->
               [item |-> lines[n].item, batch |-> BatchOf(lines[n]),
                accepted |-> lines[n].accepted, returned |-> 0, reversed |-> FALSE]]]]
    /\ Book([i \in Item |-> AcceptedOf(lines, i)])
    /\ UNCHANGED <<ordered, return>>

\* Only accepted goods were posted to the ledger.
InLedger(lines) == {n \in DOMAIN lines : lines[n].accepted > 0}

\* Mutant of NothingReturned: returns do not hold a receipt line.
ReturnedOrNot(line) == TRUE

NothingReturned(line) == line.returned <= 0

\* INSUFFICIENT_STOCK otherwise: the accepted goods were moved on meanwhile.
InStock(line) == stock[line.batch] >= line.accepted

\* The line has an entry, nobody reversed it, and nothing of it was returned.
Reversible(line) == line.accepted > 0 /\ ~line.reversed /\ NothingReturned(line)

\* reverseEntry on the ledger entry of line n, with onGrnEntryReversed.
ReverseGrnEntry(g, n) ==
    LET line == grn[g].lines[n]
        lines == [grn[g].lines EXCEPT ![n].reversed = TRUE]
    IN  /\ Reversible(line)
        /\ InStock(line)
        /\ stock' = [stock EXCEPT ![line.batch] = @ - line.accepted]
        /\ grn' = [grn EXCEPT ![g] =
              [status |-> Derived(Cardinality(InLedger(lines)), Cardinality(ReversedLines(lines))),
               lines |-> lines]]
        /\ Book([i \in Item |-> IF i = line.item THEN -line.accepted ELSE 0])
        /\ UNCHANGED <<ordered, return>>

-----------------------------------------------------------------------------
(***************************************************************************)
(* Supplier returns.                                                       *)
(***************************************************************************)

Returnable(line) ==
    IF line.accepted = 0 \/ line.reversed THEN 0 ELSE line.accepted - line.returned

\* The quantity that the lines of a return take from line n of its GRN.
TakenFrom(lines, n) == SumLines(lines, LAMBDA m : lines[m].line = n, LAMBDA m : lines[m].quantity)

\* The quantity of order line i that a return of lines from GRN g gives back.
GivenBack(g, lines, i) ==
    SumLines(lines, LAMBDA m : grn[g].lines[lines[m].line].item = i, LAMBDA m : lines[m].quantity)

\* What leaves the stock row that a receipt line went to: nothing, if the return
\* names another godown.
OutOfBatch(g, lines, b) ==
    SumLines(lines, LAMBDA m : grn[g].lines[lines[m].line].batch = b /\ ~lines[m].away,
        LAMBDA m : lines[m].quantity)

\* purchaseReturnCreateSchema: a GRN line is named once.
ValidReturn(lines) == NoDuplicateLines([m \in DOMAIN lines |-> lines[m].line])

\* OVER_RETURN otherwise, or a line of another GRN.
WithinReturnable(g, lines) ==
    \A m \in DOMAIN lines :
        /\ lines[m].line \in DOMAIN grn[g].lines
        /\ lines[m].quantity <= Returnable(grn[g].lines[lines[m].line])

PostReturn(r, g, lines) ==
    /\ return[r].status = "ABSENT"
    /\ grn[g].status # "ABSENT"
    /\ ValidReturn(lines)
    /\ WithinReturnable(g, lines)
    /\ stock' = [b \in Batch |-> stock[b] - OutOfBatch(g, lines, b)]
    /\ \A b \in Batch : stock'[b] >= 0
    /\ return' = [return EXCEPT ![r] =
          [status |-> "POSTED",
           lines |-> [m \in DOMAIN lines |->
               [source |-> <<g, lines[m].line>>, away |-> lines[m].away,
                quantity |-> lines[m].quantity, reversed |-> FALSE]]]]
    /\ grn' = [grn EXCEPT ![g].lines =
          [n \in DOMAIN @ |-> ReturnedMore(@[n], TakenFrom(lines, n))]]
    /\ Book([i \in Item |-> -GivenBack(g, lines, i)])
    /\ UNCHANGED ordered

RoomFor(i, quantity) == received[i] + quantity <= ordered[i]

\* reverseEntry on the ledger entry of line m, with onPurchaseReturnEntryReversed.
ReverseReturnEntry(r, m) ==
    LET line == return[r].lines[m]
        lines == [return[r].lines EXCEPT ![m].reversed = TRUE]
        g == line.source[1]
        n == line.source[2]
        source == grn[g].lines[n]
    IN  /\ ~line.reversed
        /\ RoomFor(source.item, line.quantity)
        /\ stock' = [stock EXCEPT ![source.batch] = @ + IF line.away THEN 0 ELSE line.quantity]
        /\ grn' = [grn EXCEPT ![g].lines[n] = ReturnedMore(@, -line.quantity)]
        /\ return' = [return EXCEPT ![r].lines = lines,
              ![r].status = Derived(Len(lines), Cardinality(ReversedLines(lines)))]
        /\ Book([i \in Item |-> IF i = source.item THEN line.quantity ELSE 0])
        /\ UNCHANGED ordered

\* Another document moves a batch: a dispatch, a transfer, a customer return.
MoveStock(b, quantity) ==
    /\ stock' = [stock EXCEPT ![b] = quantity]
    /\ UNCHANGED <<status, ordered, received, grn, return>>

Next ==
    \/ \E input \in OrderInput :
          \/ \E submit \in BOOLEAN : Create(input, submit)
          \/ UpdateDraft(input)
    \/ Submit
    \/ Cancel
    \/ ShortClose
    \/ \E g \in Grn :
          \/ \E lines \in GrnInput : PostGrn(g, lines)
          \/ \E n \in DOMAIN grn[g].lines : ReverseGrnEntry(g, n)
    \/ \E r \in Return :
          \/ \E g \in Grn, lines \in ReturnInput : PostReturn(r, g, lines)
          \/ \E m \in DOMAIN return[r].lines : ReverseReturnEntry(r, m)
    \/ \E b \in Batch, quantity \in 0..MaxStock : MoveStock(b, quantity)

Spec == Init /\ [][Next]_vars

-----------------------------------------------------------------------------
(***************************************************************************)
(* Properties.                                                             *)
(***************************************************************************)

GrnLines == UNION {{g} \X DOMAIN grn[g].lines : g \in Grn}
ReturnLines == UNION {{r} \X DOMAIN return[r].lines : r \in Return}
GrnLineAt(id) == grn[id[1]].lines[id[2]]
ReturnLineAt(id) == return[id[1]].lines[id[2]]

AcceptedNow(i) ==
    SumFunctionOnSet([id \in GrnLines |-> GrnLineAt(id).accepted],
        {id \in GrnLines : GrnLineAt(id).item = i /\ ~GrnLineAt(id).reversed})

ReturnedNow(sources) ==
    SumFunctionOnSet([id \in ReturnLines |-> ReturnLineAt(id).quantity],
        {id \in ReturnLines : ReturnLineAt(id).source \in sources /\ ~ReturnLineAt(id).reversed})

\* The two counters that four services increment and decrement agree with the
\* documents: received_qty is what standing receipts accepted less what standing
\* returns took back, returned_qty what standing returns took from the line.
CountersMatchDocuments ==
    /\ \A i \in Item :
          received[i] = AcceptedNow(i)
                        - ReturnedNow({id \in GrnLines : GrnLineAt(id).item = i})
    /\ \A id \in GrnLines : GrnLineAt(id).returned = ReturnedNow({id})

\* No sequence of receipts, returns, replacements and reversals receives more
\* than was ordered, returns more than was accepted or leaves a standing return of
\* a receipt that no longer stands ("A dispatch or GRN line that has returns cannot
\* be reversed until its returns are reversed", system_workflow.md): the services
\* never run into purchase_order_item_qty_chk, grn_item_returned_chk or
\* stock_balance_non_negative_chk.
NeverOverReceived ==
    /\ \A i \in Item : received[i] \in 0..ordered[i]
    /\ \A id \in GrnLines :
          GrnLineAt(id).returned \in 0..(IF GrnLineAt(id).reversed THEN 0 ELSE GrnLineAt(id).accepted)
    /\ \A b \in Batch : stock[b] >= 0

\* The status of a live order says what its standing receipts add up to, after
\* any mixture of receipts, returns and reversals; an order in DRAFT has none.
StatusFollowsReceipts ==
    LET net == [i \in Item |-> AcceptedNow(i)
                               - ReturnedNow({id \in GrnLines : GrnLineAt(id).item = i})]
    IN  /\ status = "OPEN" => \A i \in Item : net[i] = 0
        /\ status = "FULLY_RECEIVED" => \A i \in Item : net[i] = ordered[i]
        /\ status = "PARTIALLY_RECEIVED" =>
              (\E i \in Item : net[i] > 0) /\ (\E i \in Item : net[i] < ordered[i])
        /\ status \in {"ABSENT", "DRAFT"} => GrnLines = {}

\* A posted document is REVERSED exactly when every ledger entry it posted is
\* reversed; a receipt that was rejected altogether has none and stays POSTED.
DocumentStatusFollowsEntries ==
    /\ \A g \in Grn : grn[g].status # "ABSENT" =>
          LET posted == {id \in GrnLines : id[1] = g /\ GrnLineAt(id).accepted > 0}
              undone == {id \in posted : GrnLineAt(id).reversed}
          IN  /\ grn[g].status = "POSTED" <=> undone = {}
              /\ grn[g].status = "REVERSED" <=> (undone = posted /\ posted # {})
    /\ \A r \in Return : return[r].status # "ABSENT" =>
          LET posted == {id \in ReturnLines : id[1] = r}
              undone == {id \in posted : ReturnLineAt(id).reversed}
          IN  /\ return[r].status = "POSTED" <=> undone = {}
              /\ return[r].status = "REVERSED" <=> undone = posted

\* A cancelled or short-closed order is never opened again and takes no further
\* receipt, whatever is returned or reversed on it afterwards.
ClosedOrdersStayClosed ==
    [][\A final \in {"CANCELLED", "SHORT_CLOSED"} :
          status = final =>
              /\ status' = final
              /\ \A g \in Grn : grn[g].status = "ABSENT" => grn'[g].status = "ABSENT"]_vars
==============================================================================
