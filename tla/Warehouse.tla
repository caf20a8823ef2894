------------------------------ MODULE Warehouse ------------------------------
(***************************************************************************)
(* What moves stock without an order: opening balances and their CSV       *)
(* import, transfers between godowns, adjustments with their review, and   *)
(* the reversals of all three; the master data they check (SKUs, godowns)  *)
(* and the queries, reports and pick suggestions that read the result.     *)
(*                                                                         *)
(* A posting holds its document and, in key order, its stock rows until it *)
(* commits (Requests, StockPosting), so it is one step here.  It holds no  *)
(* lock on master data: a document is loaded, which checks the masters,    *)
(* and posted later; an edit of a master is checked against the stock, and *)
(* saved later.  The ledger records instants; reports, picks and expiry    *)
(* dates count calendar days of them.                                      *)
(***************************************************************************)
EXTENDS Documents, SequencesExt

CONSTANTS
    Sku, Godown, User,
    NoUser,         \* reviewed_by IS NULL
    Batch,          \* batch numbers, in their order
    Default,        \* DEFAULT_BATCH_NUMBER
    NoBatch,        \* no batch number was entered
    Expiry,         \* the day each batch expires, or Never
    Never,          \* a day after all others: no expiry date
    Doc,            \* documents that may be created
    Synced,         \* the godowns whose documents are queued for Tally
    Kind,           \* what each of them is
    Input,          \* the lines a user may enter for each of them
    Together,       \* sets of opening balances that one CSV file creates
    SkuEdit,        \* <<sku, new values>> that the SKU dialog may save
    GodownEdit,     \* <<godown, active>> that the godown dialog may save
    PerDay,         \* the length of a day, 24 hours, on the clock
    IstOffset,      \* how much earlier a day begins in India than in UTC
    Moment,         \* bound: the instants at which something may happen
    MaxEdits        \* bound: edits of master data

Known == Batch \cup {Default}

InputLine == [sku : Sku, batch : Known \cup {NoBatch}, from : Godown, to : Godown, quantity : Int]
Line == [sku : Sku, batch : Known, from : Godown, to : Godown, quantity : Int,
         posted : Nat, reversed : Nat]
SkuRow == [status : {"ACTIVE", "INACTIVE", "ARCHIVED"}, tracked : BOOLEAN]

\* istDateOf: the calendar day of an instant in India, and its date in UTC.
DayOf(t) == (t - 1 + IstOffset) \div PerDay + 1
UtcDayOf(t) == (t - 1) \div PerDay + 1

ASSUME WarehouseAssumption ==
    /\ IsFiniteSet(Sku) /\ IsFiniteSet(Godown) /\ IsFiniteSet(Batch)
    /\ Batch \subseteq Int /\ Default \in Int \ Batch /\ NoBatch \notin Known
    /\ NoUser \notin User
    /\ Never \in Nat /\ Expiry \in [Known -> 1..Never] /\ Expiry[Default] = Never
    /\ Kind \in [Doc -> {"OPENING", "TRANSFER", "ADJUSTMENT"}]
    /\ PerDay \in Nat \ {0} /\ IstOffset \in 0..(PerDay - 1)
    /\ IsFiniteSet(Moment) /\ Moment # {} /\ Moment \subseteq Nat \ {0}
    /\ \A t \in Moment : DayOf(t) < Never
    /\ Synced \subseteq Godown /\ MaxEdits \in Nat
    /\ \A d \in Doc : \A lines \in Input[d] :
          /\ lines \in Seq(InputLine) /\ lines # <<>>
          /\ \A n \in DOMAIN lines :
                /\ Kind[d] # "TRANSFER" => lines[n].from = lines[n].to
                /\ Kind[d] # "ADJUSTMENT" => lines[n].quantity > 0
                /\ lines[n].quantity # 0
    /\ \A file \in Together : IsFiniteSet(file) /\ file \subseteq {d \in Doc : Kind[d] = "OPENING"}
    /\ SkuEdit \subseteq Sku \X SkuRow /\ GodownEdit \subseteq Godown \X BOOLEAN

VARIABLES
    now,        \* the clock
    sku,        \* the SKU rows
    active,     \* godown.is_active
    stock,      \* stock_balance
    doc,        \* the documents: status, who submitted and reviewed them, lines
    edit,       \* the edits of master data that are checked and not saved yet
    edits       \* how many there were

masterEdits == <<edit, edits>>
vars == <<now, sku, active, stock, doc, masterEdits>>

Key == Sku \X Godown \X Known

Status == {"ABSENT", "LOADED", "POSTED", "PARTIALLY_REVERSED", "REVERSED",
           "SUBMITTED", "APPROVED", "REJECTED"}

Absent == [status |-> "ABSENT", by |-> NoUser, reviewer |-> NoUser, lines |-> <<>>]

TypeOK ==
    /\ now \in Moment
    /\ sku \in [Sku -> SkuRow]
    /\ active \in [Godown -> BOOLEAN]
    /\ stock \in [Key -> Nat]
    /\ doc \in [Doc -> [status : Status, by : User \cup {NoUser}, reviewer : User \cup {NoUser},
                        lines : Seq(Line)]]
    /\ edit \subseteq (SkuEdit \cup GodownEdit)
    /\ edits \in 0..MaxEdits

Init ==
    /\ now = Min(Moment)
    /\ sku = [x \in Sku |-> [status |-> "ACTIVE", tracked |-> TRUE]]
    /\ active = [g \in Godown |-> TRUE]
    /\ stock = [k \in Key |-> 0]
    /\ doc = [d \in Doc |-> Absent]
    /\ edit = {} /\ edits = 0

Tick ==
    /\ now' \in {t \in Moment : t > now}
    /\ UNCHANGED <<sku, active, stock, doc, masterEdits>>

-----------------------------------------------------------------------------
(***************************************************************************)
(* The ledger entries of a line, and the queries over stock.               *)
(***************************************************************************)

Leg(type, line, g, quantity) ==
    [type |-> type, key |-> <<line.sku, g, line.batch>>, quantity |-> quantity]

Legs(d, line) ==
    CASE Kind[d] = "OPENING" -> {Leg("OPENING", line, line.to, line.quantity)}
      [] Kind[d] = "ADJUSTMENT" -> {Leg("ADJUSTMENT", line, line.to, line.quantity)}
      [] Kind[d] = "TRANSFER" -> {Leg("TRANSFER_OUT", line, line.from, -line.quantity),
                                  Leg("TRANSFER_IN", line, line.to, line.quantity)}

\* What a line of d, and all of its lines, change of stock row k.
Moves(d, line, k) ==
    SumFunction([leg \in {leg \in Legs(d, line) : leg.key = k} |-> leg.quantity])

Moved(d, lines, k) == SumFunction([n \in DOMAIN lines |-> Moves(d, lines[n], k)])

\* postMovements: every decrease is conditional on the stock that is there.
Post(d, lines) ==
    /\ stock' = [k \in Key |-> stock[k] + Moved(d, lines, k)]
    /\ \A k \in Key : stock'[k] >= 0

HasStock(keys) == \E k \in keys : stock[k] > 0
StockOfSku(x) == {k \in Key : k[1] = x}
StockOfGodown(g) == {k \in Key : k[2] = g}

Posted(line) == line.posted # 0
Reversed(line) == line.reversed # 0

\* The SKU has ledger entries, its reversed ones included.
HasMovements(x) ==
    \E d \in Doc : \E n \in DOMAIN doc[d].lines :
        doc[d].lines[n].sku = x /\ Posted(doc[d].lines[n])

-----------------------------------------------------------------------------
(***************************************************************************)
(* Creating documents.                                                     *)
(***************************************************************************)

\* transferCreateSchema, adjustmentCreateSchema, openingCreateSchema: a transfer goes
\* to another godown, a decrease names its batch, and no line is entered twice.
ValidLines(d, lines) ==
    /\ NoDuplicateLines([n \in DOMAIN lines |-> <<lines[n].sku, lines[n].batch>>])
    /\ \A n \in DOMAIN lines :
          /\ Kind[d] = "TRANSFER" => lines[n].from # lines[n].to
          /\ lines[n].quantity < 0 => lines[n].batch # NoBatch

\* normaliseBatchNumber; lines of a transfer name an existing batch.
BatchOf(d, line) ==
    IF Kind[d] = "TRANSFER" \/ sku[line.sku].tracked THEN line.batch ELSE Default

\* loadActiveGodown, loadTransactableSkus and a batch number where one is needed.
Loadable(d, lines) ==
    \A n \in DOMAIN lines :
        /\ active[lines[n].from] /\ active[lines[n].to]
        /\ sku[lines[n].sku].status # "ARCHIVED"
        /\ BatchOf(d, lines[n]) # NoBatch

\* The lines of the document, once its batches are resolved.
Resolved(d, lines) ==
    [n \in DOMAIN lines |->
        [sku |-> lines[n].sku, batch |-> BatchOf(d, lines[n]), from |-> lines[n].from,
         to |-> lines[n].to, quantity |-> lines[n].quantity, posted |-> 0, reversed |-> 0]]

OnLedger(lines) == [n \in DOMAIN lines |-> [lines[n] EXCEPT !.posted = now]]

\* The beginning of postOpeningBalanceInTx and postTransferInTx.
Load(d, lines) ==
    /\ Kind[d] \in {"OPENING", "TRANSFER"}
    /\ doc[d].status = "ABSENT"
    /\ ValidLines(d, lines)
    /\ Loadable(d, lines)
    /\ doc' = [doc EXCEPT ![d].status = "LOADED", ![d].lines = Resolved(d, lines)]
    /\ UNCHANGED <<now, sku, active, stock, masterEdits>>

\* The rest of them.
PostLoaded(d) ==
    /\ doc[d].status = "LOADED"
    /\ Post(d, doc[d].lines)
    /\ doc' = [doc EXCEPT ![d].status = "POSTED", ![d].lines = OnLedger(@)]
    /\ UNCHANGED <<now, sku, active, masterEdits>>

\* INSUFFICIENT_STOCK, or any other failure: nothing of the document remains.
Abandon(d) ==
    /\ doc[d].status = "LOADED"
    /\ doc' = [doc EXCEPT ![d] = Absent]
    /\ UNCHANGED <<now, sku, active, stock, masterEdits>>

\* importOpeningStock: one opening balance per godown of the file, each loaded
\* inside the transaction, which posts all of them or none.  (The rows are also
\* checked before it begins; what that refuses is not loaded.)
Import(file) ==
    /\ \A d \in file : doc[d].status = "LOADED"
    /\ stock' = [k \in Key |->
          stock[k] + SumFunction([d \in file |-> Moved(d, doc[d].lines, k)])]
    /\ doc' = [d \in Doc |->
          IF d \in file
          THEN [doc[d] EXCEPT !.status = "POSTED", !.lines = OnLedger(@)]
          ELSE doc[d]]
    /\ UNCHANGED <<now, sku, active, masterEdits>>

\* createAdjustment: it fails early if the stock is not there, but takes none.
CreateAdjustment(d, user, lines) ==
    /\ Kind[d] = "ADJUSTMENT"
    /\ doc[d].status = "ABSENT"
    /\ ValidLines(d, lines)
    /\ Loadable(d, lines)
    /\ \A n \in DOMAIN lines : \A leg \in Legs(d, Resolved(d, lines)[n]) :
          leg.quantity < 0 => stock[leg.key] >= -leg.quantity
    /\ doc' = [doc EXCEPT ![d] =
          [Absent EXCEPT !.status = "SUBMITTED", !.by = user, !.lines = Resolved(d, lines)]]
    /\ UNCHANGED <<now, sku, active, stock, masterEdits>>

\* Mutant of Reviewable: the status is not looked at once the row is locked.
ReviewableAgain(d, user) == doc[d].status # "ABSENT" /\ doc[d].by # user

\* lockForReview.
Reviewable(d, user) == doc[d].status = "SUBMITTED" /\ doc[d].by # user

Approve(d, user) ==
    /\ Reviewable(d, user)
    /\ Post(d, doc[d].lines)
    /\ doc' = [doc EXCEPT ![d].status = "APPROVED", ![d].reviewer = user, ![d].lines = OnLedger(@)]
    /\ UNCHANGED <<now, sku, active, masterEdits>>

Reject(d, user) ==
    /\ Reviewable(d, user)
    /\ doc' = [doc EXCEPT ![d].status = "REJECTED", ![d].reviewer = user]
    /\ UNCHANGED <<now, sku, active, stock, masterEdits>>

-----------------------------------------------------------------------------
(***************************************************************************)
(* Reversals: every leg of a line at once.                                 *)
(***************************************************************************)

\* onOpeningEntryReversed, onTransferEntriesReversed, onAdjustmentEntryReversed.
StatusAfterReversal(d, lines) ==
    LET undone == {n \in DOMAIN lines : Reversed(lines[n])}
    IN  IF Kind[d] = "ADJUSTMENT"
        THEN IF undone = DOMAIN lines THEN "REVERSED" ELSE doc[d].status
        ELSE Derived(Len(lines), Cardinality(undone))

\* Mutant of TakenBack: only the leg that was asked for is reversed.
TakenBackHere(d, line, k) == IF k[2] = line.to THEN Moves(d, line, k) ELSE 0

\* transferLegEntryIds: both legs of a transfer line.
TakenBack(d, line, k) == Moves(d, line, k)

Reversible(line) == Posted(line) /\ ~Reversed(line)

\* reverseEntry, for any entry of line n.
ReverseLine(d, n) ==
    LET line == doc[d].lines[n]
        lines == [doc[d].lines EXCEPT ![n].reversed = now]
    IN  /\ Reversible(line)
        /\ stock' = [k \in Key |-> stock[k] - TakenBack(d, line, k)]
        /\ \A k \in Key : stock'[k] >= 0
        /\ doc' = [doc EXCEPT ![d].lines = lines, ![d].status = StatusAfterReversal(d, lines)]
        /\ UNCHANGED <<now, sku, active, masterEdits>>

-----------------------------------------------------------------------------
(***************************************************************************)
(* Master data: checked first, saved later.  One edit at a time.           *)
(***************************************************************************)

CanEdit == edit = {} /\ edits < MaxEdits

\* updateSku reads the row and refuses a change of identity once there are
\* movements, and the archiving of stock.
CheckSku(x, new) ==
    /\ <<x, new>> \in SkuEdit /\ CanEdit
    /\ new # sku[x]
    /\ new.tracked # sku[x].tracked => ~HasMovements(x)
    /\ (new.status = "ARCHIVED" /\ sku[x].status # "ARCHIVED") => ~HasStock(StockOfSku(x))
    /\ edit' = {<<x, new>>} /\ edits' = edits + 1
    /\ UNCHANGED <<now, sku, active, stock, doc>>

SaveSku(x, new) ==
    /\ <<x, new>> \in edit \cap SkuEdit
    /\ sku' = [sku EXCEPT ![x] = new]
    /\ edit' = edit \ {<<x, new>>}
    /\ UNCHANGED <<now, active, stock, doc, edits>>

\* updateGodown.
CheckGodown(g, on) ==
    /\ <<g, on>> \in GodownEdit /\ CanEdit
    /\ on # active[g]
    /\ ~on => ~HasStock(StockOfGodown(g))
    /\ edit' = {<<g, on>>} /\ edits' = edits + 1
    /\ UNCHANGED <<now, sku, active, stock, doc>>

SaveGodown(g, on) ==
    /\ <<g, on>> \in edit \cap GodownEdit
    /\ active' = [active EXCEPT ![g] = on]
    /\ edit' = edit \ {<<g, on>>}
    /\ UNCHANGED <<now, sku, stock, doc, edits>>

Next ==
    \/ Tick
    \/ \E d \in Doc :
          \/ \E lines \in Input[d] : Load(d, lines)
          \/ PostLoaded(d)
          \/ Abandon(d)
          \/ \E user \in User :
                \/ \E lines \in Input[d] : CreateAdjustment(d, user, lines)
                \/ Approve(d, user)
                \/ Reject(d, user)
          \/ \E n \in DOMAIN doc[d].lines : ReverseLine(d, n)
    \/ \E file \in Together : Import(file)
    \/ \E e \in SkuEdit : CheckSku(e[1], e[2]) \/ SaveSku(e[1], e[2])
    \/ \E e \in GodownEdit : CheckGodown(e[1], e[2]) \/ SaveGodown(e[1], e[2])

Spec == Init /\ [][Next]_vars

-----------------------------------------------------------------------------
(***************************************************************************)
(* Reports and suggestions.                                                *)
(***************************************************************************)

\* The inventory_ledger: one entry per leg, and one per leg of a reversed line.
LineIds == UNION {{d} \X DOMAIN doc[d].lines : d \in Doc}
LineAt(id) == doc[id[1]].lines[id[2]]
PostedIds == {id \in LineIds : Posted(LineAt(id))}
ReversedIds == {id \in LineIds : Reversed(LineAt(id))}

LegsOf(ids) == UNION {{id} \X Legs(id[1], LineAt(id)) : id \in ids}

Entries ==
    {[leg |-> x[2], id |-> x[1], type |-> x[2].type, quantity |-> x[2].quantity,
      at |-> LineAt(x[1]).posted] : x \in LegsOf(PostedIds)}
    \cup
    {[leg |-> x[2], id |-> x[1], type |-> "REVERSAL", quantity |-> -x[2].quantity,
      at |-> LineAt(x[1]).reversed] : x \in LegsOf(ReversedIds)}

Total(entries) == SumFunction([e \in entries |-> e.quantity])

InwardTypes == {"OPENING", "INWARD", "TRANSFER_IN", "RETURN_IN"}
OutwardTypes == {"OUTWARD", "TRANSFER_OUT", "RETURN_OUT"}

AdjustmentTypes == {"ADJUSTMENT", "REVERSAL"}

\* getStockSummary for the days from..to of the ledger, over the stock rows keys
\* of one line of the report: one batch, or all batches of a SKU in a godown.
StockSummary(ledger, from, to, keys) ==
    LET of == {e \in ledger : e.leg.key \in keys /\ DayOf(e.at) <= to}
        before == {e \in of : DayOf(e.at) < from}
        within == of \ before
        opening == Total(before)
    IN  [opening |-> opening,
         inward |-> Total({e \in within : e.type \in InwardTypes}),
         outward |-> -Total({e \in within : e.type \in OutwardTypes}),
         adjustments |-> Total({e \in within : e.type \in AdjustmentTypes}),
         closing |-> Total(of),
         listed |-> opening # 0 \/ within # {}]

MovementsOf(ledger, x, g) == {e \in ledger : e.leg.key[1] = x /\ e.leg.key[2] = g}

\* getMovementReport, of a SKU in a godown.
MovementReport(ledger, from, to, x, g) ==
    {e \in MovementsOf(ledger, x, g) : DayOf(e.at) \in from..to}

\* listStockBalances, without the rows that are empty.
StockBalances(keys) == {k \in keys : stock[k] > 0}

\* getSkuStock: the godowns that have the SKU, and how much.
ByGodown(x) ==
    LET rows == StockBalances(StockOfSku(x))
    IN  [g \in {k[2] : k \in rows} |->
            SumFunction([k \in {k \in rows : k[2] = g} |-> stock[k]])]

\* Mutant of StockAging: the age is that of the first movement.
StockAgingSinceFirst(ledger, minDays) ==
    {p \in Sku \X Godown :
        /\ p[2] \in DOMAIN ByGodown(p[1])
        /\ LET moved == MovementsOf(ledger, p[1], p[2])
           IN  moved # {} /\ Min({e.at : e \in moved}) <= now - minDays * PerDay}

\* getStockAging: what has stock and did not move in the last minDays times 24
\* hours, counted back from this moment and not from midnight.
StockAging(ledger, minDays) ==
    {p \in Sku \X Godown :
        /\ p[2] \in DOMAIN ByGodown(p[1])
        /\ LET moved == MovementsOf(ledger, p[1], p[2])
           IN  moved # {} /\ Max({e.at : e \in moved}) <= now - minDays * PerDay}

\* listAvailableBatches.
Available(x, g) == {b \in Known : stock[<<x, g, b>>] > 0}

\* Mutant of Usable: a batch is not offered on its last day.
UsableBefore(x, g) == {b \in Available(x, g) : Expiry[b] > DayOf(now)}

\* The batches allocateFefo may take from: those that have not expired.
Usable(x, g) == {b \in Available(x, g) : Expiry[b] >= DayOf(now)}

ExpiresFirst(a, b) == Expiry[a] < Expiry[b] \/ (Expiry[a] = Expiry[b] /\ a < b)

FefoOrder(x, g) ==
    CHOOSE s \in SetToSeqs(Usable(x, g)) :
        \A i, j \in DOMAIN s : i < j => ExpiresFirst(s[i], s[j])

\* The loop of allocateFefo: what remains after each batch, what it gave (nothing,
\* from a batch the loop does not reach), and the shortfall.
AllocateFefo(x, g, requested) ==
    LET order == FefoOrder(x, g)
        Give(n, remaining) == IF stock[<<x, g, order[n]>>] < remaining
                              THEN stock[<<x, g, order[n]>>] ELSE remaining
        remaining[n \in 0..Len(order)] ==
            IF n = 0 THEN requested ELSE remaining[n - 1] - Give(n, remaining[n - 1])
    IN  [allocations |-> [n \in DOMAIN order |->
            [batch |-> order[n], quantity |-> Give(n, remaining[n - 1])]],
         shortfall |-> remaining[Len(order)]]

\* suggestFefoPick, behind the button "Pick" of a form.
SuggestFefoPick(x, g, requested) == AllocateFefo(x, g, requested)

-----------------------------------------------------------------------------
(***************************************************************************)
(* What Tally is sent.  Bound: the setting of a godown does not change.    *)
(***************************************************************************)

\* enqueueTallySync with the document, for a transfer with either of its godowns.
QueuedDocs ==
    {d \in Doc : \E n \in DOMAIN doc[d].lines :
        Posted(doc[d].lines[n]) /\ {doc[d].lines[n].from, doc[d].lines[n].to} \cap Synced # {}}

\* enqueueTallySync with each reversal entry, for the godown of that entry.
QueuedReversals(ledger) == {e \in ledger : e.type = "REVERSAL" /\ e.leg.key[2] \in Synced}

\* Mutant of Voucher: the reversals that came before it was sent are in it too.
VoucherOfAll(ledger, d) == {e \in ledger : e.id[1] = d}

\* buildTallyVoucher, of a document; the voucher of a reversal is its entry.
Voucher(ledger, d) == {e \in ledger : e.id[1] = d /\ e.type # "REVERSAL"}

\* What the vouchers of every job add to stock row k in Tally.
StockInTally(ledger, k) ==
    SumFunction([d \in QueuedDocs |-> Total({e \in Voucher(ledger, d) : e.leg.key = k})])
    + Total({e \in QueuedReversals(ledger) : e.leg.key = k})

-----------------------------------------------------------------------------
(***************************************************************************)
(* Properties.                                                             *)
(***************************************************************************)

Standing == PostedIds \ ReversedIds

\* "total company stock never changes and stock is never in limbo"
\* (transfer.service.ts:24): after any mixture of postings, reviews, reversals
\* and half-done requests the stock of a SKU is what its standing opening
\* balances and approved adjustments brought, wherever transfers took it, and
\* each stock row is what the standing lines moved through it.
StockIsExplained ==
    /\ \A k \in Key :
          stock[k] = SumFunction([id \in Standing |-> Moves(id[1], LineAt(id), k)])
    /\ \A x \in Sku :
          SumFunction([k \in StockOfSku(x) |-> stock[k]]) =
          SumFunction([id \in {id \in Standing : LineAt(id).sku = x /\ Kind[id[1]] # "TRANSFER"}
                           |-> LineAt(id).quantity])

\* A document's status says what became of its entries: an adjustment waits for
\* review or is rejected with nothing posted, is APPROVED while an entry of it
\* stands, and a document is REVERSED only when no entry of it stands.
DocumentsFollowEntries ==
    \A d \in Doc :
        LET lines == {id \in LineIds : id[1] = d}
            posted == lines \cap PostedIds
            undone == lines \cap ReversedIds
        IN  /\ undone \subseteq posted
            /\ doc[d].status \in {"ABSENT", "LOADED", "SUBMITTED", "REJECTED"} <=> posted = {}
            /\ posted # {} => posted = lines
            /\ doc[d].status = "POSTED" => undone = {}
            /\ doc[d].status = "APPROVED" => undone # lines
            /\ doc[d].status = "PARTIALLY_REVERSED" => undone \notin {{}, lines}
            /\ doc[d].status = "REVERSED" => undone = lines
            /\ Kind[d] = "ADJUSTMENT" /\ posted # {} => doc[d].reviewer \in User \ {doc[d].by}

\* "Opening + Inward - Outward +- Adjustments = Closing" (reports.queries.ts:40)
\* for every period and grouping, the closing balance of today is the stock on hand,
\* and what is left out of the report has none.  The screens agree: the movements of
\* a period lead from its opening to its closing balance; what is listed as slow has
\* no movement in a report of as many days up to today, and what has stock and no
\* movement in a report of one day more is listed.  Between the two the list, which
\* counts hours, and the report, which counts days, may differ.
ReportsAgree ==
    \A ledger \in {Entries} : \A today \in {DayOf(now)} :
        /\ \A k \in Key : \A entries \in {{e \in ledger : e.leg.key = k}} :
              \A from \in 1..today : \A to \in from..today :
                 \A row \in {StockSummary(entries, from, to, {k})} :
                     /\ row.opening + row.inward - row.outward + row.adjustments = row.closing
                     /\ to = today => row.closing = stock[k]
                     /\ ~row.listed => row.closing = 0
        /\ \A x \in Sku, g \in Godown :
              LET keys == StockOfSku(x) \cap StockOfGodown(g)
                  shown == ByGodown(x)
              IN  \A from \in 1..today : \A to \in from..today :
                     \A row \in {StockSummary(ledger, from, to, keys)} :
                         /\ row.closing - row.opening = Total(MovementReport(ledger, from, to, x, g))
                         /\ to = today => row.closing = (IF g \in DOMAIN shown THEN shown[g] ELSE 0)
        /\ \A x \in Sku : \A g \in DOMAIN ByGodown(x) : \A minDays \in 1..today :
              LET QuietSince(first) == MovementReport(ledger, first, today, x, g) = {}
              IN  /\ <<x, g>> \in StockAging(ledger, minDays) => QuietSince(today - minDays + 1)
                  /\ QuietSince(today - minDays) => <<x, g>> \in StockAging(ledger, minDays)

\* "Every Margix document is a pure stock movement, so it is sent as a Tally Stock
\* Journal" (tally-voucher.ts:11): a document, queued when it is posted and read when
\* it is sent, and its reversals, queued one by one, add up in Tally to the stock of
\* every godown that is synced, whichever entries were reversed before it was sent.
TallyAddsUp ==
    \A ledger \in {Entries} : \A k \in Key :
        k[2] \in Synced => StockInTally(ledger, k) = stock[k]

\* "takes stock from the batch that expires first ... batches already expired on
\* today are never offered" (fefo.ts:18): the suggestion covers the request as
\* far as unexpired stock reaches, takes nothing the stock row does not have, and
\* touches a batch only when every batch that expires earlier is used up.
FefoIsSound ==
    \A x \in Sku, g \in Godown : \A requested \in 1..3 : \A pick \in {SuggestFefoPick(x, g, requested)} :
        LET taken == pick.allocations
            Gets(b) == SumFunction([n \in {n \in DOMAIN taken : taken[n].batch = b}
                                        |-> taken[n].quantity])
            Good == {b \in Known : Expiry[b] >= DayOf(now)}
            enough == SumFunction([b \in Good |-> stock[<<x, g, b>>]])
        IN  /\ pick.shortfall = (IF enough >= requested THEN 0 ELSE requested - enough)
            /\ SumFunction([b \in Known |-> Gets(b)]) = requested - pick.shortfall
            /\ \A b \in Known :
                  /\ Gets(b) \in 0..stock[<<x, g, b>>]
                  /\ Gets(b) > 0 =>
                        /\ b \in Good
                        /\ \A c \in Good : Expiry[c] < Expiry[b] => Gets(c) = stock[<<x, g, c>>]
==============================================================================
