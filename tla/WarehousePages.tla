---------------------------- MODULE WarehousePages ----------------------------
(***************************************************************************)
(* What the dashboard and the pages of stock, adjustments, transfers and   *)
(* the ledger show and offer, in every state of Warehouse.  Every page is  *)
(* rendered from queries of its own; left out are search texts, sorting by *)
(* name, and the figures of other components (orders, alerts, Tally jobs). *)
(***************************************************************************)
EXTENDS Warehouse, Permissions

CONSTANTS
    ExpiryWindow,       \* EXPIRY_WINDOW_DAYS
    BatchesShown,       \* how many expiring batches the dashboard lists
    EntriesShown        \* how many ledger entries the page of a SKU lists

ASSUME PagesAssumption ==
    ExpiryWindow \in Nat /\ BatchesShown \in Nat \ {0} /\ EntriesShown \in Nat

-----------------------------------------------------------------------------
(***************************************************************************)
(* The routes: whom they admit.                                            *)
(***************************************************************************)

CreateRoute(role, kind) ==
    Can(role, CASE kind = "OPENING" -> "opening.post"
                [] kind = "TRANSFER" -> "transfer.create"
                [] kind = "ADJUSTMENT" -> "adjustment.request")

ReviewRoute(role) == Can(role, "adjustment.approve")
ReverseRoute(role) == Can(role, "ledger.reverse")

-----------------------------------------------------------------------------
(***************************************************************************)
(* Forms, and the pages of documents.                                      *)
(***************************************************************************)

\* listSkuOptions and listGodowns({ activeOnly: true }).
SkuOptions == {x \in Sku : sku[x].status = "ACTIVE"}
GodownOptions == {g \in Godown : active[g]}

\* NewAdjustmentPage, NewTransferPage, NewOpeningStockPage: what lines can be made of.
NewDocumentPage(role, kind) ==
    IF CreateRoute(role, kind) THEN SkuOptions \X GodownOptions ELSE {}

\* listEntriesForDocument
EntriesForDocument(ledger, d) == {e \in ledger : e.id[1] = d}

\* The entries LedgerTable gives a button "Reverse".
LedgerTable(role, entries) ==
    IF Can(role, "ledger.reverse")
    THEN {e \in entries : e.type # "REVERSAL" /\ ~Reversed(LineAt(e.id))} ELSE {}

AdjustmentPage(user, role, ledger, d) ==
    LET pending == doc[d].status = "SUBMITTED"
        isSubmitter == doc[d].by = user
    IN  [canReview |-> pending /\ Can(role, "adjustment.approve") /\ ~isSubmitter,
         reversible |-> IF pending THEN {} ELSE LedgerTable(role, EntriesForDocument(ledger, d))]

\* The decisions AdjustmentReview submits, if the page shows it.
AdjustmentReview(page) == IF page.canReview THEN {"approve", "reject"} ELSE {}

TransferPage(role, ledger, d) == [reversible |-> LedgerTable(role, EntriesForDocument(ledger, d))]

-----------------------------------------------------------------------------
(***************************************************************************)
(* The pages of stock.                                                     *)
(***************************************************************************)

\* listAdjustments, with one of its statuses.
ListAdjustments(status) == {d \in Doc : Kind[d] = "ADJUSTMENT" /\ doc[d].status = status}

\* listLedgerEntries with a limit: the entries that may be among the latest.  Those
\* of one moment come in an order that is not modelled.
Latest(entries, limit) ==
    {e \in entries : Cardinality({later \in entries : later.at > e.at}) < limit}

\* SkuStockPage: getSkuStock and the latest entries of the SKU.
SkuStockPage(role, ledger, x) ==
    [byGodown |-> ByGodown(x),
     byBatch |-> StockBalances(StockOfSku(x)),
     total |-> SumFunction([k \in StockBalances(StockOfSku(x)) |-> stock[k]]),
     reversible |-> LedgerTable(role, Latest({e \in ledger : e.leg.key[1] = x}, EntriesShown))]

\* The stock whose batch expires within the window.  The horizon is an instant, and
\* a date is compared with it as midnight UTC.
Expiring ==
    {k \in StockBalances(Key) :
        Expiry[k[3]] # Never /\ Expiry[k[3]] <= UtcDayOf(now) + ExpiryWindow}

\* Mutant of ExpiringLists: the batches that expire last come first.
ExpiringListsLast ==
    {list \in SUBSET Expiring :
        /\ Cardinality(list) <= BatchesShown
        /\ list # Expiring => Cardinality(list) = BatchesShown
        /\ \A a \in list, b \in Expiring \ list : Expiry[a[3]] >= Expiry[b[3]]}

\* expiringBatches, ordered by date and cut: the lists the dashboard may show.  Which
\* of several batches of one date are on it is left open.
ExpiringLists ==
    {list \in SUBSET Expiring :
        /\ Cardinality(list) <= BatchesShown
        /\ list # Expiring => Cardinality(list) = BatchesShown
        /\ \A a \in list, b \in Expiring \ list : Expiry[a[3]] <= Expiry[b[3]]}

\* getDashboardSummary
DashboardSummary(ledger, list) ==
    LET rows == StockBalances(Key)
        Today(types) == Cardinality({e \in ledger : e.type \in types /\ DayOf(e.at) = DayOf(now)})
    IN  [activeSkus |-> Cardinality(SkuOptions),
         stockLines |-> Cardinality(rows),
         inwardToday |-> Today({"INWARD", "OPENING"}),
         outwardToday |-> Today({"OUTWARD"}),
         pendingAdjustments |-> Cardinality(ListAdjustments("SUBMITTED")),
         expiringBatches |-> list,
         godowns |-> [g \in {k[2] : k \in rows} |-> Cardinality({k \in rows : k[2] = g})]]

\* DashboardPage colours a number that asks for attention, and NeedsAttention lists it.
NeedsAttention(summary) == summary.pendingAdjustments > 0

-----------------------------------------------------------------------------
(***************************************************************************)
(* Property.                                                               *)
(***************************************************************************)

\* "things someone must act on, surfaced on the dashboard rather than buried in logs"
\* (dashboard.queries.ts:79): each adjustment the dashboard counts can be decided, in
\* the list it links to, by every other user who may review, and by nobody else; the
\* stock lines counted in all, by godown and by SKU are the same; stock that no pick
\* will offer because it expired is among the batches the dashboard shows to expire,
\* unless these are all such stock and there is no room for more; what the page of a
\* SKU offers to reverse, the page of its document offers too.
ScreensAgree ==
    LET requests == {d \in Doc : Kind[d] = "ADJUSTMENT"}
        expired == {k \in Key : k[3] \in Available(k[1], k[2]) \ Usable(k[1], k[2])}
    IN  \A ledger \in {Entries} :
        /\ \A list \in ExpiringLists : \A summary \in {DashboardSummary(ledger, list)} :
              /\ summary.pendingAdjustments =
                    Cardinality({d \in requests : \E user \in User :
                        AdjustmentReview(AdjustmentPage(user, "ADMIN", ledger, d)) # {}})
              /\ NeedsAttention(summary) <=> ListAdjustments("SUBMITTED") # {}
              /\ summary.stockLines = SumFunction(summary.godowns)
              /\ summary.stockLines =
                    SumFunction([x \in Sku |-> Cardinality(SkuStockPage("ADMIN", ledger, x).byBatch)])
              /\ \/ expired \subseteq summary.expiringBatches
                 \/ /\ summary.expiringBatches \subseteq expired
                    /\ Cardinality(summary.expiringBatches) = BatchesShown
        /\ \A d \in requests, user \in User : \A role \in Role :
              AdjustmentPage(user, role, ledger, d).canReview <=> ReviewRoute(role) /\ Reviewable(d, user)
        /\ \A d \in Doc : \A role \in Role :
              TransferPage(role, ledger, d).reversible =
              IF ReverseRoute(role)
              THEN {e \in ledger : e.id[1] = d /\ e.type # "REVERSAL" /\ Reversible(LineAt(e.id))}
              ELSE {}
        /\ \A x \in Sku : \A page \in {SkuStockPage("ADMIN", ledger, x)} :
              /\ page.total = SumFunction(page.byGodown)
              /\ \A e \in page.reversible : e \in TransferPage("ADMIN", ledger, e.id[1]).reversible
        /\ \A role \in Role : \A d \in Doc : \A offer \in NewDocumentPage(role, Kind[d]) :
              /\ CreateRoute(role, Kind[d])
              /\ Loadable(d, <<[sku |-> offer[1], from |-> offer[2], to |-> offer[2],
                                batch |-> Default]>>)
==============================================================================
