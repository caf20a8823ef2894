----------------------------- MODULE StockPosting ----------------------------
(***************************************************************************)
(* The inventory engine: inventory/ledger.service.ts, stock-balance.ts and *)
(* movement-rules.ts with alerts/alerts.service.ts, statement by statement *)
(* over concurrent READ COMMITTED transactions.  A session posts a         *)
(* document, or the opening balances of an imported file one after the     *)
(* other (imports/import.service.ts), reverses posted entries, or saves a  *)
(* reorder rule.                                                           *)
(*                                                                         *)
(* The ledger table is kept per stock key: ledger[k] lists the entries of  *)
(* k in posting order.  Whoever appends to it holds the stock row of k, so *)
(* the first durable[k] entries are committed and the rest belong to that  *)
(* holder's open transaction.                                              *)
(***************************************************************************)
EXTENDS Integers, Sequences, FiniteSetsExt, ReadCommitted

CONSTANTS
    Key,           \* stock identities sku x godown x batch, in compareKeys order
    Pair,          \* sku x godown pairs, what reorder rules and alerts are about
    PairOf,        \* the pair a stock key belongs to
    Doc,           \* what one transaction posts, each at most once: a document,
                   \* or the opening balances of one imported file
    Lines,         \* its movements, in the order they reach postMovements
    Call,          \* the call of postMovements that each line is part of: one
                   \* for a document, one for each opening balance of a file
    RuleChange,    \* the <<pair, level>> inputs of saveReorderRule
    InitialLevel   \* the reorder rule each pair starts with

Inbound == {"OPENING", "INWARD", "TRANSFER_IN", "RETURN_IN"}
Outbound == {"OUTWARD", "TRANSFER_OUT", "RETURN_OUT"}
MovementType == Inbound \cup Outbound \cup {"ADJUSTMENT", "REVERSAL"}

NoRule == -1    \* reorder rule missing or inactive
Level == Nat \cup {NoRule}
NoEntry == 0    \* reverses_entry_id IS NULL

\* A movement to insert, of line `line` of document ref; reverses is the
\* position, in ledger[key], of the entry that a REVERSAL points at.
Movement == {m \in [key : Key, type : MovementType, quantity : Int,
                    ref : Doc, line : Nat, reverses : Nat] :
                m.line \in DOMAIN Lines[m.ref]}

Entry == {e \in [type : MovementType, quantity : Int, balanceAfter : Nat,
                 ref : Doc, line : Nat, reverses : Nat] :
             e.line \in DOMAIN Lines[e.ref]}

ASSUME PostingAssumption ==
    /\ Key \subseteq Int
    /\ PairOf \in [Key -> Pair]
    /\ Lines \in [Doc -> Seq([key : Key, type : MovementType \ {"REVERSAL"},
                              quantity : Int])]
    /\ \A d \in Doc : \A i \in DOMAIN Lines[d] :     \* transfers.ts: another godown
          (i + 1 \in DOMAIN Lines[d] /\ Lines[d][i].type = "TRANSFER_OUT"
                                     /\ Lines[d][i + 1].type = "TRANSFER_IN")
              => Lines[d][i].key # Lines[d][i + 1].key /\ Call[d][i] = Call[d][i + 1]
    /\ Call \in [Doc -> Seq(Nat)]
    /\ \A d \in Doc :
          /\ DOMAIN Call[d] = DOMAIN Lines[d]
          /\ \A i, j \in DOMAIN Lines[d] :            \* importOpeningStock: byGodown
                /\ i <= j => Call[d][i] <= Call[d][j]
                /\ PairOf[Lines[d][i].key] = PairOf[Lines[d][j].key]
                      => Call[d][i] = Call[d][j]
    /\ RuleChange \subseteq Pair \X Level
    /\ InitialLevel \in [Pair -> Level]

VARIABLES
    stock,      \* stock_balance: a row per key (an absent row is quantity 0)
    ledger,     \* inventory_ledger: the entries of each key, in order
    durable,    \* how many entries of each key are committed
    rule,       \* reorder_rule: a row per pair
    alert,      \* stock_alert: whether each pair has an ACTIVE alert
    pc,         \* the next statement of each session
    plan,       \* movements of the session's request, in input order
    todo,       \* indexes of plan not inserted yet
    targets,    \* ledger entries the session still has to load for reversal
    locked,     \* ledger entries the session holds FOR UPDATE
    due,        \* pairs whose alerts the session still has to evaluate
    level,      \* the rule level the session read
    low         \* whether the stock the session summed is below that level

tables == <<stock, ledger, durable, rule, alert>>
request == <<plan, todo, targets, locked, due, level, low>>
vars == <<tables, pc, request>>

Step == {"idle", "lock", "check", "move", "rule", "sum", "alert", "commit"}

TypeOK ==
    /\ stock \in [Key -> Row(Nat)]
    /\ ledger \in [Key -> Seq(Entry)]
    /\ durable \in [Key -> Nat]
    /\ rule \in [Pair -> Row(Level)]
    /\ alert \in [Pair -> Row(BOOLEAN)]
    /\ pc \in [Session -> Step]
    /\ plan \in [Session -> Seq(Movement)]
    /\ todo \in [Session -> SUBSET Nat]
    /\ targets \in [Session -> Seq(Key \X Nat)]
    /\ locked \in [Session -> SUBSET (Key \X Nat)]
    /\ due \in [Session -> SUBSET Pair]
    /\ level \in [Session -> Level]
    /\ low \in [Session -> BOOLEAN]

KeysOf(p) == {k \in Key : PairOf[k] = p}

Init ==
    /\ stock = [k \in Key |-> Stored(0)]
    /\ ledger = [k \in Key |-> <<>>]
    /\ durable = [k \in Key |-> 0]
    /\ rule = [p \in Pair |-> Stored(InitialLevel[p])]
    /\ alert = [p \in Pair |-> Stored(0 < InitialLevel[p])]
    /\ pc = [s \in Session |-> "idle"]
    /\ plan = [s \in Session |-> <<>>]
    /\ todo = [s \in Session |-> {}]
    /\ targets = [s \in Session |-> <<>>]
    /\ locked = [s \in Session |-> {}]
    /\ due = [s \in Session |-> {}]
    /\ level = [s \in Session |-> NoRule]
    /\ low = [s \in Session |-> FALSE]

-----------------------------------------------------------------------------
(***************************************************************************)
(* Starting a request.                                                     *)
(***************************************************************************)

\* The entries of ledger[k] that a statement of s can see.
Visible(s, k) == IF stock[k].holder = s THEN 1..Len(ledger[k]) ELSE 1..durable[k]

\* The movements of document d as postMovements receives them.
Movements(d) ==
    [i \in DOMAIN Lines[d] |->
        [key |-> Lines[d][i].key, type |-> Lines[d][i].type,
         quantity |-> Lines[d][i].quantity,
         ref |-> d, line |-> i, reverses |-> NoEntry]]

IsPosted(d) == \E k \in Key : \E i \in 1..durable[k] : ledger[k][i].ref = d

CommittedId == UNION {{k} \X (1..durable[k]) : k \in Key}

EntryAt(id) == ledger[id[1]][id[2]]

\* The document of a movement or an entry; every opening balance of a file is
\* a document of its own.
DocumentOf(m) == <<m.ref, Call[m.ref][m.line]>>

\* The session that posts document doc, or holds the lock lockOwningDocuments
\* took on it: that lock comes first, so a session waiting for it has not begun.
WorksOn(s, doc) ==
    \/ \E i \in DOMAIN plan[s] : DocumentOf(plan[s][i]) = doc
    \/ \E i \in DOMAIN targets[s] : DocumentOf(EntryAt(targets[s][i])) = doc

DocumentFree(doc) == \A t \in Session : ~WorksOn(t, doc)

BeginPosting(s, d) ==
    /\ pc[s] = "idle"
    /\ ~IsPosted(d)
    /\ \A i \in DOMAIN Lines[d] : DocumentFree(<<d, Call[d][i]>>)
    /\ plan' = [plan EXCEPT ![s] = Movements(d)]
    /\ todo' = [todo EXCEPT ![s] = DOMAIN Lines[d]]
    /\ pc' = [pc EXCEPT ![s] = "move"]
    /\ UNCHANGED <<tables, targets, locked, due, level, low>>

\* The two entries of one transfer item: line n takes the stock out and line
\* n + 1 of the same document brings it in.
AreLegs(out, in) ==
    /\ EntryAt(out).type = "TRANSFER_OUT"
    /\ EntryAt(in).type = "TRANSFER_IN"
    /\ EntryAt(in).ref = EntryAt(out).ref
    /\ EntryAt(in).line = EntryAt(out).line + 1

\* Mutant of EntriesToReverse: only the leg asked for is reversed.
EntriesToReverseOneLeg(id) == {<<id>>}

\* What reverseEntry hands to reverseLedgerEntries for the entry id.
EntriesToReverse(id) ==
    IF EntryAt(id).type \in {"TRANSFER_OUT", "TRANSFER_IN"}
    THEN {ids \in CommittedId \X CommittedId :
             AreLegs(ids[1], ids[2]) /\ id \in {ids[1], ids[2]}}
    ELSE {<<id>>}

BeginReversal(s, id) ==
    /\ pc[s] = "idle"
    /\ DocumentFree(DocumentOf(EntryAt(id)))
    /\ \E ids \in EntriesToReverse(id) : targets' = [targets EXCEPT ![s] = ids]
    /\ pc' = [pc EXCEPT ![s] = "lock"]
    /\ UNCHANGED <<tables, plan, todo, locked, due, level, low>>

\* saveReorderRule: the upsert takes the rule row; an active rule is applied
\* to the stock it describes, an inactive one resolves the alert.
SaveRule(s, p, lvl) ==
    /\ pc[s] = "idle"
    /\ Free(rule[p], s)
    /\ rule' = [rule EXCEPT ![p] = Written(@, s, lvl)]
    /\ due' = [due EXCEPT ![s] = {p}]
    /\ level' = [level EXCEPT ![s] = lvl]
    /\ low' = [low EXCEPT ![s] = FALSE]
    /\ pc' = [pc EXCEPT ![s] = IF lvl = NoRule THEN "alert" ELSE "sum"]
    /\ UNCHANGED <<stock, ledger, durable, alert, plan, todo, targets, locked>>

-----------------------------------------------------------------------------
(***************************************************************************)
(* loadReversible: lock one ledger entry, then read it and its reversal.   *)
(***************************************************************************)

LockEntry(s) ==
    /\ pc[s] = "lock"
    /\ LET id == Head(targets[s]) IN
         /\ \A t \in Session \ {s} : id \notin locked[t]
         /\ locked' = [locked EXCEPT ![s] = @ \cup {id}]
    /\ pc' = [pc EXCEPT ![s] = "check"]
    /\ UNCHANGED <<tables, plan, todo, targets, due, level, low>>

\* Mutant of HasReversal: reverses_entry_id is never filled in.
HasReversalUnlinked(s, id) == FALSE

\* A visible entry whose reverses_entry_id is id.
HasReversal(s, id) == \E j \in Visible(s, id[1]) : ledger[id[1]][j].reverses = id[2]

Reversible(s, id) == EntryAt(id).type # "REVERSAL" /\ ~HasReversal(s, id)

\* The counter-movement insertReversal derives from the loaded original.
CounterMovement(id) ==
    [key |-> id[1], type |-> "REVERSAL", quantity |-> -EntryAt(id).quantity,
     ref |-> EntryAt(id).ref, line |-> EntryAt(id).line, reverses |-> id[2]]

LoadReversible(s) ==
    LET id == Head(targets[s])
        loaded == Append(plan[s], CounterMovement(id))
    IN  /\ pc[s] = "check"
        /\ Reversible(s, id)
        /\ plan' = [plan EXCEPT ![s] = loaded]
        /\ targets' = [targets EXCEPT ![s] = Tail(@)]
        /\ IF Len(targets[s]) = 1
           THEN /\ todo' = [todo EXCEPT ![s] = DOMAIN loaded]
                /\ pc' = [pc EXCEPT ![s] = "move"]
           ELSE /\ pc' = [pc EXCEPT ![s] = "lock"]
                /\ UNCHANGED todo
        /\ UNCHANGED <<tables, locked, due, level, low>>

-----------------------------------------------------------------------------
(***************************************************************************)
(* Posting: the movements of a call are inserted in key order, ties in     *)
(* input order, and the call ends with the alerts of its pairs.            *)
(***************************************************************************)

\* Mutant of NextInKeyOrder: the sort is dropped, input order is kept.
NextInInputOrder(s, i) == i \in todo[s] /\ \A j \in todo[s] : i <= j

\* The call of postMovements, or reverseLedgerEntries, that inserts movement i.
CallOf(s, i) == Call[plan[s][i].ref][plan[s][i].line]

NextInKeyOrder(s, i) ==
    /\ i \in todo[s]
    /\ \A j \in todo[s] :
          \/ CallOf(s, i) < CallOf(s, j)
          \/ /\ CallOf(s, i) = CallOf(s, j)
             /\ \/ plan[s][i].key < plan[s][j].key
                \/ plan[s][i].key = plan[s][j].key /\ i <= j

\* The pairs of the call that inserts movement i.
PairsOfCall(s, i) ==
    {PairOf[plan[s][j].key] : j \in {x \in DOMAIN plan[s] : CallOf(s, x) = CallOf(s, i)}}

EndsCall(s, i) == \A j \in todo[s] \ {i} : CallOf(s, j) # CallOf(s, i)

\* assertQuantitySign
SignAllowed(m) ==
    CASE m.type \in Inbound -> m.quantity > 0
      [] m.type \in Outbound -> m.quantity < 0
      [] OTHER -> m.quantity # 0

\* A decrease is one conditional UPDATE: its WHERE must hold of the row the
\* statement sees, and again after waiting for the row.
EnoughStock(s, m) == m.quantity > 0 \/ View(stock[m.key], s) + m.quantity >= 0

\* The unique index on reverses_entry_id.
NotYetReversed(s, m) == m.reverses # NoEntry => ~HasReversal(s, <<m.key, m.reverses>>)

Accepted(s, m) == SignAllowed(m) /\ EnoughStock(s, m) /\ NotYetReversed(s, m)

\* Mutant of EntryFor: the balance before the movement is recorded.
EntryForBefore(m, after) ==
    [type |-> m.type, quantity |-> m.quantity, balanceAfter |-> after - m.quantity,
     ref |-> m.ref, line |-> m.line, reverses |-> m.reverses]

EntryFor(m, after) ==
    [type |-> m.type, quantity |-> m.quantity, balanceAfter |-> after,
     ref |-> m.ref, line |-> m.line, reverses |-> m.reverses]

\* applyStockDelta and the INSERT of the entry it explains.  Both touch only
\* what the stock row lock protects, so they form one step.
InsertEntry(s) ==
    \E i \in todo[s] :
      LET m == plan[s][i]
          after == View(stock[m.key], s) + m.quantity
      IN  /\ pc[s] = "move"
          /\ NextInKeyOrder(s, i)
          /\ Accepted(s, m)
          /\ Free(stock[m.key], s)
          /\ stock' = [stock EXCEPT ![m.key] = Written(@, s, after)]
          /\ ledger' = [ledger EXCEPT ![m.key] = Append(@, EntryFor(m, after))]
          /\ todo' = [todo EXCEPT ![s] = @ \ {i}]
          /\ IF EndsCall(s, i)
             THEN /\ due' = [due EXCEPT ![s] = PairsOfCall(s, i)]
                  /\ pc' = [pc EXCEPT ![s] = "rule"]
             ELSE UNCHANGED <<due, pc>>
          /\ UNCHANGED <<durable, rule, alert, plan, targets, locked, level, low>>

-----------------------------------------------------------------------------
(***************************************************************************)
(* evaluateStockAlerts: each distinct pair once, in input order.           *)
(***************************************************************************)

\* p occurs in the input before q does.
Earlier(s, p, q) ==
    \E i \in DOMAIN plan[s] :
        /\ PairOf[plan[s][i].key] = p
        /\ \A j \in 1..i : PairOf[plan[s][j].key] # q

NextDue(s, p) == p \in due[s] /\ \A q \in due[s] \ {p} : Earlier(s, p, q)

\* p is done: go on with the next pair, the next call, or with COMMIT.
Evaluated(s, p) ==
    /\ due' = [due EXCEPT ![s] = @ \ {p}]
    /\ level' = [level EXCEPT ![s] = NoRule]
    /\ low' = [low EXCEPT ![s] = FALSE]
    /\ pc' = [pc EXCEPT ![s] = CASE due[s] # {p} -> "rule"
                                [] due[s] = {p} /\ todo[s] # {} -> "move"
                                [] due[s] = {p} /\ todo[s] = {} -> "commit"]

ReadRule(s, p) ==
    /\ pc[s] = "rule"
    /\ NextDue(s, p)
    /\ IF View(rule[p], s) = NoRule
       THEN Evaluated(s, p)
       ELSE /\ level' = [level EXCEPT ![s] = View(rule[p], s)]
            /\ pc' = [pc EXCEPT ![s] = "sum"]
            /\ UNCHANGED <<due, low>>
    /\ UNCHANGED <<tables, plan, todo, targets, locked>>

\* Mutant of GodownStock: the sum is read outside the transaction.
GodownStockOutside(s, p) == SumFunctionOnSet([k \in Key |-> stock[k].saved], KeysOf(p))

\* godownStock: one SUM over the rows of the pair that s sees.
GodownStock(s, p) == SumFunctionOnSet([k \in Key |-> View(stock[k], s)], KeysOf(p))

ReadStock(s, p) ==
    /\ pc[s] = "sum"
    /\ NextDue(s, p)
    /\ low' = [low EXCEPT ![s] = GodownStock(s, p) < level[s]]
    /\ pc' = [pc EXCEPT ![s] = "alert"]
    /\ UNCHANGED <<tables, plan, todo, targets, locked, due, level>>

\* applyRule, stock below the level: INSERT ... ON CONFLICT DO UPDATE waits for
\* a transaction that is inserting, updating or resolving the ACTIVE alert.
RaiseAlert(s, p) ==
    /\ pc[s] = "alert"
    /\ NextDue(s, p)
    /\ low[s]
    /\ Free(alert[p], s)
    /\ alert' = [alert EXCEPT ![p] = Written(@, s, TRUE)]
    /\ Evaluated(s, p)
    /\ UNCHANGED <<stock, ledger, durable, rule, plan, todo, targets, locked>>

\* resolveActiveAlert: updates the ACTIVE alert s sees, if there is one.
ResolveAlert(s, p) ==
    /\ pc[s] = "alert"
    /\ NextDue(s, p)
    /\ ~low[s]
    /\ IF View(alert[p], s)
       THEN /\ Free(alert[p], s)
            /\ alert' = [alert EXCEPT ![p] = Written(@, s, FALSE)]
       ELSE UNCHANGED alert
    /\ Evaluated(s, p)
    /\ UNCHANGED <<stock, ledger, durable, rule, plan, todo, targets, locked>>

-----------------------------------------------------------------------------
(***************************************************************************)
(* The end of a transaction.                                               *)
(***************************************************************************)

Release(s) ==
    /\ pc' = [pc EXCEPT ![s] = "idle"]
    /\ plan' = [plan EXCEPT ![s] = <<>>]
    /\ todo' = [todo EXCEPT ![s] = {}]
    /\ targets' = [targets EXCEPT ![s] = <<>>]
    /\ locked' = [locked EXCEPT ![s] = {}]
    /\ due' = [due EXCEPT ![s] = {}]
    /\ level' = [level EXCEPT ![s] = NoRule]
    /\ low' = [low EXCEPT ![s] = FALSE]

Commit(s) ==
    /\ pc[s] = "commit"
    /\ stock' = Committed(stock, s)
    /\ rule' = Committed(rule, s)
    /\ alert' = Committed(alert, s)
    /\ durable' = [k \in Key |->
                     IF stock[k].holder = s THEN Len(ledger[k]) ELSE durable[k]]
    /\ UNCHANGED ledger
    /\ Release(s)

Rollback(s) ==
    /\ stock' = RolledBack(stock, s)
    /\ rule' = RolledBack(rule, s)
    /\ alert' = RolledBack(alert, s)
    /\ ledger' = [k \in Key |->
                    IF stock[k].holder = s THEN SubSeq(ledger[k], 1, durable[k])
                    ELSE ledger[k]]
    /\ UNCHANGED durable
    /\ Release(s)

\* CANNOT_REVERSE and ALREADY_REVERSED from loadReversible.
RefuseReversal(s) ==
    /\ pc[s] = "check"
    /\ ~Reversible(s, Head(targets[s]))
    /\ Rollback(s)

\* A wrong sign, InsufficientStock, or ALREADY_REVERSED from the unique index.
RefuseMovement(s) ==
    /\ pc[s] = "move"
    /\ \E i \in todo[s] : NextInKeyOrder(s, i) /\ ~Accepted(s, plan[s][i])
    /\ Rollback(s)

\* The transaction dies: lost connection, transaction timeout, restart, or the
\* victim of a deadlock.  withTx, or the client, may then start it again.
Abort(s) ==
    /\ pc[s] # "idle"
    /\ Rollback(s)

Next ==
    \E s \in Session :
        \/ \E d \in Doc : BeginPosting(s, d)
        \/ \E id \in CommittedId : BeginReversal(s, id)
        \/ \E change \in RuleChange : SaveRule(s, change[1], change[2])
        \/ LockEntry(s)
        \/ LoadReversible(s)
        \/ InsertEntry(s)
        \/ \E p \in Pair : \/ ReadRule(s, p)
                           \/ ReadStock(s, p)
                           \/ RaiseAlert(s, p)
                           \/ ResolveAlert(s, p)
        \/ Commit(s)
        \/ RefuseReversal(s)
        \/ RefuseMovement(s)
        \/ Abort(s)

Spec == Init /\ [][Next]_vars

-----------------------------------------------------------------------------
(***************************************************************************)
(* Properties.                                                             *)
(***************************************************************************)

BalanceAfter(k, i) == IF i = 0 THEN 0 ELSE ledger[k][i].balanceAfter

\* Whatever the interleaving, the committed stock of a key is the balance its
\* last committed entry recorded, and every entry's balance is the previous
\* one plus its quantity: the running balance has no gap and no drift, so
\* v_stock_balance_drift stays empty (ledger.service.ts, stock-balance.ts).
RunningBalance ==
    \A k \in Key :
        /\ durable[k] <= Len(ledger[k])
        /\ stock[k].saved = BalanceAfter(k, durable[k])
        /\ \A i \in 1..durable[k] :
              ledger[k][i].balanceAfter = BalanceAfter(k, i - 1) + ledger[k][i].quantity

\* Concurrent reversals of one entry leave at most one REVERSAL of it, which
\* is its exact mirror; a reversal is never reversed.  This is what the unique
\* index and the trigger margix_validate_reversal would otherwise have to stop.
ReversedOnce ==
    \A k \in Key : \A i \in 1..durable[k] :
        LET e == ledger[k][i] IN
        /\ (e.type = "REVERSAL") = (e.reverses # NoEntry)
        /\ e.type = "REVERSAL" =>
              /\ e.reverses \in 1..(i - 1)
              /\ ledger[k][e.reverses].type # "REVERSAL"
              /\ e.quantity = -ledger[k][e.reverses].quantity
              /\ \A j \in 1..(i - 1) : ledger[k][j].reverses # e.reverses

\* s waits for a row that t holds: a ledger entry, or a stock row.
WaitsForStock(s, t) ==
    \/ pc[s] = "lock" /\ Head(targets[s]) \in locked[t]
    \/ /\ pc[s] = "move"
       /\ \E i \in todo[s] : NextInKeyOrder(s, i) /\ stock[plan[s][i].key].holder = t

\* s has posted an opening balance of its file; what is left is of others.
BetweenCalls(s) ==
    \E i \in DOMAIN plan[s] \ todo[s] : \A j \in todo[s] : CallOf(s, i) < CallOf(s, j)

PostsAnother(s) == pc[s] = "move" /\ BetweenCalls(s)

\* Every circle of sessions that wait for ledger entries and stock rows, of any
\* length, passes through an import on its second or a later opening balance:
\* "Stock rows are locked in a deterministic key order to prevent deadlocks"
\* (ledger.service.ts) and entries before stock (locks.ts) hold of one call of
\* postMovements, and importOpeningStock calls it again while it keeps its rows.
NoDeadlockOnStock ==
    \A group \in SUBSET Session :
        IsFiniteSet(group) /\ group # {} =>
            \E s \in group : PostsAnother(s) \/ \A t \in group \ {s} : ~WaitsForStock(s, t)

\* For a pair with one batch and a fixed rule the committed alert agrees with
\* the committed stock in every state: postings are serialised by the stock
\* row, and each re-evaluates the alert before it commits.
AlertsFollowStock ==
    \A p \in Pair : \A k \in Key :
        (KeysOf(p) = {k} /\ p \notin {c[1] : c \in RuleChange}) =>
            alert[p].saved = (stock[k].saved < InitialLevel[p])

\* "An alert can never disagree with the stock it describes"
\* (alerts.service.ts:17): whenever no transaction is in progress, the ACTIVE
\* alert exists exactly when the stock of the pair is below its active rule.
AlertsNeverDisagree ==
    (\A s \in Session : pc[s] = "idle") =>
        \A p \in Pair : rule[p].saved # NoRule =>
            alert[p].saved = (MapThenSumSet(LAMBDA k : stock[k].saved, KeysOf(p)) < rule[p].saved)

\* The committed tables, read as the abstract ledger.
CommittedHistory(k) ==
    [i \in 1..durable[k] |->
        [type |-> ledger[k][i].type, quantity |-> ledger[k][i].quantity,
         ref |-> ledger[k][i].ref, line |-> ledger[k][i].line,
         reverses |-> ledger[k][i].reverses]]

Abstract == INSTANCE StockLedger
    WITH history <- [k \in Key |-> CommittedHistory(k)],
         onHand <- [k \in Key |-> stock[k].saved]

\* Every commit is one step of the abstract ledger and nothing else shows: a
\* document is posted wholly or not at all, a transfer is reversed wholly or
\* not at all, and stock never goes negative.
ImplementsStockLedger == Abstract!Spec
==============================================================================
