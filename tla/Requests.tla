------------------------------- MODULE Requests ------------------------------
(***************************************************************************)
(* The life of a create request: the form that sends it with its           *)
(* idempotency key (hooks/use-api-mutation.ts, lib/api-client.ts), the     *)
(* route that serves it (http/api-route.ts), withIdempotency, withTx and   *)
(* its retries, and the rows a posting transaction locks one by one, for a *)
(* goods receipt (grn.service.ts) and an opening balance                   *)
(* (opening.service.ts).  Answers get lost, forms are sent again while the *)
(* first request is still served, transactions deadlock and time out.      *)
(*                                                                         *)
(* Stock rows are left to StockPosting: a receipt and an opening lock them *)
(* last and in key order, so that requests do not wait in a circle over    *)
(* them.  A CSV import of several openings may put one in such a circle;   *)
(* the restart that follows is left out here.                              *)
(***************************************************************************)
EXTENDS Integers, Sequences, FiniteSetsExt, ReadCommitted

CONSTANTS
    Form,       \* create forms, each with the idempotency key it was opened with
    Kind,       \* what each form posts: a "GRN" of the order, or an "OPENING"
    Input,      \* what each form may hold when it is sent
    Batch,      \* batches, by SKU and number
    Pair,       \* SKU x godown pairs whose reorder rule is above their stock
    PairOf,     \* the pair a batch is received into
    Date,       \* expiry dates
    NoDate,     \* expiry_date IS NULL, or not quoted
    Order,      \* purchase orders, of one line each
    OrderOf,    \* the order a receipt form is about
    Ordered,    \* the quantity ordered
    MaxAttempts,    \* MAX_ATTEMPTS of withTx
    MaxSent     \* bound: how often each form is sent

Series == {"GRN", "OPENING"}
Line == [batch : Batch, date : Date \cup {NoDate}]
Content == [quantity : Nat, lines : Seq(Line)]

ASSUME RequestsAssumption ==
    /\ Form # {}
    /\ Kind \in [Form -> Series]
    /\ OrderOf \in [{f \in Form : Kind[f] = "GRN"} -> Order]
    /\ Ordered \in [Order -> Nat]
    /\ \A f \in Form : Input[f] \subseteq Content
    /\ \A f \in Form : \A input \in Input[f] : input.lines # <<>>
    /\ NoDate \notin Date
    /\ PairOf \in [Batch -> Pair]
    /\ MaxAttempts \in Nat \ {0}
    /\ MaxSent \in [Form -> Nat]

VARIABLES
    screen,     \* what each form shows
    sent,       \* how often each form was sent
    work,       \* the request each session serves
    received,   \* the purchase order rows: their received quantity
    sequence,   \* document_sequence: the last number of each series
    index,      \* the unique index on idempotency_key: the number of each form's document
    batch,      \* the batch rows: their expiry date
    alert,      \* the stock_alert rows: whether a pair has an ACTIVE one
    document    \* the committed documents, in commit order

rows == <<received, sequence, index, batch, alert>>
vars == <<screen, sent, work, rows, document>>

Screen == {"EDITING", "PENDING", "POSTED", "LOGIN"}
Step == {"idle", "route", "find", "order", "number", "insert", "batch", "alert", "commit",
         "winner", "posted", "failed"}

NoWork == [form |-> CHOOSE f \in Form : TRUE, pc |-> "idle", heard |-> FALSE,
           input |-> [quantity |-> 0, lines |-> <<>>], attempt |-> 0, line |-> 0, number |-> 0]

Work == [form : Form, pc : Step, heard : BOOLEAN, input : Content, attempt : Nat, line : Nat,
         number : Nat]

TypeOK ==
    /\ screen \in [Form -> Screen]
    /\ sent \in [Form -> Nat]
    /\ work \in [Session -> Work]
    /\ \A s \in Session : work[s].line <= Len(work[s].input.lines)
    /\ \A s \in Session : work[s].attempt <= MaxAttempts
    /\ received \in [Order -> Row(Nat)]
    /\ sequence \in [Series -> Row(Nat)]
    /\ index \in [Form -> Row(Nat)]
    /\ batch \in [Batch -> Row(Date \cup {NoDate})]
    /\ alert \in [Pair -> Row(BOOLEAN)]
    /\ document \in Seq([form : Form, number : Nat, input : Content])

Init ==
    /\ screen = [f \in Form |-> "EDITING"]
    /\ sent = [f \in Form |-> 0]
    /\ work = [s \in Session |-> NoWork]
    /\ received = [o \in Order |-> Stored(0)]
    /\ sequence = [k \in Series |-> Stored(0)]
    /\ index = [f \in Form |-> Stored(0)]
    /\ batch = [b \in Batch |-> Stored(NoDate)]
    /\ alert = [p \in Pair |-> Stored(FALSE)]
    /\ document = <<>>

-----------------------------------------------------------------------------
(***************************************************************************)
(* The form.                                                               *)
(***************************************************************************)

\* mutate: the button is disabled while the request is pending.
Send(f, s, input) ==
    /\ screen[f] = "EDITING"
    /\ sent[f] < MaxSent[f]
    /\ work[s].pc = "idle"
    /\ screen' = [screen EXCEPT ![f] = "PENDING"]
    /\ sent' = [sent EXCEPT ![f] = @ + 1]
    /\ work' = [work EXCEPT ![s] =
          [NoWork EXCEPT !.form = f, !.pc = "route", !.heard = TRUE, !.input = input]]
    /\ UNCHANGED <<rows, document>>

\* NETWORK_ERROR: the form may be edited and sent again, with the same key; the
\* server notices nothing.
LoseConnection(s) ==
    /\ work[s].heard
    /\ screen' = [screen EXCEPT ![work[s].form] = "EDITING"]
    /\ work' = [work EXCEPT ![s].heard = FALSE]
    /\ UNCHANGED <<sent, rows, document>>

-----------------------------------------------------------------------------
(***************************************************************************)
(* The route.                                                              *)
(***************************************************************************)

Goto(s, pc) == work' = [work EXCEPT ![s].pc = pc]

\* apiRoute lets the request through to the service.
Admit(s) ==
    /\ work[s].pc = "route"
    /\ Goto(s, "find")
    /\ UNCHANGED <<screen, sent, rows, document>>

\* What can be wrong with a request before the service is called.
Fault == {"cross origin", "malformed", "no session", "not permitted"}

\* handleRequest and apiRoute report the first of the faults in this order:
\* assertSameOrigin, readJsonBody with the schema of the body, the session, the role.
ErrorCode(faults) ==
    CASE "cross origin" \in faults -> "FORBIDDEN"
      [] "cross origin" \notin faults /\ "malformed" \in faults -> "VALIDATION_ERROR"
      [] faults \subseteq {"no session", "not permitted"} /\ "no session" \in faults -> "UNAUTHENTICATED"
      [] faults = {"not permitted"} -> "FORBIDDEN"

\* What a service answers when it throws: its AppError, or INTERNAL_ERROR.
ServiceError == {"INVALID_STATE", "OVER_RECEIPT", "BATCH_MISMATCH", "INTERNAL_ERROR"}

\* toAppError and jsonError: the status an error code is sent with.
HttpStatus(code) ==
    CASE code = "VALIDATION_ERROR" -> 400
      [] code = "UNAUTHENTICATED" -> 401
      [] code = "FORBIDDEN" -> 403
      [] code \in {"INVALID_STATE", "BATCH_MISMATCH"} -> 409
      [] code = "OVER_RECEIPT" -> 422
      [] code = "INTERNAL_ERROR" -> 500

Failure(code) == [status |-> HttpStatus(code), success |-> FALSE, code |-> code]
Success == [status |-> 201, success |-> TRUE, code |-> "none"]

\* apiRequest throws unless the status is one of success and the envelope says so.
Unwrapped(envelope) == envelope.status \in 200..299 /\ envelope.success

\* What the form shows of the answer: an expired session gives way to the login
\* page, any other error is shown and the form can be sent again.
Shown(envelope) ==
    IF Unwrapped(envelope) THEN "POSTED"
    ELSE IF envelope.code = "UNAUTHENTICATED" THEN "LOGIN" ELSE "EDITING"

\* The envelope reaches the browser, if it still listens.
Deliver(s, envelope) ==
    /\ screen' = IF work[s].heard THEN [screen EXCEPT ![work[s].form] = Shown(envelope)] ELSE screen
    /\ work' = [work EXCEPT ![s] = NoWork]
    /\ UNCHANGED <<sent, rows, document>>

\* The service is not called.
Refuse(s) ==
    /\ work[s].pc = "route"
    /\ \E faults \in (SUBSET Fault) \ {{}} : Deliver(s, Failure(ErrorCode(faults)))

\* jsonSuccess, or jsonError of what the service threw.
Answer(s) ==
    \/ work[s].pc = "posted" /\ Deliver(s, Success)
    \/ work[s].pc = "failed" /\ \E code \in ServiceError : Deliver(s, Failure(code))

-----------------------------------------------------------------------------
(***************************************************************************)
(* withIdempotency and withTx.                                             *)
(***************************************************************************)

\* The first statement of a transaction: a receipt locks its order, an opening
\* balance resolves its batches.
FirstStep(f) == IF Kind[f] = "GRN" THEN "order" ELSE "batch"

\* The number is taken, and the document inserted, after the order was checked
\* or the batches resolved.
StepAfterInsert(f) == IF Kind[f] = "GRN" THEN "batch" ELSE "alert"
StepAfterBatches(f) == IF Kind[f] = "GRN" THEN "alert" ELSE "number"

Started(w) == [w EXCEPT !.pc = FirstStep(w.form), !.attempt = @ + 1, !.line = 1, !.number = 0]

\* findExisting, outside of the transaction.
Find(s) ==
    LET w == work[s]
        existing == index[w.form].saved
    IN  /\ w.pc = "find"
        /\ work' = [work EXCEPT ![s] =
              IF existing # 0 THEN [w EXCEPT !.pc = "posted", !.number = existing]
              ELSE Started(w)]
        /\ UNCHANGED <<screen, sent, rows, document>>

\* The winner of two concurrent requests with one key.
FindWinner(s) ==
    LET winner == index[work[s].form].saved
    IN  /\ work[s].pc = "winner"
        /\ work' = [work EXCEPT ![s].pc = IF winner # 0 THEN "posted" ELSE "failed",
                                ![s].number = winner]
        /\ UNCHANGED <<screen, sent, rows, document>>

InTransaction(s) == work[s].pc \in {"order", "number", "insert", "batch", "alert", "commit"}

\* Mutant of Undo: the number is drawn from a database sequence, which no
\* rollback gives back.
UndoAllButNumber(s) ==
    /\ received' = RolledBack(received, s)
    /\ sequence' = Committed(sequence, s)
    /\ index' = RolledBack(index, s)
    /\ batch' = RolledBack(batch, s)
    /\ alert' = RolledBack(alert, s)

\* Mutant of Undo: the connection goes back to the pool without a ROLLBACK.
UndoNothing(s) == UNCHANGED rows

\* Everything the transaction wrote is undone and its rows are unlocked.
Undo(s) ==
    /\ received' = RolledBack(received, s)
    /\ sequence' = RolledBack(sequence, s)
    /\ index' = RolledBack(index, s)
    /\ batch' = RolledBack(batch, s)
    /\ alert' = RolledBack(alert, s)

\* A service throws, and the transaction is rolled back.
Fail(s, pc) ==
    /\ Undo(s)
    /\ Goto(s, pc)
    /\ UNCHANGED <<screen, sent, document>>

\* The transaction takes longer than its timeout.
TimeOut(s) ==
    /\ InTransaction(s)
    /\ Fail(s, "failed")

-----------------------------------------------------------------------------
(***************************************************************************)
(* The transaction, one lock at a time: READ COMMITTED writes wait for the *)
(* transaction that holds the row.                                         *)
(***************************************************************************)

\* Mutant of WithinPending: the receipt is only compared with what was ordered.
WithinOrdered(o, got, quantity) == quantity <= Ordered[o]

\* INVALID_STATE or OVER_RECEIPT otherwise.
WithinPending(o, got, quantity) == got < Ordered[o] /\ got + quantity <= Ordered[o]

\* lockPurchaseOrder, the checks of status and pending quantity, and the lock.
LockOrder(s) ==
    LET w == work[s]
        o == OrderOf[w.form]
        got == View(received[o], s)
    IN  /\ w.pc = "order"
        /\ Free(received[o], s)
        /\ IF WithinPending(o, got, w.input.quantity)
           THEN /\ received' = [received EXCEPT ![o] = Written(@, s, got)]
                /\ Goto(s, "number")
                /\ UNCHANGED <<screen, sent, sequence, index, batch, alert, document>>
           ELSE Fail(s, "failed")

\* nextDocumentNumber: the row of the series stays locked until the end.
TakeNumber(s) ==
    LET k == Kind[work[s].form]
        number == View(sequence[k], s) + 1
    IN  /\ work[s].pc = "number"
        /\ Free(sequence[k], s)
        /\ sequence' = [sequence EXCEPT ![k] = Written(@, s, number)]
        /\ work' = [work EXCEPT ![s].number = number, ![s].pc = "insert"]
        /\ UNCHANGED <<screen, sent, received, index, batch, alert, document>>

\* Mutant of KeyTaken: no unique index on idempotency_key.
NoIndex(f, s) == FALSE

KeyTaken(f, s) == View(index[f], s) # 0

\* The document is inserted, unless its key is in the unique index.
InsertDocument(s) ==
    LET f == work[s].form
    IN  /\ work[s].pc = "insert"
        /\ Free(index[f], s)
        /\ IF KeyTaken(f, s)
           THEN Fail(s, "winner")
           ELSE /\ index' = [index EXCEPT ![f] = Written(@, s, work[s].number)]
                /\ Goto(s, StepAfterInsert(f))
                /\ UNCHANGED <<screen, sent, received, sequence, batch, alert, document>>

\* Mutant of Resolved: the quoted date wins (EXCLUDED first in the COALESCE).
Overwritten(existing, quoted) == IF quoted = NoDate THEN existing ELSE quoted

\* A date missing on the batch is filled in.
Resolved(existing, quoted) == IF existing = NoDate THEN quoted ELSE existing

\* A quoted date conflicts with a different one.
Mismatch(existing, quoted) == quoted # NoDate /\ existing # NoDate /\ existing # quoted

\* The lines are worked through in input order.
Advanced(w, after) ==
    IF w.line < Len(w.input.lines) THEN [w EXCEPT !.line = @ + 1]
    ELSE [w EXCEPT !.line = 1, !.pc = after]

NextLine(s, after) == work' = [work EXCEPT ![s] = Advanced(work[s], after)]

\* resolveBatch.
ResolveBatch(s) ==
    LET w == work[s]
        line == w.input.lines[w.line]
        date == Resolved(View(batch[line.batch], s), line.date)
    IN  /\ w.pc = "batch"
        /\ Free(batch[line.batch], s)
        /\ IF Mismatch(date, line.date)
           THEN Fail(s, "failed")
           ELSE /\ batch' = [batch EXCEPT ![line.batch] = Written(@, s, date)]
                /\ NextLine(s, StepAfterBatches(w.form))
                /\ UNCHANGED <<screen, sent, received, sequence, index, alert, document>>

\* evaluateStockAlerts: the alert rows are written in input order, too.
WriteAlert(s) ==
    LET w == work[s]
        p == PairOf[w.input.lines[w.line].batch]
    IN  /\ w.pc = "alert"
        /\ Free(alert[p], s)
        /\ alert' = [alert EXCEPT ![p] = Written(@, s, TRUE)]
        /\ NextLine(s, "commit")
        /\ UNCHANGED <<screen, sent, received, sequence, index, batch, document>>

\* The order lines are incremented and everything becomes visible at once.
Commit(s) ==
    LET w == work[s]
    IN  /\ w.pc = "commit"
        /\ received' = Committed(
              [o \in Order |-> IF received[o].holder = s
                               THEN [received[o] EXCEPT !.new = @ + w.input.quantity]
                               ELSE received[o]], s)
        /\ sequence' = Committed(sequence, s)
        /\ index' = Committed(index, s)
        /\ batch' = Committed(batch, s)
        /\ alert' = Committed(alert, s)
        /\ document' = Append(document, [form |-> w.form, number |-> w.number, input |-> w.input])
        /\ Goto(s, "posted")
        /\ UNCHANGED <<screen, sent>>

\* The session whose transaction s waits for.
Blocker(s) ==
    LET w == work[s]
        Waits(row) == IF Free(row, s) THEN {} ELSE {row.holder}
    IN  CASE w.pc = "order" -> Waits(received[OrderOf[w.form]])
          [] w.pc = "number" -> Waits(sequence[Kind[w.form]])
          [] w.pc = "insert" -> Waits(index[w.form])
          [] w.pc = "batch" -> Waits(batch[w.input.lines[w.line].batch])
          [] w.pc = "alert" -> Waits(alert[PairOf[w.input.lines[w.line].batch]])
          [] OTHER -> {}

Deadlocked(s) ==
    /\ Blocker(s) # {}
    /\ \E cycle \in SUBSET Session : s \in cycle /\ UNION {Blocker(t) : t \in cycle} = cycle

\* 40P01: PostgreSQL rolls one of them back and withTx runs it again, but not
\* more than MAX_ATTEMPTS times.
Victim(s) ==
    /\ Deadlocked(s)
    /\ Undo(s)
    /\ work' = [work EXCEPT ![s] =
          IF @.attempt < MaxAttempts THEN Started(@) ELSE [@ EXCEPT !.pc = "failed"]]
    /\ UNCHANGED <<screen, sent, document>>

Progress(s) ==
    \/ Admit(s) \/ Find(s) \/ LockOrder(s) \/ TakeNumber(s) \/ InsertDocument(s)
    \/ ResolveBatch(s) \/ WriteAlert(s) \/ Commit(s) \/ FindWinner(s) \/ Victim(s) \/ Answer(s)

Next ==
    \/ \E f \in Form, s \in Session : \E input \in Input[f] : Send(f, s, input)
    \/ \E s \in Session : LoseConnection(s) \/ Refuse(s) \/ TimeOut(s) \/ Progress(s)

Spec == Init /\ [][Next]_vars

\* The server runs what it has begun; connections and timeouts need not happen.
FairSpec == Spec /\ \A s \in Session : WF_vars(Progress(s))

-----------------------------------------------------------------------------
(***************************************************************************)
(* Properties.                                                             *)
(***************************************************************************)

\* "numbers are unique, ordered and gap-free even under concurrency"
\* (documents.service.ts:22): the documents of a series are numbered 1, 2, 3 in
\* the order they were committed, whatever was rolled back in between.
NumbersFollowCommits ==
    \A n \in DOMAIN document :
        document[n].number =
            Cardinality({m \in 1..n : Kind[document[m].form] = Kind[document[n].form]})

\* "dates already recorded are immutable" (batch.service.ts:19): a date that a
\* committed document quoted is the date of its batch, in whatever order
\* receipts and opening balances reach it.
QuotedDatesStand ==
    \A n \in DOMAIN document : \A l \in DOMAIN document[n].input.lines :
        LET line == document[n].input.lines[l]
        IN  line.date # NoDate => batch[line.batch].saved = line.date

\* The order's counter is what its committed receipts add up to and never more
\* than was ordered, with receipts, repeated requests and retries interleaved
\* lock by lock: what lets Purchasing take one transaction as one step.
OrderFollowsReceipts ==
    \A o \in Order :
        LET receipts == {n \in DOMAIN document :
                            Kind[document[n].form] = "GRN" /\ OrderOf[document[n].form] = o}
        IN  /\ received[o].saved =
                  SumFunctionOnSet([n \in DOMAIN document |-> document[n].input.quantity], receipts)
            /\ received[o].saved <= Ordered[o]

\* "a repeated submission (double click, network retry) returns the document
\* that was already created instead of posting stock twice"
\* (documents.service.ts:40): however often a form is sent and its answers are
\* lost, it posts one document, and a confirmation names a committed one.
Once == INSTANCE ExactlyOnce WITH
    posted <- [n \in DOMAIN document |-> document[n].form],
    confirmed <- {f \in Form : screen[f] = "POSTED"}
ImplementsExactlyOnce == Once!Spec

\* "the rare deadlock ... is retried transparently" (transaction.ts:14): every
\* request is answered, also when two documents name the same batches in
\* opposite order, or bring stock into the same two pairs.
EveryRequestIsAnswered ==
    \A s \in Session : work[s].pc # "idle" ~> work[s].pc = "idle"
==============================================================================
