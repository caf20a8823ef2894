--------------------------------- MODULE Forms ---------------------------------
(***************************************************************************)
(* The screens documents are entered on, as React runs them: a dispatch,   *)
(* transfer or adjustment with lines that choose a batch of the form's     *)
(* godown, from options loaded per line; a purchase order or invoice with  *)
(* lines that choose a unit of their SKU; an opening balance; and the      *)
(* receipt and return forms, with one row per line of another document.    *)
(*                                                                         *)
(* An answer to a load or to a first-expired-first-out pick arrives any    *)
(* number of clicks after it was asked for.  Text is abstracted to what is *)
(* empty and what is not.                                                  *)
(***************************************************************************)
EXTENDS Integers, Sequences, SequencesExt

CONSTANTS
    Sku, Godown, Invoice, Choice,
    None,           \* nothing selected, nothing typed, nothing loaded
    Available,      \* the batches of an SKU in a godown, as the server lists them
    Units,          \* the alternate units of an SKU
    OnInvoice,      \* the SKUs with a quantity remaining on an invoice
    Text,           \* what can be typed as a quantity
    Shown,          \* the lines that a receipt or return form shows
    MaxLines,       \* bound: lines of a form
    MaxKeys         \* bound: lines ever added to it

Batched == {"DISPATCH", "TRANSFER", "ADJUSTMENT"}
Priced == {"ORDER", "INVOICE"}
Lined == Batched \cup Priced \cup {"OPENING"}
Kind == Lined \cup {"RECEIPT", "RETURN"}

ASSUME FormsAssumption ==
    /\ None \notin Sku \cup Godown \cup Invoice \cup Choice \cup Text
    /\ Available \in [Sku \X Godown -> Seq(Choice)]
    /\ Units \in [Sku -> SUBSET Choice]
    /\ OnInvoice \in [Invoice -> SUBSET Sku]
    /\ MaxLines \in Nat \ {0} /\ MaxKeys \in Nat \ {0}

VARIABLES
    kind,       \* which form it is
    phase,      \* whether it is being edited, was sent, or has given way to its document
    godown,     \* the godown stock is taken from
    invoice,    \* the invoice a dispatch is against
    lines,      \* the rows of a form with lines
    keys,       \* how many keys were given out
    result,     \* what the batch selection of each row last loaded
    loading,    \* the rows and SKU|godown keys whose load is on its way
    pick,       \* the pick that is on its way, with the lines and godown it was asked for
    overtaken,  \* the answer of a pick replaced lines or a godown changed since it was asked for
    input,      \* what a receipt or return form holds for each line shown
    touched     \* the lines of a receipt whose accepted quantity the user has changed

edited == <<godown, invoice, lines, keys, result, loading, pick, overtaken, input, touched>>
vars == <<kind, phase, edited>>

Key == 1..MaxKeys
Line == [key : Key, sku : Sku \cup {None}, choice : Choice \cup {None},
         decrease : BOOLEAN]
Pair == Sku \X Godown
Input == [received : Text \cup {None}, accepted : Text \cup {None}]

Fresh(key) == [key |-> key, sku |-> None, choice |-> None, decrease |-> TRUE]
Blank == [received |-> None, accepted |-> None]
NoPick == [key |-> 0, sku |-> None, godown |-> None, lines |-> <<>>]

TypeOK ==
    /\ kind \in Kind
    /\ phase \in {"EDITING", "PENDING", "DONE"}
    /\ godown \in Godown
    /\ invoice \in Invoice \cup {None}
    /\ lines \in Seq(Line) /\ Len(lines) \in 1..MaxLines
    /\ keys \in Key
    /\ result \in [Key -> Pair \cup {None}]
    /\ loading \subseteq Key \X Pair
    /\ pick.key \in 0..MaxKeys /\ pick.lines \in Seq(Line)
    /\ overtaken \in BOOLEAN
    /\ input \in [Shown -> Input]
    /\ touched \subseteq Shown

Init ==
    /\ kind \in Kind
    /\ phase = "EDITING"
    /\ godown \in Godown
    /\ invoice \in IF kind = "DISPATCH" THEN Invoice \cup {None} ELSE {None}
    /\ lines = <<Fresh(1)>>
    /\ keys = 1
    /\ result = [key \in Key |-> None]
    /\ loading = {}
    /\ pick = NoPick
    /\ overtaken = FALSE
    /\ input = [l \in Shown |-> Blank]
    /\ touched = {}

-----------------------------------------------------------------------------
(***************************************************************************)
(* The batch selection of a row.                                           *)
(***************************************************************************)

\* Its key: the row's SKU and the form's godown; rows that add stock have none.
Asks(line, g) ==
    IF kind \in Batched /\ line.decrease /\ line.sku # None THEN {<<line.sku, g>>} ELSE {}

Wanted(rows, g) == UNION {{rows[n].key} \X Asks(rows[n], g) : n \in DOMAIN rows}

\* The effect runs when the key of a row changes: the load under way is no longer
\* active, and the one for the new key starts.
Show(rows, g) ==
    /\ lines' = rows
    /\ result' = [key \in Key |-> IF \E n \in DOMAIN rows : rows[n].key = key /\ rows[n].decrease
                                  THEN result[key] ELSE None]
    /\ loading' = (loading \cap Wanted(rows, g)) \cup (Wanted(rows, g) \ Wanted(lines, godown))

\* The options offered: those that were loaded for the row's own key.
Current(line) ==
    IF result[line.key] # None /\ result[line.key] \in Asks(line, godown)
    THEN Available[result[line.key]] ELSE <<>>

Loaded(key, pair) ==
    /\ <<key, pair>> \in loading
    /\ result' = [result EXCEPT ![key] = pair]
    /\ loading' = loading \ {<<key, pair>>}
    /\ UNCHANGED <<kind, phase, godown, invoice, lines, keys, pick, overtaken, input, touched>>

\* The answer is an error: no options, until the key changes.
LoadFailed(key, pair) ==
    /\ <<key, pair>> \in loading
    /\ result' = [result EXCEPT ![key] = None]
    /\ loading' = loading \ {<<key, pair>>}
    /\ UNCHANGED <<kind, phase, godown, invoice, lines, keys, pick, overtaken, input, touched>>

-----------------------------------------------------------------------------
(***************************************************************************)
(* Editing rows.                                                           *)
(***************************************************************************)

Editing == phase # "DONE" /\ kind \in Lined

\* update, updateLine: setLines with a changed row.
Update(n, line) ==
    /\ Show([lines EXCEPT ![n] = line], godown)
    /\ UNCHANGED <<kind, phase, godown, invoice, keys, pick, overtaken, input, touched>>

\* Once an invoice is chosen, only its SKUs are offered.
Selectable == IF invoice = None THEN Sku ELSE OnInvoice[invoice]

\* Another SKU: its batches and units are not those of the last one.
WithSku(line, sku) == [line EXCEPT !.sku = sku, !.choice = None]

SelectSku(n, sku) ==
    /\ Editing /\ sku \in Selectable \cup {None} /\ sku # lines[n].sku
    /\ Update(n, WithSku(lines[n], sku))

\* The batch of a row, from the options it shows.
SelectBatch(n, choice) ==
    /\ Editing /\ kind \in Batched
    /\ choice \in ToSet(Current(lines[n])) \cup {None}
    /\ Update(n, [lines[n] EXCEPT !.choice = choice])

\* The unit of a row.
SelectUnit(n, choice) ==
    /\ Editing /\ kind \in Priced
    /\ lines[n].sku # None
    /\ choice \in Units[lines[n].sku] \cup {None}
    /\ Update(n, [lines[n] EXCEPT !.choice = choice])

\* Reduce or Increase: the batch of an increase is typed, not selected.
SelectDirection(n) ==
    /\ Editing /\ kind = "ADJUSTMENT"
    /\ Update(n, [lines[n] EXCEPT !.decrease = ~@, !.choice = None])

AddLine ==
    /\ Editing /\ Len(lines) < MaxLines /\ keys < MaxKeys
    /\ keys' = keys + 1
    /\ Show(Append(lines, Fresh(keys + 1)), godown)
    /\ UNCHANGED <<kind, phase, godown, invoice, pick, overtaken, input, touched>>

RemoveLine(n) ==
    /\ Editing /\ Len(lines) > 1
    /\ Show(RemoveAt(lines, n), godown)
    /\ UNCHANGED <<kind, phase, godown, invoice, keys, pick, overtaken, input, touched>>

-----------------------------------------------------------------------------
(***************************************************************************)
(* The header.                                                             *)
(***************************************************************************)

\* Mutant of Cleared: changing the godown leaves the rows alone.
NotCleared(rows) == rows

Cleared(rows) == [n \in DOMAIN rows |-> [rows[n] EXCEPT !.choice = None]]

\* changeGodown, changeSource.
SelectGodown(g) ==
    /\ Editing /\ kind \notin Priced /\ g # godown
    /\ godown' = g
    /\ Show(IF kind \in Batched THEN Cleared(lines) ELSE lines, g)
    /\ UNCHANGED <<kind, phase, invoice, keys, pick, overtaken, input, touched>>

OnIt(i, line) == line.sku # None /\ line.sku \in OnInvoice[i]

Kept(i) ==
    LET kept[n \in 0..Len(lines)] ==
            IF n = 0 THEN <<>>
            ELSE IF OnIt(i, lines[n]) THEN Append(kept[n - 1], lines[n]) ELSE kept[n - 1]
    IN  kept[Len(lines)]

\* changeInvoice: rows of other SKUs go, and if none is left an empty one comes.
SelectInvoice(i) ==
    /\ Editing /\ kind = "DISPATCH" /\ i # invoice
    /\ invoice' = i
    /\ LET kept == IF i = None THEN lines ELSE Kept(i)
       IN  IF kept # <<>> THEN Show(kept, godown) /\ UNCHANGED keys
           ELSE /\ keys < MaxKeys
                /\ keys' = keys + 1
                /\ Show(<<Fresh(keys + 1)>>, godown)
    /\ UNCHANGED <<kind, phase, godown, pick, overtaken, input, touched>>

-----------------------------------------------------------------------------
(***************************************************************************)
(* The first-expired-first-out pick.  Bound: one at a time.                *)
(***************************************************************************)

\* The button is there for a row with an SKU and a quantity but no batch.  The
\* quantities typed are left out: this is all they change.
AskPick(n) ==
    LET line == lines[n]
    IN  /\ Editing /\ kind \in {"DISPATCH", "TRANSFER"} /\ pick = NoPick
        /\ line.sku # None /\ line.choice = None
        /\ pick' = [key |-> line.key, sku |-> line.sku, godown |-> godown, lines |-> lines]
        /\ UNCHANGED <<kind, phase, godown, invoice, lines, keys, result, loading, overtaken,
                       input, touched>>

\* One row for each batch it takes from, in place of the row it was asked for.
Picked(first) ==
    LET from == Available[<<pick.sku, pick.godown>>]
        row(m) == [key |-> IF m = 1 THEN pick.key ELSE first + m - 2, sku |-> pick.sku,
                   choice |-> from[m], decrease |-> TRUE]
    IN  {[m \in 1..last |-> row(m)] : last \in 1..Len(from)}

\* The rows it was asked for replace the rows that are there now.
PickAnswered(picked) ==
    LET rows == FlattenSeq([n \in DOMAIN pick.lines |->
                    IF pick.lines[n].key = pick.key THEN picked ELSE <<pick.lines[n]>>])
    IN  /\ pick # NoPick /\ phase # "DONE"
        /\ picked \in Picked(keys + 1)
        /\ Len(rows) <= MaxLines /\ keys + Len(picked) - 1 <= MaxKeys
        /\ Show(rows, godown)
        /\ keys' = keys + Len(picked) - 1
        /\ overtaken' = (overtaken \/ lines # pick.lines \/ godown # pick.godown)
        /\ pick' = NoPick
        /\ UNCHANGED <<kind, phase, godown, invoice, input, touched>>

\* No unexpired stock, or an error: a message, and the rows stay.
PickFailed ==
    /\ pick # NoPick
    /\ pick' = NoPick
    /\ UNCHANGED <<kind, phase, godown, invoice, lines, keys, result, loading, overtaken,
                   input, touched>>

-----------------------------------------------------------------------------
(***************************************************************************)
(* Receipts and returns.                                                   *)
(***************************************************************************)

\* Mutant of Follows: accepted follows received only while it is empty.
FollowsWhileEmpty(previous) == previous.accepted = None

\* Accepted follows received as long as they are the same.
Follows(previous) == previous.accepted = previous.received

TypeReceived(l, text) ==
    /\ phase # "DONE" /\ kind \in {"RECEIPT", "RETURN"}
    /\ input' = [input EXCEPT ![l] =
          [received |-> text,
           accepted |-> IF kind = "RECEIPT" /\ Follows(@) THEN text ELSE @.accepted]]
    /\ UNCHANGED <<kind, phase, godown, invoice, lines, keys, result, loading, pick, overtaken, touched>>

TypeAccepted(l, text) ==
    /\ phase # "DONE" /\ kind = "RECEIPT"
    /\ input' = [input EXCEPT ![l].accepted = text]
    /\ touched' = touched \cup {l}
    /\ UNCHANGED <<kind, phase, godown, invoice, lines, keys, result, loading, pick, overtaken>>

\* Only the lines with a quantity are sent.
Submitted == {l \in Shown : input[l].received # None}

-----------------------------------------------------------------------------
(***************************************************************************)
(* Sending.                                                                *)
(***************************************************************************)

\* onSubmit of each form: useApiMutation sends what the form holds, once at a time;
\* rows that lack something are left for the server to refuse.
Submit(form) ==
    /\ kind = form /\ phase = "EDITING"
    /\ phase' = "PENDING"
    /\ UNCHANGED <<kind, edited>>

SubmitDispatch == Submit("DISPATCH")
SubmitTransfer == Submit("TRANSFER")
SubmitAdjustment == Submit("ADJUSTMENT")
SubmitOrder == Submit("ORDER")
SubmitInvoice == Submit("INVOICE")
SubmitOpening == Submit("OPENING")

\* A receipt or return without a quantity is not sent.
SubmitReceipt == Submitted # {} /\ Submit("RECEIPT")
SubmitReturn == Submitted # {} /\ Submit("RETURN")

\* Errors: the form stays as it is.
Rejected ==
    /\ phase = "PENDING"
    /\ phase' = "EDITING"
    /\ UNCHANGED <<kind, edited>>

\* The page of the new document takes the place of the form, and its state is gone.
Gone ==
    /\ phase = "PENDING"
    /\ phase' = "DONE"
    /\ invoice' = None /\ lines' = <<Fresh(1)>> /\ keys' = 1
    /\ result' = [key \in Key |-> None] /\ loading' = {}
    /\ pick' = NoPick /\ overtaken' = FALSE
    /\ input' = [l \in Shown |-> Blank] /\ touched' = {}
    /\ UNCHANGED <<kind, godown>>

Posted == kind # "RECEIPT" /\ Gone

\* Or the sign-in page, when the session has ended.
SignedOut == Gone

\* A receipt form starts anew while anything is pending on its order.
ReceiptPosted ==
    /\ phase = "PENDING" /\ kind = "RECEIPT"
    /\ phase' \in {"EDITING", "DONE"}
    /\ input' = [l \in Shown |-> Blank]
    /\ touched' = {}
    /\ UNCHANGED <<kind, godown, invoice, lines, keys, result, loading, pick, overtaken>>

-----------------------------------------------------------------------------
(***************************************************************************)
(* What a row of each editor lets its user do.                             *)
(***************************************************************************)

BatchLine(n) ==
    /\ kind \in {"DISPATCH", "TRANSFER"}
    /\ \/ \E sku \in Sku \cup {None} : SelectSku(n, sku)
       \/ \E choice \in Choice \cup {None} : SelectBatch(n, choice)
       \/ AskPick(n) \/ RemoveLine(n)

\* A batch number typed for an increase is no selection.
AdjustmentLine(n) ==
    /\ kind = "ADJUSTMENT"
    /\ \/ \E sku \in Sku \cup {None} : SelectSku(n, sku)
       \/ \E choice \in Choice \cup {None} : SelectBatch(n, choice)
       \/ SelectDirection(n) \/ RemoveLine(n)

PricedLine(n) ==
    /\ kind \in Priced
    /\ \/ \E sku \in Sku \cup {None} : SelectSku(n, sku)
       \/ \E choice \in Choice \cup {None} : SelectUnit(n, choice)
       \/ RemoveLine(n)

OpeningLine(n) ==
    /\ kind = "OPENING"
    /\ (\E sku \in Sku \cup {None} : SelectSku(n, sku)) \/ RemoveLine(n)

ReceiptLine(l) ==
    /\ kind = "RECEIPT"
    /\ \E text \in Text \cup {None} : TypeReceived(l, text) \/ TypeAccepted(l, text)

\* The lines with nothing to return take no quantity: they are not in Shown.
ReturnLine(l) ==
    /\ kind = "RETURN"
    /\ \E text \in Text \cup {None} : TypeReceived(l, text)

Next ==
    \/ \E key \in Key, pair \in Pair : Loaded(key, pair) \/ LoadFailed(key, pair)
    \/ \E n \in DOMAIN lines : BatchLine(n) \/ AdjustmentLine(n) \/ PricedLine(n) \/ OpeningLine(n)
    \/ AddLine
    \/ \E g \in Godown : SelectGodown(g)
    \/ \E i \in Invoice \cup {None} : SelectInvoice(i)
    \/ (pick # NoPick /\ \E picked \in Picked(keys + 1) : PickAnswered(picked))
    \/ PickFailed
    \/ \E l \in Shown : ReceiptLine(l) \/ ReturnLine(l)
    \/ SubmitDispatch \/ SubmitTransfer \/ SubmitAdjustment \/ SubmitOrder \/ SubmitInvoice
    \/ SubmitOpening \/ SubmitReceipt \/ SubmitReturn
    \/ Rejected \/ Posted \/ SignedOut \/ ReceiptPosted

Spec == Init /\ [][Next]_vars

-----------------------------------------------------------------------------
(***************************************************************************)
(* Properties.                                                             *)
(***************************************************************************)

\* "Batches are godown-specific, so selections no longer apply" (dispatch-form.tsx:71):
\* whatever order rows, SKUs, godowns and loads change in, a row offers and holds
\* only batches that its SKU has in the form's godown, or units of its SKU, and
\* SKUs of the invoice, unless a pick was overtaken by other edits.
ChoicesBelong ==
    \A n \in DOMAIN lines :
        LET line == lines[n]
        IN  /\ kind \in Batched => \A pair \in Asks(line, godown) :
                  /\ ToSet(Current(line)) \subseteq ToSet(Available[pair])
                  /\ ~overtaken /\ line.choice # None => line.choice \in ToSet(Available[pair])
            /\ kind \in Priced /\ line.choice # None => line.choice \in Units[line.sku]
            /\ ~overtaken /\ invoice # None /\ line.sku # None => line.sku \in OnInvoice[invoice]

\* "Accepted follows received until the user changes it explicitly"
\* (receive-goods-form.tsx:70): every line whose accepted quantity was left alone
\* accepts what is received, through any corrections of it.
AcceptedFollows == \A l \in Shown \ touched : kind = "RECEIPT" => input[l].accepted = input[l].received
==============================================================================
