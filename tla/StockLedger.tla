------------------------------ MODULE StockLedger ----------------------------
(***************************************************************************)
(* What the inventory engine promises its callers, whatever runs at the    *)
(* same time: stock changes only when a whole document, or the reversal of *)
(* an entry (of both legs for a transfer), is appended to the history of   *)
(* the stock keys it moves; stock never goes below zero; an entry is       *)
(* reversed at most once and a reversal never.                             *)
(***************************************************************************)
EXTENDS Integers, Sequences, FiniteSetsExt

CONSTANTS Key, Doc, Lines

VARIABLES
    history,    \* the movements of each stock key so far
    onHand      \* the stock of each key

vars == <<history, onHand>>

Init ==
    /\ history = [k \in Key |-> <<>>]
    /\ onHand = [k \in Key |-> 0]

Posted(d) == \E k \in Key : \E i \in DOMAIN history[k] : history[k][i].ref = d

\* The lines of d that move key k, in input order.
LinesOf(d, k) == {i \in DOMAIN Lines[d] : Lines[d][i].key = k}

Nth(S, n) == CHOOSE i \in S : Cardinality({j \in S : j <= i}) = n

LinesAt(d, k) ==
    [n \in 1..Cardinality(LinesOf(d, k)) |->
        LET i == Nth(LinesOf(d, k), n)
        IN  [type |-> Lines[d][i].type, quantity |-> Lines[d][i].quantity,
             ref |-> d, line |-> i, reverses |-> 0]]

NetOf(movements) ==
    SumFunctionOnSet([i \in DOMAIN movements |-> movements[i].quantity], DOMAIN movements)

\* Appends movements[k] to every key at once; what is on hand is what the
\* movements of a key add up to.
AppendAll(movements) ==
    /\ history' = [k \in Key |-> history[k] \o movements[k]]
    /\ onHand' = [k \in Key |-> NetOf(history'[k])]
    /\ \A k \in Key : onHand'[k] >= 0

Post(d) ==
    /\ ~Posted(d)
    /\ AppendAll([k \in Key |-> LinesAt(d, k)])

EntryId == UNION {{k} \X DOMAIN history[k] : k \in Key}
At(id) == history[id[1]][id[2]]

Mirror(id) == [type |-> "REVERSAL", quantity |-> -At(id).quantity,
               ref |-> At(id).ref, line |-> At(id).line, reverses |-> id[2]]

Reversible(id) ==
    /\ At(id).type # "REVERSAL"
    /\ \A j \in DOMAIN history[id[1]] : history[id[1]][j].reverses # id[2]

\* The other leg of a transfer is reversed with the one asked for.
Legs(out, in) ==
    /\ At(out).type = "TRANSFER_OUT" /\ At(in).type = "TRANSFER_IN"
    /\ At(in).ref = At(out).ref
    /\ At(in).line = At(out).line + 1

SameTransfer(a, b) == Legs(a, b) \/ Legs(b, a)

ReversedTogether(id) == {id} \cup {other \in EntryId : SameTransfer(id, other)}

Reverse(id) ==
    LET ids == ReversedTogether(id) IN
    /\ \A x \in ids : Reversible(x)
    /\ AppendAll([k \in Key |->
          IF \E x \in ids : x[1] = k
          THEN <<Mirror(CHOOSE x \in ids : x[1] = k)>> ELSE <<>>])

Next ==
    /\ history' # history
    /\ \/ \E d \in Doc : Post(d)
       \/ \E id \in EntryId : Reverse(id)

Spec == Init /\ [][Next]_vars
==============================================================================
