------------------------------ MODULE Documents ------------------------------
(***************************************************************************)
(* What the posted documents have in common: documents.service.ts, and the  *)
(* sums the services take over the lines of an input.                      *)
(***************************************************************************)
EXTENDS Integers, Sequences, FiniteSetsExt

DocStatus == {"ABSENT", "POSTED", "PARTIALLY_REVERSED", "REVERSED"}

NotPosted == [status |-> "ABSENT", lines |-> <<>>]

\* Mutant of Derived: a document is only REVERSED when nothing else is left of it.
DerivedOneShort(total, reversed) ==
    IF reversed <= 0 THEN "POSTED"
    ELSE IF reversed > total THEN "REVERSED" ELSE "PARTIALLY_REVERSED"

\* derivePostedDocStatus
Derived(total, reversed) ==
    IF reversed <= 0 THEN "POSTED"
    ELSE IF reversed >= total THEN "REVERSED" ELSE "PARTIALLY_REVERSED"

\* The lines whose ledger entry has been reversed.
ReversedLines(lines) == {n \in DOMAIN lines : lines[n].reversed}

\* returned_qty of a line is incremented, or decremented again.
ReturnedMore(line, quantity) == [line EXCEPT !.returned = @ + quantity]

\* noDuplicateLines: no two lines of an input have the same key.
NoDuplicateLines(keys) == \A i, j \in DOMAIN keys : i # j => keys[i] # keys[j]

\* The sum of Quantity(n) over the lines n of a document that satisfy Test(n).
SumLines(lines, Test(_), Quantity(_)) ==
    SumFunctionOnSet([n \in DOMAIN lines |-> Quantity(n)], {n \in DOMAIN lines : Test(n)})
==============================================================================
