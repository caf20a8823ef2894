----------------------------- MODULE MCPurchasing ----------------------------
EXTENDS PurchasingPages, TLC

CONSTANTS i1, i2, b1, b2, b3, n1, n2, g1, g2, g3, r1, r2

MCItem == {i1, i2}
MCBatch == {b1, b2, b3}
MCNumber == {n1, n2}
MCGrn == {g1, g2, g3}
MCReturn == {r1, r2}
DocumentSymmetry == Permutations(MCGrn) \cup Permutations(MCReturn)

\* The SKU of i2 is not batch-tracked.
MCBatchFor == [k \in MCItem \X MCNumber |->
    IF k[1] = i2 THEN b3 ELSE IF k[2] = n1 THEN b1 ELSE b2]

MCOrderInput == {[i \in MCItem |-> IF i = i1 THEN n ELSE 1] : n \in 1..2}

Line(i, number, got, n) == [item |-> i, number |-> number, got |-> got, accepted |-> n]

\* One item in two batches, all of one line with a rejected one, two items, and
\* two numbers of one batch, which fit no order together; a receipt that is
\* rejected altogether; one that accepts more than came, and a number named twice.
MCGrnInput == {
    <<Line(i1, n1, 1, 1), Line(i1, n2, 1, 1)>>,
    <<Line(i1, n1, 2, 2), Line(i2, n1, 1, 0)>>,
    <<Line(i2, n1, 1, 1), Line(i1, n1, 1, 1)>>,
    <<Line(i2, n1, 1, 0)>>,
    <<Line(i2, n1, 1, 1), Line(i2, n2, 1, 1)>>,
    <<Line(i1, n1, 1, 2)>>,
    <<Line(i1, n1, 1, 1), Line(i1, n1, 1, 1)>>}

Taken(n, away) == [line |-> n, away |-> away, quantity |-> 1]

\* Two units of a line go back in two returns from another godown, or two lines in
\* one from where they are; the last names a line twice.
MCReturnInput == {<<Taken(1, TRUE)>>, <<Taken(1, FALSE), Taken(2, FALSE)>>,
                  <<Taken(1, FALSE), Taken(1, FALSE)>>}
==============================================================================
