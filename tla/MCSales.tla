------------------------------- MODULE MCSales -------------------------------
EXTENDS SalesPages, TLC

CONSTANTS s1, s2, b1, b2, b3, g1, g2, d1, d2, d3, r1, r2

MCSku == {s1, s2}
MCBatch == {b1, b2, b3}
MCGodown == {g1, g2}
MCDispatch == {d1, d2, d3}
MCReturn == {r1, r2}
DocumentSymmetry == Permutations(MCDispatch) \cup Permutations(MCReturn)

MCSkuOf == [b \in MCBatch |-> IF b = b3 THEN s2 ELSE s1]

\* Three units of s1 in two batches, one of s2.
MCInitialStock == [k \in MCGodown \X MCBatch |->
    IF k[1] = g2 THEN 0 ELSE IF k[2] = b1 THEN 2 ELSE 1]

\* Both SKUs, or only one of them.
MCInvoiceInput == {[s \in MCSku |-> IF s = s1 THEN 2 ELSE n] : n \in 0..1}

Sent(s, b, n) == [sku |-> s, batch |-> b, quantity |-> n]
From(g, linked, lines) == [godown |-> g, linked |-> linked, lines |-> lines]

\* One SKU from two batches, two SKUs, from either godown, and without an invoice;
\* one that names a batch twice, and one that names a batch of another SKU.
MCDispatchInput == {
    From(g1, TRUE, <<Sent(s1, b1, 1), Sent(s1, b2, 1)>>),
    From(g1, TRUE, <<Sent(s1, b1, 2), Sent(s2, b3, 1)>>),
    From(g2, TRUE, <<Sent(s1, b1, 1)>>),
    From(g1, FALSE, <<Sent(s1, b2, 1)>>),
    From(g1, TRUE, <<Sent(s1, b1, 1), Sent(s1, b1, 1)>>),
    From(g1, FALSE, <<Sent(s1, b3, 1)>>)}

Back(n) == [line |-> n, quantity |-> 1]

MCReturnInput == {[godown |-> g1, lines |-> <<Back(1), Back(2)>>],
                  [godown |-> g1, lines |-> <<Back(2)>>],
                  [godown |-> g1, lines |-> <<Back(1), Back(1)>>],
                  [godown |-> g2, lines |-> <<Back(1)>>]}
==============================================================================
