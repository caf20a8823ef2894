------------------------------ MODULE MCRequests -----------------------------
EXTENDS Requests

CONSTANTS s1, s2, none, f1, f2, f3, b1, b2, b3, b4, px, qx, d1, d2, nodate, po

MCSession == {s1, s2}
MCForm == {f1, f2, f3}
MCKind == [f \in MCForm |-> IF f = f3 THEN "OPENING" ELSE "GRN"]
MCOrder == {po}
MCOrderOf == [f \in {f1, f2} |-> po]
MCOrdered == [o \in MCOrder |-> 4]
MCMaxSent == [f \in MCForm |-> IF f = f1 THEN 2 ELSE 1]
MCBatch == {b1, b2, b3, b4}
MCPair == {px, qx}
MCPairOf == [b \in MCBatch |-> IF b \in {b2, b4} THEN qx ELSE px]
MCDate == {d1, d2}

In(b, d) == [batch |-> b, date |-> d]
Holds(quantity, lines) == [quantity |-> quantity, lines |-> lines]

\* The opening balance names the batches of the first receipt in the opposite
\* order and with another date, or other batches of the same pairs.
MCInput == [f \in MCForm |->
    CASE f = f1 -> {Holds(2, <<In(b1, d1), In(b2, nodate)>>)}
      [] f = f2 -> {Holds(3, <<In(b2, d2), In(b3, nodate)>>)}
      [] f = f3 -> {Holds(1, <<In(b2, nodate), In(b1, d2)>>), Holds(1, <<In(b4, d1), In(b3, d1)>>)}]
==============================================================================
