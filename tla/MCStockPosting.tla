---------------------------- MODULE MCStockPosting ---------------------------
EXTENDS StockPosting, TLC

CONSTANTS s1, s2, none, p, q, grn, opening, transfer, back, file

MCSession == {s1, s2}
SessionSymmetry == Permutations(MCSession)

\* Keys 1 and 2 are two batches of one SKU in one godown, key 3 the only batch
\* of another pair.
MCKey == 1..3
MCPair == {p, q}
MCPairOf == [k \in MCKey |-> IF k = 3 THEN q ELSE p]

Move(k, t, n) == [key |-> k, type |-> t, quantity |-> n]

MCDoc == {file, transfer, back}
MCLines == [d \in MCDoc |->
    CASE d = file -> <<Move(3, "OPENING", 1), Move(2, "OPENING", 1), Move(1, "OPENING", 1)>>
      [] d = transfer -> <<Move(1, "TRANSFER_OUT", -1), Move(3, "TRANSFER_IN", 1)>>
      [] d = back -> <<Move(3, "TRANSFER_OUT", -1), Move(1, "TRANSFER_IN", 1)>>]

\* The file lists the godown of pair q before the godown of pair p.
MCCall == [d \in MCDoc |-> IF d = file THEN <<1, 2, 2>> ELSE [i \in DOMAIN MCLines[d] |-> 1]]

\* For the alert run: a receipt and an opening balance, numbered from different
\* series, each into its own batch of the same pair.
TwoBatchDoc == {grn, opening}
TwoBatchLines == [d \in TwoBatchDoc |->
    IF d = grn THEN <<Move(1, "INWARD", 2)>> ELSE <<Move(2, "OPENING", 2)>>]
TwoBatchCall == [d \in TwoBatchDoc |-> <<1>>]

MCInitialLevel == [x \in MCPair |-> IF x = p THEN 2 ELSE 1]
NoRuleChange == {}
MCRuleChange == {<<p, 2>>, <<p, NoRule>>}
==============================================================================
