----------------------------- MODULE MCWarehouse -----------------------------
EXTENDS WarehousePages, TLC

CONSTANTS sku1, gd1, gd2, us1, us2, none, open1, open2, trf, adj

MCSku == {sku1}
MCGodown == {gd1, gd2}
MCUser == {us1, us2}
UserSymmetry == Permutations(MCUser)
MCBatch == {1, 2}
MCNoBatch == -1
MCDoc == {open1, open2, trf, adj}
MCKind == [d \in MCDoc |->
    CASE d \in {open1, open2} -> "OPENING" [] d = trf -> "TRANSFER" [] d = adj -> "ADJUSTMENT"]

\* Batch 2 expires first, on day 1; batch 1 on day 2.
MCExpiry == [b \in 0..2 |-> CASE b = 0 -> 9 [] b = 1 -> 2 [] b = 2 -> 1]

In(s, b, from, to, n) == [sku |-> s, batch |-> b, from |-> from, to |-> to, quantity |-> n]

\* With batches, goods come into the first godown and are moved from there; without
\* (batch 0 then), two openings come into both godowns, by an import or one by one.
MCInput == [d \in MCDoc |->
    CASE d = open1 -> {<<In(sku1, 1, gd1, gd1, 2)>>, <<In(sku1, -1, gd1, gd1, 1)>>}
      [] d = open2 -> {<<In(sku1, -1, gd2, gd2, 1)>>}
      [] d = trf -> {<<In(sku1, 1, gd1, gd2, 1), In(sku1, 2, gd1, gd2, 1)>>,
                      <<In(sku1, 0, gd1, gd2, 1)>>, <<In(sku1, 1, gd1, gd1, 1)>>}
      [] d = adj -> {<<In(sku1, 1, gd1, gd1, -1), In(sku1, 2, gd1, gd1, 1)>>, <<In(sku1, -1, gd2, gd2, -1)>>,
                      <<In(sku1, 1, gd1, gd1, 1), In(sku1, 1, gd1, gd1, 1)>>}]

\* Goods leave a godown that is synced for one that is not, and come back when the
\* transfer is reversed.
MCSynced == {gd1}

\* Six hours before and at the first midnight in India, and 24 hours later: the first
\* two are in different days though less than 24 hours apart, the last two are days
\* that follow each other, the first and the last have a whole day between them.
MCMoment == {3, 4, 8}

MCTogether == {{open1, open2}}
Row(status, tracked) == [status |-> status, tracked |-> tracked]
MCSkuEdit == {<<sku1, Row("ARCHIVED", TRUE)>>, <<sku1, Row("INACTIVE", FALSE)>>}
MCGodownEdit == {<<gd2, FALSE>>}
==============================================================================
