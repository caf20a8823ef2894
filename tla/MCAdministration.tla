--------------------------- MODULE MCAdministration --------------------------
EXTENDS Administration, TLC

CONSTANTS ann, bob, eve, tok1, tok2, web1, web2, sku1, sku2, uom1, uom2, gdn1, sup1, cus1, cat1,
          nm1, noname, noone, notok

MCUser == {ann, bob, eve}
MCToken == {tok1, tok2}
MCClient == {web1, web2}
MCSku == {sku1, sku2}
MCUom == {uom1, uom2}
MCUnit == {<<sku1, uom1>>}
MCGodown == {gdn1}
MCSupplier == {sup1}
MCCustomer == {cus1}
MCCategory == {cat1}
MCSeeded == {ann, bob, sku1, uom1}
MCName == {nm1}
Symmetries == Permutations(MCToken) \cup Permutations(MCClient)
              \cup Permutations({ann, bob})
==============================================================================
