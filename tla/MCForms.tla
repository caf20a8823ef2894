------------------------------- MODULE MCForms ------------------------------
EXTENDS Screens

CONSTANTS
    sku1, sku2, gd1, gd2, inv1, ba1, ba2, ba3, none, one, row1, row2,
    old, new, blank, noDialog

MCSku == {sku1, sku2}
MCGodown == {gd1, gd2}
MCInvoice == {inv1}
MCChoice == {ba1, ba2, ba3}
MCAvailable == [pair \in MCSku \X MCGodown |->
    CASE pair = <<sku1, gd1>> -> <<ba1, ba2>> [] pair = <<sku1, gd2>> -> <<ba2>>
      [] pair = <<sku2, gd1>> -> <<ba3>> [] pair = <<sku2, gd2>> -> <<>>]
MCUnits == [sku \in MCSku |-> IF sku = sku1 THEN {ba1} ELSE {ba2, ba3}]
MCOnInvoice == [i \in MCInvoice |-> {sku1}]
MCText == {one}
MCShown == {row1, row2}
MCContent == {old, new}
==============================================================================
