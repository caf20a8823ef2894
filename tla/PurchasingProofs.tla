--------------------------- MODULE PurchasingProofs --------------------------
(***************************************************************************)
(* What PurchasingPages checks on one order, proved for any number of lines, *)
(* batches, receipts and returns, and for any input.                       *)
(***************************************************************************)
EXTENDS PurchasingPages, SumTheorems

-----------------------------------------------------------------------------
(***************************************************************************)
(* The lines of the documents.                                             *)
(***************************************************************************)

LEMMA GrnLineIds ==
    /\ \A g \in Grn : \A n : <<g, n>> \in GrnLines <=> n \in DOMAIN grn[g].lines
    /\ \A id \in GrnLines : /\ id[1] \in Grn /\ id[2] \in DOMAIN grn[id[1]].lines
                            /\ id = <<id[1], id[2]>>
BY DEF GrnLines

LEMMA ReturnLineIds ==
    /\ \A r \in Return : \A m : <<r, m>> \in ReturnLines <=> m \in DOMAIN return[r].lines
    /\ \A id \in ReturnLines : /\ id[1] \in Return /\ id[2] \in DOMAIN return[id[1]].lines
                               /\ id = <<id[1], id[2]>>
BY DEF ReturnLines

\* A document without a number has no lines, there are finitely many lines, a
\* return is of lines that exist, only what was posted is reversed, and an order
\* that was not submitted has no receipts.
Shape ==
    /\ \A g \in Grn : grn[g].status = "ABSENT" => grn[g].lines = <<>>
    /\ \A r \in Return : return[r].status = "ABSENT" => return[r].lines = <<>>
    /\ IsFiniteSet(GrnLines) /\ IsFiniteSet(ReturnLines)
    /\ \A id \in ReturnLines : ReturnLineAt(id).source \in GrnLines
    /\ \A id \in GrnLines : GrnLineAt(id).reversed => GrnLineAt(id).accepted > 0
    /\ status \in {"ABSENT", "DRAFT"} => GrnLines = {}

LEMMA GrnLineTyped == TypeOK => \A id \in GrnLines : GrnLineAt(id) \in GrnLine
<1> SUFFICES ASSUME TypeOK, NEW id \in GrnLines PROVE GrnLineAt(id) \in GrnLine
  OBVIOUS
<1>1. id[1] \in Grn /\ id[2] \in DOMAIN grn[id[1]].lines
  BY GrnLineIds
<1>2. grn[id[1]].lines \in Seq(GrnLine)
  BY <1>1 DEF TypeOK
<1>3. QED
  BY <1>1, <1>2 DEF GrnLineAt

LEMMA ReturnLineTyped == TypeOK => \A id \in ReturnLines : ReturnLineAt(id) \in ReturnLine
<1> SUFFICES ASSUME TypeOK, NEW id \in ReturnLines PROVE ReturnLineAt(id) \in ReturnLine
  OBVIOUS
<1>1. id[1] \in Return /\ id[2] \in DOMAIN return[id[1]].lines
  BY ReturnLineIds
<1>2. return[id[1]].lines \in Seq(ReturnLine)
  BY <1>1 DEF TypeOK
<1>3. QED
  BY <1>1, <1>2 DEF ReturnLineAt

-----------------------------------------------------------------------------
(***************************************************************************)
(* Types.                                                                  *)
(***************************************************************************)

\* A sum over the lines of an input is a natural number.
LEMMA GrnSums ==
    ASSUME NEW lines \in GrnInput, BatchFor \in [Item \X Number -> Batch]
    PROVE  /\ \A i \in Item : AcceptedOf(lines, i) \in Nat
           /\ \A b \in Batch : IntoBatch(lines, b) \in Nat
<1>1. lines \in Seq([item : Item, number : Number, got : Nat \ {0}, accepted : Nat])
  BY PurchasingAssumption
<1> DEFINE f == [n \in DOMAIN lines |-> lines[n].accepted]
<1>2. \A n \in DOMAIN lines : f[n] \in Nat
  <2>1. \A n \in DOMAIN lines :
            lines[n] \in [item : Item, number : Number, got : Nat \ {0}, accepted : Nat]
    BY <1>1, LinesFinite
  <2>2. QED
    BY <2>1
<1>3. ASSUME NEW D \in SUBSET DOMAIN lines PROVE SumFunctionOnSet(f, D) \in Nat
  <2> HIDE DEF f
  <2>1. IsFiniteSet(D)
    BY <1>1, LinesFinite
  <2>2. QED
    BY <1>2, <2>1, SumNat
<1>4. ASSUME NEW i \in Item PROVE AcceptedOf(lines, i) \in Nat
  BY <1>3 DEF AcceptedOf, SumLines
<1>5. ASSUME NEW b \in Batch PROVE IntoBatch(lines, b) \in Nat
  BY <1>3 DEF IntoBatch, SumLines
<1>6. QED
  BY <1>4, <1>5

LEMMA ReturnSums ==
    ASSUME NEW lines \in ReturnInput
    PROVE  /\ \A n : TakenFrom(lines, n) \in Nat
           /\ \A g, i : GivenBack(g, lines, i) \in Nat
           /\ \A g, b : OutOfBatch(g, lines, b) \in Nat
<1>1. lines \in Seq([line : Nat, away : BOOLEAN, quantity : Nat \ {0}])
  BY PurchasingAssumption
<1> DEFINE f == [m \in DOMAIN lines |-> lines[m].quantity]
<1>2. \A m \in DOMAIN lines : f[m] \in Nat
  <2>1. \A m \in DOMAIN lines : lines[m] \in [line : Nat, away : BOOLEAN, quantity : Nat \ {0}]
    BY <1>1, LinesFinite
  <2>2. QED
    BY <2>1
<1>3. ASSUME NEW D \in SUBSET DOMAIN lines PROVE SumFunctionOnSet(f, D) \in Nat
  <2> HIDE DEF f
  <2>1. IsFiniteSet(D)
    BY <1>1, LinesFinite
  <2>2. QED
    BY <1>2, <2>1, SumNat
<1>4. \A n : TakenFrom(lines, n) \in Nat
  BY <1>3 DEF TakenFrom, SumLines
<1>5. \A g, i : GivenBack(g, lines, i) \in Nat
  BY <1>3 DEF GivenBack, SumLines
<1>6. \A g, b : OutOfBatch(g, lines, b) \in Nat
  BY <1>3 DEF OutOfBatch, SumLines
<1>7. QED
  BY <1>4, <1>5, <1>6

\* The quantities that a document books keep received_qty an integer.
LEMMA BookTyped ==
    ASSUME TypeOK, NEW delta, \A i \in Item : delta[i] \in Int, Book(delta)
    PROVE  received' \in [Item -> Int] /\ status' \in Status
<1>1. received' \in [Item -> Int]
  BY DEF Book, TypeOK
<1>2. status' \in Status
  BY DEF Book, Recomputed, Progress, TypeOK, Status
<1>3. QED
  BY <1>1, <1>2

\* What may happen to a line of a receipt.
LEMMA GrnLineMarked ==
    ASSUME NEW line \in GrnLine
    PROVE  LET marked == [line EXCEPT !.reversed = TRUE]
           IN  /\ marked \in GrnLine
               /\ marked.item = line.item /\ marked.batch = line.batch
               /\ marked.accepted = line.accepted /\ marked.returned = line.returned
               /\ marked.reversed = TRUE
BY DEF GrnLine

LEMMA GrnLineReturned ==
    ASSUME NEW line \in GrnLine, NEW quantity \in Int
    PROVE  LET more == ReturnedMore(line, quantity)
           IN  /\ more \in GrnLine
               /\ more.item = line.item /\ more.batch = line.batch
               /\ more.accepted = line.accepted /\ more.reversed = line.reversed
               /\ more.returned = line.returned + quantity
BY DEF GrnLine, ReturnedMore

LEMMA ReturnLineMarked ==
    ASSUME NEW line \in ReturnLine
    PROVE  LET marked == [line EXCEPT !.reversed = TRUE]
           IN  /\ marked \in ReturnLine
               /\ marked.source = line.source /\ marked.quantity = line.quantity
               /\ marked.reversed = TRUE
BY DEF ReturnLine

LEMMA DerivedTyped == \A total, reversed : Derived(total, reversed) \in DocStatus
BY DEF Derived, DocStatus

LEMMA PostGrnTyped ==
    ASSUME TypeOK, NEW g \in Grn, NEW lines \in GrnInput, PostGrn(g, lines)
    PROVE  TypeOK'
<1>1. lines \in Seq([item : Item, number : Number, got : Nat \ {0}, accepted : Nat])
  BY PurchasingAssumption
<1>2. \A n \in DOMAIN lines :
          lines[n] \in [item : Item, number : Number, got : Nat \ {0}, accepted : Nat]
  BY <1>1, LinesFinite
<1>3. BatchFor \in [Item \X Number -> Batch]
  BY PurchasingAssumption
<1> DEFINE new == [n \in DOMAIN lines |->
               [item |-> lines[n].item, batch |-> BatchOf(lines[n]),
                accepted |-> lines[n].accepted, returned |-> 0, reversed |-> FALSE]]
<1>4. new \in Seq(GrnLine)
  <2>1. ASSUME NEW n \in DOMAIN lines PROVE new[n] \in GrnLine
    <3>1. lines[n].item \in Item /\ lines[n].number \in Number /\ lines[n].accepted \in Nat
      BY <1>2
    <3>2. BatchOf(lines[n]) \in Batch
      BY <1>3, <3>1 DEF BatchOf
    <3>3. QED
      BY <3>1, <3>2 DEF GrnLine
  <2> HIDE DEF new
  <2>2. new = [n \in DOMAIN lines |-> new[n]]
    BY DEF new
  <2>3. QED
    BY SMTT(60), <1>1, <2>1, <2>2, LinesMade
<1>5. grn' = [grn EXCEPT ![g] = [status |-> "POSTED", lines |-> new]]
  BY DEF PostGrn
<1> HIDE DEF new
<1>6. grn' \in [Grn -> [status : DocStatus, lines : Seq(GrnLine)]]
  BY <1>4, <1>5 DEF TypeOK, DocStatus
<1>7. stock' \in [Batch -> Nat]
  <2>1. \A b \in Batch : IntoBatch(lines, b) \in Nat
    BY <1>3, GrnSums
  <2>2. stock' = [b \in Batch |-> stock[b] + IntoBatch(lines, b)]
    BY DEF PostGrn
  <2>3. QED
    BY <2>1, <2>2 DEF TypeOK
<1>8. received' \in [Item -> Int] /\ status' \in Status
  <2> DEFINE delta == [i \in Item |-> AcceptedOf(lines, i)]
  <2>1. \A i \in Item : delta[i] \in Int
    BY <1>3, GrnSums
  <2>2. Book(delta)
    BY DEF PostGrn
  <2> HIDE DEF delta
  <2>3. QED
    BY <2>1, <2>2, BookTyped
<1>9. QED
  BY <1>6, <1>7, <1>8 DEF TypeOK, PostGrn

LEMMA ReverseGrnEntryTyped ==
    ASSUME TypeOK, NEW g \in Grn, NEW n \in DOMAIN grn[g].lines, ReverseGrnEntry(g, n)
    PROVE  TypeOK'
<1> DEFINE line == grn[g].lines[n]
<1> DEFINE lines == [grn[g].lines EXCEPT ![n].reversed = TRUE]
<1> DEFINE st == Derived(Cardinality(InLedger(lines)), Cardinality(ReversedLines(lines)))
<1>1. line \in GrnLine /\ grn[g].lines \in Seq(GrnLine)
  BY DEF TypeOK
<1>2. lines \in Seq(GrnLine)
  <2>1. [line EXCEPT !.reversed = TRUE] \in GrnLine
    BY <1>1, GrnLineMarked
  <2>2. lines = [grn[g].lines EXCEPT ![n] = [line EXCEPT !.reversed = TRUE]]
    OBVIOUS
  <2> HIDE DEF line, lines
  <2>3. QED
    BY <1>1, <2>1, <2>2, LineReplaced
<1>3. st \in DocStatus
  BY DerivedTyped
<1>4. /\ grn' = [grn EXCEPT ![g] = [status |-> st, lines |-> lines]]
      /\ stock' = [stock EXCEPT ![line.batch] = @ - line.accepted]
      /\ stock[line.batch] >= line.accepted
      /\ Book([i \in Item |-> IF i = line.item THEN -line.accepted ELSE 0])
      /\ UNCHANGED <<ordered, return>>
  BY DEF ReverseGrnEntry, InStock
<1> HIDE DEF line, lines, st
<1>5. grn' \in [Grn -> [status : DocStatus, lines : Seq(GrnLine)]]
  BY <1>2, <1>3, <1>4 DEF TypeOK
<1>6. stock' \in [Batch -> Nat]
  <2>1. line.batch \in Batch /\ line.accepted \in Nat
    BY <1>1 DEF GrnLine
  <2>2. stock \in [Batch -> Nat]
    BY DEF TypeOK
  <2>3. stock[line.batch] - line.accepted \in Nat
    BY <1>4, <2>1, <2>2
  <2>4. QED
    BY <1>4, <2>2, <2>3
<1>7. received' \in [Item -> Int] /\ status' \in Status
  <2> DEFINE delta == [i \in Item |-> IF i = line.item THEN -line.accepted ELSE 0]
  <2>1. \A i \in Item : delta[i] \in Int
    BY <1>1 DEF GrnLine
  <2>2. Book(delta)
    BY <1>4
  <2> HIDE DEF delta
  <2>3. QED
    BY <2>1, <2>2, BookTyped
<1>8. QED
  BY <1>4, <1>5, <1>6, <1>7 DEF TypeOK

LEMMA PostReturnTyped ==
    ASSUME TypeOK, NEW r \in Return, NEW g \in Grn, NEW lines \in ReturnInput,
           PostReturn(r, g, lines)
    PROVE  TypeOK'
<1>1. lines \in Seq([line : Nat, away : BOOLEAN, quantity : Nat \ {0}])
  BY PurchasingAssumption
<1>2. \A m \in DOMAIN lines : lines[m] \in [line : Nat, away : BOOLEAN, quantity : Nat \ {0}]
  BY <1>1, LinesFinite
<1> DEFINE new == [m \in DOMAIN lines |->
               [source |-> <<g, lines[m].line>>, away |-> lines[m].away,
                quantity |-> lines[m].quantity, reversed |-> FALSE]]
<1> DEFINE source ==
               [n \in DOMAIN grn[g].lines |-> ReturnedMore(grn[g].lines[n], TakenFrom(lines, n))]
<1>3. new \in Seq(ReturnLine)
  <2>1. \A m \in DOMAIN lines : new[m] \in ReturnLine
    BY <1>2 DEF ReturnLine
  <2> HIDE DEF new
  <2>2. new = [m \in DOMAIN lines |-> new[m]]
    BY DEF new
  <2>3. QED
    BY <1>1, <2>1, <2>2, LinesMade
<1>4. source \in Seq(GrnLine)
  <2>1. grn[g].lines \in Seq(GrnLine)
    BY DEF TypeOK
  <2>2. \A n : TakenFrom(lines, n) \in Nat
    BY ReturnSums
  <2>3. ASSUME NEW n \in DOMAIN grn[g].lines PROVE source[n] \in GrnLine
    <3>1. grn[g].lines[n] \in GrnLine /\ TakenFrom(lines, n) \in Int
      BY <2>1, <2>2
    <3>2. QED
      BY <3>1, GrnLineReturned
  <2> HIDE DEF source
  <2>4. source = [n \in DOMAIN grn[g].lines |-> source[n]]
    BY DEF source
  <2>5. QED
    BY <2>1, <2>3, <2>4, LinesMade
<1>5. /\ return' = [return EXCEPT ![r] = [status |-> "POSTED", lines |-> new]]
      /\ grn' = [grn EXCEPT ![g].lines = source]
  BY DEF PostReturn, TypeOK
<1> HIDE DEF new, source
<1>6. /\ grn' \in [Grn -> [status : DocStatus, lines : Seq(GrnLine)]]
      /\ return' \in [Return -> [status : DocStatus, lines : Seq(ReturnLine)]]
  BY <1>3, <1>4, <1>5 DEF TypeOK, DocStatus
<1>7. stock' \in [Batch -> Nat]
  <2>1. \A b \in Batch : OutOfBatch(g, lines, b) \in Nat
    BY ReturnSums
  <2>2. /\ stock' = [b \in Batch |-> stock[b] - OutOfBatch(g, lines, b)]
        /\ \A b \in Batch : stock'[b] >= 0
    BY DEF PostReturn
  <2>3. QED
    BY <2>1, <2>2 DEF TypeOK
<1>8. received' \in [Item -> Int] /\ status' \in Status
  <2> DEFINE delta == [i \in Item |-> -GivenBack(g, lines, i)]
  <2>1. \A i \in Item : delta[i] \in Int
    BY ReturnSums
  <2>2. Book(delta)
    BY DEF PostReturn
  <2> HIDE DEF delta
  <2>3. QED
    BY <2>1, <2>2, BookTyped
<1>9. QED
  BY <1>6, <1>7, <1>8 DEF TypeOK, PostReturn

LEMMA ReverseReturnEntryTyped ==
    ASSUME TypeOK, Shape, NEW r \in Return, NEW m \in DOMAIN return[r].lines,
           ReverseReturnEntry(r, m)
    PROVE  TypeOK'
<1> DEFINE line == return[r].lines[m]
<1> DEFINE lines == [return[r].lines EXCEPT ![m].reversed = TRUE]
<1> DEFINE g == line.source[1]
<1> DEFINE n == line.source[2]
<1> DEFINE source == grn[g].lines[n]
<1> DEFINE st == Derived(Len(lines), Cardinality(ReversedLines(lines)))
<1>1. line \in ReturnLine /\ return[r].lines \in Seq(ReturnLine)
  BY DEF TypeOK
<1>2. lines \in Seq(ReturnLine)
  <2>1. [line EXCEPT !.reversed = TRUE] \in ReturnLine
    BY <1>1, ReturnLineMarked
  <2>2. lines = [return[r].lines EXCEPT ![m] = [line EXCEPT !.reversed = TRUE]]
    OBVIOUS
  <2> HIDE DEF line, lines
  <2>3. QED
    BY <1>1, <2>1, <2>2, LineReplaced
<1>3. g \in Grn /\ n \in DOMAIN grn[g].lines
  <2>1. <<r, m>> \in ReturnLines /\ ReturnLineAt(<<r, m>>) = line
    BY ReturnLineIds DEF ReturnLineAt
  <2>2. line.source \in GrnLines
    BY <2>1 DEF Shape
  <2>3. QED
    BY <2>2, GrnLineIds
<1>4. source \in GrnLine /\ grn[g].lines \in Seq(GrnLine)
  <2> HIDE DEF g, n
  <2>1. grn[g].lines \in Seq(GrnLine)
    BY <1>3 DEF TypeOK
  <2>2. QED
    BY <1>3, <2>1, LinesFinite
<1>5. st \in DocStatus
  BY DerivedTyped
<1>6. /\ return' = [return EXCEPT ![r].lines = lines, ![r].status = st]
      /\ grn' = [grn EXCEPT ![g].lines[n] = ReturnedMore(@, -line.quantity)]
      /\ stock' = [stock EXCEPT ![source.batch] = @ + IF line.away THEN 0 ELSE line.quantity]
      /\ Book([i \in Item |-> IF i = source.item THEN line.quantity ELSE 0])
      /\ UNCHANGED ordered
  BY DEF ReverseReturnEntry
<1> HIDE DEF lines, g, n, source, st
<1>7. return' \in [Return -> [status : DocStatus, lines : Seq(ReturnLine)]]
  BY <1>2, <1>5, <1>6 DEF TypeOK
<1> DEFINE new == [grn[g].lines EXCEPT ![n] = ReturnedMore(source, -line.quantity)]
<1>8. new \in Seq(GrnLine)
  <2>1. -line.quantity \in Int
    BY <1>1 DEF ReturnLine
  <2>2. ReturnedMore(source, -line.quantity) \in GrnLine
    BY <1>4, <2>1, GrnLineReturned
  <2>3. QED
    BY <1>3, <1>4, <2>2, LineReplaced
<1>9. grn' = [grn EXCEPT ![g].lines = new]
  BY <1>6 DEF source
<1> HIDE DEF new
<1>10. grn' \in [Grn -> [status : DocStatus, lines : Seq(GrnLine)]]
  BY <1>3, <1>8, <1>9 DEF TypeOK
<1>11. stock' \in [Batch -> Nat]
  <2> DEFINE back == IF line.away THEN 0 ELSE line.quantity
  <2>1. back \in Nat
    BY <1>1 DEF ReturnLine
  <2>2. stock \in [Batch -> Nat] /\ stock' = [stock EXCEPT ![source.batch] = @ + back]
    BY <1>6 DEF TypeOK
  <2>3. source.batch \in Batch
    BY <1>4 DEF GrnLine
  <2> HIDE DEF back
  <2>4. stock[source.batch] + back \in Nat
    BY <2>1, <2>2, <2>3
  <2>5. QED
    BY <2>2, <2>4
<1>12. received' \in [Item -> Int] /\ status' \in Status
  <2> DEFINE delta == [i \in Item |-> IF i = source.item THEN line.quantity ELSE 0]
  <2>1. \A i \in Item : delta[i] \in Int
    BY <1>1 DEF ReturnLine
  <2>2. Book(delta)
    BY <1>6
  <2> HIDE DEF delta
  <2>3. QED
    BY <2>1, <2>2, BookTyped
<1>13. QED
  BY <1>6, <1>7, <1>10, <1>11, <1>12 DEF TypeOK

LEMMA OrderStepTyped ==
    ASSUME TypeOK,
           \/ \E input \in OrderInput :
                 (\E submit \in BOOLEAN : Create(input, submit)) \/ UpdateDraft(input)
           \/ Submit \/ Cancel \/ ShortClose
           \/ \E b \in Batch, quantity \in 0..MaxStock : MoveStock(b, quantity)
           \/ UNCHANGED vars
    PROVE  TypeOK'
<1>1. \A input \in OrderInput : input \in [Item -> Nat]
  BY PurchasingAssumption
<1>2. MaxStock \in Nat
  BY PurchasingAssumption
<1>3. ASSUME NEW input \in OrderInput, (\E submit \in BOOLEAN : Create(input, submit)) \/ UpdateDraft(input)
      PROVE  TypeOK'
  BY <1>1, <1>3 DEF TypeOK, Status, Create, UpdateDraft
<1>4. CASE Submit \/ Cancel \/ ShortClose
  BY <1>4 DEF TypeOK, Status, Submit, Cancel, ShortClose
<1>5. CASE \E b \in Batch, quantity \in 0..MaxStock : MoveStock(b, quantity)
  BY <1>2, <1>5 DEF TypeOK, MoveStock
<1>6. CASE UNCHANGED vars
  BY <1>6 DEF TypeOK, vars
<1>7. QED
  BY <1>3, <1>4, <1>5, <1>6

-----------------------------------------------------------------------------
(***************************************************************************)
(* What each operation does to the lines.                                  *)
(***************************************************************************)

LEMMA GrnLinesAre == GrnLines = IdsOf(Grn, grn) /\ GrnLines' = IdsOf(Grn, grn')
BY DEF GrnLines, IdsOf

LEMMA ReturnLinesAre == ReturnLines = IdsOf(Return, return) /\ ReturnLines' = IdsOf(Return, return')
BY DEF ReturnLines, IdsOf

LEMMA LinesUntouched ==
    /\ UNCHANGED grn => GrnLines' = GrnLines /\ \A id : GrnLineAt(id)' = GrnLineAt(id)
    /\ UNCHANGED return => ReturnLines' = ReturnLines /\ \A id : ReturnLineAt(id)' = ReturnLineAt(id)
BY DEF GrnLines, GrnLineAt, ReturnLines, ReturnLineAt

\* The line that the receipt of an input line is stored as.
Stored(line) == [item |-> line.item, batch |-> BatchOf(line), accepted |-> line.accepted,
                 returned |-> 0, reversed |-> FALSE]

LEMMA PostGrnLines ==
    ASSUME TypeOK, Shape, NEW g \in Grn, NEW lines \in GrnInput, PostGrn(g, lines)
    PROVE  /\ GrnLines' = GrnLines \cup Named(g, DOMAIN lines)
           /\ IsFiniteSet(GrnLines')
           /\ \A id \in GrnLines : id[1] # g /\ GrnLineAt(id)' = GrnLineAt(id)
           /\ \A n \in DOMAIN lines : GrnLineAt(<<g, n>>)' = Stored(lines[n])
           /\ ReturnLines' = ReturnLines /\ \A id : ReturnLineAt(id)' = ReturnLineAt(id)
<1>1. lines \in Seq([item : Item, number : Number, got : Nat \ {0}, accepted : Nat])
  BY PurchasingAssumption
<1> DEFINE new == [n \in DOMAIN lines |-> Stored(lines[n])]
<1>2. grn' = [grn EXCEPT ![g] = [status |-> "POSTED", lines |-> new]]
  BY DEF PostGrn, Stored
<1> HIDE DEF new
<1>3. grn'[g].lines = new /\ \A h \in Grn : h # g => grn'[h] = grn[h]
  BY <1>2 DEF TypeOK
<1>4. DOMAIN new = DOMAIN lines /\ \A n \in DOMAIN lines : new[n] = Stored(lines[n])
  BY DEF new
<1>5. grn[g].lines = <<>> /\ IsFiniteSet(GrnLines)
  BY DEF PostGrn, Shape
<1>6. /\ IdsOf(Grn, grn') = IdsOf(Grn, grn) \cup Named(g, DOMAIN lines)
      /\ \A id \in IdsOf(Grn, grn) : id[1] # g
      /\ IsFiniteSet(IdsOf(Grn, grn)) => IsFiniteSet(IdsOf(Grn, grn'))
  <2>1. GetsLines(Grn, grn, grn', g, lines)
    BY <1>3, <1>4, <1>5 DEF GetsLines
  <2>2. QED
    BY <1>1, <2>1, IdsAdded
<1>7. \A id \in GrnLines : id[1] # g /\ GrnLineAt(id)' = GrnLineAt(id)
  <2>1. ASSUME NEW id \in GrnLines PROVE id[1] # g /\ GrnLineAt(id)' = GrnLineAt(id)
    <3>1. id[1] \in Grn /\ id[1] # g
      BY <1>6, GrnLinesAre, GrnLineIds
    <3>2. QED
      BY <1>3, <3>1 DEF GrnLineAt
  <2>2. QED
    BY <2>1
<1>8. \A n \in DOMAIN lines : GrnLineAt(<<g, n>>)' = Stored(lines[n])
  BY <1>3, <1>4 DEF GrnLineAt
<1>9. UNCHANGED return
  BY DEF PostGrn
<1>10. QED
  BY <1>5, <1>6, <1>7, <1>8, <1>9, GrnLinesAre, LinesUntouched

LEMMA ReverseGrnEntryLines ==
    ASSUME TypeOK, NEW g \in Grn, NEW n \in DOMAIN grn[g].lines, ReverseGrnEntry(g, n)
    PROVE  /\ GrnLines' = GrnLines /\ <<g, n>> \in GrnLines
           /\ GrnLineAt(<<g, n>>)' = [GrnLineAt(<<g, n>>) EXCEPT !.reversed = TRUE]
           /\ \A id \in GrnLines : id # <<g, n>> => GrnLineAt(id)' = GrnLineAt(id)
           /\ ReturnLines' = ReturnLines /\ \A id : ReturnLineAt(id)' = ReturnLineAt(id)
<1> DEFINE old == grn[g].lines
<1> DEFINE marked == [old[n] EXCEPT !.reversed = TRUE]
<1> DEFINE new == [old EXCEPT ![n] = marked]
<1>1. old \in Seq(GrnLine) /\ old[n] \in GrnLine
  BY DEF TypeOK
<1>2. /\ DOMAIN new = DOMAIN old
      /\ \A k \in DOMAIN old : new[k] = IF k = n THEN marked ELSE old[k]
  <2>1. marked \in GrnLine
    BY <1>1, GrnLineMarked
  <2> HIDE DEF old, marked
  <2>2. QED
    BY <1>1, <2>1, LineReplaced
<1>3. grn'[g].lines = new /\ \A h \in Grn : h # g => grn'[h] = grn[h]
  <2>1. \E st : grn' = [grn EXCEPT ![g] = [status |-> st, lines |-> new]]
    BY DEF ReverseGrnEntry
  <2> HIDE DEF new
  <2>2. QED
    BY <2>1 DEF TypeOK
<1> HIDE DEF new, marked
<1>4. \A h \in Grn : DOMAIN grn'[h].lines = DOMAIN grn[h].lines
  BY <1>2, <1>3
<1>5. GrnLines' = GrnLines
  BY <1>4, GrnLinesAre, IdsKept
<1>6. <<g, n>> \in GrnLines
  BY GrnLineIds
<1>7. GrnLineAt(<<g, n>>)' = [GrnLineAt(<<g, n>>) EXCEPT !.reversed = TRUE]
  BY <1>2, <1>3 DEF GrnLineAt, marked
<1>8. ASSUME NEW id \in GrnLines, id # <<g, n>> PROVE GrnLineAt(id)' = GrnLineAt(id)
  <2>1. id[1] \in Grn /\ id[2] \in DOMAIN grn[id[1]].lines /\ id = <<id[1], id[2]>>
    BY GrnLineIds
  <2>2. CASE id[1] = g
    BY <1>2, <1>3, <1>8, <2>1, <2>2 DEF GrnLineAt
  <2>3. CASE id[1] # g
    BY <1>3, <2>1, <2>3 DEF GrnLineAt
  <2>4. QED
    BY <2>2, <2>3
<1>9. UNCHANGED return
  BY DEF ReverseGrnEntry
<1>10. QED
  BY <1>5, <1>6, <1>7, <1>8, <1>9, LinesUntouched

\* The line that the return of an input line of receipt g is stored as.
StoredReturn(g, line) ==
    [source |-> <<g, line.line>>, away |-> line.away, quantity |-> line.quantity, reversed |-> FALSE]

LEMMA PostReturnLines ==
    ASSUME TypeOK, Shape, NEW r \in Return, NEW g \in Grn, NEW lines \in ReturnInput,
           PostReturn(r, g, lines)
    PROVE  /\ ReturnLines' = ReturnLines \cup Named(r, DOMAIN lines)
           /\ IsFiniteSet(ReturnLines')
           /\ \A id \in ReturnLines : id[1] # r /\ ReturnLineAt(id)' = ReturnLineAt(id)
           /\ \A m \in DOMAIN lines : /\ ReturnLineAt(<<r, m>>)' = StoredReturn(g, lines[m])
                                      /\ <<g, lines[m].line>> \in GrnLines
           /\ GrnLines' = GrnLines
           /\ \A id \in GrnLines : GrnLineAt(id)' =
                IF id[1] = g THEN ReturnedMore(GrnLineAt(id), TakenFrom(lines, id[2]))
                ELSE GrnLineAt(id)
<1>1. lines \in Seq([line : Nat, away : BOOLEAN, quantity : Nat \ {0}])
  BY PurchasingAssumption
<1> DEFINE new == [m \in DOMAIN lines |-> StoredReturn(g, lines[m])]
<1> DEFINE source ==
               [n \in DOMAIN grn[g].lines |-> ReturnedMore(grn[g].lines[n], TakenFrom(lines, n))]
<1>2. /\ return' = [return EXCEPT ![r] = [status |-> "POSTED", lines |-> new]]
      /\ grn' = [grn EXCEPT ![g].lines = source]
  BY DEF PostReturn, StoredReturn
<1>3. /\ DOMAIN new = DOMAIN lines /\ \A m \in DOMAIN lines : new[m] = StoredReturn(g, lines[m])
      /\ DOMAIN source = DOMAIN grn[g].lines
      /\ \A n \in DOMAIN source : source[n] = ReturnedMore(grn[g].lines[n], TakenFrom(lines, n))
  OBVIOUS
<1> HIDE DEF new, source
<1>4. /\ return'[r].lines = new /\ \A q \in Return : q # r => return'[q] = return[q]
      /\ grn'[g].lines = source /\ \A h \in Grn : h # g => grn'[h] = grn[h]
  BY <1>2 DEF TypeOK
<1>5. return[r].lines = <<>> /\ IsFiniteSet(ReturnLines)
  BY DEF PostReturn, Shape
<1>6. /\ IdsOf(Return, return') = IdsOf(Return, return) \cup Named(r, DOMAIN lines)
      /\ \A id \in IdsOf(Return, return) : id[1] # r
      /\ IsFiniteSet(IdsOf(Return, return)) => IsFiniteSet(IdsOf(Return, return'))
  <2>1. GetsLines(Return, return, return', r, lines)
    BY <1>3, <1>4, <1>5 DEF GetsLines
  <2>2. QED
    BY <1>1, <2>1, IdsAdded
<1>7. ASSUME NEW id \in ReturnLines PROVE id[1] # r /\ ReturnLineAt(id)' = ReturnLineAt(id)
  <2>1. id[1] \in Return /\ id[1] # r
    BY <1>6, ReturnLinesAre, ReturnLineIds
  <2>2. QED
    BY <1>4, <2>1 DEF ReturnLineAt
<1>8. ASSUME NEW m \in DOMAIN lines
      PROVE  /\ ReturnLineAt(<<r, m>>)' = StoredReturn(g, lines[m])
             /\ <<g, lines[m].line>> \in GrnLines
  <2>1. lines[m].line \in DOMAIN grn[g].lines
    BY DEF PostReturn, WithinReturnable
  <2>2. <<g, lines[m].line>> \in GrnLines
    BY <2>1, GrnLineIds
  <2>3. QED
    BY <1>3, <1>4, <2>2 DEF ReturnLineAt
<1>9. GrnLines' = GrnLines
  <2>1. \A h \in Grn : DOMAIN grn'[h].lines = DOMAIN grn[h].lines
    BY <1>3, <1>4
  <2>2. QED
    BY <2>1, GrnLinesAre, IdsKept
<1>10. ASSUME NEW id \in GrnLines
       PROVE  GrnLineAt(id)' = IF id[1] = g
                               THEN ReturnedMore(GrnLineAt(id), TakenFrom(lines, id[2]))
                               ELSE GrnLineAt(id)
  <2>1. id[1] \in Grn /\ id[2] \in DOMAIN grn[id[1]].lines
    BY GrnLineIds
  <2>2. QED
    BY <1>3, <1>4, <2>1 DEF GrnLineAt
<1>11. QED
  BY <1>5, <1>6, <1>7, <1>8, <1>9, <1>10, ReturnLinesAre

\* The line id0 of a return of line src of a receipt is marked, and nothing else
\* than the counter of that line changes.
TookBack(id0, src) ==
    /\ ReturnLines' = ReturnLines /\ id0 \in ReturnLines
    /\ ReturnLineAt(id0)' = [ReturnLineAt(id0) EXCEPT !.reversed = TRUE]
    /\ \A id \in ReturnLines : id # id0 => ReturnLineAt(id)' = ReturnLineAt(id)
    /\ GrnLines' = GrnLines /\ src \in GrnLines
    /\ GrnLineAt(src)' = ReturnedMore(GrnLineAt(src), -ReturnLineAt(id0).quantity)
    /\ \A id \in GrnLines : id # src => GrnLineAt(id)' = GrnLineAt(id)

LEMMA ReverseReturnEntryLines ==
    ASSUME TypeOK, Shape, NEW r \in Return, NEW m \in DOMAIN return[r].lines,
           ReverseReturnEntry(r, m),
           NEW id0, id0 = <<r, m>>, NEW src, src = ReturnLineAt(id0).source
    PROVE  TookBack(id0, src)
<1> DEFINE old == return[r].lines
<1> DEFINE line == old[m]
<1> DEFINE marked == [line EXCEPT !.reversed = TRUE]
<1> DEFINE new == [old EXCEPT ![m] = marked]
<1> DEFINE g == src[1]
<1> DEFINE n == src[2]
<1> DEFINE more == ReturnedMore(grn[g].lines[n], -line.quantity)
<1> DEFINE source == [grn[g].lines EXCEPT ![n] = more]
<1>1. old \in Seq(ReturnLine) /\ line \in ReturnLine
  BY DEF TypeOK
<1>2. id0 \in ReturnLines /\ ReturnLineAt(id0) = line /\ line.source = src
  BY ReturnLineIds DEF ReturnLineAt
<1>3. src \in GrnLines
  BY <1>2 DEF Shape
<1>4. g \in Grn /\ n \in DOMAIN grn[g].lines /\ src = <<g, n>>
  BY <1>3, GrnLineIds
<1>5. grn[g].lines \in Seq(GrnLine) /\ grn[g].lines[n] \in GrnLine
  BY <1>4 DEF TypeOK
<1>6. -line.quantity \in Int
  BY <1>1 DEF ReturnLine
<1>7. /\ DOMAIN new = DOMAIN old
      /\ \A k \in DOMAIN old : new[k] = IF k = m THEN marked ELSE old[k]
  <2>1. marked \in ReturnLine
    BY <1>1, ReturnLineMarked
  <2> HIDE DEF old, marked
  <2>2. QED
    BY <1>1, <2>1, LineReplaced
<1>8. /\ DOMAIN source = DOMAIN grn[g].lines
      /\ \A k \in DOMAIN grn[g].lines : source[k] = IF k = n THEN more ELSE grn[g].lines[k]
  <2>1. more \in GrnLine
    BY <1>5, <1>6, GrnLineReturned
  <2> HIDE DEF g, n, more
  <2>2. QED
    BY <1>4, <1>5, <2>1, LineReplaced
<1>9. /\ \E st : return' = [return EXCEPT ![r].lines = new, ![r].status = st]
      /\ grn' = [grn EXCEPT ![g].lines[n] = more]
  BY <1>2 DEF ReverseReturnEntry
<1> HIDE DEF new, marked, g, n, more
<1>10. /\ return'[r].lines = new /\ \A q \in Return : q # r => return'[q] = return[q]
       /\ grn'[g].lines = source /\ \A h \in Grn : h # g => grn'[h] = grn[h]
  BY <1>4, <1>9 DEF TypeOK
<1> HIDE DEF source
<1>11. ReturnLines' = ReturnLines /\ GrnLines' = GrnLines
  <2>1. \A q \in Return : DOMAIN return'[q].lines = DOMAIN return[q].lines
    BY <1>7, <1>10
  <2>2. \A h \in Grn : DOMAIN grn'[h].lines = DOMAIN grn[h].lines
    BY <1>8, <1>10
  <2>3. QED
    BY <2>1, <2>2, GrnLinesAre, ReturnLinesAre, IdsKept
<1>12. ReturnLineAt(id0)' = marked
  BY <1>7, <1>10 DEF ReturnLineAt
<1>13. ASSUME NEW id \in ReturnLines, id # id0 PROVE ReturnLineAt(id)' = ReturnLineAt(id)
  <2>1. id[1] \in Return /\ id[2] \in DOMAIN return[id[1]].lines /\ id = <<id[1], id[2]>>
    BY ReturnLineIds
  <2>2. CASE id[1] = r
    BY <1>7, <1>10, <1>13, <2>1, <2>2 DEF ReturnLineAt
  <2>3. CASE id[1] # r
    BY <1>10, <2>1, <2>3 DEF ReturnLineAt
  <2>4. QED
    BY <2>2, <2>3
<1>14. GrnLineAt(src)' = more
  <2>1. GrnLineAt(src)' = grn'[g].lines[n]
    BY DEF GrnLineAt, g, n
  <2>2. QED
    BY <1>4, <1>8, <1>10, <2>1
<1>15. ASSUME NEW id \in GrnLines, id # src PROVE GrnLineAt(id)' = GrnLineAt(id)
  <2>1. id[1] \in Grn /\ id[2] \in DOMAIN grn[id[1]].lines /\ id = <<id[1], id[2]>>
    BY GrnLineIds
  <2>2. CASE id[1] = g
    BY <1>4, <1>8, <1>10, <1>15, <2>1, <2>2 DEF GrnLineAt
  <2>3. CASE id[1] # g
    BY <1>10, <2>1, <2>3 DEF GrnLineAt
  <2>4. QED
    BY <2>2, <2>3
<1>16. marked = [line EXCEPT !.reversed = TRUE] /\ more = ReturnedMore(GrnLineAt(src), -line.quantity)
  BY DEF marked, more, GrnLineAt, g, n
<1> HIDE DEF line
<1>17. QED
  BY <1>2, <1>3, <1>11, <1>12, <1>13, <1>14, <1>15, <1>16 DEF TookBack

-----------------------------------------------------------------------------
(***************************************************************************)
(* What each operation does to the sums over the lines.                    *)
(***************************************************************************)

Accepteds == [id \in GrnLines |-> GrnLineAt(id).accepted]
BackQuantities == [id \in ReturnLines |-> ReturnLineAt(id).quantity]
Standing(i) == {id \in GrnLines : GrnLineAt(id).item = i /\ ~GrnLineAt(id).reversed}
Back(sources) ==
    {id \in ReturnLines : ReturnLineAt(id).source \in sources /\ ~ReturnLineAt(id).reversed}
OfItem(i) == {id \in GrnLines : GrnLineAt(id).item = i}

LEMMA SumsAre ==
    /\ \A i : /\ AcceptedNow(i) = SumFunctionOnSet(Accepteds, Standing(i))
              /\ AcceptedNow(i)' = SumFunctionOnSet(Accepteds', Standing(i)')
    /\ \A sources : /\ ReturnedNow(sources) = SumFunctionOnSet(BackQuantities, Back(sources))
                    /\ ReturnedNow(sources)' = SumFunctionOnSet(BackQuantities', Back(sources)')
BY DEF AcceptedNow, ReturnedNow, Accepteds, BackQuantities, Standing, Back

LEMMA LinesCounted ==
    ASSUME TypeOK, Shape
    PROVE  /\ \A S \in SUBSET GrnLines : IsFiniteSet(S)
           /\ \A S \in SUBSET ReturnLines : IsFiniteSet(S)
           /\ \A id \in GrnLines : Accepteds[id] \in Nat /\ GrnLineAt(id).returned \in Int
           /\ \A id \in ReturnLines : BackQuantities[id] \in Nat \ {0}
           /\ \A i : Standing(i) \subseteq GrnLines
           /\ \A sources : Back(sources) \subseteq ReturnLines
<1>1. /\ \A S \in SUBSET GrnLines : IsFiniteSet(S)
      /\ \A S \in SUBSET ReturnLines : IsFiniteSet(S)
  BY FS_Subset DEF Shape
<1>2. ASSUME NEW id \in GrnLines PROVE Accepteds[id] \in Nat /\ GrnLineAt(id).returned \in Int
  BY GrnLineTyped DEF Accepteds, GrnLine
<1>3. ASSUME NEW id \in ReturnLines PROVE BackQuantities[id] \in Nat \ {0}
  BY ReturnLineTyped DEF BackQuantities, ReturnLine
<1>4. QED
  BY <1>1, <1>2, <1>3 DEF Standing, Back

LEMMA SumsCounted ==
    ASSUME TypeOK, Shape
    PROVE  /\ \A i : AcceptedNow(i) \in Nat
           /\ \A sources : ReturnedNow(sources) \in Nat
<1>1. ASSUME NEW i PROVE AcceptedNow(i) \in Nat
  <2>1. IsFiniteSet(Standing(i)) /\ \A id \in Standing(i) : Accepteds[id] \in Nat
    BY LinesCounted
  <2>2. SumFunctionOnSet(Accepteds, Standing(i)) \in Nat
    BY <2>1, SumNat
  <2>3. QED
    BY <2>2, SumsAre
<1>2. ASSUME NEW sources PROVE ReturnedNow(sources) \in Nat
  <2>1. IsFiniteSet(Back(sources)) /\ \A id \in Back(sources) : BackQuantities[id] \in Nat
    BY LinesCounted
  <2>2. SumFunctionOnSet(BackQuantities, Back(sources)) \in Nat
    BY <2>1, SumNat
  <2>3. QED
    BY <2>2, SumsAre
<1>3. QED
  BY <1>1, <1>2

\* Only the lines that are returned of count.
LEMMA ReturnedSame ==
    ASSUME NEW one, NEW other,
           \A id \in ReturnLines : ReturnLineAt(id).source \in one <=> ReturnLineAt(id).source \in other
    PROVE  ReturnedNow(one) = ReturnedNow(other)
<1>1. Back(one) = Back(other)
  BY DEF Back
<1>2. QED
  BY <1>1, SumsAre

LEMMA ReturnsUntouched ==
    ASSUME ReturnLines' = ReturnLines, \A id : ReturnLineAt(id)' = ReturnLineAt(id)
    PROVE  \A sources : ReturnedNow(sources)' = ReturnedNow(sources)
BY DEF ReturnedNow

LEMMA ReceiptsUntouched ==
    ASSUME GrnLines' = GrnLines,
           \A id \in GrnLines : /\ GrnLineAt(id)'.accepted = GrnLineAt(id).accepted
                                /\ GrnLineAt(id)'.item = GrnLineAt(id).item
                                /\ GrnLineAt(id)'.reversed = GrnLineAt(id).reversed
    PROVE  \A i : AcceptedNow(i)' = AcceptedNow(i)
<1>1. Accepteds' = Accepteds
  BY DEF Accepteds
<1>2. \A i : Standing(i)' = Standing(i)
  BY DEF Standing
<1>3. QED
  BY <1>1, <1>2, SumsAre

LEMMA PostGrnSums ==
    ASSUME TypeOK, Shape, NEW g \in Grn, NEW lines \in GrnInput, PostGrn(g, lines)
    PROVE  /\ \A i \in Item : AcceptedNow(i)' = AcceptedNow(i) + AcceptedOf(lines, i)
           /\ \A sources : ReturnedNow(sources)' = ReturnedNow(sources)
<1>1. lines \in Seq([item : Item, number : Number, got : Nat \ {0}, accepted : Nat])
  BY PurchasingAssumption
<1>2. \A n \in DOMAIN lines : lines[n].accepted \in Nat
  <2>1. \A n \in DOMAIN lines :
            lines[n] \in [item : Item, number : Number, got : Nat \ {0}, accepted : Nat]
    BY <1>1, LinesFinite
  <2>2. QED
    BY <2>1
<1>3. /\ GrnLines' = GrnLines \cup Named(g, DOMAIN lines)
      /\ \A id \in GrnLines : id[1] # g /\ GrnLineAt(id)' = GrnLineAt(id)
  BY PostGrnLines
<1>4. ASSUME NEW n \in DOMAIN lines
      PROVE  /\ <<g, n>> \in GrnLines'
             /\ GrnLineAt(<<g, n>>)'.item = lines[n].item
             /\ GrnLineAt(<<g, n>>)'.accepted = lines[n].accepted
             /\ GrnLineAt(<<g, n>>)'.reversed = FALSE
  <2>1. GrnLineAt(<<g, n>>)' = Stored(lines[n])
    BY PostGrnLines
  <2>2. QED
    BY <1>3, <2>1, NamedAre DEF Stored
<1>5. \A n \in DOMAIN lines : Accepteds'[<<g, n>>] = lines[n].accepted
  BY <1>4 DEF Accepteds
<1>6. ASSUME NEW i \in Item PROVE AcceptedNow(i)' = AcceptedNow(i) + AcceptedOf(lines, i)
  <2> DEFINE N == {n \in DOMAIN lines : lines[n].item = i}
  <2> DEFINE f == [n \in DOMAIN lines |-> lines[n].accepted]
  <2>1. Standing(i)' = Standing(i) \cup Named(g, N)
    <3>1. ASSUME NEW id \in GrnLines PROVE id \in Standing(i)' <=> id \in Standing(i)
      BY <1>3 DEF Standing
    <3>2. ASSUME NEW n \in DOMAIN lines PROVE <<g, n>> \in Standing(i)' <=> n \in N
      BY <1>4 DEF Standing
    <3>3. \A id \in Standing(i)' : id \in GrnLines \/ id \in Named(g, DOMAIN lines)
      BY <1>3 DEF Standing
    <3>4. Standing(i) \subseteq GrnLines /\ N \subseteq DOMAIN lines
      BY DEF Standing
    <3> HIDE DEF N
    <3>5. ASSUME NEW id \in Standing(i)' PROVE id \in Standing(i) \cup Named(g, N)
      BY <3>1, <3>2, <3>3, NamedAre
    <3>6. ASSUME NEW id \in Standing(i) \cup Named(g, N) PROVE id \in Standing(i)'
      BY <3>1, <3>2, <3>4, NamedAre
    <3>7. QED
      BY <3>5, <3>6
  <2>2. IsFiniteSet(Standing(i)) /\ \A id \in Standing(i) : Accepteds[id] \in Int
    BY LinesCounted
  <2>3. Standing(i) \cap Named(g, N) = {}
    BY <1>3, NamedAre DEF Standing
  <2>4. \A id \in Standing(i) : Accepteds'[id] = Accepteds[id]
    BY <1>3 DEF Standing, Accepteds
  <2>5. Alike(g, N, f, Accepteds') /\ \A id \in Named(g, N) : Accepteds'[id] \in Int
    BY <1>2, <1>5, NamedAre DEF Alike
  <2>6. AcceptedOf(lines, i) = SumFunctionOnSet(f, N)
    BY DEF AcceptedOf, SumLines
  <2>7. IsFiniteSet(N)
    BY <1>1, LinesFinite
  <2> HIDE DEF f, N
  <2>8. /\ IsFiniteSet(Named(g, N))
        /\ SumFunctionOnSet(Accepteds', Named(g, N)) = SumFunctionOnSet(f, N)
    BY <2>5, <2>7, SumNamed
  <2>9. SumFunctionOnSet(Accepteds', Standing(i) \cup Named(g, N))
            = SumFunctionOnSet(Accepteds, Standing(i)) + SumFunctionOnSet(Accepteds', Named(g, N))
    BY <2>2, <2>3, <2>4, <2>5, <2>8, SumAdded
  <2>10. QED
    BY <2>1, <2>6, <2>8, <2>9, SumsAre
<1>7. \A sources : ReturnedNow(sources)' = ReturnedNow(sources)
  BY PostGrnLines, ReturnsUntouched
<1>8. QED
  BY <1>6, <1>7

LEMMA ReverseGrnEntrySums ==
    ASSUME TypeOK, Shape, NEW g \in Grn, NEW n \in DOMAIN grn[g].lines, ReverseGrnEntry(g, n)
    PROVE  /\ \A i \in Item : AcceptedNow(i)' =
                AcceptedNow(i) - (IF i = grn[g].lines[n].item THEN grn[g].lines[n].accepted ELSE 0)
           /\ \A sources : ReturnedNow(sources)' = ReturnedNow(sources)
<1> DEFINE id0 == <<g, n>>
<1>1. id0 \in GrnLines /\ GrnLineAt(id0) = grn[g].lines[n] /\ GrnLineAt(id0) \in GrnLine
  BY GrnLineIds, GrnLineTyped DEF GrnLineAt
<1>2. ~GrnLineAt(id0).reversed
  BY <1>1 DEF ReverseGrnEntry, Reversible
<1>3. /\ GrnLines' = GrnLines
      /\ GrnLineAt(id0)' = [GrnLineAt(id0) EXCEPT !.reversed = TRUE]
      /\ \A id \in GrnLines : id # id0 => GrnLineAt(id)' = GrnLineAt(id)
  BY ReverseGrnEntryLines
<1> HIDE DEF id0
<1>4. /\ GrnLineAt(id0)'.item = GrnLineAt(id0).item
      /\ GrnLineAt(id0)'.accepted = GrnLineAt(id0).accepted
      /\ GrnLineAt(id0)'.reversed = TRUE
  BY <1>1, <1>3, GrnLineMarked
<1>5. Accepteds' = Accepteds
  BY <1>3, <1>4 DEF Accepteds
<1>6. ASSUME NEW i \in Item
      PROVE  AcceptedNow(i)' = AcceptedNow(i)
                - (IF i = grn[g].lines[n].item THEN grn[g].lines[n].accepted ELSE 0)
  <2>1. CASE i = GrnLineAt(id0).item
    <3>1. Standing(i)' = Standing(i) \ {id0} /\ id0 \in Standing(i)
      BY <1>1, <1>2, <1>3, <1>4, <2>1 DEF Standing
    <3>2. IsFiniteSet(Standing(i)) /\ \A id \in Standing(i) : Accepteds[id] \in Int
      BY LinesCounted
    <3>3. SumFunctionOnSet(Accepteds, Standing(i) \ {id0})
            = SumFunctionOnSet(Accepteds, Standing(i)) - Accepteds[id0]
      BY <3>1, <3>2, SumWithout
    <3>4. Accepteds[id0] = grn[g].lines[n].accepted
      BY <1>1 DEF Accepteds
    <3>5. QED
      BY <1>1, <1>5, <2>1, <3>1, <3>3, <3>4, SumsAre
  <2>2. CASE i # GrnLineAt(id0).item
    <3>1. Standing(i)' = Standing(i)
      BY <1>1, <1>3, <1>4, <2>2 DEF Standing
    <3>2. AcceptedNow(i) \in Nat
      BY SumsCounted
    <3>3. QED
      BY <1>1, <1>5, <2>2, <3>1, <3>2, SumsAre
  <2>3. QED
    BY <2>1, <2>2
<1>7. \A sources : ReturnedNow(sources)' = ReturnedNow(sources)
  BY ReverseGrnEntryLines, ReturnsUntouched
<1>8. QED
  BY <1>6, <1>7

\* The quantity that a return of lines from receipt g takes from the given lines.
GivenBackTo(g, lines, sources) ==
    SumFunctionOnSet([m \in DOMAIN lines |-> lines[m].quantity],
        {m \in DOMAIN lines : <<g, lines[m].line>> \in sources})

LEMMA GivenBackOf ==
    ASSUME NEW g \in Grn, NEW lines, \A m \in DOMAIN lines : <<g, lines[m].line>> \in GrnLines
    PROVE  /\ \A i \in Item : GivenBackTo(g, lines, OfItem(i)) = GivenBack(g, lines, i)
           /\ \A n : GivenBackTo(g, lines, {<<g, n>>}) = TakenFrom(lines, n)
           /\ \A id : id[1] # g => GivenBackTo(g, lines, {id}) = 0
<1> DEFINE f == [m \in DOMAIN lines |-> lines[m].quantity]
<1>1. ASSUME NEW i \in Item PROVE GivenBackTo(g, lines, OfItem(i)) = GivenBack(g, lines, i)
  <2>1. {m \in DOMAIN lines : <<g, lines[m].line>> \in OfItem(i)}
            = {m \in DOMAIN lines : grn[g].lines[lines[m].line].item = i}
    BY DEF OfItem, GrnLineAt
  <2>2. QED
    BY <2>1 DEF GivenBackTo, GivenBack, SumLines
<1>2. ASSUME NEW n PROVE GivenBackTo(g, lines, {<<g, n>>}) = TakenFrom(lines, n)
  <2>1. {m \in DOMAIN lines : <<g, lines[m].line>> \in {<<g, n>>}}
            = {m \in DOMAIN lines : lines[m].line = n}
    OBVIOUS
  <2>2. QED
    BY <2>1 DEF GivenBackTo, TakenFrom, SumLines
<1>3. ASSUME NEW id, id[1] # g PROVE GivenBackTo(g, lines, {id}) = 0
  <2>1. {m \in DOMAIN lines : <<g, lines[m].line>> \in {id}} = {}
    BY <1>3
  <2>2. QED
    BY <2>1, SumEmpty DEF GivenBackTo
<1>4. QED
  BY <1>1, <1>2, <1>3

LEMMA PostReturnSums ==
    ASSUME TypeOK, Shape, NEW r \in Return, NEW g \in Grn, NEW lines \in ReturnInput,
           PostReturn(r, g, lines)
    PROVE  /\ \A i : AcceptedNow(i)' = AcceptedNow(i)
           /\ \A sources : ReturnedNow(sources)' = ReturnedNow(sources) + GivenBackTo(g, lines, sources)
<1>1. lines \in Seq([line : Nat, away : BOOLEAN, quantity : Nat \ {0}])
  BY PurchasingAssumption
<1>2. \A m \in DOMAIN lines : lines[m].quantity \in Nat
  <2>1. \A m \in DOMAIN lines : lines[m] \in [line : Nat, away : BOOLEAN, quantity : Nat \ {0}]
    BY <1>1, LinesFinite
  <2>2. QED
    BY <2>1
<1>3. /\ ReturnLines' = ReturnLines \cup Named(r, DOMAIN lines)
      /\ \A id \in ReturnLines : id[1] # r /\ ReturnLineAt(id)' = ReturnLineAt(id)
  BY PostReturnLines
<1>4. ASSUME NEW m \in DOMAIN lines
      PROVE  /\ <<r, m>> \in ReturnLines'
             /\ ReturnLineAt(<<r, m>>)'.source = <<g, lines[m].line>>
             /\ ReturnLineAt(<<r, m>>)'.quantity = lines[m].quantity
             /\ ReturnLineAt(<<r, m>>)'.reversed = FALSE
  <2>1. ReturnLineAt(<<r, m>>)' = StoredReturn(g, lines[m])
    BY ZenonT(60), PostReturnLines
  <2>2. QED
    BY <1>3, <2>1, NamedAre DEF StoredReturn
<1>5. \A m \in DOMAIN lines : BackQuantities'[<<r, m>>] = lines[m].quantity
  BY <1>4 DEF BackQuantities
<1>6. ASSUME NEW sources
      PROVE  ReturnedNow(sources)' = ReturnedNow(sources) + GivenBackTo(g, lines, sources)
  <2> DEFINE N == {m \in DOMAIN lines : <<g, lines[m].line>> \in sources}
  <2> DEFINE f == [m \in DOMAIN lines |-> lines[m].quantity]
  <2>1. Back(sources)' = Back(sources) \cup Named(r, N)
    <3>1. ASSUME NEW id \in ReturnLines PROVE id \in Back(sources)' <=> id \in Back(sources)
      BY <1>3 DEF Back
    <3>2. ASSUME NEW m \in DOMAIN lines PROVE <<r, m>> \in Back(sources)' <=> m \in N
      BY <1>4 DEF Back
    <3>3. \A id \in Back(sources)' : id \in ReturnLines \/ id \in Named(r, DOMAIN lines)
      BY <1>3 DEF Back
    <3>4. Back(sources) \subseteq ReturnLines /\ N \subseteq DOMAIN lines
      BY DEF Back
    <3> HIDE DEF N
    <3>5. ASSUME NEW id \in Back(sources)' PROVE id \in Back(sources) \cup Named(r, N)
      BY <3>1, <3>2, <3>3, NamedAre
    <3>6. ASSUME NEW id \in Back(sources) \cup Named(r, N) PROVE id \in Back(sources)'
      BY <3>1, <3>2, <3>4, NamedAre
    <3>7. QED
      BY <3>5, <3>6
  <2>2. IsFiniteSet(Back(sources)) /\ \A id \in Back(sources) : BackQuantities[id] \in Int
    BY LinesCounted
  <2>3. Back(sources) \cap Named(r, N) = {}
    BY <1>3, NamedAre DEF Back
  <2>4. \A id \in Back(sources) : BackQuantities'[id] = BackQuantities[id]
    BY <1>3 DEF Back, BackQuantities
  <2>5. Alike(r, N, f, BackQuantities') /\ \A id \in Named(r, N) : BackQuantities'[id] \in Int
    <3>1. \A m \in N : f[m] \in Int /\ BackQuantities'[<<r, m>>] = f[m]
      BY <1>2, <1>5
    <3> HIDE DEF f, N
    <3>2. QED
      BY <3>1, NamedAre DEF Alike
  <2>6. GivenBackTo(g, lines, sources) = SumFunctionOnSet(f, N)
    BY DEF GivenBackTo
  <2>7. IsFiniteSet(N)
    BY <1>1, LinesFinite
  <2> HIDE DEF f, N
  <2>8. /\ IsFiniteSet(Named(r, N))
        /\ SumFunctionOnSet(BackQuantities', Named(r, N)) = SumFunctionOnSet(f, N)
    BY <2>5, <2>7, SumNamed
  <2>9. SumFunctionOnSet(BackQuantities', Back(sources) \cup Named(r, N))
            = SumFunctionOnSet(BackQuantities, Back(sources)) + SumFunctionOnSet(BackQuantities', Named(r, N))
    BY <2>2, <2>3, <2>4, <2>5, <2>8, SumAdded
  <2>10. QED
    BY <2>1, <2>6, <2>8, <2>9, SumsAre
<1>7. \A i : AcceptedNow(i)' = AcceptedNow(i)
  <2>1. GrnLines' = GrnLines
    BY PostReturnLines
  <2>2. ASSUME NEW id \in GrnLines
        PROVE  /\ GrnLineAt(id)'.accepted = GrnLineAt(id).accepted
               /\ GrnLineAt(id)'.item = GrnLineAt(id).item
               /\ GrnLineAt(id)'.reversed = GrnLineAt(id).reversed
    <3>1. GrnLineAt(id) \in GrnLine /\ TakenFrom(lines, id[2]) \in Int
      BY GrnLineTyped, ReturnSums
    <3>2. \/ GrnLineAt(id)' = ReturnedMore(GrnLineAt(id), TakenFrom(lines, id[2]))
          \/ GrnLineAt(id)' = GrnLineAt(id)
      BY PostReturnLines
    <3>3. QED
      BY <3>1, <3>2, GrnLineReturned
  <2>3. QED
    BY <2>1, <2>2, ReceiptsUntouched
<1>8. QED
  BY <1>6, <1>7

LEMMA ReverseReturnEntrySums ==
    ASSUME TypeOK, Shape, NEW r \in Return, NEW m \in DOMAIN return[r].lines,
           ReverseReturnEntry(r, m),
           NEW id0, id0 = <<r, m>>, NEW src, src = ReturnLineAt(id0).source
    PROVE  /\ \A i : AcceptedNow(i)' = AcceptedNow(i)
           /\ \A sources : ReturnedNow(sources)' = ReturnedNow(sources)
                - (IF src \in sources THEN ReturnLineAt(id0).quantity ELSE 0)
<1>1. id0 \in ReturnLines /\ ReturnLineAt(id0) = return[r].lines[m] /\ ReturnLineAt(id0) \in ReturnLine
  BY ReturnLineIds, ReturnLineTyped DEF ReturnLineAt
<1>2. ~ReturnLineAt(id0).reversed /\ ReturnLineAt(id0).quantity \in Nat
  BY <1>1 DEF ReverseReturnEntry, ReturnLine
<1>3. /\ ReturnLines' = ReturnLines
      /\ ReturnLineAt(id0)' = [ReturnLineAt(id0) EXCEPT !.reversed = TRUE]
      /\ \A id \in ReturnLines : id # id0 => ReturnLineAt(id)' = ReturnLineAt(id)
      /\ GrnLines' = GrnLines /\ src \in GrnLines
      /\ GrnLineAt(src)' = ReturnedMore(GrnLineAt(src), -ReturnLineAt(id0).quantity)
      /\ \A id \in GrnLines : id # src => GrnLineAt(id)' = GrnLineAt(id)
  <2>1. TookBack(id0, src)
    BY ReverseReturnEntryLines
  <2>2. QED
    BY <2>1 DEF TookBack
<1>4. /\ ReturnLineAt(id0)'.source = src
      /\ ReturnLineAt(id0)'.quantity = ReturnLineAt(id0).quantity
      /\ ReturnLineAt(id0)'.reversed = TRUE
  BY <1>1, <1>3, ReturnLineMarked
<1>5. BackQuantities' = BackQuantities
  BY <1>3, <1>4 DEF BackQuantities
<1>6. ASSUME NEW sources
      PROVE  ReturnedNow(sources)' = ReturnedNow(sources)
                - (IF src \in sources THEN ReturnLineAt(id0).quantity ELSE 0)
  <2>1. CASE src \in sources
    <3>1. Back(sources)' = Back(sources) \ {id0} /\ id0 \in Back(sources)
      BY <1>1, <1>2, <1>3, <1>4, <2>1 DEF Back
    <3>2. IsFiniteSet(Back(sources)) /\ \A id \in Back(sources) : BackQuantities[id] \in Int
      BY LinesCounted
    <3>3. SumFunctionOnSet(BackQuantities, Back(sources) \ {id0})
            = SumFunctionOnSet(BackQuantities, Back(sources)) - BackQuantities[id0]
      BY <3>1, <3>2, SumWithout
    <3>4. BackQuantities[id0] = ReturnLineAt(id0).quantity
      BY <1>1 DEF BackQuantities
    <3>5. QED
      BY <1>5, <2>1, <3>1, <3>3, <3>4, SumsAre
  <2>2. CASE src \notin sources
    <3>1. Back(sources)' = Back(sources)
      BY <1>1, <1>3, <1>4, <2>2 DEF Back
    <3>2. ReturnedNow(sources) \in Nat
      BY SumsCounted
    <3>3. QED
      BY <1>5, <2>2, <3>1, <3>2, SumsAre
  <2>3. QED
    BY <2>1, <2>2
<1>7. \A i : AcceptedNow(i)' = AcceptedNow(i)
  <2>1. GrnLineAt(src) \in GrnLine /\ -ReturnLineAt(id0).quantity \in Int
    BY <1>2, <1>3, GrnLineTyped
  <2>2. /\ GrnLineAt(src)'.accepted = GrnLineAt(src).accepted
        /\ GrnLineAt(src)'.item = GrnLineAt(src).item
        /\ GrnLineAt(src)'.reversed = GrnLineAt(src).reversed
    BY <1>3, <2>1, GrnLineReturned
  <2>3. QED
    BY <1>3, <2>2, ReceiptsUntouched
<1>8. QED
  BY <1>6, <1>7

-----------------------------------------------------------------------------
(***************************************************************************)
(* The counters agree with the documents.                                  *)
(***************************************************************************)

LEMMA CountersBefore ==
    ASSUME CountersMatchDocuments
    PROVE  /\ \A i \in Item : received[i] = AcceptedNow(i) - ReturnedNow(OfItem(i))
           /\ \A id \in GrnLines : GrnLineAt(id).returned = ReturnedNow({id})
BY DEF CountersMatchDocuments, OfItem

LEMMA CountersAfter ==
    ASSUME \A i \in Item : \E sources : /\ sources = OfItem(i)'
                                        /\ received'[i] = AcceptedNow(i)' - ReturnedNow(sources)',
           \A id \in GrnLines' : GrnLineAt(id)'.returned = ReturnedNow({id})'
    PROVE  CountersMatchDocuments'
<1>1. ASSUME NEW i \in Item
      PROVE  received'[i] = (AcceptedNow(i) - ReturnedNow({id \in GrnLines : GrnLineAt(id).item = i}))'
  <2>1. PICK sources : /\ sources = OfItem(i)'
                       /\ received'[i] = AcceptedNow(i)' - ReturnedNow(sources)'
    OBVIOUS
  <2>2. sources = {id \in GrnLines : GrnLineAt(id).item = i}'
    BY <2>1 DEF OfItem
  <2>3. ReturnedNow(sources)' = ReturnedNow({id \in GrnLines : GrnLineAt(id).item = i})'
    BY <2>2 DEF ReturnedNow
  <2>4. QED
    BY <2>1, <2>3
<1>2. QED
  BY <1>1 DEF CountersMatchDocuments

\* No line changes its item, so the returns of an item stay returns of it.
LEMMA OfItemKept ==
    ASSUME Shape, GrnLines \subseteq GrnLines',
           \A id \in GrnLines : GrnLineAt(id)'.item = GrnLineAt(id).item, NEW i
    PROVE  \E sources : /\ sources = OfItem(i)' /\ ReturnedNow(sources) = ReturnedNow(OfItem(i))
                        /\ \A id \in GrnLines : id \in sources <=> GrnLineAt(id).item = i
<1>1. PICK sources : sources = OfItem(i)'
  OBVIOUS
<1>2. \A id \in GrnLines : id \in sources <=> id \in OfItem(i)
  BY <1>1 DEF OfItem
<1>3. \A id \in ReturnLines : ReturnLineAt(id).source \in GrnLines
  BY DEF Shape
<1>4. PICK old : old = OfItem(i)
  OBVIOUS
<1>5. \A id \in ReturnLines : ReturnLineAt(id).source \in sources <=> ReturnLineAt(id).source \in old
  BY <1>2, <1>3, <1>4
<1>6. ReturnedNow(sources) = ReturnedNow(old)
  BY <1>5, ReturnedSame
<1>7. ReturnedNow(old) = ReturnedNow(OfItem(i))
  BY <1>4
<1>8. QED
  BY <1>1, <1>2, <1>6, <1>7 DEF OfItem

\* Nothing was returned of a line that is not there.
LEMMA NothingReturnedOfNew ==
    ASSUME Shape, NEW id, id \notin GrnLines
    PROVE  ReturnedNow({id}) = 0
<1>1. Back({id}) = {}
  BY DEF Back, Shape
<1>2. QED
  BY <1>1, SumEmpty, SumsAre

LEMMA PostGrnCounters ==
    ASSUME TypeOK, Shape, CountersMatchDocuments,
           NEW g \in Grn, NEW lines \in GrnInput, PostGrn(g, lines)
    PROVE  CountersMatchDocuments'
<1>1. /\ GrnLines' = GrnLines \cup Named(g, DOMAIN lines)
      /\ \A id \in GrnLines : id[1] # g /\ GrnLineAt(id)' = GrnLineAt(id)
  BY PostGrnLines
<1>2. ASSUME NEW i \in Item
      PROVE  \E sources : /\ sources = OfItem(i)'
                          /\ received'[i] = AcceptedNow(i)' - ReturnedNow(sources)'
  <2>1. PICK sources : sources = OfItem(i)' /\ ReturnedNow(sources) = ReturnedNow(OfItem(i))
    BY <1>1, OfItemKept
  <2>2. received'[i] = received[i] + AcceptedOf(lines, i)
    BY DEF PostGrn, Book
  <2>3. /\ AcceptedNow(i)' = AcceptedNow(i) + AcceptedOf(lines, i)
        /\ ReturnedNow(sources)' = ReturnedNow(sources)
    BY PostGrnSums
  <2>4. AcceptedNow(i) \in Nat /\ ReturnedNow(sources) \in Nat /\ AcceptedOf(lines, i) \in Nat
    BY SumsCounted, GrnSums, PurchasingAssumption
  <2>5. received[i] = AcceptedNow(i) - ReturnedNow(sources)
    BY <2>1, CountersBefore
  <2>6. received'[i] = AcceptedNow(i)' - ReturnedNow(sources)'
    BY <2>2, <2>3, <2>4, <2>5
  <2>7. QED
    BY <2>1, <2>6
<1>3. ASSUME NEW id \in GrnLines' PROVE GrnLineAt(id)'.returned = ReturnedNow({id})'
  <2>1. ReturnedNow({id})' = ReturnedNow({id})
    BY PostGrnSums
  <2>2. CASE id \in GrnLines
    BY <1>1, <2>1, <2>2, CountersBefore
  <2>3. CASE id \in Named(g, DOMAIN lines)
    <3>1. id = <<g, id[2]>> /\ id[2] \in DOMAIN lines /\ id[1] = g
      BY <2>3, NamedAre
    <3>2. GrnLineAt(id)' = Stored(lines[id[2]])
      BY <3>1, PostGrnLines
    <3>3. id \notin GrnLines
      BY <1>1, <3>1
    <3>4. QED
      BY <2>1, <3>2, <3>3, NothingReturnedOfNew DEF Stored
  <2>4. QED
    BY <1>1, <2>2, <2>3
<1>4. QED
  BY <1>2, <1>3, CountersAfter

LEMMA ReverseGrnEntryCounters ==
    ASSUME TypeOK, Shape, CountersMatchDocuments,
           NEW g \in Grn, NEW n \in DOMAIN grn[g].lines, ReverseGrnEntry(g, n)
    PROVE  CountersMatchDocuments'
<1>1. /\ GrnLines' = GrnLines /\ <<g, n>> \in GrnLines
      /\ GrnLineAt(<<g, n>>)' = [GrnLineAt(<<g, n>>) EXCEPT !.reversed = TRUE]
      /\ \A id \in GrnLines : id # <<g, n>> => GrnLineAt(id)' = GrnLineAt(id)
  BY ReverseGrnEntryLines
<1>2. ASSUME NEW id \in GrnLines
      PROVE  /\ GrnLineAt(id)'.item = GrnLineAt(id).item
             /\ GrnLineAt(id)'.returned = GrnLineAt(id).returned
  BY ZenonT(60), <1>1, GrnLineTyped, GrnLineMarked
<1>3. ASSUME NEW i \in Item
      PROVE  \E sources : /\ sources = OfItem(i)'
                          /\ received'[i] = AcceptedNow(i)' - ReturnedNow(sources)'
  <2> DEFINE taken == IF i = grn[g].lines[n].item THEN grn[g].lines[n].accepted ELSE 0
  <2>1. PICK sources : sources = OfItem(i)' /\ ReturnedNow(sources) = ReturnedNow(OfItem(i))
    BY <1>1, <1>2, OfItemKept
  <2>2. grn[g].lines[n] \in GrnLine
    BY DEF TypeOK
  <2>3. taken \in Nat
    BY <2>2 DEF GrnLine
  <2>4. received'[i] = received[i] - taken
    <3>1. received'[i] = received[i] + (IF i = grn[g].lines[n].item THEN -grn[g].lines[n].accepted ELSE 0)
      BY DEF ReverseGrnEntry, Book
    <3>2. received[i] \in Int
      BY DEF TypeOK
    <3>3. QED
      BY <2>3, <3>1, <3>2
  <2>5. AcceptedNow(i)' = AcceptedNow(i) - taken /\ ReturnedNow(sources)' = ReturnedNow(sources)
    BY ReverseGrnEntrySums
  <2>6. AcceptedNow(i) \in Nat /\ ReturnedNow(sources) \in Nat
    BY SumsCounted
  <2>7. received[i] = AcceptedNow(i) - ReturnedNow(sources)
    BY <2>1, CountersBefore
  <2> HIDE DEF taken
  <2>8. received'[i] = AcceptedNow(i)' - ReturnedNow(sources)'
    BY <2>3, <2>4, <2>5, <2>6, <2>7
  <2>9. QED
    BY <2>1, <2>8
<1>4. ASSUME NEW id \in GrnLines' PROVE GrnLineAt(id)'.returned = ReturnedNow({id})'
  <2>1. ReturnedNow({id})' = ReturnedNow({id})
    BY ReverseGrnEntrySums
  <2>2. QED
    BY <1>1, <1>2, <2>1, CountersBefore
<1>5. QED
  BY <1>3, <1>4, CountersAfter

LEMMA PostReturnCounters ==
    ASSUME TypeOK, Shape, CountersMatchDocuments,
           NEW r \in Return, NEW g \in Grn, NEW lines \in ReturnInput, PostReturn(r, g, lines)
    PROVE  CountersMatchDocuments'
<1>1. /\ GrnLines' = GrnLines
      /\ \A id \in GrnLines : GrnLineAt(id)' =
            IF id[1] = g THEN ReturnedMore(GrnLineAt(id), TakenFrom(lines, id[2]))
            ELSE GrnLineAt(id)
      /\ \A m \in DOMAIN lines : <<g, lines[m].line>> \in GrnLines
  BY PostReturnLines
<1>2. ASSUME NEW id \in GrnLines
      PROVE  /\ GrnLineAt(id)'.item = GrnLineAt(id).item
             /\ GrnLineAt(id)'.returned = GrnLineAt(id).returned + GivenBackTo(g, lines, {id})
             /\ GrnLineAt(id).returned \in Int
  <2>1. GrnLineAt(id) \in GrnLine /\ TakenFrom(lines, id[2]) \in Int
    BY GrnLineTyped, ReturnSums
  <2>2. GrnLineAt(id).returned \in Int
    BY <2>1 DEF GrnLine
  <2>3. CASE id[1] = g
    <3>1. id = <<g, id[2]>>
      BY <2>3, GrnLineIds
    <3>2. GivenBackTo(g, lines, {id}) = TakenFrom(lines, id[2])
      BY <1>1, <3>1, GivenBackOf
    <3>3. QED
      BY <1>1, <2>1, <2>2, <2>3, <3>2, GrnLineReturned
  <2>4. CASE id[1] # g
    <3>1. GivenBackTo(g, lines, {id}) = 0
      BY <1>1, <2>4, GivenBackOf
    <3>2. QED
      BY <1>1, <2>2, <2>4, <3>1
  <2>5. QED
    BY <2>3, <2>4
<1>3. ASSUME NEW i \in Item
      PROVE  \E sources : /\ sources = OfItem(i)'
                          /\ received'[i] = AcceptedNow(i)' - ReturnedNow(sources)'
  <2>1. PICK sources : /\ sources = OfItem(i)' /\ ReturnedNow(sources) = ReturnedNow(OfItem(i))
                       /\ \A id \in GrnLines : id \in sources <=> GrnLineAt(id).item = i
    BY <1>1, <1>2, OfItemKept
  <2>2. GivenBackTo(g, lines, sources) = GivenBack(g, lines, i)
    <3>1. {m \in DOMAIN lines : <<g, lines[m].line>> \in sources}
            = {m \in DOMAIN lines : grn[g].lines[lines[m].line].item = i}
      <4>1. \A m \in DOMAIN lines : GrnLineAt(<<g, lines[m].line>>) = grn[g].lines[lines[m].line]
        BY DEF GrnLineAt
      <4>2. QED
        BY <1>1, <2>1, <4>1
    <3>2. QED
      BY <3>1 DEF GivenBackTo, GivenBack, SumLines
  <2>3. received'[i] = received[i] - GivenBack(g, lines, i)
    <3>1. received'[i] = received[i] + (-GivenBack(g, lines, i))
      BY DEF PostReturn, Book
    <3>2. received[i] \in Int /\ GivenBack(g, lines, i) \in Nat
      BY ReturnSums DEF TypeOK
    <3>3. QED
      BY <3>1, <3>2
  <2>4. /\ AcceptedNow(i)' = AcceptedNow(i)
        /\ ReturnedNow(sources)' = ReturnedNow(sources) + GivenBackTo(g, lines, sources)
    BY PostReturnSums
  <2>5. AcceptedNow(i) \in Nat /\ ReturnedNow(sources) \in Nat /\ GivenBack(g, lines, i) \in Nat
    BY SumsCounted, ReturnSums
  <2>6. received[i] = AcceptedNow(i) - ReturnedNow(sources)
    BY <2>1, CountersBefore
  <2>7. received'[i] = AcceptedNow(i)' - ReturnedNow(sources)'
    BY <2>2, <2>3, <2>4, <2>5, <2>6
  <2>8. QED
    BY <2>1, <2>7
<1>4. ASSUME NEW id \in GrnLines' PROVE GrnLineAt(id)'.returned = ReturnedNow({id})'
  <2>1. ReturnedNow({id})' = ReturnedNow({id}) + GivenBackTo(g, lines, {id})
    BY PostReturnSums
  <2>2. QED
    BY <1>1, <1>2, <2>1, CountersBefore
<1>5. QED
  BY <1>3, <1>4, CountersAfter

LEMMA ReverseReturnEntryCounters ==
    ASSUME TypeOK, Shape, CountersMatchDocuments,
           NEW r \in Return, NEW m \in DOMAIN return[r].lines, ReverseReturnEntry(r, m)
    PROVE  CountersMatchDocuments'
<1>1. PICK id0 : id0 = <<r, m>>
  OBVIOUS
<1>2. PICK src : src = ReturnLineAt(id0).source
  OBVIOUS
<1>3. PICK quantity : quantity = ReturnLineAt(id0).quantity
  OBVIOUS
<1>4. TookBack(id0, src)
  BY <1>1, <1>2, ReverseReturnEntryLines
<1>5. /\ GrnLines' = GrnLines /\ id0 \in ReturnLines /\ src \in GrnLines
      /\ GrnLineAt(src)' = ReturnedMore(GrnLineAt(src), -quantity)
      /\ \A id \in GrnLines : id # src => GrnLineAt(id)' = GrnLineAt(id)
  BY <1>3, <1>4 DEF TookBack
<1>6. quantity \in Nat
  BY <1>3, <1>5, ReturnLineTyped DEF ReturnLine
<1>7. /\ \A i : AcceptedNow(i)' = AcceptedNow(i)
      /\ \A sources : ReturnedNow(sources)' =
            ReturnedNow(sources) - (IF src \in sources THEN quantity ELSE 0)
  BY <1>1, <1>2, <1>3, ReverseReturnEntrySums
<1>8. ASSUME NEW id \in GrnLines
      PROVE  /\ GrnLineAt(id)'.item = GrnLineAt(id).item
             /\ GrnLineAt(id)'.returned = GrnLineAt(id).returned - (IF id = src THEN quantity ELSE 0)
             /\ GrnLineAt(id).returned \in Int
  <2>1. GrnLineAt(id) \in GrnLine /\ -quantity \in Int
    BY <1>6, GrnLineTyped
  <2>2. GrnLineAt(id).returned \in Int
    BY <2>1 DEF GrnLine
  <2>3. CASE id = src
    <3>1. GrnLineAt(id)' = ReturnedMore(GrnLineAt(id), -quantity)
      BY <1>5, <2>3
    <3>2. GrnLineAt(id)'.item = GrnLineAt(id).item
      BY <2>1, <3>1, GrnLineReturned
    <3>3. GrnLineAt(id)'.returned = GrnLineAt(id).returned + (-quantity)
      BY <2>1, <3>1, GrnLineReturned
    <3>4. QED
      BY <1>6, <2>2, <2>3, <3>2, <3>3
  <2>4. CASE id # src
    BY <1>5, <2>2, <2>4
  <2>5. QED
    BY <2>3, <2>4
<1>9. ASSUME NEW i \in Item
      PROVE  \E sources : /\ sources = OfItem(i)'
                          /\ received'[i] = AcceptedNow(i)' - ReturnedNow(sources)'
  <2> DEFINE taken == IF GrnLineAt(src).item = i THEN quantity ELSE 0
  <2>1. PICK sources : /\ sources = OfItem(i)' /\ ReturnedNow(sources) = ReturnedNow(OfItem(i))
                       /\ \A id \in GrnLines : id \in sources <=> GrnLineAt(id).item = i
    BY <1>5, <1>8, OfItemKept
  <2>2. taken \in Nat
    BY <1>6
  <2>3. received'[i] = received[i] + taken
    <3>1. ReturnLineAt(id0) = return[r].lines[m] /\ GrnLineAt(src) = grn[src[1]].lines[src[2]]
      BY <1>1 DEF ReturnLineAt, GrnLineAt
    <3>2. received'[i] = received[i] + (IF i = GrnLineAt(src).item THEN quantity ELSE 0)
      BY <1>2, <1>3, <3>1 DEF ReverseReturnEntry, Book
    <3>3. QED
      BY <3>2
  <2>4. ReturnedNow(sources)' = ReturnedNow(sources) - taken
    BY <1>5, <1>7, <2>1
  <2>5. AcceptedNow(i) \in Nat /\ ReturnedNow(sources) \in Nat /\ AcceptedNow(i)' = AcceptedNow(i)
    BY <1>7, SumsCounted
  <2>6. received[i] = AcceptedNow(i) - ReturnedNow(sources)
    BY <2>1, CountersBefore
  <2> HIDE DEF taken
  <2>7. received'[i] = AcceptedNow(i)' - ReturnedNow(sources)'
    BY <2>2, <2>3, <2>4, <2>5, <2>6
  <2>8. QED
    BY <2>1, <2>7
<1>10. ASSUME NEW id \in GrnLines' PROVE GrnLineAt(id)'.returned = ReturnedNow({id})'
  <2>1. ReturnedNow({id})' = ReturnedNow({id}) - (IF id = src THEN quantity ELSE 0)
    BY <1>7
  <2>2. QED
    BY <1>5, <1>8, <2>1, CountersBefore
<1>11. QED
  BY <1>9, <1>10, CountersAfter

\* The other steps leave the documents and the counters alone.
OrderStep ==
    \/ \E input \in OrderInput :
          (\E submit \in BOOLEAN : Create(input, submit)) \/ UpdateDraft(input)
    \/ Submit \/ Cancel \/ ShortClose
    \/ \E b \in Batch, quantity \in 0..MaxStock : MoveStock(b, quantity)
    \/ UNCHANGED vars

LEMMA OrderStepCounters ==
    ASSUME OrderStep
    PROVE  /\ UNCHANGED <<received, grn, return>>
           /\ CountersMatchDocuments => CountersMatchDocuments'
<1>1. UNCHANGED <<received, grn, return>>
  BY DEF OrderStep, Create, UpdateDraft, Submit, Cancel, ShortClose, MoveStock, vars
<1>2. ASSUME CountersMatchDocuments PROVE CountersMatchDocuments'
  <2>1. /\ GrnLines' = GrnLines /\ \A id : GrnLineAt(id)' = GrnLineAt(id)
        /\ ReturnLines' = ReturnLines /\ \A id : ReturnLineAt(id)' = ReturnLineAt(id)
    BY <1>1, LinesUntouched
  <2>2. \A sources : ReturnedNow(sources)' = ReturnedNow(sources)
    BY <2>1, ReturnsUntouched
  <2>3. \A i : AcceptedNow(i)' = AcceptedNow(i)
    BY <2>1, ReceiptsUntouched
  <2>4. ASSUME NEW i \in Item
        PROVE  \E sources : /\ sources = OfItem(i)'
                            /\ received'[i] = AcceptedNow(i)' - ReturnedNow(sources)'
    <3>1. PICK sources : sources = OfItem(i)
      OBVIOUS
    <3>2. sources = OfItem(i)'
      BY <2>1, <3>1 DEF OfItem
    <3>3. received[i] = AcceptedNow(i) - ReturnedNow(sources)
      BY <1>2, <3>1, CountersBefore
    <3>4. QED
      BY <1>1, <2>2, <2>3, <3>2, <3>3
  <2>5. \A id \in GrnLines' : GrnLineAt(id)'.returned = ReturnedNow({id})'
    BY <1>2, <2>1, <2>2, CountersBefore
  <2>6. QED
    BY <2>4, <2>5, CountersAfter
<1>3. QED
  BY <1>1, <1>2

-----------------------------------------------------------------------------
(***************************************************************************)
(* The shape of the documents is kept.                                     *)
(***************************************************************************)

LEMMA DerivedIs == \A total, reversed : Derived(total, reversed) # "ABSENT"
BY DEF Derived

LEMMA BookedStatus ==
    ASSUME NEW delta, Book(delta)
    PROVE  /\ status' \in {"ABSENT", "DRAFT"} => status = "DRAFT"
           /\ status' = status \/ status' = Progress(received')
BY DEF Book, Recomputed, Progress

LEMMA PostGrnShape ==
    ASSUME TypeOK, Shape, NEW g \in Grn, NEW lines \in GrnInput, PostGrn(g, lines)
    PROVE  Shape'
<1>1. /\ GrnLines' = GrnLines \cup Named(g, DOMAIN lines)
      /\ IsFiniteSet(GrnLines')
      /\ \A id \in GrnLines : id[1] # g /\ GrnLineAt(id)' = GrnLineAt(id)
      /\ ReturnLines' = ReturnLines /\ \A id : ReturnLineAt(id)' = ReturnLineAt(id)
  BY PostGrnLines
<1>2. /\ return' = return /\ grn'[g].status = "POSTED"
      /\ \A h \in Grn : h # g => grn'[h] = grn[h]
  BY DEF PostGrn, TypeOK
<1>3. \A h \in Grn : grn'[h].status = "ABSENT" => grn'[h].lines = <<>>
  BY <1>2 DEF Shape
<1>4. \A r \in Return : return'[r].status = "ABSENT" => return'[r].lines = <<>>
  BY <1>2 DEF Shape
<1>5. ASSUME NEW id \in ReturnLines' PROVE ReturnLineAt(id)'.source \in GrnLines'
  BY <1>1 DEF Shape
<1>6. ASSUME NEW id \in GrnLines', GrnLineAt(id)'.reversed PROVE GrnLineAt(id)'.accepted > 0
  <2>1. CASE id \in GrnLines
    BY <1>1, <1>6, <2>1 DEF Shape
  <2>2. CASE id \in Named(g, DOMAIN lines)
    <3>1. id = <<g, id[2]>> /\ id[2] \in DOMAIN lines
      BY <2>2, NamedAre
    <3>2. GrnLineAt(id)' = Stored(lines[id[2]])
      BY <3>1, PostGrnLines
    <3>3. QED
      BY <1>6, <3>2 DEF Stored
  <2>3. QED
    BY <1>1, <2>1, <2>2
<1>7. status' \notin {"ABSENT", "DRAFT"}
  BY BookedStatus DEF PostGrn, Receivable
<1>8. IsFiniteSet(ReturnLines')
  BY <1>1 DEF Shape
<1>9. QED
  BY <1>1, <1>3, <1>4, <1>5, <1>6, <1>7, <1>8 DEF Shape

LEMMA ReverseGrnEntryShape ==
    ASSUME TypeOK, Shape, NEW g \in Grn, NEW n \in DOMAIN grn[g].lines, ReverseGrnEntry(g, n)
    PROVE  Shape'
<1>1. PICK id0 : id0 = <<g, n>>
  OBVIOUS
<1>2. /\ GrnLines' = GrnLines /\ id0 \in GrnLines
      /\ GrnLineAt(id0)' = [GrnLineAt(id0) EXCEPT !.reversed = TRUE]
      /\ \A id \in GrnLines : id # id0 => GrnLineAt(id)' = GrnLineAt(id)
      /\ ReturnLines' = ReturnLines /\ \A id : ReturnLineAt(id)' = ReturnLineAt(id)
  BY <1>1, ReverseGrnEntryLines
<1>3. /\ return' = return /\ grn'[g].status # "ABSENT"
      /\ \A h \in Grn : h # g => grn'[h] = grn[h]
  BY DerivedIs DEF ReverseGrnEntry, TypeOK
<1>4. \A h \in Grn : grn'[h].status = "ABSENT" => grn'[h].lines = <<>>
  BY <1>3 DEF Shape
<1>5. \A r \in Return : return'[r].status = "ABSENT" => return'[r].lines = <<>>
  BY <1>3 DEF Shape
<1>6. ASSUME NEW id \in ReturnLines' PROVE ReturnLineAt(id)'.source \in GrnLines'
  BY <1>2 DEF Shape
<1>7. ASSUME NEW id \in GrnLines', GrnLineAt(id)'.reversed PROVE GrnLineAt(id)'.accepted > 0
  <2>1. CASE id = id0
    <3>1. GrnLineAt(id0) = grn[g].lines[n]
      BY <1>1 DEF GrnLineAt
    <3>2. GrnLineAt(id0).accepted > 0
      BY <3>1 DEF ReverseGrnEntry, Reversible
    <3>3. GrnLineAt(id0)'.accepted = GrnLineAt(id0).accepted
      BY <1>2, GrnLineTyped, GrnLineMarked
    <3>4. QED
      BY <2>1, <3>2, <3>3
  <2>2. CASE id # id0
    BY <1>2, <1>7, <2>2 DEF Shape
  <2>3. QED
    BY <2>1, <2>2
<1>8. status' \notin {"ABSENT", "DRAFT"}
  <2>1. status # "DRAFT"
    BY <1>2 DEF Shape
  <2>2. QED
    BY <2>1, BookedStatus DEF ReverseGrnEntry
<1>9. IsFiniteSet(GrnLines') /\ IsFiniteSet(ReturnLines')
  BY <1>2 DEF Shape
<1>10. QED
  BY <1>4, <1>5, <1>6, <1>7, <1>8, <1>9 DEF Shape

LEMMA PostReturnShape ==
    ASSUME TypeOK, Shape, NEW r \in Return, NEW g \in Grn, NEW lines \in ReturnInput,
           PostReturn(r, g, lines)
    PROVE  Shape'
<1>1. /\ ReturnLines' = ReturnLines \cup Named(r, DOMAIN lines)
      /\ IsFiniteSet(ReturnLines')
      /\ \A id \in ReturnLines : id[1] # r /\ ReturnLineAt(id)' = ReturnLineAt(id)
      /\ \A m \in DOMAIN lines : /\ ReturnLineAt(<<r, m>>)' = StoredReturn(g, lines[m])
                                 /\ <<g, lines[m].line>> \in GrnLines
      /\ GrnLines' = GrnLines
      /\ \A id \in GrnLines : GrnLineAt(id)' =
            IF id[1] = g THEN ReturnedMore(GrnLineAt(id), TakenFrom(lines, id[2]))
            ELSE GrnLineAt(id)
  BY PostReturnLines
<1>2. /\ return'[r].status = "POSTED" /\ \A q \in Return : q # r => return'[q] = return[q]
      /\ grn[g].status # "ABSENT" /\ grn'[g].status = grn[g].status
      /\ \A h \in Grn : h # g => grn'[h] = grn[h]
  BY DEF PostReturn, TypeOK
<1>3. \A h \in Grn : grn'[h].status = "ABSENT" => grn'[h].lines = <<>>
  BY <1>2 DEF Shape
<1>4. \A q \in Return : return'[q].status = "ABSENT" => return'[q].lines = <<>>
  BY <1>2 DEF Shape
<1>5. ASSUME NEW id \in ReturnLines' PROVE ReturnLineAt(id)'.source \in GrnLines'
  <2>1. CASE id \in ReturnLines
    BY <1>1, <2>1 DEF Shape
  <2>2. CASE id \in Named(r, DOMAIN lines)
    <3>1. id = <<r, id[2]>> /\ id[2] \in DOMAIN lines
      BY <2>2, NamedAre
    <3>2. ReturnLineAt(id)' = StoredReturn(g, lines[id[2]]) /\ <<g, lines[id[2]].line>> \in GrnLines
      BY <1>1, <3>1
    <3>3. QED
      BY <1>1, <3>2 DEF StoredReturn
  <2>3. QED
    BY <1>1, <2>1, <2>2
<1>6. ASSUME NEW id \in GrnLines', GrnLineAt(id)'.reversed PROVE GrnLineAt(id)'.accepted > 0
  <2>1. GrnLineAt(id) \in GrnLine /\ TakenFrom(lines, id[2]) \in Int
    BY <1>1, GrnLineTyped, ReturnSums
  <2>2. /\ GrnLineAt(id)'.accepted = GrnLineAt(id).accepted
        /\ GrnLineAt(id)'.reversed = GrnLineAt(id).reversed
    BY <1>1, <2>1, GrnLineReturned
  <2>3. QED
    BY <1>1, <1>6, <2>2 DEF Shape
<1>7. status' \in {"ABSENT", "DRAFT"} => GrnLines' = {}
  BY <1>1, BookedStatus DEF PostReturn, Shape
<1>8. IsFiniteSet(GrnLines')
  BY <1>1 DEF Shape
<1>9. QED
  BY <1>1, <1>3, <1>4, <1>5, <1>6, <1>7, <1>8 DEF Shape

LEMMA ReverseReturnEntryShape ==
    ASSUME TypeOK, Shape, NEW r \in Return, NEW m \in DOMAIN return[r].lines,
           ReverseReturnEntry(r, m)
    PROVE  Shape'
<1>1. PICK id0 : id0 = <<r, m>>
  OBVIOUS
<1>2. PICK src : src = ReturnLineAt(id0).source
  OBVIOUS
<1>3. TookBack(id0, src)
  BY <1>1, <1>2, ReverseReturnEntryLines
<1>4. /\ ReturnLines' = ReturnLines /\ id0 \in ReturnLines
      /\ ReturnLineAt(id0)' = [ReturnLineAt(id0) EXCEPT !.reversed = TRUE]
      /\ \A id \in ReturnLines : id # id0 => ReturnLineAt(id)' = ReturnLineAt(id)
      /\ GrnLines' = GrnLines /\ src \in GrnLines
      /\ GrnLineAt(src)' = ReturnedMore(GrnLineAt(src), -ReturnLineAt(id0).quantity)
      /\ \A id \in GrnLines : id # src => GrnLineAt(id)' = GrnLineAt(id)
  BY <1>3 DEF TookBack
<1>5. src[1] \in Grn /\ src[2] \in DOMAIN grn[src[1]].lines
  BY <1>4, GrnLineIds
<1>6. ReturnLineAt(id0) = return[r].lines[m] /\ return[r].lines[m].source = src
  BY <1>1, <1>2 DEF ReturnLineAt
<1>7. /\ return'[r].status # "ABSENT" /\ \A q \in Return : q # r => return'[q] = return[q]
      /\ grn'[src[1]].status = grn[src[1]].status
      /\ \A h \in Grn : h # src[1] => grn'[h] = grn[h]
  BY <1>5, <1>6, DerivedIs DEF ReverseReturnEntry, TypeOK
<1>8. ASSUME NEW h \in Grn, grn'[h].status = "ABSENT" PROVE grn'[h].lines = <<>>
  <2>1. grn[h].status = "ABSENT"
    BY <1>7, <1>8
  <2>2. grn[h].lines = <<>>
    BY <2>1 DEF Shape
  <2>3. h # src[1]
    BY <1>5, <2>2
  <2>4. QED
    BY <1>7, <2>2, <2>3
<1>9. \A q \in Return : return'[q].status = "ABSENT" => return'[q].lines = <<>>
  BY <1>7 DEF Shape
<1>10. ASSUME NEW id \in ReturnLines' PROVE ReturnLineAt(id)'.source \in GrnLines'
  <2>1. ReturnLineAt(id)'.source = ReturnLineAt(id).source
    BY <1>4, ReturnLineTyped, ReturnLineMarked
  <2>2. QED
    BY <1>4, <2>1 DEF Shape
<1>11. ASSUME NEW id \in GrnLines', GrnLineAt(id)'.reversed PROVE GrnLineAt(id)'.accepted > 0
  <2>1. GrnLineAt(id) \in GrnLine /\ -ReturnLineAt(id0).quantity \in Int
    BY <1>4, GrnLineTyped, ReturnLineTyped DEF ReturnLine
  <2>2. /\ GrnLineAt(id)'.accepted = GrnLineAt(id).accepted
        /\ GrnLineAt(id)'.reversed = GrnLineAt(id).reversed
    BY <1>4, <2>1, GrnLineReturned
  <2>3. QED
    BY <1>4, <1>11, <2>2 DEF Shape
<1>12. status' \in {"ABSENT", "DRAFT"} => GrnLines' = {}
  BY <1>4, BookedStatus DEF ReverseReturnEntry, Shape
<1>13. IsFiniteSet(GrnLines') /\ IsFiniteSet(ReturnLines')
  BY <1>4 DEF Shape
<1>14. QED
  BY <1>8, <1>9, <1>10, <1>11, <1>12, <1>13 DEF Shape

LEMMA OrderStepShape ==
    ASSUME TypeOK, Shape, OrderStep
    PROVE  Shape'
<1>1. UNCHANGED <<grn, return>>
  BY OrderStepCounters
<1>2. /\ GrnLines' = GrnLines /\ \A id : GrnLineAt(id)' = GrnLineAt(id)
      /\ ReturnLines' = ReturnLines /\ \A id : ReturnLineAt(id)' = ReturnLineAt(id)
  BY <1>1, LinesUntouched
<1>3. status' \in {"ABSENT", "DRAFT"} => status \in {"ABSENT", "DRAFT"}
  BY DEF OrderStep, Create, UpdateDraft, Editable, Submit, Cancel, ShortClose, MoveStock, vars
<1>4. QED
  BY <1>1, <1>2, <1>3 DEF Shape

-----------------------------------------------------------------------------
(***************************************************************************)
(* The status of a document is the one derived from its entries.           *)
(***************************************************************************)

StatusDerived ==
    /\ \A g \in Grn : grn[g].status # "ABSENT" =>
          grn[g].status = Derived(Cardinality(InLedger(grn[g].lines)),
                                  Cardinality(ReversedLines(grn[g].lines)))
    /\ \A r \in Return : return[r].status # "ABSENT" =>
          /\ return[r].lines # <<>>
          /\ return[r].status = Derived(Len(return[r].lines),
                                        Cardinality(ReversedLines(return[r].lines)))

\* Lines that keep what was accepted and whether they are reversed keep the status.
LEMMA EntriesKept ==
    ASSUME NEW lines, NEW new, DOMAIN new = DOMAIN lines,
           \A n \in DOMAIN lines : /\ new[n].accepted = lines[n].accepted
                                   /\ new[n].reversed = lines[n].reversed
    PROVE  InLedger(new) = InLedger(lines) /\ ReversedLines(new) = ReversedLines(lines)
BY DEF InLedger, ReversedLines

LEMMA NoneReversed ==
    ASSUME NEW lines, \A n \in DOMAIN lines : lines[n].reversed = FALSE, NEW total
    PROVE  Derived(total, Cardinality(ReversedLines(lines))) = "POSTED"
<1>1. ReversedLines(lines) = {}
  BY DEF ReversedLines
<1>2. Cardinality({}) = 0
  BY FS_EmptySet
<1>3. QED
  BY <1>1, <1>2 DEF Derived

LEMMA PostGrnDerived ==
    ASSUME TypeOK, StatusDerived, NEW g \in Grn, NEW lines \in GrnInput, PostGrn(g, lines)
    PROVE  StatusDerived'
<1> DEFINE new == [n \in DOMAIN lines |-> Stored(lines[n])]
<1>1. grn' = [grn EXCEPT ![g] = [status |-> "POSTED", lines |-> new]] /\ return' = return
  BY DEF PostGrn, Stored
<1>2. \A n \in DOMAIN new : new[n].reversed = FALSE
  BY DEF Stored
<1> HIDE DEF new
<1>3. grn'[g].status = Derived(Cardinality(InLedger(grn'[g].lines)), Cardinality(ReversedLines(grn'[g].lines)))
  <2>1. grn'[g].status = "POSTED" /\ grn'[g].lines = new
    BY <1>1 DEF TypeOK
  <2>2. Derived(Cardinality(InLedger(new)), Cardinality(ReversedLines(new))) = "POSTED"
    BY <1>2, NoneReversed
  <2>3. QED
    BY <2>1, <2>2
<1>4. \A h \in Grn : h # g => grn'[h] = grn[h]
  BY <1>1 DEF TypeOK
<1>5. QED
  BY <1>1, <1>3, <1>4 DEF StatusDerived

LEMMA ReverseGrnEntryDerived ==
    ASSUME TypeOK, StatusDerived, NEW g \in Grn, NEW n \in DOMAIN grn[g].lines, ReverseGrnEntry(g, n)
    PROVE  StatusDerived'
<1> DEFINE lines == [grn[g].lines EXCEPT ![n].reversed = TRUE]
<1>1. /\ return' = return
      /\ grn' = [grn EXCEPT ![g] =
           [status |-> Derived(Cardinality(InLedger(lines)), Cardinality(ReversedLines(lines))),
            lines |-> lines]]
  BY DEF ReverseGrnEntry
<1> HIDE DEF lines
<1>2. /\ grn'[g].status = Derived(Cardinality(InLedger(lines)), Cardinality(ReversedLines(lines)))
      /\ grn'[g].lines = lines
      /\ \A h \in Grn : h # g => grn'[h] = grn[h]
  BY <1>1 DEF TypeOK
<1>3. QED
  BY <1>1, <1>2 DEF StatusDerived

LEMMA PostReturnDerived ==
    ASSUME TypeOK, StatusDerived, NEW r \in Return, NEW g \in Grn, NEW lines \in ReturnInput,
           PostReturn(r, g, lines)
    PROVE  StatusDerived'
<1> DEFINE new == [m \in DOMAIN lines |-> StoredReturn(g, lines[m])]
<1> DEFINE source ==
               [n \in DOMAIN grn[g].lines |-> ReturnedMore(grn[g].lines[n], TakenFrom(lines, n))]
<1>1. /\ return' = [return EXCEPT ![r] = [status |-> "POSTED", lines |-> new]]
      /\ grn' = [grn EXCEPT ![g].lines = source]
  BY DEF PostReturn, StoredReturn
<1>2. lines \in Seq([line : Nat, away : BOOLEAN, quantity : Nat \ {0}]) /\ lines # <<>>
  BY PurchasingAssumption
<1>3. \A m \in DOMAIN new : new[m].reversed = FALSE
  BY DEF StoredReturn
<1>4. new # <<>>
  <2>1. DOMAIN lines # {}
    <3>1. PICK n \in Nat : DOMAIN lines = 1..n /\ Len(lines) = n
      BY <1>2
    <3>2. n # 0
      BY <1>2, <3>1
    <3>3. QED
      BY <3>1, <3>2
  <2>2. QED
    BY <2>1
<1>5. InLedger(source) = InLedger(grn[g].lines) /\ ReversedLines(source) = ReversedLines(grn[g].lines)
  <2>1. DOMAIN source = DOMAIN grn[g].lines
    OBVIOUS
  <2>2. ASSUME NEW n \in DOMAIN grn[g].lines
        PROVE  /\ source[n].accepted = grn[g].lines[n].accepted
               /\ source[n].reversed = grn[g].lines[n].reversed
    <3>1. grn[g].lines[n] \in GrnLine /\ TakenFrom(lines, n) \in Int
      BY ReturnSums DEF TypeOK
    <3>2. source[n] = ReturnedMore(grn[g].lines[n], TakenFrom(lines, n))
      OBVIOUS
    <3>3. QED
      BY <3>1, <3>2, GrnLineReturned
  <2> HIDE DEF source
  <2>3. QED
    BY <2>1, <2>2, EntriesKept
<1> HIDE DEF new, source
<1>6. /\ return'[r].status = "POSTED" /\ return'[r].lines = new
      /\ \A q \in Return : q # r => return'[q] = return[q]
      /\ grn'[g].status = grn[g].status /\ grn'[g].lines = source
      /\ \A h \in Grn : h # g => grn'[h] = grn[h]
  BY <1>1 DEF TypeOK
<1>7. Derived(Len(new), Cardinality(ReversedLines(new))) = "POSTED"
  BY <1>3, NoneReversed
<1>8. ASSUME NEW h \in Grn, grn'[h].status # "ABSENT"
      PROVE  grn'[h].status = Derived(Cardinality(InLedger(grn'[h].lines)),
                                      Cardinality(ReversedLines(grn'[h].lines)))
  BY <1>5, <1>6, <1>8 DEF StatusDerived
<1>9. ASSUME NEW q \in Return, return'[q].status # "ABSENT"
      PROVE  /\ return'[q].lines # <<>>
             /\ return'[q].status = Derived(Len(return'[q].lines),
                                            Cardinality(ReversedLines(return'[q].lines)))
  BY <1>4, <1>6, <1>7, <1>9 DEF StatusDerived
<1>10. QED
  BY <1>8, <1>9 DEF StatusDerived

LEMMA ReverseReturnEntryDerived ==
    ASSUME TypeOK, Shape, StatusDerived, NEW r \in Return, NEW m \in DOMAIN return[r].lines,
           ReverseReturnEntry(r, m)
    PROVE  StatusDerived'
<1> DEFINE lines == [return[r].lines EXCEPT ![m].reversed = TRUE]
<1> DEFINE line == return[r].lines[m]
<1> DEFINE more == ReturnedMore(grn[line.source[1]].lines[line.source[2]], -line.quantity)
<1>1. PICK g, n : g = line.source[1] /\ n = line.source[2]
  OBVIOUS
<1>2. /\ return' = [return EXCEPT ![r].lines = lines,
                       ![r].status = Derived(Len(lines), Cardinality(ReversedLines(lines)))]
      /\ grn' = [grn EXCEPT ![g].lines[n] = more]
  BY <1>1 DEF ReverseReturnEntry
<1>3. g \in Grn /\ n \in DOMAIN grn[g].lines
  <2>1. <<r, m>> \in ReturnLines /\ ReturnLineAt(<<r, m>>) = line
    BY ReturnLineIds DEF ReturnLineAt
  <2>2. line.source \in GrnLines
    BY <2>1 DEF Shape
  <2>3. QED
    BY <1>1, <2>2, GrnLineIds
<1>4. lines # <<>>
  <2>1. DOMAIN lines = DOMAIN return[r].lines
    OBVIOUS
  <2>2. QED
    BY <2>1
<1> DEFINE source == [grn[g].lines EXCEPT ![n] = more]
<1>5. InLedger(source) = InLedger(grn[g].lines) /\ ReversedLines(source) = ReversedLines(grn[g].lines)
  <2>1. line \in ReturnLine /\ grn[g].lines \in Seq(GrnLine) /\ grn[g].lines[n] \in GrnLine
    BY <1>3 DEF TypeOK
  <2>2. -line.quantity \in Int
    BY <2>1 DEF ReturnLine
  <2>3. /\ more \in GrnLine /\ more.accepted = grn[g].lines[n].accepted
        /\ more.reversed = grn[g].lines[n].reversed
    BY <1>1, <2>1, <2>2, GrnLineReturned
  <2> HIDE DEF more
  <2>4. /\ DOMAIN source = DOMAIN grn[g].lines
        /\ \A k \in DOMAIN grn[g].lines : source[k] = IF k = n THEN more ELSE grn[g].lines[k]
    BY <1>3, <2>1, <2>3, LineReplaced
  <2>5. ASSUME NEW k \in DOMAIN grn[g].lines
        PROVE  /\ source[k].accepted = grn[g].lines[k].accepted
               /\ source[k].reversed = grn[g].lines[k].reversed
    BY <2>3, <2>4
  <2> HIDE DEF source
  <2>6. QED
    BY <2>4, <2>5, EntriesKept
<1> HIDE DEF lines, more
<1>6. grn'[g].status = grn[g].status /\ grn'[g].lines = source
  BY <1>2, <1>3 DEF TypeOK
<1> HIDE DEF source
<1>7. /\ return'[r].status = Derived(Len(lines), Cardinality(ReversedLines(lines)))
      /\ return'[r].lines = lines
      /\ \A q \in Return : q # r => return'[q] = return[q]
      /\ \A h \in Grn : h # g => grn'[h] = grn[h]
  BY <1>2 DEF TypeOK
<1>8. ASSUME NEW h \in Grn, grn'[h].status # "ABSENT"
      PROVE  grn'[h].status = Derived(Cardinality(InLedger(grn'[h].lines)),
                                      Cardinality(ReversedLines(grn'[h].lines)))
  BY <1>5, <1>6, <1>7, <1>8 DEF StatusDerived
<1>9. ASSUME NEW q \in Return, return'[q].status # "ABSENT"
      PROVE  /\ return'[q].lines # <<>>
             /\ return'[q].status = Derived(Len(return'[q].lines),
                                            Cardinality(ReversedLines(return'[q].lines)))
  BY <1>4, <1>7, <1>9 DEF StatusDerived
<1>10. QED
  BY <1>8, <1>9 DEF StatusDerived

LEMMA OrderStepDerived ==
    ASSUME StatusDerived, OrderStep
    PROVE  StatusDerived'
BY OrderStepCounters DEF StatusDerived

-----------------------------------------------------------------------------
(***************************************************************************)
(* No line takes too much, and the status is that of the counters.         *)
(***************************************************************************)

Holds(line) == IF line.reversed THEN 0 ELSE line.accepted

Bounds ==
    /\ \A i \in Item : received[i] <= ordered[i]
    /\ \A id \in GrnLines : GrnLineAt(id).returned <= Holds(GrnLineAt(id))

StatusOfCounters ==
    /\ status = "OPEN" => \A i \in Item : received[i] <= 0
    /\ status = "FULLY_RECEIVED" => \A i \in Item : received[i] >= ordered[i]
    /\ status = "PARTIALLY_RECEIVED" => /\ \E i \in Item : received[i] > 0
                                        /\ \E i \in Item : received[i] < ordered[i]

\* A line's counter cannot fall below zero: standing returns are what it counts.
LEMMA ReturnedNotNegative ==
    ASSUME TypeOK, Shape, CountersMatchDocuments
    PROVE  \A id \in GrnLines : GrnLineAt(id).returned \in Nat
BY SumsCounted, CountersBefore

\* An order without receipts has received nothing.
LEMMA NoReceipts ==
    ASSUME Shape, CountersMatchDocuments, GrnLines = {}
    PROVE  \A i \in Item : received[i] = 0
<1> SUFFICES ASSUME NEW i \in Item PROVE received[i] = 0
  OBVIOUS
<1>1. Standing(i) = {} /\ Back(OfItem(i)) = {}
  BY DEF Standing, Back, OfItem
<1>2. AcceptedNow(i) = 0 /\ ReturnedNow(OfItem(i)) = 0
  BY <1>1, SumEmpty, SumsAre
<1>3. QED
  BY <1>2, CountersBefore

LEMMA BookedProgress ==
    ASSUME TypeOK, StatusOfCounters, NEW delta, Book(delta), \A i \in Item : delta[i] \in Int,
           UNCHANGED ordered
    PROVE  StatusOfCounters'
<1>1. received' \in [Item -> Int] /\ ordered \in [Item -> Nat]
  BY BookTyped DEF TypeOK
<1>2. \/ status' = status /\ status \in {"DRAFT", "CANCELLED", "SHORT_CLOSED"}
      \/ status' = Progress(received')
  BY DEF Book, Recomputed
<1>3. CASE status' = status /\ status \in {"DRAFT", "CANCELLED", "SHORT_CLOSED"}
  BY <1>3 DEF StatusOfCounters
<1>4. CASE status' = Progress(received')
  <2>1. Progress(received') = "FULLY_RECEIVED" => \A i \in Item : received'[i] >= ordered[i]
    BY DEF Progress
  <2>2. Progress(received') = "OPEN" => \A i \in Item : received'[i] <= 0
    BY DEF Progress
  <2>3. Progress(received') = "PARTIALLY_RECEIVED" =>
            (\E i \in Item : received'[i] > 0) /\ (\E i \in Item : received'[i] < ordered[i])
    BY <1>1 DEF Progress
  <2>4. QED
    BY <1>4, <2>1, <2>2, <2>3 DEF StatusOfCounters
<1>5. QED
  BY <1>2, <1>3, <1>4

LEMMA PostGrnBounds ==
    ASSUME TypeOK, Shape, Bounds, StatusOfCounters,
           NEW g \in Grn, NEW lines \in GrnInput, PostGrn(g, lines)
    PROVE  Bounds' /\ StatusOfCounters'
<1>1. /\ GrnLines' = GrnLines \cup Named(g, DOMAIN lines)
      /\ \A id \in GrnLines : id[1] # g /\ GrnLineAt(id)' = GrnLineAt(id)
  BY PostGrnLines
<1>2. \A i \in Item : AcceptedOf(lines, i) \in Nat
  BY GrnSums, PurchasingAssumption
<1>3. /\ Book([i \in Item |-> AcceptedOf(lines, i)]) /\ UNCHANGED ordered
      /\ \A i \in Item : AcceptedOf(lines, i) <= ordered[i] - received[i]
  BY DEF PostGrn, Receivable, WithinPending
<1>4. ASSUME NEW i \in Item PROVE received'[i] <= ordered'[i]
  <2>1. received'[i] = received[i] + AcceptedOf(lines, i)
    BY <1>3 DEF Book
  <2>2. received[i] \in Int /\ ordered[i] \in Nat
    BY DEF TypeOK
  <2>3. QED
    BY <1>2, <1>3, <2>1, <2>2
<1>5. ASSUME NEW id \in GrnLines' PROVE GrnLineAt(id)'.returned <= Holds(GrnLineAt(id)')
  <2>1. CASE id \in GrnLines
    BY <1>1, <2>1 DEF Bounds
  <2>2. CASE id \in Named(g, DOMAIN lines)
    <3>1. id = <<g, id[2]>> /\ id[2] \in DOMAIN lines
      BY <2>2, NamedAre
    <3>2. GrnLineAt(id)' = Stored(lines[id[2]])
      BY <3>1, PostGrnLines
    <3>3. lines[id[2]].accepted \in Nat
      <4>1. lines \in Seq([item : Item, number : Number, got : Nat \ {0}, accepted : Nat])
        BY PurchasingAssumption
      <4>2. lines[id[2]] \in [item : Item, number : Number, got : Nat \ {0}, accepted : Nat]
        BY ZenonT(60), <3>1, <4>1, LinesFinite
      <4>3. QED
        BY <4>2
    <3>4. QED
      BY <3>2, <3>3 DEF Stored, Holds
  <2>3. QED
    BY <1>1, <2>1, <2>2
<1>6. StatusOfCounters'
  <2> DEFINE delta == [i \in Item |-> AcceptedOf(lines, i)]
  <2>1. Book(delta) /\ \A i \in Item : delta[i] \in Int
    BY <1>2, <1>3
  <2> HIDE DEF delta
  <2>2. QED
    BY <1>3, <2>1, BookedProgress
<1>7. QED
  BY <1>4, <1>5, <1>6 DEF Bounds

LEMMA ReverseGrnEntryBounds ==
    ASSUME TypeOK, Shape, Bounds, StatusOfCounters,
           NEW g \in Grn, NEW n \in DOMAIN grn[g].lines, ReverseGrnEntry(g, n)
    PROVE  Bounds' /\ StatusOfCounters'
<1>1. PICK id0 : id0 = <<g, n>>
  OBVIOUS
<1>2. /\ GrnLines' = GrnLines /\ id0 \in GrnLines
      /\ GrnLineAt(id0)' = [GrnLineAt(id0) EXCEPT !.reversed = TRUE]
      /\ \A id \in GrnLines : id # id0 => GrnLineAt(id)' = GrnLineAt(id)
  BY <1>1, ReverseGrnEntryLines
<1> DEFINE line == grn[g].lines[n]
<1>3. line = GrnLineAt(id0) /\ line \in GrnLine
  BY <1>1, <1>2, GrnLineTyped DEF GrnLineAt
<1>4. /\ Book([i \in Item |-> IF i = line.item THEN -line.accepted ELSE 0]) /\ UNCHANGED ordered
      /\ line.returned <= 0
  BY DEF ReverseGrnEntry, Reversible, NothingReturned
<1>5. line.accepted \in Nat
  BY <1>3 DEF GrnLine
<1> HIDE DEF line
<1>6. ASSUME NEW i \in Item PROVE received'[i] <= ordered'[i]
  <2>1. received'[i] = received[i] + (IF i = line.item THEN -line.accepted ELSE 0)
    BY <1>4 DEF Book
  <2>2. received[i] \in Int /\ ordered[i] \in Nat /\ received[i] <= ordered[i]
    BY DEF TypeOK, Bounds
  <2>3. QED
    BY <1>4, <1>5, <2>1, <2>2
<1>7. ASSUME NEW id \in GrnLines' PROVE GrnLineAt(id)'.returned <= Holds(GrnLineAt(id)')
  <2>1. CASE id = id0
    <3>1. GrnLineAt(id0)'.returned = line.returned /\ GrnLineAt(id0)'.reversed = TRUE
      BY <1>2, <1>3, GrnLineMarked
    <3>2. QED
      BY <1>4, <2>1, <3>1 DEF Holds
  <2>2. CASE id # id0
    BY <1>2, <2>2 DEF Bounds
  <2>3. QED
    BY <2>1, <2>2
<1>8. StatusOfCounters'
  <2> DEFINE delta == [i \in Item |-> IF i = line.item THEN -line.accepted ELSE 0]
  <2>1. Book(delta) /\ \A i \in Item : delta[i] \in Int
    BY <1>4, <1>5
  <2> HIDE DEF delta
  <2>2. QED
    BY <1>4, <2>1, BookedProgress
<1>9. QED
  BY <1>6, <1>7, <1>8 DEF Bounds

\* A return names a line at most once, so it takes one quantity of it.
LEMMA TakenOnce ==
    ASSUME NEW lines \in ReturnInput, ValidReturn(lines), NEW n
    PROVE  \/ TakenFrom(lines, n) = 0
           \/ \E m \in DOMAIN lines : lines[m].line = n /\ TakenFrom(lines, n) = lines[m].quantity
<1> DEFINE f == [m \in DOMAIN lines |-> lines[m].quantity]
<1> DEFINE N == {m \in DOMAIN lines : lines[m].line = n}
<1>1. TakenFrom(lines, n) = SumFunctionOnSet(f, N)
  BY DEF TakenFrom, SumLines
<1>2. CASE N = {}
  BY <1>1, <1>2, SumEmpty
<1>3. CASE N # {}
  <2>1. PICK m \in DOMAIN lines : lines[m].line = n
    BY <1>3
  <2>2. \A k \in DOMAIN lines : lines[k].line = n => k = m
    BY <2>1 DEF ValidReturn, NoDuplicateLines
  <2>3. N = {m}
    BY <2>1, <2>2
  <2>4. f[m] = lines[m].quantity
    OBVIOUS
  <2>5. lines[m].quantity \in Int
    <3>1. lines \in Seq([line : Nat, away : BOOLEAN, quantity : Nat \ {0}])
      BY PurchasingAssumption
    <3>2. lines[m] \in [line : Nat, away : BOOLEAN, quantity : Nat \ {0}]
      BY <3>1, LinesFinite
    <3>3. QED
      BY <3>2
  <2> HIDE DEF f, N
  <2>6. SumFunctionOnSet(f, {m}) = f[m]
    BY <2>4, <2>5, SumOfOne
  <2>7. QED
    BY <1>1, <2>1, <2>3, <2>4, <2>6
<1>4. QED
  BY <1>2, <1>3

LEMMA PostReturnBounds ==
    ASSUME TypeOK, Shape, Bounds, StatusOfCounters,
           NEW r \in Return, NEW g \in Grn, NEW lines \in ReturnInput, PostReturn(r, g, lines)
    PROVE  Bounds' /\ StatusOfCounters'
<1>1. /\ GrnLines' = GrnLines
      /\ \A id \in GrnLines : GrnLineAt(id)' =
            IF id[1] = g THEN ReturnedMore(GrnLineAt(id), TakenFrom(lines, id[2]))
            ELSE GrnLineAt(id)
  BY PostReturnLines
<1>2. /\ Book([i \in Item |-> -GivenBack(g, lines, i)]) /\ UNCHANGED ordered
      /\ ValidReturn(lines)
      /\ \A m \in DOMAIN lines : lines[m].quantity <= Returnable(grn[g].lines[lines[m].line])
  BY DEF PostReturn, WithinReturnable
<1>3. \A i \in Item : GivenBack(g, lines, i) \in Nat
  BY ReturnSums
<1>4. ASSUME NEW i \in Item PROVE received'[i] <= ordered'[i]
  <2>1. received'[i] = received[i] + (-GivenBack(g, lines, i))
    BY <1>2 DEF Book
  <2>2. received[i] \in Int /\ ordered[i] \in Nat /\ received[i] <= ordered[i]
    BY DEF TypeOK, Bounds
  <2>3. QED
    BY <1>2, <1>3, <2>1, <2>2
<1>5. \A m \in DOMAIN lines : lines[m].quantity \in Nat \ {0}
  <2>1. lines \in Seq([line : Nat, away : BOOLEAN, quantity : Nat \ {0}])
    BY PurchasingAssumption
  <2>2. \A m \in DOMAIN lines : lines[m] \in [line : Nat, away : BOOLEAN, quantity : Nat \ {0}]
    BY <2>1, LinesFinite
  <2>3. QED
    BY <2>2
<1>6. ASSUME NEW id \in GrnLines' PROVE GrnLineAt(id)'.returned <= Holds(GrnLineAt(id)')
  <2>1. CASE id[1] # g
    BY <1>1, <2>1 DEF Bounds
  <2>2. CASE id[1] = g
    <3>1. PICK q : q = TakenFrom(lines, id[2])
      OBVIOUS
    <3>2. GrnLineAt(id) \in GrnLine /\ q \in Int
      BY <1>1, <3>1, GrnLineTyped, ReturnSums
    <3>3. GrnLineAt(id)' = ReturnedMore(GrnLineAt(id), q)
      BY <1>1, <2>2, <3>1
    <3>4. /\ GrnLineAt(id)'.accepted = GrnLineAt(id).accepted
          /\ GrnLineAt(id)'.reversed = GrnLineAt(id).reversed
          /\ GrnLineAt(id)'.returned = GrnLineAt(id).returned + q
      BY <3>2, <3>3, GrnLineReturned
    <3>5. GrnLineAt(id).returned \in Int /\ GrnLineAt(id).accepted \in Nat
      BY <3>2 DEF GrnLine
    <3>6. GrnLineAt(id).returned <= Holds(GrnLineAt(id))
      BY <1>1 DEF Bounds
    <3>7. CASE q = 0
      BY <3>4, <3>5, <3>6, <3>7 DEF Holds
    <3>8. CASE \E m \in DOMAIN lines : lines[m].line = id[2] /\ q = lines[m].quantity
      <4>1. PICK m \in DOMAIN lines : lines[m].line = id[2] /\ q = lines[m].quantity
        BY <3>8
      <4>2. GrnLineAt(id) = grn[g].lines[lines[m].line]
        BY <2>2, <4>1 DEF GrnLineAt
      <4>3. q <= Returnable(GrnLineAt(id)) /\ q \in Nat \ {0}
        BY <1>2, <1>5, <4>1, <4>2
      <4>4. ~GrnLineAt(id).reversed /\ q <= GrnLineAt(id).accepted - GrnLineAt(id).returned
        BY <4>3 DEF Returnable
      <4>5. QED
        BY <3>2, <3>4, <3>5, <4>4 DEF Holds
    <3>9. QED
      BY <1>2, <3>1, <3>7, <3>8, TakenOnce
  <2>3. QED
    BY <2>1, <2>2
<1>7. StatusOfCounters'
  <2> DEFINE delta == [i \in Item |-> -GivenBack(g, lines, i)]
  <2>1. Book(delta) /\ \A i \in Item : delta[i] \in Int
    BY <1>2, <1>3
  <2> HIDE DEF delta
  <2>2. QED
    BY <1>2, <2>1, BookedProgress
<1>8. QED
  BY <1>4, <1>6, <1>7 DEF Bounds

LEMMA ReverseReturnEntryBounds ==
    ASSUME TypeOK, Shape, CountersMatchDocuments, Bounds, StatusOfCounters,
           NEW r \in Return, NEW m \in DOMAIN return[r].lines, ReverseReturnEntry(r, m)
    PROVE  Bounds' /\ StatusOfCounters'
<1>1. PICK id0 : id0 = <<r, m>>
  OBVIOUS
<1>2. PICK src : src = ReturnLineAt(id0).source
  OBVIOUS
<1>3. PICK quantity : quantity = ReturnLineAt(id0).quantity
  OBVIOUS
<1>4. TookBack(id0, src)
  BY <1>1, <1>2, ReverseReturnEntryLines
<1>5. /\ GrnLines' = GrnLines /\ id0 \in ReturnLines /\ src \in GrnLines
      /\ GrnLineAt(src)' = ReturnedMore(GrnLineAt(src), -quantity)
      /\ \A id \in GrnLines : id # src => GrnLineAt(id)' = GrnLineAt(id)
  BY <1>3, <1>4 DEF TookBack
<1>6. quantity \in Nat
  BY <1>3, <1>5, ReturnLineTyped DEF ReturnLine
<1>7. /\ Book([i \in Item |-> IF i = GrnLineAt(src).item THEN quantity ELSE 0])
      /\ RoomFor(GrnLineAt(src).item, quantity) /\ UNCHANGED ordered
  <2>1. ReturnLineAt(id0) = return[r].lines[m] /\ GrnLineAt(src) = grn[src[1]].lines[src[2]]
    BY <1>1 DEF ReturnLineAt, GrnLineAt
  <2>2. QED
    BY <1>2, <1>3, <2>1 DEF ReverseReturnEntry
<1>8. ASSUME NEW i \in Item PROVE received'[i] <= ordered'[i]
  <2>1. received'[i] = received[i] + (IF i = GrnLineAt(src).item THEN quantity ELSE 0)
    BY <1>7 DEF Book
  <2>2. received[i] \in Int /\ ordered[i] \in Nat /\ received[i] <= ordered[i]
    BY DEF TypeOK, Bounds
  <2>3. QED
    BY <1>6, <1>7, <2>1, <2>2 DEF RoomFor
<1>9. ASSUME NEW id \in GrnLines' PROVE GrnLineAt(id)'.returned <= Holds(GrnLineAt(id)')
  <2>1. CASE id = src
    <3>1. GrnLineAt(src) \in GrnLine /\ -quantity \in Int
      BY <1>5, <1>6, GrnLineTyped
    <3>2. /\ GrnLineAt(src)'.accepted = GrnLineAt(src).accepted
          /\ GrnLineAt(src)'.reversed = GrnLineAt(src).reversed
          /\ GrnLineAt(src)'.returned = GrnLineAt(src).returned + (-quantity)
      BY <1>5, <3>1, GrnLineReturned
    <3>3. GrnLineAt(src).returned \in Int /\ GrnLineAt(src).accepted \in Nat
      BY <3>1 DEF GrnLine
    <3>4. GrnLineAt(src).returned <= Holds(GrnLineAt(src))
      BY <1>5 DEF Bounds
    <3>5. QED
      BY <1>6, <2>1, <3>2, <3>3, <3>4 DEF Holds
  <2>2. CASE id # src
    BY <1>5, <2>2 DEF Bounds
  <2>3. QED
    BY <2>1, <2>2
<1>10. StatusOfCounters'
  <2> DEFINE delta == [i \in Item |-> IF i = GrnLineAt(src).item THEN quantity ELSE 0]
  <2>1. Book(delta) /\ \A i \in Item : delta[i] \in Int
    BY <1>6, <1>7
  <2> HIDE DEF delta
  <2>2. QED
    BY <1>7, <2>1, BookedProgress
<1>11. QED
  BY <1>8, <1>9, <1>10 DEF Bounds

LEMMA OrderStepBounds ==
    ASSUME TypeOK, Shape, CountersMatchDocuments, Bounds, StatusOfCounters, OrderStep
    PROVE  Bounds' /\ StatusOfCounters'
<1>1. UNCHANGED <<received, grn, return>>
  BY OrderStepCounters
<1>2. GrnLines' = GrnLines /\ \A id : GrnLineAt(id)' = GrnLineAt(id)
  BY <1>1, LinesUntouched
<1>3. \A id \in GrnLines' : GrnLineAt(id)'.returned <= Holds(GrnLineAt(id)')
  BY <1>2 DEF Bounds
<1>4. CASE UNCHANGED <<status, ordered>>
  BY <1>1, <1>3, <1>4 DEF Bounds, StatusOfCounters
<1>5. CASE status \in {"ABSENT", "DRAFT"}
  <2>1. \A i \in Item : received'[i] = 0
    BY <1>1, <1>5, NoReceipts DEF Shape
  <2>2. ordered' \in [Item -> Nat] /\ status' \in {"ABSENT", "DRAFT", "OPEN", "CANCELLED"}
    <3>1. \A input \in OrderInput : input \in [Item -> Nat]
      BY PurchasingAssumption
    <3>2. QED
      BY <1>5, <3>1 DEF TypeOK, OrderStep, Create, UpdateDraft, Editable, Submit, Cancel,
         ShortClose, ShortClosable, MoveStock, vars
  <2>3. QED
    BY <1>3, <2>1, <2>2 DEF Bounds, StatusOfCounters
<1>6. CASE status' \in {"CANCELLED", "SHORT_CLOSED"} /\ UNCHANGED ordered
  BY <1>1, <1>3, <1>6 DEF Bounds, StatusOfCounters
<1>7. QED
  BY <1>4, <1>5, <1>6 DEF OrderStep, Create, UpdateDraft, Editable, Submit, Cancel, ShortClose,
     MoveStock, vars

-----------------------------------------------------------------------------
(***************************************************************************)
(* The inductive invariant.                                                *)
(***************************************************************************)

\* What every operation on the order keeps.
IInv == TypeOK /\ Shape /\ CountersMatchDocuments /\ StatusDerived /\ Bounds /\ StatusOfCounters

LEMMA InitInvariant == Init => IInv
<1> SUFFICES ASSUME Init PROVE IInv
  OBVIOUS
<1>1. TypeOK
  BY DEF Init, TypeOK, Status, DocStatus, NotPosted
<1>2. GrnLines = {} /\ ReturnLines = {}
  BY DEF Init, NotPosted, GrnLines, ReturnLines
<1>3. Shape
  BY <1>2, FS_EmptySet DEF Init, NotPosted, Shape
<1>4. CountersMatchDocuments
  <2>1. ASSUME NEW i \in Item PROVE AcceptedNow(i) = 0 /\ ReturnedNow(OfItem(i)) = 0
    <3>1. Standing(i) = {} /\ Back(OfItem(i)) = {}
      BY <1>2 DEF Standing, Back
    <3>2. QED
      BY <3>1, SumEmpty, SumsAre
  <2>2. \A i \in Item : received[i] = 0
    BY DEF Init
  <2>3. QED
    BY <1>2, <2>1, <2>2 DEF CountersMatchDocuments, OfItem
<1>5. StatusDerived /\ Bounds /\ StatusOfCounters
  BY <1>2 DEF Init, NotPosted, StatusDerived, Bounds, StatusOfCounters
<1>6. QED
  BY <1>1, <1>3, <1>4, <1>5 DEF IInv

LEMMA NextInvariant == IInv /\ [Next]_vars => IInv'
<1> SUFFICES ASSUME IInv, [Next]_vars PROVE IInv'
  OBVIOUS
<1> USE DEF IInv
<1>1. CASE \E g \in Grn, lines \in GrnInput : PostGrn(g, lines)
  BY <1>1, PostGrnTyped, PostGrnShape, PostGrnCounters, PostGrnDerived, PostGrnBounds
<1>2. CASE \E g \in Grn : \E n \in DOMAIN grn[g].lines : ReverseGrnEntry(g, n)
  BY <1>2, ReverseGrnEntryTyped, ReverseGrnEntryShape, ReverseGrnEntryCounters,
     ReverseGrnEntryDerived, ReverseGrnEntryBounds
<1>3. CASE \E r \in Return, g \in Grn, lines \in ReturnInput : PostReturn(r, g, lines)
  BY <1>3, PostReturnTyped, PostReturnShape, PostReturnCounters, PostReturnDerived, PostReturnBounds
<1>4. CASE \E r \in Return : \E m \in DOMAIN return[r].lines : ReverseReturnEntry(r, m)
  BY <1>4, ReverseReturnEntryTyped, ReverseReturnEntryShape, ReverseReturnEntryCounters,
     ReverseReturnEntryDerived, ReverseReturnEntryBounds
<1>5. CASE OrderStep
  BY <1>5, OrderStepTyped, OrderStepShape, OrderStepCounters, OrderStepDerived, OrderStepBounds
     DEF OrderStep
<1>6. QED
  BY <1>1, <1>2, <1>3, <1>4, <1>5 DEF Next, OrderStep

LEMMA AlwaysInvariant == Spec => []IInv
BY InitInvariant, NextInvariant, PTL DEF Spec

-----------------------------------------------------------------------------
(***************************************************************************)
(* What follows from it.                                                   *)
(***************************************************************************)

\* What an order line received is never negative: of each receipt line, no more
\* is returned than was accepted, and the sums follow.
LEMMA ReceivedNotNegative == IInv => \A i \in Item : received[i] \in Nat
<1> SUFFICES ASSUME IInv, NEW i \in Item PROVE received[i] \in Nat
  OBVIOUS
<1>1. TypeOK /\ Shape /\ CountersMatchDocuments /\ Bounds
  BY DEF IInv
<1> DEFINE taken == [id \in GrnLines |-> GrnLineAt(id).returned]
<1> DEFINE held == [id \in GrnLines |-> Holds(GrnLineAt(id))]
<1> DEFINE from == [id \in ReturnLines |-> ReturnLineAt(id).source]
<1> DEFINE undone == OfItem(i) \ Standing(i)
<1>2. OfItem(i) \subseteq GrnLines /\ Standing(i) \subseteq OfItem(i)
  BY DEF OfItem, Standing
<1>3. IsFiniteSet(OfItem(i)) /\ IsFiniteSet(Standing(i)) /\ IsFiniteSet(undone)
  BY <1>1, <1>2, LinesCounted
<1>4. ASSUME NEW id \in OfItem(i)
      PROVE  /\ taken[id] = ReturnedNow({id}) /\ taken[id] \in Int
             /\ held[id] \in Int /\ taken[id] <= held[id]
  <2>1. id \in GrnLines /\ GrnLineAt(id) \in GrnLine
    BY <1>1, <1>2, GrnLineTyped
  <2>2. GrnLineAt(id).returned \in Int /\ Holds(GrnLineAt(id)) \in Int
    BY <2>1 DEF GrnLine, Holds
  <2>3. GrnLineAt(id).returned = ReturnedNow({id}) /\ GrnLineAt(id).returned <= Holds(GrnLineAt(id))
    BY <1>1, <2>1, CountersBefore DEF Bounds
  <2>4. QED
    BY <2>1, <2>2, <2>3
<1>5. ReturnedNow(OfItem(i)) = SumFunctionOnSet(taken, OfItem(i))
  <2>1. IsFiniteSet(Back(OfItem(i))) /\ \A id \in Back(OfItem(i)) : BackQuantities[id] \in Int
    BY <1>1, LinesCounted
  <2>2. \A id \in Back(OfItem(i)) : from[id] \in OfItem(i)
    BY DEF Back
  <2>3. ASSUME NEW t \in OfItem(i)
        PROVE  \E U \in SUBSET Back(OfItem(i)) :
                  /\ \A id \in Back(OfItem(i)) : id \in U <=> from[id] = t
                  /\ taken[t] = SumFunctionOnSet(BackQuantities, U)
    <3>1. Back({t}) \subseteq Back(OfItem(i))
      BY DEF Back
    <3>2. \A id \in Back(OfItem(i)) : id \in Back({t}) <=> from[id] = t
      BY DEF Back
    <3>3. taken[t] = SumFunctionOnSet(BackQuantities, Back({t}))
      BY <1>4, SumsAre
    <3>4. QED
      BY <3>1, <3>2, <3>3
  <2> HIDE DEF taken, from
  <2>4. SumFunctionOnSet(BackQuantities, Back(OfItem(i))) = SumFunctionOnSet(taken, OfItem(i))
    BY <1>3, <2>1, <2>2, <2>3, SumCollected
  <2>5. QED
    BY <2>4, SumsAre
<1>6. AcceptedNow(i) = SumFunctionOnSet(held, OfItem(i))
  <2>1. ASSUME NEW id \in Standing(i) PROVE held[id] = Accepteds[id]
    BY DEF Standing, Holds, Accepteds
  <2>2. ASSUME NEW id \in undone PROVE held[id] = 0
    BY DEF OfItem, Standing, Holds
  <2>3. OfItem(i) = Standing(i) \cup undone /\ Standing(i) \cap undone = {}
    BY <1>2
  <2>4. \A id \in Standing(i) \cup undone : held[id] \in Int
    BY <1>4, <2>3
  <2> HIDE DEF held, undone
  <2>5. SumFunctionOnSet(held, Standing(i) \cup undone)
            = SumFunctionOnSet(held, Standing(i)) + SumFunctionOnSet(held, undone)
    BY <1>3, <2>3, <2>4, SumUnion
  <2>6. SumFunctionOnSet(held, undone) = 0
    BY <1>3, <2>2, SumZero
  <2>7. SumFunctionOnSet(held, Standing(i)) = SumFunctionOnSet(Accepteds, Standing(i))
    BY <1>3, <2>1, SumEqual
  <2>8. AcceptedNow(i) = SumFunctionOnSet(Accepteds, Standing(i)) /\ AcceptedNow(i) \in Nat
    BY <1>1, SumsAre, SumsCounted
  <2>9. QED
    BY <2>3, <2>5, <2>6, <2>7, <2>8
<1> HIDE DEF taken, held
<1>7. SumFunctionOnSet(taken, OfItem(i)) <= SumFunctionOnSet(held, OfItem(i))
  BY <1>3, <1>4, SumMonotone
<1>8. received[i] = AcceptedNow(i) - ReturnedNow(OfItem(i))
  BY <1>1, CountersBefore
<1>9. AcceptedNow(i) \in Nat /\ ReturnedNow(OfItem(i)) \in Nat
  BY <1>1, SumsCounted
<1>10. QED
  BY <1>5, <1>6, <1>7, <1>8, <1>9

LEMMA InvariantBounds == IInv => NeverOverReceived
<1> SUFFICES ASSUME IInv PROVE NeverOverReceived
  OBVIOUS
<1>1. TypeOK /\ Shape /\ CountersMatchDocuments /\ Bounds
  BY DEF IInv
<1>2. ASSUME NEW i \in Item PROVE received[i] \in 0..ordered[i]
  <2>1. received[i] \in Nat /\ received[i] <= ordered[i] /\ ordered[i] \in Nat
    BY <1>1, ReceivedNotNegative DEF Bounds, TypeOK
  <2>2. QED
    BY <2>1
<1>3. ASSUME NEW id \in GrnLines
      PROVE  GrnLineAt(id).returned \in 0..(IF GrnLineAt(id).reversed THEN 0 ELSE GrnLineAt(id).accepted)
  <2>1. GrnLineAt(id).returned \in Nat /\ GrnLineAt(id).returned <= Holds(GrnLineAt(id))
    BY <1>1, ReturnedNotNegative DEF Bounds
  <2>2. GrnLineAt(id).accepted \in Nat
    BY <1>1, GrnLineTyped DEF GrnLine
  <2>3. QED
    BY <2>1, <2>2 DEF Holds
<1>4. \A b \in Batch : stock[b] >= 0
  BY <1>1 DEF TypeOK
<1>5. QED
  BY <1>2, <1>3, <1>4 DEF NeverOverReceived

LEMMA InvariantStatus == IInv => StatusFollowsReceipts
<1> SUFFICES ASSUME IInv PROVE StatusFollowsReceipts
  OBVIOUS
<1>1. TypeOK /\ Shape /\ CountersMatchDocuments /\ Bounds /\ StatusOfCounters
  BY DEF IInv
<1> DEFINE net == [i \in Item |-> AcceptedNow(i)
                             - ReturnedNow({id \in GrnLines : GrnLineAt(id).item = i})]
<1>2. \A i \in Item : net[i] = received[i]
  BY <1>1 DEF CountersMatchDocuments
<1> HIDE DEF net
<1>3. \A i \in Item : received[i] \in Nat /\ received[i] <= ordered[i] /\ ordered[i] \in Nat
  BY <1>1, ReceivedNotNegative DEF Bounds, TypeOK
<1>4. status = "OPEN" => \A i \in Item : net[i] = 0
  BY <1>1, <1>2, <1>3 DEF StatusOfCounters
<1>5. status = "FULLY_RECEIVED" => \A i \in Item : net[i] = ordered[i]
  BY <1>1, <1>2, <1>3 DEF StatusOfCounters
<1>6. status = "PARTIALLY_RECEIVED" =>
          (\E i \in Item : net[i] > 0) /\ (\E i \in Item : net[i] < ordered[i])
  BY <1>1, <1>2 DEF StatusOfCounters
<1>7. status \in {"ABSENT", "DRAFT"} => GrnLines = {}
  BY <1>1 DEF Shape
<1>8. QED
  BY <1>4, <1>5, <1>6, <1>7 DEF StatusFollowsReceipts, net

\* The status derived from two sets of lines says which of them is the other.
LEMMA DerivedOfSets ==
    ASSUME NEW P, IsFiniteSet(P), NEW U \in SUBSET P, NEW st,
           st = Derived(Cardinality(P), Cardinality(U))
    PROVE  /\ st = "POSTED" <=> U = {}
           /\ st = "REVERSED" <=> (U = P /\ P # {})
<1>1. IsFiniteSet(U) /\ Cardinality(U) <= Cardinality(P) /\ (Cardinality(P) = Cardinality(U) => P = U)
  BY FS_Subset
<1>2. Cardinality(U) \in Nat /\ Cardinality(P) \in Nat
  BY <1>1, FS_CardinalityType
<1>3. (Cardinality(U) = 0 <=> U = {}) /\ (Cardinality(P) = 0 <=> P = {})
  BY <1>1, FS_EmptySet
<1>4. st = "POSTED" <=> Cardinality(U) <= 0
  BY <1>2 DEF Derived
<1>5. st = "REVERSED" <=> Cardinality(U) > 0 /\ Cardinality(U) >= Cardinality(P)
  BY <1>2 DEF Derived
<1>6. QED
  BY <1>1, <1>2, <1>3, <1>4, <1>5

LEMMA InvariantDocuments == IInv => DocumentStatusFollowsEntries
<1> SUFFICES ASSUME IInv PROVE DocumentStatusFollowsEntries
  OBVIOUS
<1>1. TypeOK /\ Shape /\ StatusDerived
  BY DEF IInv
<1>2. ASSUME NEW g \in Grn, grn[g].status # "ABSENT"
      PROVE  LET posted == {id \in GrnLines : id[1] = g /\ GrnLineAt(id).accepted > 0}
                 undone == {id \in posted : GrnLineAt(id).reversed}
             IN  /\ grn[g].status = "POSTED" <=> undone = {}
                 /\ grn[g].status = "REVERSED" <=> (undone = posted /\ posted # {})
  <2> DEFINE posted == {id \in GrnLines : id[1] = g /\ GrnLineAt(id).accepted > 0}
  <2> DEFINE undone == {id \in posted : GrnLineAt(id).reversed}
  <2> DEFINE P == InLedger(grn[g].lines)
  <2> DEFINE U == ReversedLines(grn[g].lines)
  <2>1. grn[g].lines \in Seq(GrnLine)
    BY <1>1 DEF TypeOK
  <2>2. IsFiniteSet(P)
    BY <2>1, LinesFinite DEF InLedger
  <2>3. ASSUME NEW n \in DOMAIN grn[g].lines
        PROVE  /\ <<g, n>> \in posted <=> n \in P
               /\ <<g, n>> \in undone <=> n \in P /\ n \in U
               /\ n \in U => n \in P
    <3>1. <<g, n>> \in GrnLines /\ GrnLineAt(<<g, n>>) = grn[g].lines[n]
      BY GrnLineIds DEF GrnLineAt
    <3>2. GrnLineAt(<<g, n>>).reversed => GrnLineAt(<<g, n>>).accepted > 0
      BY <1>1, <3>1 DEF Shape
    <3>3. QED
      BY <3>1, <3>2 DEF InLedger, ReversedLines
  <2>4. P \subseteq DOMAIN grn[g].lines /\ U \subseteq DOMAIN grn[g].lines
    BY DEF InLedger, ReversedLines
  <2>5. \A id \in posted : id[2] \in DOMAIN grn[g].lines /\ id = <<g, id[2]>>
    BY GrnLineIds
  <2>6. undone \subseteq posted
    OBVIOUS
  <2>7. grn[g].status = Derived(Cardinality(P), Cardinality(U))
    BY <1>1, <1>2 DEF StatusDerived
  <2> HIDE DEF posted, undone, P, U
  <2>8. U \in SUBSET P
    BY <2>3, <2>4
  <2>9. /\ grn[g].status = "POSTED" <=> U = {}
        /\ grn[g].status = "REVERSED" <=> (U = P /\ P # {})
    BY <2>2, <2>7, <2>8, DerivedOfSets
  <2>10. (undone = {} <=> U = {}) /\ (undone = posted <=> U = P) /\ (posted = {} <=> P = {})
    BY <2>3, <2>4, <2>5, <2>6, <2>8
  <2>11. QED
    BY <2>9, <2>10 DEF posted, undone
<1>3. ASSUME NEW r \in Return, return[r].status # "ABSENT"
      PROVE  LET posted == {id \in ReturnLines : id[1] = r}
                 undone == {id \in posted : ReturnLineAt(id).reversed}
             IN  /\ return[r].status = "POSTED" <=> undone = {}
                 /\ return[r].status = "REVERSED" <=> undone = posted
  <2> DEFINE posted == {id \in ReturnLines : id[1] = r}
  <2> DEFINE undone == {id \in posted : ReturnLineAt(id).reversed}
  <2> DEFINE P == DOMAIN return[r].lines
  <2> DEFINE U == ReversedLines(return[r].lines)
  <2>1. return[r].lines \in Seq(ReturnLine) /\ return[r].lines # <<>>
    BY <1>1, <1>3 DEF TypeOK, StatusDerived
  <2>2. P = 1..Len(return[r].lines) /\ Len(return[r].lines) \in Nat /\ Len(return[r].lines) # 0
    BY <2>1
  <2>3. IsFiniteSet(P) /\ Cardinality(P) = Len(return[r].lines) /\ P # {}
    <3>1. PICK k \in Nat \ {0} : k = Len(return[r].lines)
      BY <2>2
    <3>2. IsFiniteSet(1..k) /\ Cardinality(1..k) = k /\ 1 \in 1..k
      BY FS_Interval
    <3>3. QED
      BY <2>2, <3>1, <3>2
  <2>4. ASSUME NEW m \in P
        PROVE  <<r, m>> \in posted /\ (<<r, m>> \in undone <=> m \in U)
    <3>1. <<r, m>> \in ReturnLines /\ ReturnLineAt(<<r, m>>) = return[r].lines[m]
      BY ReturnLineIds DEF ReturnLineAt
    <3>2. QED
      BY <3>1 DEF ReversedLines
  <2>5. U \in SUBSET P
    BY DEF ReversedLines
  <2>6. \A id \in posted : id[2] \in P /\ id = <<r, id[2]>>
    BY ReturnLineIds
  <2>7. undone \subseteq posted
    OBVIOUS
  <2>8. return[r].status = Derived(Cardinality(P), Cardinality(U))
    BY <1>1, <1>3, <2>3 DEF StatusDerived
  <2> HIDE DEF posted, undone, P, U
  <2>9. /\ return[r].status = "POSTED" <=> U = {}
        /\ return[r].status = "REVERSED" <=> U = P
    BY <2>3, <2>5, <2>8, DerivedOfSets
  <2>10. (undone = {} <=> U = {}) /\ (undone = posted <=> U = P)
    BY <2>4, <2>5, <2>6, <2>7
  <2>11. QED
    BY <2>9, <2>10 DEF posted, undone
<1>4. QED
  BY <1>2, <1>3 DEF DocumentStatusFollowsEntries

LEMMA ClosedStep ==
    ASSUME IInv, [Next]_vars, NEW final \in {"CANCELLED", "SHORT_CLOSED"}, status = final
    PROVE  /\ status' = final
           /\ \A g \in Grn : grn[g].status = "ABSENT" => grn'[g].status = "ABSENT"
<1>1. Shape /\ TypeOK
  BY DEF IInv
<1>2. ASSUME NEW g \in Grn, NEW lines \in GrnInput, PostGrn(g, lines) PROVE FALSE
  BY <1>2 DEF PostGrn, Receivable
<1>3. ASSUME NEW g \in Grn, NEW n \in DOMAIN grn[g].lines, ReverseGrnEntry(g, n)
      PROVE  /\ status' = final
             /\ \A h \in Grn : grn[h].status = "ABSENT" => grn'[h].status = "ABSENT"
  <2>1. status' = final
    BY <1>3 DEF ReverseGrnEntry, Book, Recomputed
  <2>2. grn[g].status # "ABSENT"
    BY <1>1 DEF Shape
  <2>3. \A h \in Grn : h # g => grn'[h] = grn[h]
    BY <1>1, <1>3 DEF ReverseGrnEntry, TypeOK
  <2>4. QED
    BY <2>1, <2>2, <2>3
<1>4. ASSUME NEW r \in Return, NEW g \in Grn, NEW lines \in ReturnInput, PostReturn(r, g, lines)
      PROVE  /\ status' = final
             /\ \A h \in Grn : grn[h].status = "ABSENT" => grn'[h].status = "ABSENT"
  <2>1. status' = final
    BY <1>4 DEF PostReturn, Book, Recomputed
  <2>2. grn[g].status # "ABSENT"
    BY <1>4 DEF PostReturn
  <2>3. \A h \in Grn : h # g => grn'[h] = grn[h]
    BY <1>1, <1>4 DEF PostReturn, TypeOK
  <2>4. QED
    BY <2>1, <2>2, <2>3
<1>5. ASSUME NEW r \in Return, NEW m \in DOMAIN return[r].lines, ReverseReturnEntry(r, m)
      PROVE  /\ status' = final
             /\ \A h \in Grn : grn[h].status = "ABSENT" => grn'[h].status = "ABSENT"
  <2>1. status' = final
    BY <1>5 DEF ReverseReturnEntry, Book, Recomputed
  <2>2. PICK id0, src : id0 = <<r, m>> /\ src = ReturnLineAt(id0).source
    OBVIOUS
  <2>3. src \in GrnLines /\ src = return[r].lines[m].source
    BY <1>1, <2>2, ReturnLineIds DEF Shape, ReturnLineAt
  <2>4. src[1] \in Grn /\ src[2] \in DOMAIN grn[src[1]].lines
    BY <2>3, GrnLineIds
  <2>5. grn[src[1]].status # "ABSENT"
    BY <1>1, <2>4 DEF Shape
  <2>6. \A h \in Grn : h # src[1] => grn'[h] = grn[h]
    BY <1>1, <1>5, <2>3, <2>4 DEF ReverseReturnEntry, TypeOK
  <2>7. QED
    BY <2>1, <2>5, <2>6
<1>6. CASE OrderStep
  BY <1>6 DEF OrderStep, Create, UpdateDraft, Editable, Submit, Cancel, Cancellable, ShortClose,
     ShortClosable, MoveStock, vars
<1>7. QED
  BY <1>2, <1>3, <1>4, <1>5, <1>6 DEF Next, OrderStep

-----------------------------------------------------------------------------
(***************************************************************************)
(* The pages.                                                              *)
(***************************************************************************)

\* Once an order exists, something is ordered on each of its lines.
Placed == status = "ABSENT" \/ \A i \in Item : ordered[i] \in Nat \ {0}

LEMMA AlwaysPlaced == Spec => []Placed
<1>1. Init => Placed
  BY DEF Init, Placed
<1>2. ASSUME IInv, Placed, [Next]_vars PROVE Placed'
  <2>1. Shape /\ TypeOK
    BY <1>2 DEF IInv
  <2>2. CASE UNCHANGED ordered /\ status # "ABSENT"
    BY <1>2, <2>2 DEF Placed
  <2>3. ASSUME NEW g \in Grn, NEW lines \in GrnInput, PostGrn(g, lines)
        PROVE  UNCHANGED ordered /\ status # "ABSENT"
    BY <2>3 DEF PostGrn, Receivable
  <2>4. ASSUME NEW g \in Grn, NEW n \in DOMAIN grn[g].lines, ReverseGrnEntry(g, n)
        PROVE  UNCHANGED ordered /\ status # "ABSENT"
    BY <2>1, <2>4, GrnLineIds DEF ReverseGrnEntry, Shape
  <2>5. ASSUME NEW r \in Return, NEW g \in Grn, NEW lines \in ReturnInput, PostReturn(r, g, lines)
        PROVE  UNCHANGED ordered /\ status # "ABSENT"
    <3>1. lines \in Seq([line : Nat, away : BOOLEAN, quantity : Nat \ {0}]) /\ lines # <<>>
      BY PurchasingAssumption
    <3>2. 1 \in DOMAIN lines
      BY <3>1
    <3>3. GrnLines # {}
      BY <2>1, <2>5, <3>2, PostReturnLines
    <3>4. QED
      BY <2>1, <2>5, <3>3 DEF PostReturn, Shape
  <2>6. ASSUME NEW r \in Return, NEW m \in DOMAIN return[r].lines, ReverseReturnEntry(r, m)
        PROVE  UNCHANGED ordered /\ status # "ABSENT"
    <3>1. GrnLines # {}
      BY <2>1, ReturnLineIds DEF Shape
    <3>2. QED
      BY <2>1, <2>6, <3>1 DEF ReverseReturnEntry, Shape
  <2>7. CASE OrderStep
    <3>1. \A input \in OrderInput : \A i \in Item : input[i] \in Nat \ {0}
      BY PurchasingAssumption
    <3>2. QED
      <4>1. CASE \E input \in OrderInput : ordered' = input
        BY <3>1, <4>1 DEF Placed
      <4>2. CASE UNCHANGED ordered /\ (UNCHANGED status \/ status # "ABSENT")
        BY <1>2, <4>2 DEF Placed
      <4>3. QED
        BY <2>7, <4>1, <4>2 DEF OrderStep, Create, UpdateDraft, Submit, Editable, Cancel,
           Cancellable, ShortClose, ShortClosable, MoveStock, vars
  <2>8. QED
    BY <1>2, <2>2, <2>3, <2>4, <2>5, <2>6, <2>7 DEF Next, OrderStep
<1>3. QED
  BY <1>1, <1>2, AlwaysInvariant, PTL DEF Spec

\* The header of an order offers what its routes accept.
LEMMA HeaderOffers ==
    ASSUME TypeOK, NEW role \in Role
    PROVE  /\ PurchaseOrderActions(PurchaseOrderPage(role)) =
                {a \in {"edit", "cancel", "short-close", "submit"} :
                    \/ a = "edit" /\ UpdateRoute(role)
                    \/ a = "cancel" /\ CancelRoute(role)
                    \/ a = "short-close" /\ ShortCloseRoute(role)
                    \/ a = "submit" /\ SubmitRoute(role)}
           /\ EditPage(role) <=> UpdateRoute(role)
<1> DEFINE page == PurchaseOrderPage(role)
<1>1. ~HasReceipts <=> \A i \in Item : received[i] <= 0
  BY DEF HasReceipts, TypeOK
<1>2. /\ page.canEdit <=> UpdateRoute(role)
      /\ page.canSubmit <=> SubmitRoute(role)
      /\ page.canCancel <=> CancelRoute(role)
      /\ page.canShortClose <=> ShortCloseRoute(role)
  BY <1>1 DEF PurchaseOrderPage, UpdateRoute, SubmitRoute, CancelRoute, ShortCloseRoute, Editable,
     Cancellable, ShortClosable
<1>3. EditPage(role) <=> UpdateRoute(role)
  BY DEF EditPage, UpdateRoute, Editable
<1> HIDE DEF page
<1>4. PurchaseOrderActions(page) =
          {a \in {"edit", "cancel", "short-close", "submit"} :
              \/ a = "edit" /\ UpdateRoute(role)
              \/ a = "cancel" /\ CancelRoute(role)
              \/ a = "short-close" /\ ShortCloseRoute(role)
              \/ a = "submit" /\ SubmitRoute(role)}
  BY <1>2 DEF PurchaseOrderActions
<1>5. QED
  BY <1>3, <1>4 DEF page

\* A receipt of one line is taken when the line still waits for that much.
LEMMA ReceiptTaken ==
    ASSUME IInv, NEW i \in Item, NEW n \in Nat
    PROVE  Receives(ReceiptOf(i, n)) <=>
              status \in {"OPEN", "PARTIALLY_RECEIVED"} /\ n <= ordered[i] - received[i]
<1> DEFINE lines == ReceiptOf(i, n)
<1>1. DOMAIN lines = {1} /\ lines[1].item = i /\ lines[1].got = n /\ lines[1].accepted = n
  BY DEF ReceiptOf
<1> HIDE DEF lines
<1>2. ValidGrn(lines)
  BY <1>1 DEF ValidGrn, NoDuplicateLines
<1>3. ASSUME NEW j \in Item PROVE AcceptedOf(lines, j) = IF j = i THEN n ELSE 0
  <2> DEFINE f == [k \in DOMAIN lines |-> lines[k].accepted]
  <2> DEFINE N == {k \in DOMAIN lines : lines[k].item = j}
  <2>1. AcceptedOf(lines, j) = SumFunctionOnSet(f, N)
    BY DEF AcceptedOf, SumLines
  <2>2. f[1] = n
    BY <1>1
  <2>3. N = IF j = i THEN {1} ELSE {}
    BY <1>1
  <2> HIDE DEF f, N
  <2>4. SumFunctionOnSet(f, {1}) = n
    BY <2>2, SumOfOne
  <2>5. QED
    BY <2>1, <2>3, <2>4, SumEmpty
<1>4. \A j \in Item : received[j] \in Int /\ ordered[j] \in Nat /\ received[j] <= ordered[j]
  BY DEF IInv, TypeOK, Bounds
<1>5. WithinPending(lines) <=> n <= ordered[i] - received[i]
  BY <1>3, <1>4 DEF WithinPending
<1>6. QED
  BY <1>2, <1>5 DEF Receives, Receivable, lines

LEMMA FormOffers ==
    ASSUME IInv, Placed, NEW form, form \in {ReceiveGoodsForm(role) : role \in {r \in Role : ReceiveRoute(r)}}
    PROVE  /\ {k \in (DOMAIN form) \X Quantities : k[2] <= form[k[1]]} =
                {k \in Item \X Quantities : Receives(ReceiptOf(k[1], k[2]))}
           /\ status \in {"OPEN", "PARTIALLY_RECEIVED"} => DOMAIN form # {}
<1> DEFINE live == status \in {"OPEN", "PARTIALLY_RECEIVED"}
<1>1. \A j \in Item : received[j] \in Int /\ ordered[j] \in Nat /\ received[j] <= ordered[j]
  BY DEF IInv, TypeOK, Bounds
<1>2. /\ DOMAIN form = IF live THEN PendingLines ELSE {}
      /\ \A i \in DOMAIN form : form[i] = ordered[i] - received[i]
  BY DEF ReceiveGoodsForm, ReceiveRoute
<1>3. \A n \in Quantities : n \in Nat \ {0}
  BY <1>1 DEF Quantities
<1>4. ASSUME NEW i \in Item, NEW n \in Quantities
      PROVE  i \in DOMAIN form /\ n <= form[i] <=> Receives(ReceiptOf(i, n))
  <2>1. Receives(ReceiptOf(i, n)) <=> live /\ n <= ordered[i] - received[i]
    BY <1>3, ReceiptTaken
  <2>2. n <= ordered[i] - received[i] => ordered[i] - received[i] > 0
    BY <1>1, <1>3
  <2>3. QED
    BY <1>2, <2>1, <2>2 DEF PendingLines
<1>5. DOMAIN form \subseteq Item
  BY <1>2 DEF PendingLines
<1>6. {k \in (DOMAIN form) \X Quantities : k[2] <= form[k[1]]} =
          {k \in Item \X Quantities : Receives(ReceiptOf(k[1], k[2]))}
  BY <1>4, <1>5
<1>7. ASSUME live PROVE DOMAIN form # {}
  <2>1. \A i \in Item : ordered[i] \in Nat \ {0}
    BY <1>7 DEF Placed
  <2>2. \E i \in Item : received[i] < ordered[i]
    <3>1. Item # {}
      BY PurchasingAssumption
    <3>2. CASE status = "OPEN"
      BY <1>1, <2>1, <3>1, <3>2 DEF IInv, StatusOfCounters
    <3>3. CASE status = "PARTIALLY_RECEIVED"
      BY <3>3 DEF IInv, StatusOfCounters
    <3>4. QED
      BY <1>7, <3>2, <3>3
  <2>3. QED
    BY <1>1, <1>2, <1>7, <2>2 DEF PendingLines
<1>8. QED
  BY <1>6, <1>7
\* A line has standing returns exactly when its counter is above zero.
LEMMA OutstandingIs ==
    ASSUME IInv, NEW id \in GrnLines
    PROVE  id \in Outstanding <=> GrnLineAt(id).returned > 0
<1>1. TypeOK /\ Shape /\ CountersMatchDocuments
  BY DEF IInv
<1>2. GrnLineAt(id).returned = SumFunctionOnSet(BackQuantities, Back({id}))
  BY <1>1, CountersBefore, SumsAre
<1>3. IsFiniteSet(Back({id})) /\ \A r \in Back({id}) : BackQuantities[r] \in Nat \ {0}
  BY <1>1, LinesCounted
<1>4. id \in Outstanding <=> Back({id}) # {}
  BY DEF Outstanding, Back
<1>5. CASE Back({id}) = {}
  BY <1>2, <1>4, <1>5, SumEmpty
<1>6. CASE Back({id}) # {}
  <2>1. PICK r \in Back({id}) : TRUE
    BY <1>6
  <2>2. /\ SumFunctionOnSet(BackQuantities, Back({id})) \in Nat
        /\ BackQuantities[r] <= SumFunctionOnSet(BackQuantities, Back({id}))
    BY <1>3, <2>1, SumNat
  <2>3. QED
    BY <1>2, <1>3, <1>4, <1>6, <2>1, <2>2
<1>7. QED
  BY <1>5, <1>6

\* A return of one line is taken when that much of it can be returned.
LEMMA ReturnTaken ==
    ASSUME NEW g, NEW n, NEW quantity
    PROVE  TakesReturn(g, <<[line |-> n, quantity |-> quantity]>>) <=>
              n \in DOMAIN grn[g].lines /\ quantity <= Returnable(grn[g].lines[n])
<1> DEFINE lines == <<[line |-> n, quantity |-> quantity]>>
<1>1. DOMAIN lines = {1} /\ lines[1].line = n /\ lines[1].quantity = quantity
  OBVIOUS
<1> HIDE DEF lines
<1>2. ValidReturn(lines)
  BY <1>1 DEF ValidReturn, NoDuplicateLines
<1>3. QED
  BY <1>1, <1>2 DEF TakesReturn, WithinReturnable, lines

LEMMA ReturnableIs ==
    ASSUME NEW line, line.accepted \in Nat, line.returned \in Nat, line.reversed \in BOOLEAN
    PROVE  /\ Returnable(line) = IF line.accepted > 0 /\ ~line.reversed
                                 THEN line.accepted - line.returned ELSE 0
           /\ Returnable(line) \in Int
<1>1. line.accepted = 0 <=> ~(line.accepted > 0)
  OBVIOUS
<1>2. CASE line.accepted > 0 /\ ~line.reversed
  BY <1>1, <1>2 DEF Returnable
<1>3. CASE ~(line.accepted > 0 /\ ~line.reversed)
  BY <1>1, <1>3 DEF Returnable
<1>4. QED
  BY <1>2, <1>3

\* The pages of a receipt offer what its routes accept.
LEMMA ReceiptOffers ==
    ASSUME IInv, NEW g \in Posted, NEW returnable, returnable = ReturnableLines(g)
    PROVE  LET lines == grn[g].lines
               admitted == {role \in Role : ReturnRoute(role)}
               linked == {role \in Role : ReturnLink(role, g)}
               takes == {k \in (DOMAIN lines) \X Quantities :
                           TakesReturn(g, <<[line |-> k[1], quantity |-> k[2]]>>)}
               shown == {k \in Enterable(returnable) \X Quantities : k[2] <= returnable[k[1]]}
               offered == {n \in DOMAIN lines : Reversible(lines[n]) \/ <<g, n>> \in Outstanding}
           IN  /\ linked \in {{}, admitted}
               /\ takes = IF linked = {} THEN {} ELSE shown
               /\ \A role \in Role : ReversibleEntries(role, g) =
                     IF ReverseRoute(role) THEN offered ELSE {}
<1> DEFINE lines == grn[g].lines
<1> DEFINE admitted == {role \in Role : ReturnRoute(role)}
<1> DEFINE linked == {role \in Role : ReturnLink(role, g)}
<1> DEFINE takes == {k \in (DOMAIN lines) \X Quantities :
                        TakesReturn(g, <<[line |-> k[1], quantity |-> k[2]]>>)}
<1> DEFINE shown == {k \in Enterable(returnable) \X Quantities : k[2] <= returnable[k[1]]}
<1> DEFINE offered == {n \in DOMAIN lines : Reversible(lines[n]) \/ <<g, n>> \in Outstanding}
<1> DEFINE any == /\ grn[g].status # "REVERSED"
                  /\ \E n \in DOMAIN lines : lines[n].accepted > lines[n].returned
<1>1. TypeOK /\ Shape /\ StatusDerived /\ Bounds /\ g \in Grn /\ grn[g].status # "ABSENT"
  BY DEF IInv, Posted
<1>2. ASSUME NEW n \in DOMAIN lines
      PROVE  /\ lines[n].accepted \in Nat /\ lines[n].returned \in Nat
             /\ <<g, n>> \in GrnLines /\ GrnLineAt(<<g, n>>) = lines[n]
             /\ lines[n].returned <= Holds(lines[n])
             /\ lines[n].reversed \in BOOLEAN
             /\ lines[n].reversed => lines[n].accepted > 0
  <2>1. <<g, n>> \in GrnLines /\ GrnLineAt(<<g, n>>) = lines[n]
    BY <1>1, GrnLineIds DEF GrnLineAt
  <2>2. lines[n] \in GrnLine
    BY <1>1, <2>1, GrnLineTyped
  <2>3. lines[n].returned \in Nat
    BY <2>1, ReturnedNotNegative DEF IInv
  <2>4. QED
    BY <1>1, <2>1, <2>2, <2>3 DEF GrnLine, Bounds, Shape
<1>3. \A role \in Role : role \in linked <=> role \in admitted /\ any
  BY DEF ReturnLink, ReturnRoute
<1>4. admitted # {}
  <2>1. "ADMIN" \in Role /\ ReturnRoute("ADMIN")
    BY DEF ReturnRoute, Can, Holders, Role, Floor
  <2>2. QED
    BY <2>1
<1>5. linked = IF any THEN admitted ELSE {}
  <2> HIDE DEF any
  <2>1. linked \subseteq Role /\ admitted \subseteq Role
    OBVIOUS
  <2> HIDE DEF linked, admitted
  <2>2. QED
    BY <1>3, <2>1
<1>6. DOMAIN returnable = DOMAIN lines /\ \A n \in DOMAIN lines : returnable[n] = Returnable(lines[n])
  <2>1. DOMAIN returnable = DOMAIN lines
    BY DEF ReturnableLines
  <2>2. ASSUME NEW n \in DOMAIN lines PROVE returnable[n] = Returnable(lines[n])
    <3>1. returnable[n] = IF ~(lines[n].accepted > 0) \/ lines[n].reversed
                          THEN 0 ELSE lines[n].accepted - lines[n].returned
      BY DEF ReturnableLines, EntryOf
    <3>2. Returnable(lines[n]) = IF lines[n].accepted > 0 /\ ~lines[n].reversed
                                 THEN lines[n].accepted - lines[n].returned ELSE 0
      BY <1>2, ReturnableIs
    <3> HIDE DEF lines
    <3>3. QED
      BY <3>1, <3>2
  <2>3. QED
    BY <2>1, <2>2
<1>7. \A n \in Quantities : n \in Nat \ {0}
  BY <1>1 DEF Quantities, TypeOK
<1>8. takes = shown
  <2>1. ASSUME NEW n \in DOMAIN lines, NEW quantity \in Quantities
        PROVE  <<n, quantity>> \in takes <=> <<n, quantity>> \in shown
    <3>1. <<n, quantity>> \in takes <=> quantity <= Returnable(lines[n])
      BY ReturnTaken
    <3>2. <<n, quantity>> \in shown <=> Returnable(lines[n]) # 0 /\ quantity <= Returnable(lines[n])
      BY <1>6 DEF Enterable
    <3>3. quantity <= Returnable(lines[n]) => Returnable(lines[n]) # 0
      BY <1>7
    <3>4. QED
      BY <3>1, <3>2, <3>3
  <2>2. Enterable(returnable) \subseteq DOMAIN lines
    BY <1>6 DEF Enterable
  <2>3. takes \subseteq (DOMAIN lines) \X Quantities /\ shown \subseteq (DOMAIN lines) \X Quantities
    BY <2>2
  <2> HIDE DEF takes, shown
  <2>4. QED
    BY <2>1, <2>3
<1>9. ASSUME ~any PROVE takes = {}
  <2>1. ASSUME NEW n \in DOMAIN lines PROVE Returnable(lines[n]) <= 0
    <3> DEFINE line == lines[n]
    <3>0. /\ line.accepted \in Nat /\ line.returned \in Nat
          /\ Returnable(line) = IF line.accepted > 0 /\ ~line.reversed
                                THEN line.accepted - line.returned ELSE 0
      BY <1>2, ReturnableIs
    <3>1. CASE grn[g].status = "REVERSED"
      <4>1. IInv => DocumentStatusFollowsEntries
        BY InvariantDocuments
      <4> DEFINE posted == {id \in GrnLines : id[1] = g /\ GrnLineAt(id).accepted > 0}
      <4> DEFINE undone == {id \in posted : GrnLineAt(id).reversed}
      <4>2. undone = posted
        BY <1>1, <3>1, <4>1 DEF DocumentStatusFollowsEntries
      <4>3. lines[n].accepted > 0 => lines[n].reversed
        BY <1>2, <4>2
      <4> HIDE DEF line
      <4>4. QED
        BY <3>0, <4>3 DEF line
    <3>2. CASE ~(line.accepted > line.returned)
      <4>1. PICK accepted, returned : accepted = line.accepted /\ returned = line.returned
        OBVIOUS
      <4>2. accepted \in Nat /\ returned \in Nat /\ accepted - returned <= 0
        BY <3>0, <3>2, <4>1
      <4> HIDE DEF line
      <4>3. Returnable(line) <= 0
        BY <3>0, <4>1, <4>2
      <4>4. QED
        BY <4>3 DEF line
    <3>3. QED
      BY <1>9, <3>1, <3>2
  <2>2. ASSUME NEW n \in DOMAIN lines, NEW quantity \in Quantities PROVE <<n, quantity>> \notin takes
    <3>1. <<n, quantity>> \in takes <=> quantity <= Returnable(lines[n])
      BY ReturnTaken
    <3>2. Returnable(lines[n]) \in Int /\ quantity \in Nat \ {0}
      BY <1>2, <1>7, ReturnableIs
    <3>3. QED
      BY <2>1, <3>1, <3>2
  <2>3. takes \subseteq (DOMAIN lines) \X Quantities
    OBVIOUS
  <2> HIDE DEF takes
  <2>4. QED
    BY <2>2, <2>3
<1>10. ASSUME NEW role \in Role
       PROVE  ReversibleEntries(role, g) = IF ReverseRoute(role) THEN offered ELSE {}
  <2>1. ASSUME NEW n \in DOMAIN lines
        PROVE  lines[n].accepted > 0 /\ ~lines[n].reversed <=>
                  Reversible(lines[n]) \/ <<g, n>> \in Outstanding
    <3>1. <<g, n>> \in Outstanding <=> lines[n].returned > 0
      BY <1>2, OutstandingIs
    <3>2. QED
      BY <1>2, <3>1 DEF Reversible, NothingReturned, Holds
  <2>2. ReversibleEntries(role, g) =
            {n \in DOMAIN lines : ReverseRoute(role) /\ lines[n].accepted > 0 /\ ~lines[n].reversed}
    BY DEF ReversibleEntries, InLedger, ReverseRoute
  <2>3. QED
    BY <2>1, <2>2
<1> HIDE DEF any, takes, shown, offered
<1>11. linked \in {{}, admitted} /\ takes = IF linked = {} THEN {} ELSE shown
  BY <1>4, <1>5, <1>8, <1>9
<1>12. QED
  BY <1>10, <1>11 DEF takes, shown, offered

LEMMA InvariantPages == IInv /\ Placed => PagesOfferWhatRoutesAccept
<1> SUFFICES ASSUME IInv, Placed PROVE PagesOfferWhatRoutesAccept
  OBVIOUS
<1>1. TypeOK
  BY DEF IInv
<1>2. \A role \in Role : ~ReceiveRoute(role) => DOMAIN ReceiveGoodsForm(role) = {}
  BY DEF ReceiveGoodsForm, ReceiveRoute
<1>3. \A role \in Role :
        /\ PurchaseOrderActions(PurchaseOrderPage(role)) =
              {a \in {"edit", "cancel", "short-close", "submit"} :
                  \/ a = "edit" /\ UpdateRoute(role)
                  \/ a = "cancel" /\ CancelRoute(role)
                  \/ a = "short-close" /\ ShortCloseRoute(role)
                  \/ a = "submit" /\ SubmitRoute(role)}
        /\ EditPage(role) <=> UpdateRoute(role)
  BY <1>1, HeaderOffers
<1>4. \A q \in {Quantities} :
        \A form \in {ReceiveGoodsForm(role) : role \in {r \in Role : ReceiveRoute(r)}} :
          /\ {k \in (DOMAIN form) \X q : k[2] <= form[k[1]]} =
                {k \in Item \X q : Receives(ReceiptOf(k[1], k[2]))}
          /\ status \in {"OPEN", "PARTIALLY_RECEIVED"} => DOMAIN form # {}
  BY FormOffers
<1>5. \A q \in {Quantities}, outstanding \in {Outstanding}, g \in Posted :
          \A returnable \in {ReturnableLines(g)} :
             LET lines == grn[g].lines
                 admitted == {role \in Role : ReturnRoute(role)}
                 linked == {role \in Role : ReturnLink(role, g)}
                 takes == {k \in (DOMAIN lines) \X q :
                             TakesReturn(g, <<[line |-> k[1], quantity |-> k[2]]>>)}
                 shown == {k \in Enterable(returnable) \X q : k[2] <= returnable[k[1]]}
                 offered == {n \in DOMAIN lines : Reversible(lines[n]) \/ <<g, n>> \in outstanding}
             IN  /\ linked \in {{}, admitted}
                 /\ takes = IF linked = {} THEN {} ELSE shown
                 /\ \A role \in Role : ReversibleEntries(role, g) =
                       IF ReverseRoute(role) THEN offered ELSE {}
  BY ReceiptOffers
<1>6. QED
  BY <1>2, <1>3, <1>4, <1>5 DEF PagesOfferWhatRoutesAccept

-----------------------------------------------------------------------------
(***************************************************************************)
(* Theorems.                                                               *)
(***************************************************************************)

\* Every reachable state is one the tables can hold: no stock below zero, and
\* counters, documents and lines of the types of their columns.
THEOREM TypeCorrect == Spec => []TypeOK
BY AlwaysInvariant, PTL DEF IInv

\* received_qty and returned_qty, which four services increment and decrement,
\* are at all times what the standing documents add up to.
THEOREM CountersHold == Spec => []CountersMatchDocuments
BY AlwaysInvariant, PTL DEF IInv

\* No sequence of receipts, returns and reversals runs into a CHECK of
\* purchase_order_item, grn_item or stock_balance.
THEOREM NeverOverReceivedHolds == Spec => []NeverOverReceived
BY AlwaysInvariant, InvariantBounds, PTL

\* The status of an order is the one its standing receipts stand for.
THEOREM StatusHolds == Spec => []StatusFollowsReceipts
BY AlwaysInvariant, InvariantStatus, PTL

\* A receipt or return is REVERSED exactly when all of its entries are.
THEOREM DocumentStatusHolds == Spec => []DocumentStatusFollowsEntries
BY AlwaysInvariant, InvariantDocuments, PTL

\* A cancelled or short-closed order stays closed and takes no further receipt.
THEOREM ClosedOrdersHold == Spec => ClosedOrdersStayClosed
<1>1. IInv /\ [Next]_vars =>
        [\A final \in {"CANCELLED", "SHORT_CLOSED"} :
            status = final =>
                /\ status' = final
                /\ \A g \in Grn : grn[g].status = "ABSENT" => grn'[g].status = "ABSENT"]_vars
  BY ClosedStep
<1>2. QED
  BY <1>1, AlwaysInvariant, PTL DEF Spec, ClosedOrdersStayClosed

\* The pages of an order, its receipts and its returns offer every user exactly
\* what the services accept from him.
THEOREM PagesHold == Spec => []PagesOfferWhatRoutesAccept
BY AlwaysInvariant, AlwaysPlaced, InvariantPages, PTL
==============================================================================
