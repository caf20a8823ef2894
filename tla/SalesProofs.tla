----------------------------- MODULE SalesProofs -----------------------------
(***************************************************************************)
(* What SalesPages checks on one invoice, proved for any number of SKUs,     *)
(* batches, godowns, dispatches and customer returns, and for any input.     *)
(***************************************************************************)
EXTENDS SalesPages, SumTheorems

-----------------------------------------------------------------------------
(***************************************************************************)
(* The lines of the documents.                                             *)
(***************************************************************************)

LEMMA DispatchLineIds ==
    /\ \A d \in Dispatch : \A n : <<d, n>> \in DispatchLines <=> n \in DOMAIN dispatch[d].lines
    /\ \A id \in DispatchLines : /\ id[1] \in Dispatch /\ id[2] \in DOMAIN dispatch[id[1]].lines
                                 /\ id = <<id[1], id[2]>>
BY DEF DispatchLines

LEMMA ReturnLineIds ==
    /\ \A r \in Return : \A m : <<r, m>> \in ReturnLines <=> m \in DOMAIN return[r].lines
    /\ \A id \in ReturnLines : /\ id[1] \in Return /\ id[2] \in DOMAIN return[id[1]].lines
                               /\ id = <<id[1], id[2]>>
BY DEF ReturnLines

\* A customer return without a number has no lines, there are finitely many
\* lines, and a return is of lines that were dispatched.
Shape ==
    /\ \A r \in Return : return[r].status = "ABSENT" => return[r].lines = <<>>
    /\ IsFiniteSet(DispatchLines) /\ IsFiniteSet(ReturnLines)
    /\ \A id \in ReturnLines : ReturnLineAt(id).source \in DispatchLines

LEMMA DispatchTyped ==
    ASSUME TypeOK, NEW d \in Dispatch
    PROVE  /\ dispatch[d].lines \in Seq(DispatchLine)
           /\ dispatch[d].status = "ABSENT" => dispatch[d].lines = <<>>
           /\ dispatch[d].lines # <<>> => dispatch[d] \in DispatchDoc
           /\ dispatch[d].status # "ABSENT" => dispatch[d] \in DispatchDoc
<1>1. dispatch[d] \in DispatchDoc \/ dispatch[d] = NotPosted
  BY DEF TypeOK
<1>2. CASE dispatch[d] \in DispatchDoc
  BY <1>2 DEF DispatchDoc
<1>3. CASE dispatch[d] = NotPosted
  <2>1. dispatch[d].lines = <<>> /\ dispatch[d].status = "ABSENT"
    BY <1>3 DEF NotPosted
  <2>2. QED
    BY <2>1
<1>4. QED
  BY <1>1, <1>2, <1>3

LEMMA DispatchLineTyped ==
    ASSUME TypeOK, NEW id \in DispatchLines
    PROVE  DispatchLineAt(id) \in DispatchLine /\ dispatch[id[1]] \in DispatchDoc
<1>1. id[1] \in Dispatch /\ id[2] \in DOMAIN dispatch[id[1]].lines
  BY DispatchLineIds
<1>2. dispatch[id[1]].lines \in Seq(DispatchLine) /\ dispatch[id[1]].lines # <<>>
  BY <1>1, DispatchTyped
<1>3. DispatchLineAt(id) \in DispatchLine
  BY <1>1, <1>2 DEF DispatchLineAt
<1>4. QED
  BY <1>1, <1>2, <1>3, DispatchTyped

LEMMA ReturnLineTyped == TypeOK => \A id \in ReturnLines : ReturnLineAt(id) \in ReturnLine
<1> SUFFICES ASSUME TypeOK, NEW id \in ReturnLines PROVE ReturnLineAt(id) \in ReturnLine
  OBVIOUS
<1>1. id[1] \in Return /\ id[2] \in DOMAIN return[id[1]].lines
  BY ReturnLineIds
<1>2. return[id[1]].lines \in Seq(ReturnLine)
  BY <1>1 DEF TypeOK
<1>3. QED
  BY <1>1, <1>2 DEF ReturnLineAt

-----------------------------------------------------------------------------
(***************************************************************************)
(* Types.                                                                  *)
(***************************************************************************)

LEMMA DispatchInputs ==
    ASSUME NEW input \in DispatchInput
    PROVE  /\ input.godown \in Godown /\ input.linked \in BOOLEAN
           /\ input.lines \in Seq([sku : Sku, batch : Batch, quantity : Nat \ {0}])
           /\ \A n \in DOMAIN input.lines :
                 /\ input.lines[n] \in [sku : Sku, batch : Batch, quantity : Nat \ {0}]
                 /\ input.lines[n].quantity \in Nat \ {0}
<1>1. /\ input.godown \in Godown /\ input.linked \in BOOLEAN
      /\ input.lines \in Seq([sku : Sku, batch : Batch, quantity : Nat \ {0}])
  BY SalesAssumption
<1>2. \A n \in DOMAIN input.lines :
          input.lines[n] \in [sku : Sku, batch : Batch, quantity : Nat \ {0}]
  BY <1>1, LinesFinite
<1>3. QED
  BY <1>1, <1>2

LEMMA ReturnInputs ==
    ASSUME NEW input \in ReturnInput
    PROVE  /\ input.godown \in Godown
           /\ input.lines \in Seq([line : Nat, quantity : Nat \ {0}])
           /\ \A m \in DOMAIN input.lines : input.lines[m].quantity \in Nat \ {0}
<1>1. input.godown \in Godown /\ input.lines \in Seq([line : Nat, quantity : Nat \ {0}])
  BY SalesAssumption
<1>2. \A m \in DOMAIN input.lines : input.lines[m] \in [line : Nat, quantity : Nat \ {0}]
  BY <1>1, LinesFinite
<1>3. QED
  BY <1>1, <1>2

\* A sum over the lines of an input is a natural number.
LEMMA InputSum ==
    ASSUME NEW S, NEW lines \in Seq(S), \A n \in DOMAIN lines : lines[n].quantity \in Nat \ {0},
           NEW D \in SUBSET DOMAIN lines
    PROVE  SumFunctionOnSet([n \in DOMAIN lines |-> lines[n].quantity], D) \in Nat
<1> DEFINE f == [n \in DOMAIN lines |-> lines[n].quantity]
<1>1. IsFiniteSet(D) /\ \A n \in D : f[n] \in Nat
  BY LinesFinite
<1> HIDE DEF f
<1>2. SumFunctionOnSet(f, D) \in Nat
  BY <1>1, SumNat
<1>3. QED
  BY <1>2 DEF f

LEMMA DispatchSums ==
    ASSUME NEW input \in DispatchInput
    PROVE  /\ \A s : QuantityOf(input.lines, s) \in Nat
           /\ \A b : OutOf(input.lines, b) \in Nat
BY DispatchInputs, InputSum DEF QuantityOf, OutOf, SumLines

LEMMA ReturnSums ==
    ASSUME NEW input \in ReturnInput
    PROVE  /\ \A n : TakenBack(input.lines, n) \in Nat
           /\ \A d, b : IntoBatch(d, input.lines, b) \in Nat
BY ReturnInputs, InputSum DEF TakenBack, IntoBatch, SumLines

LEMMA DerivedTyped ==
    \A total, reversed : Derived(total, reversed) \in DocStatus \ {"ABSENT"}
BY DEF Derived, DocStatus

\* The quantities that a document books keep dispatched_qty an integer.
LEMMA BookTyped ==
    ASSUME TypeOK, NEW delta, \A s \in Sku : delta[s] \in Int, Book(delta)
    PROVE  dispatched' \in [Sku -> Int] /\ status' \in Status
BY DEF Book, Recomputed, TypeOK, Status

\* What may happen to a line of a dispatch.
LEMMA DispatchLineMarked ==
    ASSUME NEW line \in DispatchLine
    PROVE  LET marked == [line EXCEPT !.reversed = TRUE]
           IN  /\ marked \in DispatchLine
               /\ marked.sku = line.sku /\ marked.batch = line.batch
               /\ marked.quantity = line.quantity /\ marked.returned = line.returned
               /\ marked.reversed = TRUE
BY DEF DispatchLine

LEMMA DispatchLineReturned ==
    ASSUME NEW line \in DispatchLine, NEW quantity \in Int
    PROVE  LET more == ReturnedMore(line, quantity)
           IN  /\ more \in DispatchLine
               /\ more.sku = line.sku /\ more.batch = line.batch
               /\ more.quantity = line.quantity /\ more.reversed = line.reversed
               /\ more.returned = line.returned + quantity
BY DEF DispatchLine, ReturnedMore

LEMMA ReturnLineMarked ==
    ASSUME NEW line \in ReturnLine
    PROVE  LET marked == [line EXCEPT !.reversed = TRUE]
           IN  /\ marked \in ReturnLine
               /\ marked.source = line.source /\ marked.quantity = line.quantity
               /\ marked.reversed = TRUE
BY DEF ReturnLine

\* The line that a line of an input is stored as.
Stored(line) == [sku |-> line.sku, batch |-> line.batch, quantity |-> line.quantity,
                 returned |-> 0, reversed |-> FALSE]

LEMMA PostDispatchTyped ==
    ASSUME TypeOK, NEW d \in Dispatch, NEW input \in DispatchInput, PostDispatch(d, input)
    PROVE  TypeOK'
<1> DEFINE new == [n \in DOMAIN input.lines |-> Stored(input.lines[n])]
<1>1. new \in Seq(DispatchLine)
  <2>1. ASSUME NEW n \in DOMAIN input.lines PROVE new[n] \in DispatchLine
    BY DispatchInputs DEF Stored, DispatchLine
  <2>2. input.lines \in Seq([sku : Sku, batch : Batch, quantity : Nat \ {0}])
    BY DispatchInputs
  <2> HIDE DEF new
  <2>3. new = [n \in DOMAIN input.lines |-> new[n]]
    BY DEF new
  <2>4. PICK S, lines : /\ S = [sku : Sku, batch : Batch, quantity : Nat \ {0}]
                        /\ lines = input.lines
    OBVIOUS
  <2>5. lines \in Seq(S) /\ new = [n \in DOMAIN lines |-> new[n]]
    BY <2>2, <2>3, <2>4
  <2>6. \A n \in DOMAIN lines : new[n] \in DispatchLine
    BY <2>1, <2>4
  <2>7. QED
    BY <2>5, <2>6, LinesMade
<1>2. dispatch' = [dispatch EXCEPT ![d] = [status |-> "POSTED", godown |-> input.godown,
                                           linked |-> input.linked, lines |-> new]]
  BY DEF PostDispatch, Stored
<1> HIDE DEF new
<1>3. [status |-> "POSTED", godown |-> input.godown, linked |-> input.linked, lines |-> new]
          \in DispatchDoc
  BY <1>1, DispatchInputs DEF DispatchDoc, DocStatus
<1>4. dispatch' \in [Dispatch -> DispatchDoc \cup {NotPosted}]
  BY <1>2, <1>3 DEF TypeOK
<1>5. stock' \in [Godown \X Batch -> Nat]
  <2>1. \A k \in Godown \X Batch : OutOf(input.lines, k[2]) \in Nat /\ stock[k] \in Nat
    BY DispatchSums DEF TypeOK
  <2>2. stock' = [k \in Godown \X Batch |->
            IF k[1] = input.godown THEN stock[k] - OutOf(input.lines, k[2]) ELSE stock[k]]
    BY DEF PostDispatch
  <2>3. \A k \in Godown \X Batch : stock'[k] >= 0
    BY DEF PostDispatch
  <2>4. \A k \in Godown \X Batch : stock'[k] \in Int
    BY <2>1, <2>2
  <2>5. \A k \in Godown \X Batch : stock'[k] \in Nat
    BY <2>3, <2>4
  <2>6. QED
    BY <2>2, <2>5
<1>6. dispatched' \in [Sku -> Int] /\ status' \in Status
  <2>1. CASE input.linked
    <3> DEFINE delta == [s \in Sku |-> QuantityOf(input.lines, s)]
    <3>1. \A s \in Sku : delta[s] \in Int
      BY DispatchSums
    <3>2. Book(delta)
      BY <2>1 DEF PostDispatch, ApplyToInvoice
    <3> HIDE DEF delta
    <3>3. QED
      BY <3>1, <3>2, BookTyped
  <2>2. CASE ~input.linked
    BY <2>2 DEF PostDispatch, TypeOK
  <2>3. QED
    BY <2>1, <2>2
<1>7. QED
  BY <1>4, <1>5, <1>6 DEF TypeOK, PostDispatch

LEMMA ReverseDispatchEntryTyped ==
    ASSUME TypeOK, NEW d \in Dispatch, NEW n \in DOMAIN dispatch[d].lines, ReverseDispatchEntry(d, n)
    PROVE  TypeOK'
<1> DEFINE line == dispatch[d].lines[n]
<1> DEFINE lines == [dispatch[d].lines EXCEPT ![n].reversed = TRUE]
<1> DEFINE st == Derived(Len(lines), Cardinality(ReversedLines(lines)))
<1>1. line \in DispatchLine /\ dispatch[d].lines \in Seq(DispatchLine) /\ dispatch[d] \in DispatchDoc
  BY DispatchTyped
<1>2. lines \in Seq(DispatchLine)
  <2>1. [line EXCEPT !.reversed = TRUE] \in DispatchLine
    BY <1>1, DispatchLineMarked
  <2>2. lines = [dispatch[d].lines EXCEPT ![n] = [line EXCEPT !.reversed = TRUE]]
    OBVIOUS
  <2> HIDE DEF line, lines
  <2>3. QED
    BY <1>1, <2>1, <2>2, LineReplaced
<1>3. st \in DocStatus \ {"ABSENT"}
  BY DerivedTyped
<1>4. /\ dispatch' = [dispatch EXCEPT ![d].lines = lines, ![d].status = st]
      /\ stock' = [stock EXCEPT ![<<dispatch[d].godown, line.batch>>] = @ + line.quantity]
      /\ Release(d, line)
      /\ UNCHANGED <<invoiced, return>>
  BY DEF ReverseDispatchEntry
<1> HIDE DEF line, lines, st
<1>5. dispatch' \in [Dispatch -> DispatchDoc \cup {NotPosted}]
  <2>1. [dispatch[d] EXCEPT !.lines = lines, !.status = st] \in DispatchDoc
    BY <1>1, <1>2, <1>3 DEF DispatchDoc
  <2>2. dispatch' = [dispatch EXCEPT ![d] = [dispatch[d] EXCEPT !.lines = lines, !.status = st]]
    BY <1>4 DEF TypeOK
  <2>3. QED
    BY <2>1, <2>2 DEF TypeOK
<1>6. stock' \in [Godown \X Batch -> Nat]
  <2>1. line.batch \in Batch /\ line.quantity \in Nat /\ dispatch[d].godown \in Godown
    BY <1>1 DEF DispatchLine, DispatchDoc
  <2>2. stock \in [Godown \X Batch -> Nat]
    BY DEF TypeOK
  <2>3. stock[<<dispatch[d].godown, line.batch>>] + line.quantity \in Nat
    BY <2>1, <2>2
  <2>4. QED
    BY <1>4, <2>2, <2>3
<1>7. dispatched' \in [Sku -> Int] /\ status' \in Status
  <2>1. CASE dispatch[d].linked
    <3> DEFINE delta == [s \in Sku |-> IF s = line.sku THEN -line.quantity ELSE 0]
    <3>1. \A s \in Sku : delta[s] \in Int
      BY <1>1 DEF DispatchLine
    <3>2. Book(delta)
      BY <1>4, <2>1 DEF Release
    <3> HIDE DEF delta
    <3>3. QED
      BY <3>1, <3>2, BookTyped
  <2>2. CASE ~dispatch[d].linked
    BY <1>4, <2>2 DEF Release, TypeOK
  <2>3. QED
    BY <2>1, <2>2
<1>8. QED
  BY <1>4, <1>5, <1>6, <1>7 DEF TypeOK

\* The line that the return of an input line of dispatch d is stored as.
StoredReturn(d, godown, line) ==
    [source |-> <<d, line.line>>, godown |-> godown, quantity |-> line.quantity, reversed |-> FALSE]

LEMMA PostReturnTyped ==
    ASSUME TypeOK, NEW r \in Return, NEW d \in Dispatch, NEW input \in ReturnInput,
           PostReturn(r, d, input)
    PROVE  TypeOK'
<1> DEFINE new == [m \in DOMAIN input.lines |-> StoredReturn(d, input.godown, input.lines[m])]
<1> DEFINE source == [n \in DOMAIN dispatch[d].lines |->
                         ReturnedMore(dispatch[d].lines[n], TakenBack(input.lines, n))]
<1>1. new \in Seq(ReturnLine)
  <2>1. ASSUME NEW m \in DOMAIN input.lines PROVE new[m] \in ReturnLine
    <3>1. input.lines \in Seq([line : Nat, quantity : Nat \ {0}]) /\ input.godown \in Godown
      BY ReturnInputs
    <3>2. input.lines[m] \in [line : Nat, quantity : Nat \ {0}]
      BY <3>1, LinesFinite
    <3>3. input.lines[m].line \in Nat /\ input.lines[m].quantity \in Nat \ {0}
      BY <3>2
    <3>4. QED
      BY <3>1, <3>3 DEF ReturnLine, StoredReturn
  <2>2. input.lines \in Seq([line : Nat, quantity : Nat \ {0}])
    BY ReturnInputs
  <2> HIDE DEF new
  <2>3. new = [m \in DOMAIN input.lines |-> new[m]]
    BY DEF new
  <2>4. QED
    BY ZenonT(60), <2>1, <2>2, <2>3, LinesMade
<1>2. source \in Seq(DispatchLine)
  <2>1. dispatch[d].lines \in Seq(DispatchLine)
    BY DispatchTyped
  <2>2. ASSUME NEW n \in DOMAIN dispatch[d].lines PROVE source[n] \in DispatchLine
    <3>1. dispatch[d].lines[n] \in DispatchLine /\ TakenBack(input.lines, n) \in Int
      BY <2>1, ReturnSums
    <3>2. QED
      BY <3>1, DispatchLineReturned
  <2> HIDE DEF source
  <2>3. source = [n \in DOMAIN dispatch[d].lines |-> source[n]]
    BY DEF source
  <2>4. QED
    BY <2>1, <2>2, <2>3, LinesMade
<1>3. /\ return' = [return EXCEPT ![r] = [status |-> "POSTED", lines |-> new]]
      /\ dispatch' = [dispatch EXCEPT ![d].lines = source]
      /\ dispatch[d] \in DispatchDoc
  BY DispatchTyped DEF PostReturn, StoredReturn, TypeOK
<1> HIDE DEF new, source
<1>4. return' \in [Return -> [status : DocStatus, lines : Seq(ReturnLine)]]
  BY <1>1, <1>3 DEF TypeOK, DocStatus
<1>5. dispatch' \in [Dispatch -> DispatchDoc \cup {NotPosted}]
  <2>1. [dispatch[d] EXCEPT !.lines = source] \in DispatchDoc
    BY <1>2, <1>3 DEF DispatchDoc
  <2>2. QED
    BY <1>3, <2>1 DEF TypeOK
<1>6. stock' \in [Godown \X Batch -> Nat]
  <2>1. \A b \in Batch : IntoBatch(d, input.lines, b) \in Nat
    BY ReturnSums
  <2>2. stock' = [k \in Godown \X Batch |->
            IF k[1] = input.godown THEN stock[k] + IntoBatch(d, input.lines, k[2]) ELSE stock[k]]
    BY DEF PostReturn
  <2>3. QED
    BY <2>1, <2>2 DEF TypeOK
<1>7. QED
  BY <1>4, <1>5, <1>6 DEF TypeOK, PostReturn

LEMMA ReverseReturnEntryTyped ==
    ASSUME TypeOK, Shape, NEW r \in Return, NEW m \in DOMAIN return[r].lines,
           ReverseReturnEntry(r, m)
    PROVE  TypeOK'
<1> DEFINE line == return[r].lines[m]
<1> DEFINE lines == [return[r].lines EXCEPT ![m].reversed = TRUE]
<1> DEFINE d == line.source[1]
<1> DEFINE n == line.source[2]
<1> DEFINE k == <<line.godown, dispatch[d].lines[n].batch>>
<1> DEFINE source == dispatch[d].lines[n]
<1> DEFINE st == Derived(Len(lines), Cardinality(ReversedLines(lines)))
<1>1. line \in ReturnLine /\ return[r].lines \in Seq(ReturnLine)
  BY DEF TypeOK
<1>2. lines \in Seq(ReturnLine)
  <2>1. [line EXCEPT !.reversed = TRUE] \in ReturnLine
    BY <1>1, ReturnLineMarked
  <2>2. lines = [return[r].lines EXCEPT ![m] = [line EXCEPT !.reversed = TRUE]]
    OBVIOUS
  <2> HIDE DEF line, lines
  <2>3. QED
    BY <1>1, <2>1, <2>2, LineReplaced
<1>3. d \in Dispatch /\ n \in DOMAIN dispatch[d].lines
  <2>1. <<r, m>> \in ReturnLines /\ ReturnLineAt(<<r, m>>) = line
    BY ReturnLineIds DEF ReturnLineAt
  <2>2. line.source \in DispatchLines
    BY <2>1 DEF Shape
  <2>3. QED
    BY <2>2, DispatchLineIds
<1>4. source \in DispatchLine /\ dispatch[d].lines \in Seq(DispatchLine) /\ dispatch[d] \in DispatchDoc
  <2> HIDE DEF d, n
  <2>1. /\ dispatch[d].lines \in Seq(DispatchLine)
        /\ dispatch[d].lines # <<>> => dispatch[d] \in DispatchDoc
    BY <1>3, DispatchTyped, Zenon
  <2>2. source \in DispatchLine
    BY <1>3, <2>1, LinesFinite
  <2>3. dispatch[d].lines # <<>>
    BY <1>3
  <2>4. QED
    BY <2>1, <2>2, <2>3
<1>5. st \in DocStatus
  BY DerivedTyped
<1>6. /\ return' = [return EXCEPT ![r].lines = lines, ![r].status = st]
      /\ dispatch' = [dispatch EXCEPT ![d].lines[n] = ReturnedMore(@, -line.quantity)]
      /\ stock' = [stock EXCEPT ![k] = @ - line.quantity]
      /\ stock[k] >= line.quantity
      /\ UNCHANGED <<status, invoiced, dispatched>>
  BY DEF ReverseReturnEntry, StillThere
<1> HIDE DEF lines, d, n, source, st
<1>7. return' \in [Return -> [status : DocStatus, lines : Seq(ReturnLine)]]
  BY <1>2, <1>5, <1>6 DEF TypeOK
<1> DEFINE new == [dispatch[d].lines EXCEPT ![n] = ReturnedMore(source, -line.quantity)]
<1>8. new \in Seq(DispatchLine)
  <2>1. -line.quantity \in Int
    BY <1>1 DEF ReturnLine
  <2>2. ReturnedMore(source, -line.quantity) \in DispatchLine
    BY <1>4, <2>1, DispatchLineReturned
  <2>3. QED
    BY <1>3, <1>4, <2>2, LineReplaced
<1>9. dispatch' = [dispatch EXCEPT ![d].lines = new]
  BY <1>6 DEF source
<1> HIDE DEF new
<1>10. dispatch' \in [Dispatch -> DispatchDoc \cup {NotPosted}]
  <2>1. [dispatch[d] EXCEPT !.lines = new] \in DispatchDoc
    BY <1>4, <1>8 DEF DispatchDoc
  <2>2. QED
    BY <1>3, <1>9, <2>1 DEF TypeOK
<1>11. stock' \in [Godown \X Batch -> Nat]
  <2>1. line.quantity \in Nat /\ line.godown \in Godown
    BY <1>1 DEF ReturnLine
  <2>2. source.batch \in Batch
    BY <1>4 DEF DispatchLine
  <2>3. k \in Godown \X Batch
    BY <2>1, <2>2 DEF source
  <2>4. stock \in [Godown \X Batch -> Nat] /\ stock' = [stock EXCEPT ![k] = @ - line.quantity]
    BY <1>6 DEF TypeOK
  <2> HIDE DEF k, line
  <2>5. stock[k] - line.quantity \in Nat
    BY <1>6, <2>1, <2>3, <2>4
  <2>6. QED
    BY <2>3, <2>4, <2>5
<1>12. QED
  BY <1>6, <1>7, <1>10, <1>11 DEF TypeOK

\* The other steps leave the documents and the counters alone.
InvoiceStep ==
    \/ \E input \in InvoiceInput : Create(input)
    \/ Cancel
    \/ \E b \in Batch, from, to \in Godown : MoveGoods(b, from, to, 1)
    \/ UNCHANGED vars

LEMMA InvoiceStepTyped ==
    ASSUME TypeOK, InvoiceStep
    PROVE  TypeOK'
<1>1. ASSUME NEW input \in InvoiceInput, Create(input) PROVE TypeOK'
  <2>1. input \in [Sku -> Nat]
    BY SalesAssumption
  <2>2. QED
    BY <1>1, <2>1 DEF TypeOK, Create, Status
<1>2. CASE Cancel
  BY <1>2 DEF TypeOK, Cancel, Status
<1>3. ASSUME NEW b \in Batch, NEW from \in Godown, NEW to \in Godown, MoveGoods(b, from, to, 1)
      PROVE  TypeOK'
  <2>1. stock[<<from, b>>] - 1 \in Nat /\ stock[<<to, b>>] + 1 \in Nat
    BY <1>3 DEF TypeOK, MoveGoods
  <2>2. stock' \in [Godown \X Batch -> Nat]
    BY <1>3, <2>1 DEF TypeOK, MoveGoods
  <2>3. QED
    BY <1>3, <2>2 DEF TypeOK, MoveGoods
<1>4. CASE UNCHANGED vars
  BY <1>4 DEF TypeOK, vars
<1>5. QED
  BY <1>1, <1>2, <1>3, <1>4 DEF InvoiceStep

-----------------------------------------------------------------------------
(***************************************************************************)
(* What each operation does to the lines.                                  *)
(***************************************************************************)

LEMMA DispatchLinesAre ==
    DispatchLines = IdsOf(Dispatch, dispatch) /\ DispatchLines' = IdsOf(Dispatch, dispatch')
BY DEF DispatchLines, IdsOf

LEMMA ReturnLinesAre == ReturnLines = IdsOf(Return, return) /\ ReturnLines' = IdsOf(Return, return')
BY DEF ReturnLines, IdsOf

\* Is a line one of a dispatch against the invoice?
LinkedAt(id) == dispatch[id[1]].linked

LEMMA LinesUntouched ==
    /\ UNCHANGED dispatch => /\ DispatchLines' = DispatchLines
                             /\ \A id : DispatchLineAt(id)' = DispatchLineAt(id)
                             /\ \A id : LinkedAt(id)' = LinkedAt(id)
    /\ UNCHANGED return => ReturnLines' = ReturnLines /\ \A id : ReturnLineAt(id)' = ReturnLineAt(id)
BY DEF DispatchLines, DispatchLineAt, LinkedAt, ReturnLines, ReturnLineAt

\* Dispatch d was posted with the lines of an input.
Dispatched(d, input) ==
    /\ DispatchLines' = DispatchLines \cup Named(d, DOMAIN input.lines)
    /\ IsFiniteSet(DispatchLines')
    /\ \A id \in DispatchLines : /\ id[1] # d /\ DispatchLineAt(id)' = DispatchLineAt(id)
                                 /\ LinkedAt(id)' = LinkedAt(id)
    /\ \A n \in DOMAIN input.lines : DispatchLineAt(<<d, n>>)' = Stored(input.lines[n])
    /\ \A n : LinkedAt(<<d, n>>)' = input.linked
    /\ ReturnLines' = ReturnLines /\ \A id : ReturnLineAt(id)' = ReturnLineAt(id)

LEMMA PostDispatchLines ==
    ASSUME TypeOK, Shape, NEW d \in Dispatch, NEW input \in DispatchInput, PostDispatch(d, input)
    PROVE  Dispatched(d, input)
<1> DEFINE new == [n \in DOMAIN input.lines |-> Stored(input.lines[n])]
<1>1. PICK S, lines : /\ S = [sku : Sku, batch : Batch, quantity : Nat \ {0}]
                      /\ lines = input.lines
  OBVIOUS
<1>2. dispatch' = [dispatch EXCEPT ![d] = [status |-> "POSTED", godown |-> input.godown,
                                           linked |-> input.linked, lines |-> new]]
  BY DEF PostDispatch, Stored
<1>3. DOMAIN new = DOMAIN input.lines /\ \A n \in DOMAIN input.lines : new[n] = Stored(input.lines[n])
  OBVIOUS
<1> HIDE DEF new
<1>4. /\ dispatch'[d].lines = new /\ dispatch'[d].linked = input.linked
      /\ \A e \in Dispatch : e # d => dispatch'[e] = dispatch[e]
  BY <1>2 DEF TypeOK
<1>5. dispatch[d].lines = <<>> /\ IsFiniteSet(DispatchLines)
  BY DispatchTyped DEF PostDispatch, Shape
<1>6. lines \in Seq(S)
  BY <1>1, DispatchInputs
<1>7. /\ IdsOf(Dispatch, dispatch') = IdsOf(Dispatch, dispatch) \cup Named(d, DOMAIN lines)
      /\ \A id \in IdsOf(Dispatch, dispatch) : id[1] # d
      /\ IsFiniteSet(IdsOf(Dispatch, dispatch)) => IsFiniteSet(IdsOf(Dispatch, dispatch'))
  <2>1. GetsLines(Dispatch, dispatch, dispatch', d, lines)
    BY <1>1, <1>3, <1>4, <1>5 DEF GetsLines
  <2>2. QED
    BY <1>6, <2>1, IdsAdded
<1>8. ASSUME NEW id \in DispatchLines
      PROVE  /\ id[1] # d /\ DispatchLineAt(id)' = DispatchLineAt(id)
             /\ LinkedAt(id)' = LinkedAt(id)
  <2>1. id[1] \in Dispatch /\ id[1] # d
    BY <1>7, DispatchLinesAre, DispatchLineIds
  <2>2. QED
    BY <1>4, <2>1 DEF DispatchLineAt, LinkedAt
<1>9. \A n \in DOMAIN input.lines : DispatchLineAt(<<d, n>>)' = Stored(input.lines[n])
  BY <1>3, <1>4 DEF DispatchLineAt
<1>10. \A n : LinkedAt(<<d, n>>)' = input.linked
  BY <1>4 DEF LinkedAt
<1>11. UNCHANGED return
  BY DEF PostDispatch
<1>12. DispatchLines' = DispatchLines \cup Named(d, DOMAIN input.lines) /\ IsFiniteSet(DispatchLines')
  BY <1>1, <1>5, <1>7, DispatchLinesAre
<1>13. QED
  BY <1>8, <1>9, <1>10, <1>11, <1>12, LinesUntouched DEF Dispatched

\* Line id0 of a dispatch is marked, and nothing else changes.
Undone(id0) ==
    /\ DispatchLines' = DispatchLines /\ id0 \in DispatchLines
    /\ DispatchLineAt(id0)' = [DispatchLineAt(id0) EXCEPT !.reversed = TRUE]
    /\ \A id \in DispatchLines : id # id0 => DispatchLineAt(id)' = DispatchLineAt(id)
    /\ \A id \in DispatchLines : LinkedAt(id)' = LinkedAt(id)
    /\ ReturnLines' = ReturnLines /\ \A id : ReturnLineAt(id)' = ReturnLineAt(id)

LEMMA ReverseDispatchEntryLines ==
    ASSUME TypeOK, NEW d \in Dispatch, NEW n \in DOMAIN dispatch[d].lines,
           ReverseDispatchEntry(d, n), NEW id0, id0 = <<d, n>>
    PROVE  Undone(id0)
<1> DEFINE old == dispatch[d].lines
<1> DEFINE marked == [old[n] EXCEPT !.reversed = TRUE]
<1> DEFINE new == [old EXCEPT ![n] = marked]
<1>1. old \in Seq(DispatchLine) /\ old[n] \in DispatchLine /\ dispatch[d] \in DispatchDoc
  BY DispatchTyped
<1>2. /\ DOMAIN new = DOMAIN old
      /\ \A k \in DOMAIN old : new[k] = IF k = n THEN marked ELSE old[k]
  <2>1. marked \in DispatchLine
    BY <1>1, DispatchLineMarked
  <2> HIDE DEF old, marked
  <2>2. QED
    BY <1>1, <2>1, LineReplaced
<1>3. /\ dispatch'[d].lines = new /\ dispatch'[d].linked = dispatch[d].linked
      /\ \A e \in Dispatch : e # d => dispatch'[e] = dispatch[e]
  <2>1. \E st : dispatch' = [dispatch EXCEPT ![d].lines = new, ![d].status = st]
    BY DEF ReverseDispatchEntry
  <2> HIDE DEF new
  <2>2. QED
    BY <1>1, <2>1 DEF TypeOK, DispatchDoc
<1> HIDE DEF new, marked
<1>4. \A e \in Dispatch : DOMAIN dispatch'[e].lines = DOMAIN dispatch[e].lines
  BY <1>2, <1>3
<1>5. DispatchLines' = DispatchLines
  BY <1>4, DispatchLinesAre, IdsKept
<1>6. id0 \in DispatchLines
  BY DispatchLineIds
<1>7. DispatchLineAt(id0)' = [DispatchLineAt(id0) EXCEPT !.reversed = TRUE]
  BY <1>2, <1>3 DEF DispatchLineAt, marked
<1>8. ASSUME NEW id \in DispatchLines
      PROVE  /\ id # id0 => DispatchLineAt(id)' = DispatchLineAt(id)
             /\ LinkedAt(id)' = LinkedAt(id)
  <2>1. id[1] \in Dispatch /\ id[2] \in DOMAIN dispatch[id[1]].lines /\ id = <<id[1], id[2]>>
    BY DispatchLineIds
  <2>2. CASE id[1] = d
    BY <1>2, <1>3, <2>1, <2>2 DEF DispatchLineAt, LinkedAt
  <2>3. CASE id[1] # d
    BY <1>3, <2>1, <2>3 DEF DispatchLineAt, LinkedAt
  <2>4. QED
    BY <2>2, <2>3
<1>9. UNCHANGED return
  BY DEF ReverseDispatchEntry
<1>10. QED
  BY <1>5, <1>6, <1>7, <1>8, <1>9, LinesUntouched DEF Undone

\* Return r was posted with the lines of an input, of lines of dispatch d.
Returned(r, d, input) ==
    /\ ReturnLines' = ReturnLines \cup Named(r, DOMAIN input.lines)
    /\ IsFiniteSet(ReturnLines')
    /\ \A id \in ReturnLines : id[1] # r /\ ReturnLineAt(id)' = ReturnLineAt(id)
    /\ \A m \in DOMAIN input.lines :
          /\ ReturnLineAt(<<r, m>>)' = StoredReturn(d, input.godown, input.lines[m])
          /\ <<d, input.lines[m].line>> \in DispatchLines
    /\ DispatchLines' = DispatchLines
    /\ \A id \in DispatchLines :
          /\ DispatchLineAt(id)' = IF id[1] = d
                THEN ReturnedMore(DispatchLineAt(id), TakenBack(input.lines, id[2]))
                ELSE DispatchLineAt(id)
          /\ LinkedAt(id)' = LinkedAt(id)

LEMMA PostReturnLines ==
    ASSUME TypeOK, Shape, NEW r \in Return, NEW d \in Dispatch, NEW input \in ReturnInput,
           PostReturn(r, d, input)
    PROVE  Returned(r, d, input)
<1> DEFINE new == [m \in DOMAIN input.lines |-> StoredReturn(d, input.godown, input.lines[m])]
<1> DEFINE source == [n \in DOMAIN dispatch[d].lines |->
                         ReturnedMore(dispatch[d].lines[n], TakenBack(input.lines, n))]
<1>1. PICK S, lines : S = [line : Nat, quantity : Nat \ {0}] /\ lines = input.lines
  OBVIOUS
<1>2. /\ return' = [return EXCEPT ![r] = [status |-> "POSTED", lines |-> new]]
      /\ dispatch' = [dispatch EXCEPT ![d].lines = source]
      /\ dispatch[d] \in DispatchDoc
  BY DispatchTyped DEF PostReturn, StoredReturn, TypeOK
<1>3. /\ DOMAIN new = DOMAIN input.lines
      /\ \A m \in DOMAIN input.lines : new[m] = StoredReturn(d, input.godown, input.lines[m])
      /\ DOMAIN source = DOMAIN dispatch[d].lines
      /\ \A n \in DOMAIN source :
            source[n] = ReturnedMore(dispatch[d].lines[n], TakenBack(input.lines, n))
  OBVIOUS
<1> HIDE DEF new, source
<1>4. /\ return'[r].lines = new /\ \A q \in Return : q # r => return'[q] = return[q]
      /\ dispatch'[d].lines = source /\ dispatch'[d].linked = dispatch[d].linked
      /\ \A e \in Dispatch : e # d => dispatch'[e] = dispatch[e]
  BY <1>2 DEF TypeOK, DispatchDoc
<1>5. return[r].lines = <<>> /\ IsFiniteSet(ReturnLines)
  BY DEF PostReturn, Shape
<1>6. lines \in Seq(S)
  BY <1>1, ReturnInputs
<1>7. /\ IdsOf(Return, return') = IdsOf(Return, return) \cup Named(r, DOMAIN lines)
      /\ \A id \in IdsOf(Return, return) : id[1] # r
      /\ IsFiniteSet(IdsOf(Return, return)) => IsFiniteSet(IdsOf(Return, return'))
  <2>1. GetsLines(Return, return, return', r, lines)
    BY <1>1, <1>3, <1>4, <1>5 DEF GetsLines
  <2>2. QED
    BY <1>6, <2>1, IdsAdded
<1>8. ASSUME NEW id \in ReturnLines PROVE id[1] # r /\ ReturnLineAt(id)' = ReturnLineAt(id)
  <2>1. id[1] \in Return /\ id[1] # r
    BY <1>7, ReturnLinesAre, ReturnLineIds
  <2>2. QED
    BY <1>4, <2>1 DEF ReturnLineAt
<1>9. ASSUME NEW m \in DOMAIN input.lines
      PROVE  /\ ReturnLineAt(<<r, m>>)' = StoredReturn(d, input.godown, input.lines[m])
             /\ <<d, input.lines[m].line>> \in DispatchLines
  <2>1. input.lines[m].line \in DOMAIN dispatch[d].lines
    BY DEF PostReturn, WithinReturnable
  <2>2. <<d, input.lines[m].line>> \in DispatchLines
    BY <2>1, DispatchLineIds
  <2>3. QED
    BY <1>3, <1>4, <2>2 DEF ReturnLineAt
<1>10. DispatchLines' = DispatchLines
  <2>1. \A e \in Dispatch : DOMAIN dispatch'[e].lines = DOMAIN dispatch[e].lines
    BY <1>3, <1>4
  <2>2. QED
    BY <2>1, DispatchLinesAre, IdsKept
<1>11. ASSUME NEW id \in DispatchLines
       PROVE  /\ DispatchLineAt(id)' = IF id[1] = d
                    THEN ReturnedMore(DispatchLineAt(id), TakenBack(input.lines, id[2]))
                    ELSE DispatchLineAt(id)
              /\ LinkedAt(id)' = LinkedAt(id)
  <2>1. id[1] \in Dispatch /\ id[2] \in DOMAIN dispatch[id[1]].lines
    BY DispatchLineIds
  <2>2. QED
    BY <1>3, <1>4, <2>1 DEF DispatchLineAt, LinkedAt
<1>12. ReturnLines' = ReturnLines \cup Named(r, DOMAIN input.lines) /\ IsFiniteSet(ReturnLines')
  BY <1>1, <1>5, <1>7, ReturnLinesAre
<1>13. QED
  BY <1>8, <1>9, <1>10, <1>11, <1>12 DEF Returned

\* The line id0 of a return of line src of a dispatch is marked, and nothing else
\* than the counter of that line changes.
TookBack(id0, src) ==
    /\ ReturnLines' = ReturnLines /\ id0 \in ReturnLines
    /\ ReturnLineAt(id0)' = [ReturnLineAt(id0) EXCEPT !.reversed = TRUE]
    /\ \A id \in ReturnLines : id # id0 => ReturnLineAt(id)' = ReturnLineAt(id)
    /\ DispatchLines' = DispatchLines /\ src \in DispatchLines
    /\ DispatchLineAt(src)' = ReturnedMore(DispatchLineAt(src), -ReturnLineAt(id0).quantity)
    /\ \A id \in DispatchLines : id # src => DispatchLineAt(id)' = DispatchLineAt(id)
    /\ \A id \in DispatchLines : LinkedAt(id)' = LinkedAt(id)

LEMMA ReverseReturnEntryLines ==
    ASSUME TypeOK, Shape, NEW r \in Return, NEW m \in DOMAIN return[r].lines,
           ReverseReturnEntry(r, m),
           NEW id0, id0 = <<r, m>>, NEW src, src = ReturnLineAt(id0).source
    PROVE  TookBack(id0, src)
<1> DEFINE old == return[r].lines
<1> DEFINE line == old[m]
<1> DEFINE marked == [line EXCEPT !.reversed = TRUE]
<1> DEFINE new == [old EXCEPT ![m] = marked]
<1> DEFINE d == src[1]
<1> DEFINE n == src[2]
<1> DEFINE more == ReturnedMore(dispatch[d].lines[n], -line.quantity)
<1> DEFINE source == [dispatch[d].lines EXCEPT ![n] = more]
<1>1. old \in Seq(ReturnLine) /\ line \in ReturnLine
  BY DEF TypeOK
<1>2. id0 \in ReturnLines /\ ReturnLineAt(id0) = line /\ line.source = src
  BY ReturnLineIds DEF ReturnLineAt
<1>3. src \in DispatchLines
  BY <1>2 DEF Shape
<1>4. d \in Dispatch /\ n \in DOMAIN dispatch[d].lines /\ src = <<d, n>>
  BY <1>3, DispatchLineIds
<1>5. /\ dispatch[d].lines \in Seq(DispatchLine) /\ dispatch[d].lines[n] \in DispatchLine
      /\ dispatch[d] \in DispatchDoc
  BY <1>4, DispatchTyped
<1>6. -line.quantity \in Int
  BY <1>1 DEF ReturnLine
<1>7. /\ DOMAIN new = DOMAIN old
      /\ \A k \in DOMAIN old : new[k] = IF k = m THEN marked ELSE old[k]
  <2>1. marked \in ReturnLine
    BY <1>1, ReturnLineMarked
  <2> HIDE DEF old, marked
  <2>2. QED
    BY <1>1, <2>1, LineReplaced
<1>8. /\ DOMAIN source = DOMAIN dispatch[d].lines
      /\ \A k \in DOMAIN dispatch[d].lines : source[k] = IF k = n THEN more ELSE dispatch[d].lines[k]
  <2>1. more \in DispatchLine
    BY <1>5, <1>6, DispatchLineReturned
  <2> HIDE DEF d, n, more
  <2>2. QED
    BY <1>4, <1>5, <2>1, LineReplaced
<1>9. /\ \E st : return' = [return EXCEPT ![r].lines = new, ![r].status = st]
      /\ dispatch' = [dispatch EXCEPT ![d].lines[n] = more]
  BY <1>2 DEF ReverseReturnEntry
<1> HIDE DEF new, marked, d, n, more
<1>10. /\ return'[r].lines = new /\ \A q \in Return : q # r => return'[q] = return[q]
       /\ dispatch'[d].lines = source /\ dispatch'[d].linked = dispatch[d].linked
       /\ \A e \in Dispatch : e # d => dispatch'[e] = dispatch[e]
  BY <1>4, <1>5, <1>9 DEF TypeOK, DispatchDoc
<1> HIDE DEF source
<1>11. ReturnLines' = ReturnLines /\ DispatchLines' = DispatchLines
  <2>1. \A q \in Return : DOMAIN return'[q].lines = DOMAIN return[q].lines
    BY <1>7, <1>10
  <2>2. \A e \in Dispatch : DOMAIN dispatch'[e].lines = DOMAIN dispatch[e].lines
    BY <1>8, <1>10
  <2>3. QED
    BY <2>1, <2>2, DispatchLinesAre, ReturnLinesAre, IdsKept
<1>12. ReturnLineAt(id0)' = marked
  BY <1>7, <1>10 DEF ReturnLineAt
<1>13. ASSUME NEW id \in ReturnLines, id # id0 PROVE ReturnLineAt(id)' = ReturnLineAt(id)
  <2>1. id[1] \in Return /\ id[2] \in DOMAIN return[id[1]].lines /\ id = <<id[1], id[2]>>
    BY ReturnLineIds
  <2>2. CASE id[1] = r
    BY <1>7, <1>10, <1>13, <2>1, <2>2 DEF ReturnLineAt
  <2>3. CASE id[1] # r
    BY <1>10, <2>1, <2>3 DEF ReturnLineAt
  <2>4. QED
    BY <2>2, <2>3
<1>14. DispatchLineAt(src)' = more
  <2>1. DispatchLineAt(src)' = dispatch'[d].lines[n]
    BY DEF DispatchLineAt, d, n
  <2>2. QED
    BY <1>4, <1>8, <1>10, <2>1
<1>15. ASSUME NEW id \in DispatchLines
       PROVE  /\ id # src => DispatchLineAt(id)' = DispatchLineAt(id)
              /\ LinkedAt(id)' = LinkedAt(id)
  <2>1. id[1] \in Dispatch /\ id[2] \in DOMAIN dispatch[id[1]].lines /\ id = <<id[1], id[2]>>
    BY DispatchLineIds
  <2>2. CASE id[1] = d
    BY <1>4, <1>8, <1>10, <2>1, <2>2 DEF DispatchLineAt, LinkedAt
  <2>3. CASE id[1] # d
    BY <1>10, <2>1, <2>3 DEF DispatchLineAt, LinkedAt
  <2>4. QED
    BY <2>2, <2>3
<1>16. /\ marked = [line EXCEPT !.reversed = TRUE]
       /\ more = ReturnedMore(DispatchLineAt(src), -line.quantity)
  BY DEF marked, more, DispatchLineAt, d, n
<1> HIDE DEF line
<1>17. QED
  BY <1>2, <1>3, <1>11, <1>12, <1>13, <1>14, <1>15, <1>16 DEF TookBack

-----------------------------------------------------------------------------
(***************************************************************************)
(* What each operation does to the sums over the lines.                    *)
(***************************************************************************)

SentQuantities == [id \in DispatchLines |-> DispatchLineAt(id).quantity]
BackQuantities == [id \in ReturnLines |-> ReturnLineAt(id).quantity]

\* The standing lines among some lines of dispatches, and the standing returns of them.
Stands(ids) == {id \in DispatchLines : id \in ids /\ ~DispatchLineAt(id).reversed}
Back(ids) == {id \in ReturnLines : ReturnLineAt(id).source \in ids /\ ~ReturnLineAt(id).reversed}

\* What went out with them, and what came back of them.
Gone(ids) == SumFunctionOnSet(SentQuantities, Stands(ids))
CameBack(ids) == SumFunctionOnSet(BackQuantities, Back(ids))

LEMMA LinesCounted ==
    ASSUME TypeOK, Shape
    PROVE  /\ \A S \in SUBSET DispatchLines : IsFiniteSet(S)
           /\ \A S \in SUBSET ReturnLines : IsFiniteSet(S)
           /\ \A id \in DispatchLines : /\ SentQuantities[id] = DispatchLineAt(id).quantity
                                        /\ SentQuantities[id] \in Nat \ {0}
                                        /\ DispatchLineAt(id).returned \in Int
           /\ \A id \in ReturnLines : BackQuantities[id] \in Nat \ {0}
           /\ \A ids : Stands(ids) \subseteq DispatchLines /\ Back(ids) \subseteq ReturnLines
<1>1. /\ \A S \in SUBSET DispatchLines : IsFiniteSet(S)
      /\ \A S \in SUBSET ReturnLines : IsFiniteSet(S)
  BY FS_Subset DEF Shape
<1>2. ASSUME NEW id \in DispatchLines
      PROVE  /\ SentQuantities[id] = DispatchLineAt(id).quantity
             /\ SentQuantities[id] \in Nat \ {0}
             /\ DispatchLineAt(id).returned \in Int
  BY DispatchLineTyped DEF SentQuantities, DispatchLine
<1>3. ASSUME NEW id \in ReturnLines PROVE BackQuantities[id] \in Nat \ {0}
  BY ReturnLineTyped DEF BackQuantities, ReturnLine
<1>4. QED
  BY <1>1, <1>2, <1>3 DEF Stands, Back

LEMMA SumsCounted ==
    ASSUME TypeOK, Shape, NEW ids
    PROVE  Gone(ids) \in Nat /\ CameBack(ids) \in Nat
<1>1. /\ IsFiniteSet(Stands(ids)) /\ \A id \in Stands(ids) : SentQuantities[id] \in Nat
      /\ IsFiniteSet(Back(ids)) /\ \A id \in Back(ids) : BackQuantities[id] \in Nat
  BY LinesCounted
<1>2. SumFunctionOnSet(SentQuantities, Stands(ids)) \in Nat
  BY <1>1, SumNat
<1>3. SumFunctionOnSet(BackQuantities, Back(ids)) \in Nat
  BY <1>1, SumNat
<1>4. QED
  BY <1>2, <1>3 DEF Gone, CameBack

\* Only lines that are there count.
LEMMA SumsSame ==
    ASSUME Shape, NEW one, NEW other, \A id \in DispatchLines : id \in one <=> id \in other
    PROVE  Gone(one) = Gone(other) /\ CameBack(one) = CameBack(other)
<1>1. Stands(one) = Stands(other) /\ Back(one) = Back(other)
  BY DEF Stands, Back, Shape
<1>2. QED
  BY <1>1 DEF Gone, CameBack

LEMMA ReturnsUntouched ==
    ASSUME ReturnLines' = ReturnLines, \A id : ReturnLineAt(id)' = ReturnLineAt(id)
    PROVE  \A ids : CameBack(ids)' = CameBack(ids)
<1>1. BackQuantities' = BackQuantities /\ \A ids : Back(ids)' = Back(ids)
  BY DEF BackQuantities, Back
<1>2. QED
  BY <1>1 DEF CameBack

LEMMA DispatchesUntouched ==
    ASSUME DispatchLines' = DispatchLines,
           \A id \in DispatchLines : /\ DispatchLineAt(id)'.quantity = DispatchLineAt(id).quantity
                                     /\ DispatchLineAt(id)'.reversed = DispatchLineAt(id).reversed
    PROVE  \A ids : Gone(ids)' = Gone(ids)
<1>1. SentQuantities' = SentQuantities
  BY DEF SentQuantities
<1>2. \A ids : Stands(ids)' = Stands(ids)
  BY DEF Stands
<1>3. QED
  BY <1>1, <1>2 DEF Gone

\* What an input takes, or brings back, of the lines that are among ids.
Sent(d, lines, ids) ==
    SumFunctionOnSet([n \in DOMAIN lines |-> lines[n].quantity],
        {n \in DOMAIN lines : <<d, n>> \in ids})
Brought(d, lines, ids) ==
    SumFunctionOnSet([m \in DOMAIN lines |-> lines[m].quantity],
        {m \in DOMAIN lines : <<d, lines[m].line>> \in ids})

LEMMA PostDispatchSums ==
    ASSUME TypeOK, Shape, NEW d \in Dispatch, NEW input \in DispatchInput, PostDispatch(d, input)
    PROVE  \A ids : /\ Gone(ids)' = Gone(ids) + Sent(d, input.lines, ids)
                    /\ CameBack(ids)' = CameBack(ids)
<1>1. PICK S, lines : /\ S = [sku : Sku, batch : Batch, quantity : Nat \ {0}]
                      /\ lines = input.lines
  OBVIOUS
<1>2. lines \in Seq(S) /\ \A n \in DOMAIN lines : lines[n].quantity \in Nat
  BY <1>1, DispatchInputs
<1>3. Dispatched(d, input)
  BY PostDispatchLines
<1>4. /\ DispatchLines' = DispatchLines \cup Named(d, DOMAIN lines)
      /\ \A id \in DispatchLines : id[1] # d /\ DispatchLineAt(id)' = DispatchLineAt(id)
  BY <1>1, <1>3 DEF Dispatched
<1>5. ASSUME NEW n \in DOMAIN lines
      PROVE  /\ <<d, n>> \in DispatchLines'
             /\ DispatchLineAt(<<d, n>>)'.quantity = lines[n].quantity
             /\ DispatchLineAt(<<d, n>>)'.reversed = FALSE
  <2>1. DispatchLineAt(<<d, n>>)' = Stored(lines[n])
    BY <1>1, <1>3 DEF Dispatched
  <2>2. QED
    BY <1>4, <2>1, NamedAre DEF Stored
<1>6. \A n \in DOMAIN lines : SentQuantities'[<<d, n>>] = lines[n].quantity
  BY <1>5 DEF SentQuantities
<1>7. ASSUME NEW ids PROVE Gone(ids)' = Gone(ids) + Sent(d, lines, ids)
  <2> DEFINE N == {n \in DOMAIN lines : <<d, n>> \in ids}
  <2> DEFINE f == [n \in DOMAIN lines |-> lines[n].quantity]
  <2>1. Stands(ids)' = Stands(ids) \cup Named(d, N)
    <3>1. ASSUME NEW id \in DispatchLines PROVE id \in Stands(ids)' <=> id \in Stands(ids)
      BY <1>4 DEF Stands
    <3>2. ASSUME NEW n \in DOMAIN lines PROVE <<d, n>> \in Stands(ids)' <=> n \in N
      BY <1>5 DEF Stands
    <3>3. \A id \in Stands(ids)' : id \in DispatchLines \/ id \in Named(d, DOMAIN lines)
      BY <1>4 DEF Stands
    <3>4. Stands(ids) \subseteq DispatchLines /\ N \subseteq DOMAIN lines
      BY DEF Stands
    <3> HIDE DEF N
    <3>5. ASSUME NEW id \in Stands(ids)' PROVE id \in Stands(ids) \cup Named(d, N)
      BY <3>1, <3>2, <3>3, NamedAre
    <3>6. ASSUME NEW id \in Stands(ids) \cup Named(d, N) PROVE id \in Stands(ids)'
      BY <3>1, <3>2, <3>4, NamedAre
    <3>7. QED
      BY <3>5, <3>6
  <2>2. IsFiniteSet(Stands(ids)) /\ \A id \in Stands(ids) : SentQuantities[id] \in Int
    BY LinesCounted
  <2>3. Stands(ids) \cap Named(d, N) = {}
    BY <1>4, NamedAre DEF Stands
  <2>4. \A id \in Stands(ids) : SentQuantities'[id] = SentQuantities[id]
    BY <1>4 DEF Stands, SentQuantities
  <2>5. Alike(d, N, f, SentQuantities') /\ \A id \in Named(d, N) : SentQuantities'[id] \in Int
    <3>1. \A n \in N : f[n] \in Int /\ SentQuantities'[<<d, n>>] = f[n]
      BY <1>2, <1>6
    <3> HIDE DEF f, N
    <3>2. QED
      BY <3>1, NamedAre DEF Alike
  <2>6. Sent(d, lines, ids) = SumFunctionOnSet(f, N)
    BY DEF Sent
  <2>7. IsFiniteSet(N)
    BY <1>2, LinesFinite
  <2> HIDE DEF f, N
  <2>8. /\ IsFiniteSet(Named(d, N))
        /\ SumFunctionOnSet(SentQuantities', Named(d, N)) = SumFunctionOnSet(f, N)
    BY <2>5, <2>7, SumNamed
  <2>9. SumFunctionOnSet(SentQuantities', Stands(ids) \cup Named(d, N))
            = SumFunctionOnSet(SentQuantities, Stands(ids)) + SumFunctionOnSet(SentQuantities', Named(d, N))
    BY <2>2, <2>3, <2>4, <2>5, <2>8, SumAdded
  <2>10. QED
    BY <2>1, <2>6, <2>8, <2>9 DEF Gone
<1>8. \A ids : CameBack(ids)' = CameBack(ids)
  BY <1>3, ReturnsUntouched DEF Dispatched
<1>9. QED
  BY <1>1, <1>7, <1>8

LEMMA ReverseDispatchEntrySums ==
    ASSUME TypeOK, Shape, NEW id0, Undone(id0), ~DispatchLineAt(id0).reversed
    PROVE  \A ids : /\ Gone(ids)' = Gone(ids)
                          - (IF id0 \in ids THEN DispatchLineAt(id0).quantity ELSE 0)
                    /\ CameBack(ids)' = CameBack(ids)
<1>1. /\ DispatchLines' = DispatchLines /\ id0 \in DispatchLines
      /\ DispatchLineAt(id0)' = [DispatchLineAt(id0) EXCEPT !.reversed = TRUE]
      /\ \A id \in DispatchLines : id # id0 => DispatchLineAt(id)' = DispatchLineAt(id)
  BY DEF Undone
<1>2. DispatchLineAt(id0) \in DispatchLine
  BY <1>1, DispatchLineTyped
<1>3. /\ DispatchLineAt(id0)'.quantity = DispatchLineAt(id0).quantity
      /\ DispatchLineAt(id0)'.reversed = TRUE
  BY <1>1, <1>2, DispatchLineMarked
<1>4. SentQuantities' = SentQuantities
  BY <1>1, <1>3 DEF SentQuantities
<1>5. ASSUME NEW ids
      PROVE  Gone(ids)' = Gone(ids) - (IF id0 \in ids THEN DispatchLineAt(id0).quantity ELSE 0)
  <2>1. CASE id0 \in ids
    <3>1. Stands(ids)' = Stands(ids) \ {id0} /\ id0 \in Stands(ids)
      BY <1>1, <1>3, <2>1 DEF Stands
    <3>2. IsFiniteSet(Stands(ids)) /\ \A id \in Stands(ids) : SentQuantities[id] \in Int
      BY LinesCounted
    <3>3. SumFunctionOnSet(SentQuantities, Stands(ids) \ {id0})
            = SumFunctionOnSet(SentQuantities, Stands(ids)) - SentQuantities[id0]
      BY <3>1, <3>2, SumWithout
    <3>4. SentQuantities[id0] = DispatchLineAt(id0).quantity
      BY <1>1 DEF SentQuantities
    <3>5. QED
      BY <1>4, <2>1, <3>1, <3>3, <3>4 DEF Gone
  <2>2. CASE id0 \notin ids
    <3>1. Stands(ids)' = Stands(ids)
      BY <1>1, <1>3, <2>2 DEF Stands
    <3>2. Gone(ids)' = Gone(ids)
      BY <1>4, <3>1 DEF Gone
    <3>3. QED
      BY <2>2, <3>2, SumsCounted
  <2>3. QED
    BY <2>1, <2>2
<1>6. \A ids : CameBack(ids)' = CameBack(ids)
  BY ReturnsUntouched DEF Undone
<1>7. QED
  BY <1>5, <1>6

LEMMA PostReturnSums ==
    ASSUME TypeOK, Shape, NEW r \in Return, NEW d \in Dispatch, NEW input \in ReturnInput,
           PostReturn(r, d, input)
    PROVE  \A ids : /\ Gone(ids)' = Gone(ids)
                    /\ CameBack(ids)' = CameBack(ids) + Brought(d, input.lines, ids)
<1>1. PICK S, lines : S = [line : Nat, quantity : Nat \ {0}] /\ lines = input.lines
  OBVIOUS
<1>2. lines \in Seq(S) /\ \A m \in DOMAIN lines : lines[m].quantity \in Nat
  BY <1>1, ReturnInputs
<1>3. Returned(r, d, input)
  BY PostReturnLines
<1>4. /\ ReturnLines' = ReturnLines \cup Named(r, DOMAIN lines)
      /\ \A id \in ReturnLines : id[1] # r /\ ReturnLineAt(id)' = ReturnLineAt(id)
  BY <1>1, <1>3 DEF Returned
<1>5. ASSUME NEW m \in DOMAIN lines
      PROVE  /\ <<r, m>> \in ReturnLines'
             /\ ReturnLineAt(<<r, m>>)'.source = <<d, lines[m].line>>
             /\ ReturnLineAt(<<r, m>>)'.quantity = lines[m].quantity
             /\ ReturnLineAt(<<r, m>>)'.reversed = FALSE
  <2>1. ReturnLineAt(<<r, m>>)' = StoredReturn(d, input.godown, lines[m])
    BY <1>1, <1>3 DEF Returned
  <2>2. QED
    BY <1>4, <2>1, NamedAre DEF StoredReturn
<1>6. \A m \in DOMAIN lines : BackQuantities'[<<r, m>>] = lines[m].quantity
  BY <1>5 DEF BackQuantities
<1>7. ASSUME NEW ids PROVE CameBack(ids)' = CameBack(ids) + Brought(d, lines, ids)
  <2> DEFINE N == {m \in DOMAIN lines : <<d, lines[m].line>> \in ids}
  <2> DEFINE f == [m \in DOMAIN lines |-> lines[m].quantity]
  <2>1. Back(ids)' = Back(ids) \cup Named(r, N)
    <3>1. ASSUME NEW id \in ReturnLines PROVE id \in Back(ids)' <=> id \in Back(ids)
      BY <1>4 DEF Back
    <3>2. ASSUME NEW m \in DOMAIN lines PROVE <<r, m>> \in Back(ids)' <=> m \in N
      BY <1>5 DEF Back
    <3>3. \A id \in Back(ids)' : id \in ReturnLines \/ id \in Named(r, DOMAIN lines)
      BY <1>4 DEF Back
    <3>4. Back(ids) \subseteq ReturnLines /\ N \subseteq DOMAIN lines
      BY DEF Back
    <3> HIDE DEF N
    <3>5. ASSUME NEW id \in Back(ids)' PROVE id \in Back(ids) \cup Named(r, N)
      BY <3>1, <3>2, <3>3, NamedAre
    <3>6. ASSUME NEW id \in Back(ids) \cup Named(r, N) PROVE id \in Back(ids)'
      BY <3>1, <3>2, <3>4, NamedAre
    <3>7. QED
      BY <3>5, <3>6
  <2>2. IsFiniteSet(Back(ids)) /\ \A id \in Back(ids) : BackQuantities[id] \in Int
    BY LinesCounted
  <2>3. Back(ids) \cap Named(r, N) = {}
    BY <1>4, NamedAre DEF Back
  <2>4. \A id \in Back(ids) : BackQuantities'[id] = BackQuantities[id]
    BY <1>4 DEF Back, BackQuantities
  <2>5. Alike(r, N, f, BackQuantities') /\ \A id \in Named(r, N) : BackQuantities'[id] \in Int
    <3>1. \A m \in N : f[m] \in Int /\ BackQuantities'[<<r, m>>] = f[m]
      BY <1>2, <1>6
    <3> HIDE DEF f, N
    <3>2. QED
      BY <3>1, NamedAre DEF Alike
  <2>6. Brought(d, lines, ids) = SumFunctionOnSet(f, N)
    BY DEF Brought
  <2>7. IsFiniteSet(N)
    BY <1>2, LinesFinite
  <2> HIDE DEF f, N
  <2>8. /\ IsFiniteSet(Named(r, N))
        /\ SumFunctionOnSet(BackQuantities', Named(r, N)) = SumFunctionOnSet(f, N)
    BY <2>5, <2>7, SumNamed
  <2>9. SumFunctionOnSet(BackQuantities', Back(ids) \cup Named(r, N))
            = SumFunctionOnSet(BackQuantities, Back(ids)) + SumFunctionOnSet(BackQuantities', Named(r, N))
    BY <2>2, <2>3, <2>4, <2>5, <2>8, SumAdded
  <2>10. QED
    BY <2>1, <2>6, <2>8, <2>9 DEF CameBack
<1>8. \A ids : Gone(ids)' = Gone(ids)
  <2>1. DispatchLines' = DispatchLines
    BY <1>3 DEF Returned
  <2>2. ASSUME NEW id \in DispatchLines
        PROVE  /\ DispatchLineAt(id)'.quantity = DispatchLineAt(id).quantity
               /\ DispatchLineAt(id)'.reversed = DispatchLineAt(id).reversed
    <3>1. DispatchLineAt(id) \in DispatchLine /\ TakenBack(lines, id[2]) \in Int
      BY <1>1, DispatchLineTyped, ReturnSums
    <3>2. \/ DispatchLineAt(id)' = ReturnedMore(DispatchLineAt(id), TakenBack(lines, id[2]))
          \/ DispatchLineAt(id)' = DispatchLineAt(id)
      BY <1>1, <1>3 DEF Returned
    <3>3. QED
      BY <3>1, <3>2, DispatchLineReturned
  <2>3. QED
    BY <2>1, <2>2, DispatchesUntouched
<1>9. QED
  BY <1>1, <1>7, <1>8

LEMMA ReverseReturnEntrySums ==
    ASSUME TypeOK, Shape, NEW id0, NEW src, TookBack(id0, src),
           src = ReturnLineAt(id0).source, ~ReturnLineAt(id0).reversed
    PROVE  \A ids : /\ Gone(ids)' = Gone(ids)
                    /\ CameBack(ids)' = CameBack(ids)
                          - (IF src \in ids THEN ReturnLineAt(id0).quantity ELSE 0)
<1>1. /\ ReturnLines' = ReturnLines /\ id0 \in ReturnLines
      /\ ReturnLineAt(id0)' = [ReturnLineAt(id0) EXCEPT !.reversed = TRUE]
      /\ \A id \in ReturnLines : id # id0 => ReturnLineAt(id)' = ReturnLineAt(id)
      /\ DispatchLines' = DispatchLines /\ src \in DispatchLines
      /\ DispatchLineAt(src)' = ReturnedMore(DispatchLineAt(src), -ReturnLineAt(id0).quantity)
      /\ \A id \in DispatchLines : id # src => DispatchLineAt(id)' = DispatchLineAt(id)
  BY DEF TookBack
<1>2. ReturnLineAt(id0) \in ReturnLine /\ ReturnLineAt(id0).quantity \in Nat
  BY <1>1, ReturnLineTyped DEF ReturnLine
<1>3. /\ ReturnLineAt(id0)'.source = src
      /\ ReturnLineAt(id0)'.quantity = ReturnLineAt(id0).quantity
      /\ ReturnLineAt(id0)'.reversed = TRUE
  BY <1>1, <1>2, ReturnLineMarked
<1>4. BackQuantities' = BackQuantities
  BY <1>1, <1>3 DEF BackQuantities
<1>5. ASSUME NEW ids
      PROVE  CameBack(ids)' = CameBack(ids) - (IF src \in ids THEN ReturnLineAt(id0).quantity ELSE 0)
  <2>1. CASE src \in ids
    <3>1. Back(ids)' = Back(ids) \ {id0} /\ id0 \in Back(ids)
      BY <1>1, <1>2, <1>3, <2>1 DEF Back
    <3>2. IsFiniteSet(Back(ids)) /\ \A id \in Back(ids) : BackQuantities[id] \in Int
      BY LinesCounted
    <3>3. SumFunctionOnSet(BackQuantities, Back(ids) \ {id0})
            = SumFunctionOnSet(BackQuantities, Back(ids)) - BackQuantities[id0]
      BY <3>1, <3>2, SumWithout
    <3>4. BackQuantities[id0] = ReturnLineAt(id0).quantity
      BY <1>1 DEF BackQuantities
    <3>5. QED
      BY <1>4, <2>1, <3>1, <3>3, <3>4 DEF CameBack
  <2>2. CASE src \notin ids
    <3>1. Back(ids)' = Back(ids)
      BY <1>1, <1>3, <2>2 DEF Back
    <3>2. CameBack(ids)' = CameBack(ids)
      BY <1>4, <3>1 DEF CameBack
    <3>3. QED
      BY <2>2, <3>2, SumsCounted
  <2>3. QED
    BY <2>1, <2>2
<1>6. \A ids : Gone(ids)' = Gone(ids)
  <2>1. DispatchLineAt(src) \in DispatchLine /\ -ReturnLineAt(id0).quantity \in Int
    BY <1>1, <1>2, DispatchLineTyped
  <2>2. /\ DispatchLineAt(src)'.quantity = DispatchLineAt(src).quantity
        /\ DispatchLineAt(src)'.reversed = DispatchLineAt(src).reversed
    BY <1>1, <2>1, DispatchLineReturned
  <2>3. QED
    BY <1>1, <2>2, DispatchesUntouched
<1>7. QED
  BY <1>5, <1>6

-----------------------------------------------------------------------------
(***************************************************************************)
(* The counters agree with the documents, and the stock is what they leave. *)
(***************************************************************************)

ForInvoice(s) == {id \in DispatchLines : LinkedAt(id) /\ DispatchLineAt(id).sku = s}
OfBatch(b) == {id \in DispatchLines : DispatchLineAt(id).batch = b}

\* What is in the godowns of a batch and what customers hold of it is what there was.
StockExplained ==
    \A b \in Batch : OnHand(b) = Supplied(b) - Gone(OfBatch(b)) + CameBack(OfBatch(b))

LEMMA SumsAre ==
    /\ \A s : DispatchedNow(s) = Gone(ForInvoice(s))
    /\ \A id : ReturnedNow(id) = CameBack({id})
<1>1. ASSUME NEW s PROVE DispatchedNow(s) = Gone(ForInvoice(s))
  <2>1. {id \in DispatchLines : /\ dispatch[id[1]].linked
                                /\ DispatchLineAt(id).sku = s
                                /\ ~DispatchLineAt(id).reversed} = Stands(ForInvoice(s))
    BY DEF Stands, ForInvoice, LinkedAt
  <2>2. QED
    BY <2>1 DEF DispatchedNow, Gone, SentQuantities
<1>2. ASSUME NEW id PROVE ReturnedNow(id) = CameBack({id})
  <2>1. {r \in ReturnLines : ReturnLineAt(r).source = id /\ ~ReturnLineAt(r).reversed} = Back({id})
    BY DEF Back
  <2>2. QED
    BY <2>1 DEF ReturnedNow, CameBack, BackQuantities
<1>3. QED
  BY <1>1, <1>2

LEMMA CountersBefore ==
    ASSUME CountersMatchDocuments
    PROVE  /\ \A s \in Sku : dispatched[s] = Gone(ForInvoice(s))
           /\ \A id \in DispatchLines : DispatchLineAt(id).returned = CameBack({id})
BY SumsAre DEF CountersMatchDocuments

LEMMA CountersAfter ==
    ASSUME \A s \in Sku : \E ids : ids = ForInvoice(s)' /\ dispatched'[s] = Gone(ids)',
           \A id \in DispatchLines' : DispatchLineAt(id)'.returned = CameBack({id})'
    PROVE  CountersMatchDocuments'
<1>1. ASSUME NEW s \in Sku PROVE dispatched'[s] = DispatchedNow(s)'
  <2>1. PICK ids : ids = ForInvoice(s)' /\ dispatched'[s] = Gone(ids)'
    OBVIOUS
  <2>2. {id \in DispatchLines : /\ dispatch[id[1]].linked
                                /\ DispatchLineAt(id).sku = s
                                /\ ~DispatchLineAt(id).reversed}' = Stands(ids)'
    BY <2>1 DEF Stands, ForInvoice, LinkedAt
  <2>3. QED
    BY <2>1, <2>2 DEF DispatchedNow, Gone, SentQuantities
<1>2. ASSUME NEW id \in DispatchLines' PROVE DispatchLineAt(id)'.returned = ReturnedNow(id)'
  <2>1. {r \in ReturnLines : ReturnLineAt(r).source = id /\ ~ReturnLineAt(r).reversed}' = Back({id})'
    BY DEF Back
  <2>2. QED
    BY <2>1 DEF ReturnedNow, CameBack, BackQuantities
<1>3. QED
  BY <1>1, <1>2 DEF CountersMatchDocuments

LEMMA ExplainedAfter ==
    ASSUME \A b \in Batch : \E ids : /\ ids = OfBatch(b)'
                                     /\ OnHand(b)' = Supplied(b) - Gone(ids)' + CameBack(ids)'
    PROVE  StockExplained'
<1>1. ASSUME NEW b \in Batch
      PROVE  OnHand(b)' = (Supplied(b) - Gone(OfBatch(b)) + CameBack(OfBatch(b)))'
  <2>1. PICK ids : ids = OfBatch(b)' /\ OnHand(b)' = Supplied(b) - Gone(ids)' + CameBack(ids)'
    OBVIOUS
  <2>2. Gone(ids)' = Gone(OfBatch(b))' /\ CameBack(ids)' = CameBack(OfBatch(b))'
    BY <2>1 DEF Gone, CameBack
  <2>3. Supplied(b)' = Supplied(b)
    BY DEF Supplied
  <2>4. QED
    BY <2>1, <2>2, <2>3
<1>2. QED
  BY <1>1 DEF StockExplained

\* No line changes its SKU, its batch, or whether it is for the invoice.
LinesStay ==
    /\ DispatchLines \subseteq DispatchLines'
    /\ \A id \in DispatchLines : /\ DispatchLineAt(id)'.sku = DispatchLineAt(id).sku
                                 /\ DispatchLineAt(id)'.batch = DispatchLineAt(id).batch
                                 /\ LinkedAt(id)' = LinkedAt(id)

LEMMA PostDispatchStays ==
    ASSUME NEW d, NEW input, Dispatched(d, input)
    PROVE  LinesStay
BY DEF Dispatched, LinesStay

LEMMA ReverseDispatchEntryStays ==
    ASSUME TypeOK, NEW id0, Undone(id0)
    PROVE  LinesStay
<1>1. DispatchLineAt(id0) \in DispatchLine
  BY DispatchLineTyped DEF Undone
<1>2. /\ DispatchLineAt(id0)'.sku = DispatchLineAt(id0).sku
      /\ DispatchLineAt(id0)'.batch = DispatchLineAt(id0).batch
  BY <1>1, DispatchLineMarked DEF Undone
<1>3. QED
  BY <1>2 DEF Undone, LinesStay

LEMMA PostReturnStays ==
    ASSUME TypeOK, NEW r, NEW d, NEW input \in ReturnInput, Returned(r, d, input)
    PROVE  LinesStay
<1>1. ASSUME NEW id \in DispatchLines
      PROVE  /\ DispatchLineAt(id)'.sku = DispatchLineAt(id).sku
             /\ DispatchLineAt(id)'.batch = DispatchLineAt(id).batch
  <2>1. DispatchLineAt(id) \in DispatchLine /\ TakenBack(input.lines, id[2]) \in Int
    BY DispatchLineTyped, ReturnSums
  <2>2. \/ DispatchLineAt(id)' = ReturnedMore(DispatchLineAt(id), TakenBack(input.lines, id[2]))
        \/ DispatchLineAt(id)' = DispatchLineAt(id)
    BY DEF Returned
  <2>3. QED
    BY <2>1, <2>2, DispatchLineReturned
<1>2. QED
  BY <1>1 DEF Returned, LinesStay

LEMMA ReverseReturnEntryStays ==
    ASSUME TypeOK, NEW id0, NEW src, TookBack(id0, src)
    PROVE  LinesStay
<1>1. DispatchLineAt(src) \in DispatchLine /\ -ReturnLineAt(id0).quantity \in Int
  BY DispatchLineTyped, ReturnLineTyped DEF TookBack, ReturnLine
<1>2. /\ DispatchLineAt(src)'.sku = DispatchLineAt(src).sku
      /\ DispatchLineAt(src)'.batch = DispatchLineAt(src).batch
  BY <1>1, DispatchLineReturned DEF TookBack
<1>3. QED
  BY <1>2 DEF TookBack, LinesStay

LEMMA ForInvoiceKept ==
    ASSUME Shape, LinesStay, NEW s
    PROVE  \E ids : /\ ids = ForInvoice(s)' /\ Gone(ids) = Gone(ForInvoice(s))
                    /\ \A id \in DispatchLines :
                          id \in ids <=> LinkedAt(id) /\ DispatchLineAt(id).sku = s
<1>1. PICK ids : ids = ForInvoice(s)'
  OBVIOUS
<1>2. PICK old : old = ForInvoice(s)
  OBVIOUS
<1>3. \A id \in DispatchLines : id \in ids <=> LinkedAt(id) /\ DispatchLineAt(id).sku = s
  BY <1>1 DEF ForInvoice, LinesStay
<1>4. Gone(ids) = Gone(old)
  BY <1>2, <1>3, SumsSame DEF ForInvoice
<1>5. Gone(old) = Gone(ForInvoice(s))
  BY <1>2
<1>6. QED
  BY <1>1, <1>3, <1>4, <1>5

LEMMA OfBatchKept ==
    ASSUME Shape, LinesStay, NEW b
    PROVE  \E ids : /\ ids = OfBatch(b)'
                    /\ Gone(ids) = Gone(OfBatch(b)) /\ CameBack(ids) = CameBack(OfBatch(b))
                    /\ \A id \in DispatchLines : id \in ids <=> DispatchLineAt(id).batch = b
<1>1. PICK ids : ids = OfBatch(b)'
  OBVIOUS
<1>2. PICK old : old = OfBatch(b)
  OBVIOUS
<1>3. \A id \in DispatchLines : id \in ids <=> DispatchLineAt(id).batch = b
  BY <1>1 DEF OfBatch, LinesStay
<1>4. Gone(ids) = Gone(old) /\ CameBack(ids) = CameBack(old)
  BY <1>2, <1>3, SumsSame DEF OfBatch
<1>5. Gone(old) = Gone(OfBatch(b)) /\ CameBack(old) = CameBack(OfBatch(b))
  BY <1>2
<1>6. QED
  BY <1>1, <1>3, <1>4, <1>5

\* The stock of batch b in godown g, and of no other godown, changes by quantity.
Carried(g, b, quantity) ==
    /\ stock'[<<g, b>>] = stock[<<g, b>>] + quantity
    /\ \A h \in Godown : h # g => stock'[<<h, b>>] = stock[<<h, b>>]

LEMMA OnHandCarried ==
    ASSUME TypeOK, NEW g \in Godown, NEW b \in Batch, NEW quantity \in Int, Carried(g, b, quantity)
    PROVE  OnHand(b)' = OnHand(b) + quantity /\ OnHand(b) \in Int
<1> DEFINE f == [h \in Godown |-> stock[<<h, b>>]]
<1> DEFINE c == [h \in Godown |-> stock'[<<h, b>>]]
<1>1. OnHand(b) = SumFunctionOnSet(f, Godown) /\ OnHand(b)' = SumFunctionOnSet(c, Godown)
  BY DEF OnHand
<1>2. IsFiniteSet(Godown) /\ IsFiniteSet(Godown \ {g})
  BY SalesAssumption, FS_Subset
<1>3. \A h \in Godown : f[h] \in Int
  BY DEF TypeOK
<1>4. c[g] = f[g] + quantity /\ \A h \in Godown \ {g} : c[h] = f[h]
  BY DEF Carried
<1> HIDE DEF f, c
<1>5. \A h \in Godown : c[h] \in Int
  BY <1>3, <1>4
<1>6. SumFunctionOnSet(f, Godown) = f[g] + SumFunctionOnSet(f, Godown \ {g})
  BY <1>2, <1>3, SumTakeOut
<1>7. SumFunctionOnSet(c, Godown) = c[g] + SumFunctionOnSet(c, Godown \ {g})
  BY <1>2, <1>5, SumTakeOut
<1>8. SumFunctionOnSet(c, Godown \ {g}) = SumFunctionOnSet(f, Godown \ {g})
  BY <1>2, <1>4, SumEqual
<1>9. SumFunctionOnSet(f, Godown \ {g}) \in Int /\ SumFunctionOnSet(f, Godown) \in Int
  BY <1>2, <1>3, SumInt
<1>10. f[g] \in Int
  BY <1>3
<1>11. QED
  BY <1>1, <1>4, <1>6, <1>7, <1>8, <1>9, <1>10

LEMMA SuppliedTyped == \A b \in Batch : Supplied(b) \in Nat
<1> SUFFICES ASSUME NEW b \in Batch PROVE Supplied(b) \in Nat
  OBVIOUS
<1> DEFINE f == [g \in Godown |-> InitialStock[<<g, b>>]]
<1>1. IsFiniteSet(Godown) /\ \A g \in Godown : f[g] \in Nat
  BY SalesAssumption
<1> HIDE DEF f
<1>2. SumFunctionOnSet(f, Godown) \in Nat
  BY <1>1, SumNat
<1>3. QED
  BY <1>2 DEF Supplied, f

LEMMA PostDispatchCounters ==
    ASSUME TypeOK, Shape, CountersMatchDocuments, StockExplained,
           NEW d \in Dispatch, NEW input \in DispatchInput, PostDispatch(d, input)
    PROVE  CountersMatchDocuments' /\ StockExplained'
<1>1. PICK lines, godown, linked :
          lines = input.lines /\ godown = input.godown /\ linked = input.linked
  OBVIOUS
<1>2. Dispatched(d, input) /\ LinesStay
  BY PostDispatchLines, PostDispatchStays
<1>3. /\ DispatchLines' = DispatchLines \cup Named(d, DOMAIN lines)
      /\ \A id \in DispatchLines : id[1] # d /\ DispatchLineAt(id)' = DispatchLineAt(id)
      /\ \A n \in DOMAIN lines : DispatchLineAt(<<d, n>>)' = Stored(lines[n])
      /\ \A n : LinkedAt(<<d, n>>)' = linked
  BY <1>1, <1>2 DEF Dispatched
<1>4. \A ids : Gone(ids)' = Gone(ids) + Sent(d, lines, ids) /\ CameBack(ids)' = CameBack(ids)
  BY <1>1, PostDispatchSums
<1>5. ASSUME NEW n \in DOMAIN lines
      PROVE  /\ <<d, n>> \in DispatchLines'
             /\ DispatchLineAt(<<d, n>>)'.sku = lines[n].sku
             /\ DispatchLineAt(<<d, n>>)'.batch = lines[n].batch
  <2>1. <<d, n>> \in DispatchLines'
    BY <1>3, NamedAre
  <2>2. DispatchLineAt(<<d, n>>)' = Stored(lines[n])
    BY <1>3
  <2>3. QED
    BY <2>1, <2>2 DEF Stored
<1>6. ASSUME NEW s \in Sku PROVE \E ids : ids = ForInvoice(s)' /\ dispatched'[s] = Gone(ids)'
  <2>1. PICK ids : ids = ForInvoice(s)' /\ Gone(ids) = Gone(ForInvoice(s))
    BY <1>2, ForInvoiceKept
  <2>2. \A n \in DOMAIN lines : <<d, n>> \in ids <=> linked /\ lines[n].sku = s
    BY <1>3, <1>5, <2>1 DEF ForInvoice
  <2>3. dispatched[s] = Gone(ids) /\ Gone(ids) \in Nat
    BY <2>1, CountersBefore, SumsCounted
  <2>4. CASE linked
    <3>1. {n \in DOMAIN lines : <<d, n>> \in ids} = {n \in DOMAIN lines : lines[n].sku = s}
      BY <2>2, <2>4
    <3>2. Sent(d, lines, ids) = QuantityOf(lines, s)
      BY <3>1 DEF Sent, QuantityOf, SumLines
    <3>3. dispatched'[s] = dispatched[s] + QuantityOf(lines, s)
      BY <1>1, <2>4 DEF PostDispatch, ApplyToInvoice, Book
    <3>4. QED
      BY <1>4, <2>1, <2>3, <3>2, <3>3
  <2>5. CASE ~linked
    <3>1. {n \in DOMAIN lines : <<d, n>> \in ids} = {}
      BY <2>2, <2>5
    <3>2. Sent(d, lines, ids) = 0
      BY <3>1, SumEmpty DEF Sent
    <3>3. dispatched' = dispatched
      BY <1>1, <2>5 DEF PostDispatch
    <3>4. Gone(ids)' = Gone(ids) + 0
      BY <1>4, <3>2
    <3>5. QED
      BY <2>1, <2>3, <3>3, <3>4
  <2>6. QED
    BY <1>1, <2>4, <2>5
<1>7. ASSUME NEW id \in DispatchLines' PROVE DispatchLineAt(id)'.returned = CameBack({id})'
  <2>1. CameBack({id})' = CameBack({id})
    BY <1>4
  <2>2. CASE id \in DispatchLines
    BY <1>3, <2>1, <2>2, CountersBefore
  <2>3. CASE id \in Named(d, DOMAIN lines)
    <3>1. id = <<d, id[2]>> /\ id[2] \in DOMAIN lines /\ id[1] = d
      BY <2>3, NamedAre
    <3>2. DispatchLineAt(id)' = Stored(lines[id[2]])
      BY <1>3, <3>1
    <3>3. Back({id}) = {}
      BY <1>3, <3>1 DEF Back, Shape
    <3>4. CameBack({id}) = 0
      BY <3>3, SumEmpty DEF CameBack
    <3>5. QED
      BY <2>1, <3>2, <3>4 DEF Stored
  <2>4. QED
    BY <1>3, <2>2, <2>3
<1>8. ASSUME NEW b \in Batch
      PROVE  \E ids : /\ ids = OfBatch(b)'
                      /\ OnHand(b)' = Supplied(b) - Gone(ids)' + CameBack(ids)'
  <2>1. PICK ids : /\ ids = OfBatch(b)'
                   /\ Gone(ids) = Gone(OfBatch(b)) /\ CameBack(ids) = CameBack(OfBatch(b))
    BY <1>2, OfBatchKept
  <2>2. \A n \in DOMAIN lines : <<d, n>> \in ids <=> lines[n].batch = b
    BY <1>3, <1>5, <2>1 DEF OfBatch
  <2>3. {n \in DOMAIN lines : <<d, n>> \in ids} = {n \in DOMAIN lines : lines[n].batch = b}
    BY <2>2
  <2>4. Sent(d, lines, ids) = OutOf(lines, b)
    BY <2>3 DEF Sent, OutOf, SumLines
  <2>5. OutOf(lines, b) \in Nat /\ -OutOf(lines, b) \in Int /\ godown \in Godown
    BY <1>1, DispatchSums, DispatchInputs
  <2>6. Carried(godown, b, -OutOf(lines, b))
    <3>1. stock' = [k \in Godown \X Batch |->
              IF k[1] = godown THEN stock[k] - OutOf(lines, k[2]) ELSE stock[k]]
      BY <1>1 DEF PostDispatch
    <3>2. stock[<<godown, b>>] \in Nat
      BY <2>5 DEF TypeOK
    <3>3. stock'[<<godown, b>>] = stock[<<godown, b>>] - OutOf(lines, b)
      BY <2>5, <3>1
    <3>4. stock'[<<godown, b>>] = stock[<<godown, b>>] + (-OutOf(lines, b))
      BY <2>5, <3>2, <3>3
    <3>5. \A h \in Godown : h # godown => stock'[<<h, b>>] = stock[<<h, b>>]
      BY <3>1
    <3>6. QED
      BY <3>4, <3>5 DEF Carried
  <2>7. OnHand(b)' = OnHand(b) + (-OutOf(lines, b)) /\ OnHand(b) \in Int
    BY <2>5, <2>6, OnHandCarried
  <2>8. OnHand(b) = Supplied(b) - Gone(ids) + CameBack(ids)
    BY <2>1 DEF StockExplained
  <2>9. Gone(ids) \in Nat /\ CameBack(ids) \in Nat /\ Supplied(b) \in Nat
    BY SumsCounted, SuppliedTyped
  <2>10. Gone(ids)' = Gone(ids) + OutOf(lines, b) /\ CameBack(ids)' = CameBack(ids)
    BY <1>4, <2>4
  <2>11. OnHand(b)' = Supplied(b) - Gone(ids)' + CameBack(ids)'
    BY <2>5, <2>7, <2>8, <2>9, <2>10
  <2>12. QED
    BY <2>1, <2>11
<1>9. QED
  BY <1>6, <1>7, <1>8, CountersAfter, ExplainedAfter

LEMMA ReverseDispatchEntryCounters ==
    ASSUME TypeOK, Shape, CountersMatchDocuments, StockExplained,
           NEW d \in Dispatch, NEW n \in DOMAIN dispatch[d].lines, ReverseDispatchEntry(d, n)
    PROVE  CountersMatchDocuments' /\ StockExplained'
<1>1. PICK id0 : id0 = <<d, n>>
  OBVIOUS
<1>2. PICK line : line = DispatchLineAt(id0)
  OBVIOUS
<1>3. Undone(id0) /\ LinesStay /\ id0 \in DispatchLines
  BY ZenonT(60), <1>1, ReverseDispatchEntryLines, ReverseDispatchEntryStays DEF Undone
<1>4. line = dispatch[d].lines[n] /\ line \in DispatchLine /\ dispatch[d] \in DispatchDoc
  BY <1>1, <1>2, <1>3, DispatchLineTyped, DispatchTyped DEF DispatchLineAt
<1>5. line.quantity \in Nat /\ -line.quantity \in Int /\ line.batch \in Batch /\ ~line.reversed
  BY <1>4 DEF DispatchLine, ReverseDispatchEntry, Reversible
<1>6. \A ids : /\ Gone(ids)' = Gone(ids) - (IF id0 \in ids THEN line.quantity ELSE 0)
               /\ CameBack(ids)' = CameBack(ids)
  BY <1>2, <1>3, <1>5, ReverseDispatchEntrySums
<1>7. LinkedAt(id0) = dispatch[d].linked
  BY <1>1 DEF LinkedAt
<1>8. ASSUME NEW s \in Sku PROVE \E ids : ids = ForInvoice(s)' /\ dispatched'[s] = Gone(ids)'
  <2>1. PICK ids : /\ ids = ForInvoice(s)' /\ Gone(ids) = Gone(ForInvoice(s))
                   /\ \A id \in DispatchLines :
                         id \in ids <=> LinkedAt(id) /\ DispatchLineAt(id).sku = s
    BY <1>3, ForInvoiceKept
  <2>2. dispatched[s] = Gone(ids) /\ Gone(ids) \in Nat
    BY <2>1, CountersBefore, SumsCounted
  <2>3. Release(d, line)
    BY <1>4 DEF ReverseDispatchEntry
  <2>4. CASE LinkedAt(id0) /\ line.sku = s
    <3>1. Gone(ids)' = Gone(ids) - line.quantity
      BY <1>2, <1>3, <1>6, <2>1, <2>4
    <3>2. dispatched'[s] = dispatched[s] + (-line.quantity)
      BY <1>7, <2>3, <2>4 DEF Release, Book
    <3>3. QED
      BY <1>5, <2>1, <2>2, <3>1, <3>2
  <2>5. CASE ~(LinkedAt(id0) /\ line.sku = s)
    <3>1. Gone(ids)' = Gone(ids) - 0
      BY <1>2, <1>3, <1>6, <2>1, <2>5
    <3>2. dispatched'[s] = dispatched[s] \/ dispatched'[s] = dispatched[s] + 0
      BY <1>7, <2>3, <2>5 DEF Release, Book
    <3>3. QED
      BY <2>1, <2>2, <3>1, <3>2
  <2>6. QED
    BY <2>4, <2>5
<1>9. ASSUME NEW id \in DispatchLines' PROVE DispatchLineAt(id)'.returned = CameBack({id})'
  <2>1. id \in DispatchLines /\ CameBack({id})' = CameBack({id})
    BY <1>3, <1>6 DEF Undone
  <2>2. DispatchLineAt(id)'.returned = DispatchLineAt(id).returned
    BY ZenonT(60), <1>3, <2>1, DispatchLineTyped, DispatchLineMarked DEF Undone
  <2>3. QED
    BY <2>1, <2>2, CountersBefore
<1>10. ASSUME NEW b \in Batch
       PROVE  \E ids : /\ ids = OfBatch(b)'
                       /\ OnHand(b)' = Supplied(b) - Gone(ids)' + CameBack(ids)'
  <2>1. PICK ids : /\ ids = OfBatch(b)'
                   /\ Gone(ids) = Gone(OfBatch(b)) /\ CameBack(ids) = CameBack(OfBatch(b))
                   /\ \A id \in DispatchLines : id \in ids <=> DispatchLineAt(id).batch = b
    BY <1>3, OfBatchKept
  <2>2. PICK back \in Nat : back = IF line.batch = b THEN line.quantity ELSE 0
    BY <1>5
  <2>3. PICK godown \in Godown : godown = dispatch[d].godown
    BY <1>4 DEF DispatchDoc
  <2>4. Carried(godown, b, back)
    <3>1. stock' = [stock EXCEPT ![<<godown, line.batch>>] = @ + line.quantity]
      BY <1>4, <2>3 DEF ReverseDispatchEntry
    <3>2. stock \in [Godown \X Batch -> Nat]
      BY DEF TypeOK
    <3>3. stock'[<<godown, b>>] = stock[<<godown, b>>] + back
      BY <1>5, <2>2, <3>1, <3>2
    <3>4. \A h \in Godown : h # godown => stock'[<<h, b>>] = stock[<<h, b>>]
      BY <1>5, <3>1, <3>2
    <3>5. QED
      BY <3>3, <3>4 DEF Carried
  <2>5. OnHand(b)' = OnHand(b) + back /\ OnHand(b) \in Int
    BY <2>4, OnHandCarried
  <2>6. OnHand(b) = Supplied(b) - Gone(ids) + CameBack(ids)
    BY <2>1 DEF StockExplained
  <2>7. Gone(ids) \in Nat /\ CameBack(ids) \in Nat /\ Supplied(b) \in Nat
    BY SumsCounted, SuppliedTyped
  <2>8. Gone(ids)' = Gone(ids) - back /\ CameBack(ids)' = CameBack(ids)
    BY <1>2, <1>3, <1>6, <2>1, <2>2
  <2>9. OnHand(b)' = Supplied(b) - Gone(ids)' + CameBack(ids)'
    BY <2>5, <2>6, <2>7, <2>8
  <2>10. QED
    BY <2>1, <2>9
<1>11. QED
  BY <1>8, <1>9, <1>10, CountersAfter, ExplainedAfter

LEMMA PostReturnCounters ==
    ASSUME TypeOK, Shape, CountersMatchDocuments, StockExplained,
           NEW r \in Return, NEW d \in Dispatch, NEW input \in ReturnInput, PostReturn(r, d, input)
    PROVE  CountersMatchDocuments' /\ StockExplained'
<1>1. PICK lines, godown : lines = input.lines /\ godown = input.godown
  OBVIOUS
<1>2. Returned(r, d, input) /\ LinesStay
  BY PostReturnLines, PostReturnStays
<1>3. /\ DispatchLines' = DispatchLines
      /\ \A m \in DOMAIN lines : <<d, lines[m].line>> \in DispatchLines
      /\ \A id \in DispatchLines : DispatchLineAt(id)' = IF id[1] = d
            THEN ReturnedMore(DispatchLineAt(id), TakenBack(lines, id[2]))
            ELSE DispatchLineAt(id)
  BY <1>1, <1>2 DEF Returned
<1>4. \A ids : Gone(ids)' = Gone(ids) /\ CameBack(ids)' = CameBack(ids) + Brought(d, lines, ids)
  BY <1>1, PostReturnSums
<1>5. ASSUME NEW s \in Sku PROVE \E ids : ids = ForInvoice(s)' /\ dispatched'[s] = Gone(ids)'
  <2>1. PICK ids : ids = ForInvoice(s)' /\ Gone(ids) = Gone(ForInvoice(s))
    BY <1>2, ForInvoiceKept
  <2>2. dispatched'[s] = dispatched[s]
    BY DEF PostReturn
  <2>3. QED
    BY <1>4, <2>1, <2>2, CountersBefore
<1>6. ASSUME NEW id \in DispatchLines' PROVE DispatchLineAt(id)'.returned = CameBack({id})'
  <2>1. /\ id \in DispatchLines /\ DispatchLineAt(id) \in DispatchLine
        /\ TakenBack(lines, id[2]) \in Int /\ CameBack({id}) \in Nat
    BY <1>1, <1>3, DispatchLineTyped, ReturnSums, SumsCounted
  <2>2. DispatchLineAt(id).returned = CameBack({id})
    BY <2>1, CountersBefore
  <2>3. CASE id[1] = d
    <3>1. id = <<d, id[2]>>
      BY <2>1, <2>3, DispatchLineIds
    <3>2. {m \in DOMAIN lines : <<d, lines[m].line>> \in {id}} = {m \in DOMAIN lines : lines[m].line = id[2]}
      BY <3>1
    <3>3. Brought(d, lines, {id}) = TakenBack(lines, id[2])
      BY <3>2 DEF Brought, TakenBack, SumLines
    <3>4. DispatchLineAt(id)'.returned = DispatchLineAt(id).returned + TakenBack(lines, id[2])
      <4>1. PICK q : q = TakenBack(lines, id[2])
        OBVIOUS
      <4>2. DispatchLineAt(id)' = ReturnedMore(DispatchLineAt(id), q)
        BY <1>3, <2>1, <2>3, <4>1
      <4>3. q \in Int
        BY <2>1, <4>1
      <4>4. ReturnedMore(DispatchLineAt(id), q).returned = DispatchLineAt(id).returned + q
        BY <2>1, <4>3, DispatchLineReturned
      <4>5. QED
        BY <4>1, <4>2, <4>4
    <3>5. QED
      BY <1>4, <2>2, <3>3, <3>4
  <2>4. CASE id[1] # d
    <3>1. {m \in DOMAIN lines : <<d, lines[m].line>> \in {id}} = {}
      BY <2>4
    <3>2. Brought(d, lines, {id}) = 0
      BY <3>1, SumEmpty DEF Brought
    <3>3. CameBack({id})' = CameBack({id}) + 0
      BY <1>4, <3>2
    <3>4. QED
      BY <1>3, <2>1, <2>2, <2>4, <3>3
  <2>5. QED
    BY <2>3, <2>4
<1>7. ASSUME NEW b \in Batch
      PROVE  \E ids : /\ ids = OfBatch(b)'
                      /\ OnHand(b)' = Supplied(b) - Gone(ids)' + CameBack(ids)'
  <2>1. PICK ids : /\ ids = OfBatch(b)'
                   /\ Gone(ids) = Gone(OfBatch(b)) /\ CameBack(ids) = CameBack(OfBatch(b))
                   /\ \A id \in DispatchLines : id \in ids <=> DispatchLineAt(id).batch = b
    BY <1>2, OfBatchKept
  <2>2. \A m \in DOMAIN lines : <<d, lines[m].line>> \in ids <=>
                                    dispatch[d].lines[lines[m].line].batch = b
    <3>1. \A m \in DOMAIN lines : DispatchLineAt(<<d, lines[m].line>>) = dispatch[d].lines[lines[m].line]
      BY DEF DispatchLineAt
    <3>2. QED
      BY <1>3, <2>1, <3>1
  <2>3. {m \in DOMAIN lines : <<d, lines[m].line>> \in ids} =
            {m \in DOMAIN lines : dispatch[d].lines[lines[m].line].batch = b}
    BY <2>2
  <2>4. Brought(d, lines, ids) = IntoBatch(d, lines, b)
    BY <2>3 DEF Brought, IntoBatch, SumLines
  <2>5. PICK back \in Nat : back = IntoBatch(d, lines, b)
    BY <1>1, ReturnSums
  <2>6. godown \in Godown
    BY <1>1, ReturnInputs
  <2>7. Carried(godown, b, back)
    <3>1. stock' = [k \in Godown \X Batch |->
              IF k[1] = godown THEN stock[k] + IntoBatch(d, lines, k[2]) ELSE stock[k]]
      BY <1>1 DEF PostReturn
    <3>2. stock'[<<godown, b>>] = stock[<<godown, b>>] + back
      BY <2>5, <2>6, <3>1
    <3>3. \A h \in Godown : h # godown => stock'[<<h, b>>] = stock[<<h, b>>]
      BY <3>1
    <3>4. QED
      BY <3>2, <3>3 DEF Carried
  <2>8. OnHand(b)' = OnHand(b) + back /\ OnHand(b) \in Int
    BY <2>6, <2>7, OnHandCarried
  <2>9. OnHand(b) = Supplied(b) - Gone(ids) + CameBack(ids)
    BY <2>1 DEF StockExplained
  <2>10. Gone(ids) \in Nat /\ CameBack(ids) \in Nat /\ Supplied(b) \in Nat
    BY SumsCounted, SuppliedTyped
  <2>11. Gone(ids)' = Gone(ids) /\ CameBack(ids)' = CameBack(ids) + back
    BY <1>4, <2>4, <2>5
  <2>12. OnHand(b)' = Supplied(b) - Gone(ids)' + CameBack(ids)'
    BY <2>8, <2>9, <2>10, <2>11
  <2>13. QED
    BY <2>1, <2>12
<1>8. QED
  BY <1>5, <1>6, <1>7, CountersAfter, ExplainedAfter

LEMMA ReverseReturnEntryCounters ==
    ASSUME TypeOK, Shape, CountersMatchDocuments, StockExplained,
           NEW r \in Return, NEW m \in DOMAIN return[r].lines, ReverseReturnEntry(r, m)
    PROVE  CountersMatchDocuments' /\ StockExplained'
<1>1. PICK id0 : id0 = <<r, m>>
  OBVIOUS
<1>2. PICK line : line = ReturnLineAt(id0)
  OBVIOUS
<1>3. PICK src : src = line.source
  OBVIOUS
<1>4. TookBack(id0, src) /\ LinesStay
  BY <1>1, <1>2, <1>3, ReverseReturnEntryLines, ReverseReturnEntryStays
<1>5. /\ DispatchLines' = DispatchLines /\ id0 \in ReturnLines /\ src \in DispatchLines
      /\ DispatchLineAt(src)' = ReturnedMore(DispatchLineAt(src), -line.quantity)
      /\ \A id \in DispatchLines : id # src => DispatchLineAt(id)' = DispatchLineAt(id)
  BY <1>2, <1>4 DEF TookBack
<1>6. /\ line = return[r].lines[m] /\ line \in ReturnLine
      /\ DispatchLineAt(src) = dispatch[src[1]].lines[src[2]]
  BY <1>1, <1>2, <1>5, ReturnLineTyped DEF ReturnLineAt, DispatchLineAt
<1>7. line.quantity \in Nat /\ -line.quantity \in Int /\ line.godown \in Godown /\ ~line.reversed
  <2>1. line.quantity \in Nat \ {0} /\ line.godown \in Godown
    BY <1>6 DEF ReturnLine
  <2>2. ~line.reversed
    BY <1>6 DEF ReverseReturnEntry
  <2>3. QED
    BY <2>1, <2>2
<1>8. \A ids : /\ Gone(ids)' = Gone(ids)
               /\ CameBack(ids)' = CameBack(ids) - (IF src \in ids THEN line.quantity ELSE 0)
  BY <1>2, <1>3, <1>4, <1>7, ReverseReturnEntrySums
<1>9. ASSUME NEW s \in Sku PROVE \E ids : ids = ForInvoice(s)' /\ dispatched'[s] = Gone(ids)'
  <2>1. PICK ids : ids = ForInvoice(s)' /\ Gone(ids) = Gone(ForInvoice(s))
    BY <1>4, ForInvoiceKept
  <2>2. dispatched'[s] = dispatched[s]
    BY DEF ReverseReturnEntry
  <2>3. QED
    BY <1>8, <2>1, <2>2, CountersBefore
<1>10. ASSUME NEW id \in DispatchLines' PROVE DispatchLineAt(id)'.returned = CameBack({id})'
  <2>1. id \in DispatchLines /\ DispatchLineAt(id) \in DispatchLine /\ CameBack({id}) \in Nat
    BY <1>5, DispatchLineTyped, SumsCounted
  <2>2. DispatchLineAt(id).returned = CameBack({id})
    BY <2>1, CountersBefore
  <2>3. CASE id = src
    <3>1. DispatchLineAt(id)'.returned = DispatchLineAt(id).returned + (-line.quantity)
      <4>1. PICK q : q = -line.quantity
        OBVIOUS
      <4>2. DispatchLineAt(id)' = ReturnedMore(DispatchLineAt(id), q)
        BY <1>5, <2>3, <4>1
      <4>3. q \in Int
        BY <1>7, <4>1
      <4>4. ReturnedMore(DispatchLineAt(id), q).returned = DispatchLineAt(id).returned + q
        BY <2>1, <4>3, DispatchLineReturned
      <4>5. QED
        BY <4>1, <4>2, <4>4
    <3>2. CameBack({id})' = CameBack({id}) - line.quantity
      BY <1>8, <2>3
    <3>3. QED
      BY <1>7, <2>1, <2>2, <3>1, <3>2
  <2>4. CASE id # src
    <3>1. CameBack({id})' = CameBack({id}) - 0
      BY <1>8, <2>4
    <3>2. QED
      BY <1>5, <2>1, <2>2, <2>4, <3>1
  <2>5. QED
    BY <2>3, <2>4
<1>11. ASSUME NEW b \in Batch
       PROVE  \E ids : /\ ids = OfBatch(b)'
                       /\ OnHand(b)' = Supplied(b) - Gone(ids)' + CameBack(ids)'
  <2>1. PICK ids : /\ ids = OfBatch(b)'
                   /\ Gone(ids) = Gone(OfBatch(b)) /\ CameBack(ids) = CameBack(OfBatch(b))
                   /\ \A id \in DispatchLines : id \in ids <=> DispatchLineAt(id).batch = b
    BY <1>4, OfBatchKept
  <2>2. PICK back \in Nat : back = IF DispatchLineAt(src).batch = b THEN line.quantity ELSE 0
    BY <1>7
  <2>3. Carried(line.godown, b, -back)
    <3>1. PICK batch : batch = DispatchLineAt(src).batch
      OBVIOUS
    <3>2. batch \in Batch
      BY <1>5, <3>1, DispatchLineTyped DEF DispatchLine
    <3>3. stock' = [stock EXCEPT ![<<line.godown, batch>>] = @ - line.quantity]
      BY <1>3, <1>6, <3>1 DEF ReverseReturnEntry
    <3>4. stock \in [Godown \X Batch -> Nat]
      BY DEF TypeOK
    <3>5. stock[<<line.godown, b>>] \in Nat
      BY <1>7, <3>4
    <3>6. stock'[<<line.godown, b>>] = stock[<<line.godown, b>>] - back
      BY <1>7, <2>2, <3>1, <3>2, <3>3, <3>4, <3>5
    <3>7. stock'[<<line.godown, b>>] = stock[<<line.godown, b>>] + (-back)
      BY <3>5, <3>6
    <3>8. \A h \in Godown : h # line.godown => stock'[<<h, b>>] = stock[<<h, b>>]
      BY <1>7, <3>2, <3>3, <3>4
    <3>9. QED
      BY <3>7, <3>8 DEF Carried
  <2>4. OnHand(b)' = OnHand(b) + (-back) /\ OnHand(b) \in Int
    BY <1>7, <2>3, OnHandCarried
  <2>5. OnHand(b) = Supplied(b) - Gone(ids) + CameBack(ids)
    BY <2>1 DEF StockExplained
  <2>6. Gone(ids) \in Nat /\ CameBack(ids) \in Nat /\ Supplied(b) \in Nat
    BY SumsCounted, SuppliedTyped
  <2>7. Gone(ids)' = Gone(ids) /\ CameBack(ids)' = CameBack(ids) - back
    BY <1>5, <1>8, <2>1, <2>2
  <2>8. OnHand(b)' = Supplied(b) - Gone(ids)' + CameBack(ids)'
    BY <2>4, <2>5, <2>6, <2>7
  <2>9. QED
    BY <2>1, <2>8
<1>12. QED
  BY <1>9, <1>10, <1>11, CountersAfter, ExplainedAfter

\* A sum changes by what one of its terms changes.
LEMMA SumChangedAt ==
    ASSUME NEW S, IsFiniteSet(S), NEW a \in S, NEW f, NEW c,
           \A x \in S : f[x] \in Int /\ c[x] \in Int, \A x \in S \ {a} : c[x] = f[x]
    PROVE  SumFunctionOnSet(c, S) = SumFunctionOnSet(f, S) + c[a] - f[a]
<1>1. IsFiniteSet(S \ {a})
  BY FS_Subset
<1>2. /\ SumFunctionOnSet(f, S) = f[a] + SumFunctionOnSet(f, S \ {a})
      /\ SumFunctionOnSet(c, S) = c[a] + SumFunctionOnSet(c, S \ {a})
  BY SumTakeOut
<1>3. SumFunctionOnSet(c, S \ {a}) = SumFunctionOnSet(f, S \ {a})
  BY <1>1, SumEqual
<1>4. SumFunctionOnSet(f, S \ {a}) \in Int /\ f[a] \in Int /\ c[a] \in Int
  BY <1>1, SumInt
<1>5. QED
  BY <1>2, <1>3, <1>4

\* Goods that go from one godown to another are still there.
LEMMA OnHandMoved ==
    ASSUME TypeOK, NEW b \in Batch, NEW from \in Godown, NEW to \in Godown, MoveGoods(b, from, to, 1)
    PROVE  \A c \in Batch : OnHand(c)' = OnHand(c)
<1> SUFFICES ASSUME NEW c \in Batch PROVE OnHand(c)' = OnHand(c)
  OBVIOUS
<1> DEFINE f == [g \in Godown |-> stock[<<g, c>>]]
<1> DEFINE h == [g \in Godown |-> stock'[<<g, c>>]]
<1> DEFINE m == [g \in Godown |-> IF g = from THEN h[g] ELSE f[g]]
<1>1. OnHand(c) = SumFunctionOnSet(f, Godown) /\ OnHand(c)' = SumFunctionOnSet(h, Godown)
  BY DEF OnHand
<1>2. IsFiniteSet(Godown) /\ from # to
  BY SalesAssumption DEF MoveGoods
<1>3. \A g \in Godown : stock'[<<g, c>>] = IF c = b /\ g = from THEN stock[<<g, c>>] - 1
                                           ELSE IF c = b /\ g = to THEN stock[<<g, c>>] + 1
                                           ELSE stock[<<g, c>>]
  BY DEF MoveGoods, TypeOK
<1>4. \A g \in Godown : f[g] \in Int
  BY DEF TypeOK
<1>5. CASE c # b
  <2>1. \A g \in Godown : h[g] = f[g]
    BY <1>3, <1>5
  <2> HIDE DEF f, h
  <2>2. QED
    BY <1>1, <1>2, <2>1, SumEqual
<1>6. CASE c = b
  <2>1. /\ h[from] = f[from] - 1 /\ h[to] = f[to] + 1
        /\ \A g \in Godown : g # from /\ g # to => h[g] = f[g]
    BY <1>2, <1>3, <1>6
  <2>2. \A g \in Godown : h[g] \in Int
    <3> HIDE DEF f, h
    <3>1. QED
      BY <1>4, <2>1
  <2>3. /\ m[from] = h[from] /\ m[to] = f[to]
        /\ \A g \in Godown : g # from => m[g] = f[g]
        /\ \A g \in Godown : g # to => m[g] = h[g]
    <3> HIDE DEF f, h
    <3>1. QED
      BY <1>2, <2>1
  <2> HIDE DEF f, h, m
  <2>4. \A g \in Godown : m[g] \in Int
    BY <1>4, <2>2, <2>3
  <2>5. SumFunctionOnSet(m, Godown) = SumFunctionOnSet(f, Godown) + m[from] - f[from]
    BY <1>2, <1>4, <2>3, <2>4, SumChangedAt
  <2>6. SumFunctionOnSet(h, Godown) = SumFunctionOnSet(m, Godown) + h[to] - m[to]
    BY <1>2, <2>2, <2>3, <2>4, SumChangedAt
  <2>7. SumFunctionOnSet(f, Godown) \in Int /\ f[from] \in Int /\ f[to] \in Int
    BY <1>2, <1>4, SumInt
  <2>8. QED
    BY <1>1, <2>1, <2>3, <2>5, <2>6, <2>7
<1>7. QED
  BY <1>5, <1>6

LEMMA InvoiceStepCounters ==
    ASSUME TypeOK, InvoiceStep
    PROVE  /\ UNCHANGED <<dispatched, dispatch, return>>
           /\ CountersMatchDocuments /\ StockExplained => CountersMatchDocuments' /\ StockExplained'
<1>1. UNCHANGED <<dispatched, dispatch, return>>
  BY DEF InvoiceStep, Create, Cancel, MoveGoods, vars
<1>2. \A b \in Batch : OnHand(b)' = OnHand(b)
  <2>1. CASE \E b \in Batch, from, to \in Godown : MoveGoods(b, from, to, 1)
    BY <2>1, OnHandMoved
  <2>2. CASE UNCHANGED stock
    BY <2>2 DEF OnHand
  <2>3. QED
    BY <2>1, <2>2 DEF InvoiceStep, Create, Cancel, vars
<1>3. /\ DispatchLines' = DispatchLines /\ \A id : DispatchLineAt(id)' = DispatchLineAt(id)
      /\ \A id : LinkedAt(id)' = LinkedAt(id)
      /\ ReturnLines' = ReturnLines /\ \A id : ReturnLineAt(id)' = ReturnLineAt(id)
  BY <1>1, LinesUntouched
<1>4. \A ids : Gone(ids)' = Gone(ids) /\ CameBack(ids)' = CameBack(ids)
  BY <1>3, DispatchesUntouched, ReturnsUntouched
<1>5. ASSUME CountersMatchDocuments, StockExplained
      PROVE  CountersMatchDocuments' /\ StockExplained'
  <2>1. ASSUME NEW s \in Sku PROVE \E ids : ids = ForInvoice(s)' /\ dispatched'[s] = Gone(ids)'
    <3>1. PICK ids : ids = ForInvoice(s)
      OBVIOUS
    <3>2. ids = ForInvoice(s)'
      BY <1>3, <3>1 DEF ForInvoice
    <3>3. dispatched[s] = Gone(ids)
      BY <1>5, <3>1, CountersBefore
    <3>4. QED
      BY <1>1, <1>4, <3>2, <3>3
  <2>2. \A id \in DispatchLines' : DispatchLineAt(id)'.returned = CameBack({id})'
    BY <1>3, <1>4, <1>5, CountersBefore
  <2>3. ASSUME NEW b \in Batch
        PROVE  \E ids : /\ ids = OfBatch(b)'
                        /\ OnHand(b)' = Supplied(b) - Gone(ids)' + CameBack(ids)'
    <3>1. PICK ids : ids = OfBatch(b)
      OBVIOUS
    <3>2. ids = OfBatch(b)'
      BY <1>3, <3>1 DEF OfBatch
    <3>3. OnHand(b) = Supplied(b) - Gone(ids) + CameBack(ids)
      BY <1>5, <3>1 DEF StockExplained
    <3>4. QED
      BY <1>2, <1>4, <3>2, <3>3
  <2>4. QED
    BY <2>1, <2>2, <2>3, CountersAfter, ExplainedAfter
<1>6. QED
  BY <1>1, <1>5

-----------------------------------------------------------------------------
(***************************************************************************)
(* The shape of the documents is kept.                                     *)
(***************************************************************************)

LEMMA PostDispatchShape ==
    ASSUME TypeOK, Shape, NEW d \in Dispatch, NEW input \in DispatchInput, PostDispatch(d, input)
    PROVE  Shape'
<1>1. Dispatched(d, input)
  BY PostDispatchLines
<1>2. UNCHANGED return
  BY DEF PostDispatch
<1>3. \A r \in Return : return'[r].status = "ABSENT" => return'[r].lines = <<>>
  BY <1>2 DEF Shape
<1>4. IsFiniteSet(DispatchLines') /\ IsFiniteSet(ReturnLines')
  BY <1>1 DEF Dispatched, Shape
<1>5. \A id \in ReturnLines' : ReturnLineAt(id)'.source \in DispatchLines'
  BY <1>1 DEF Dispatched, Shape
<1>6. QED
  BY <1>3, <1>4, <1>5 DEF Shape

LEMMA ReverseDispatchEntryShape ==
    ASSUME TypeOK, Shape, NEW d \in Dispatch, NEW n \in DOMAIN dispatch[d].lines,
           ReverseDispatchEntry(d, n)
    PROVE  Shape'
<1>1. PICK id0 : id0 = <<d, n>>
  OBVIOUS
<1>2. Undone(id0)
  BY <1>1, ReverseDispatchEntryLines
<1>3. UNCHANGED return
  BY DEF ReverseDispatchEntry
<1>4. \A r \in Return : return'[r].status = "ABSENT" => return'[r].lines = <<>>
  BY <1>3 DEF Shape
<1>5. IsFiniteSet(DispatchLines') /\ IsFiniteSet(ReturnLines')
  BY <1>2 DEF Undone, Shape
<1>6. \A id \in ReturnLines' : ReturnLineAt(id)'.source \in DispatchLines'
  BY <1>2 DEF Undone, Shape
<1>7. QED
  BY <1>4, <1>5, <1>6 DEF Shape

LEMMA PostReturnShape ==
    ASSUME TypeOK, Shape, NEW r \in Return, NEW d \in Dispatch, NEW input \in ReturnInput,
           PostReturn(r, d, input)
    PROVE  Shape'
<1>1. PICK lines, godown : lines = input.lines /\ godown = input.godown
  OBVIOUS
<1>2. Returned(r, d, input)
  BY PostReturnLines
<1>3. /\ ReturnLines' = ReturnLines \cup Named(r, DOMAIN lines)
      /\ \A id \in ReturnLines : ReturnLineAt(id)' = ReturnLineAt(id)
      /\ \A m \in DOMAIN lines : /\ ReturnLineAt(<<r, m>>)' = StoredReturn(d, godown, lines[m])
                                 /\ <<d, lines[m].line>> \in DispatchLines
      /\ IsFiniteSet(ReturnLines') /\ DispatchLines' = DispatchLines
  BY <1>1, <1>2 DEF Returned
<1>4. return'[r].status = "POSTED" /\ \A q \in Return : q # r => return'[q] = return[q]
  BY DEF PostReturn, TypeOK
<1>5. \A q \in Return : return'[q].status = "ABSENT" => return'[q].lines = <<>>
  BY <1>4 DEF Shape
<1>6. ASSUME NEW id \in ReturnLines' PROVE ReturnLineAt(id)'.source \in DispatchLines'
  <2>1. CASE id \in ReturnLines
    BY <1>3, <2>1 DEF Shape
  <2>2. CASE id \in Named(r, DOMAIN lines)
    <3>1. id = <<r, id[2]>> /\ id[2] \in DOMAIN lines
      BY <2>2, NamedAre
    <3>2. /\ ReturnLineAt(id)' = StoredReturn(d, godown, lines[id[2]])
          /\ <<d, lines[id[2]].line>> \in DispatchLines
      BY <1>3, <3>1
    <3>3. QED
      BY <1>3, <3>2 DEF StoredReturn
  <2>3. QED
    BY <1>3, <2>1, <2>2
<1>7. IsFiniteSet(DispatchLines')
  BY <1>3 DEF Shape
<1>8. QED
  BY <1>3, <1>5, <1>6, <1>7 DEF Shape

LEMMA ReverseReturnEntryShape ==
    ASSUME TypeOK, Shape, NEW r \in Return, NEW m \in DOMAIN return[r].lines,
           ReverseReturnEntry(r, m)
    PROVE  Shape'
<1>1. PICK id0 : id0 = <<r, m>>
  OBVIOUS
<1>2. PICK src : src = ReturnLineAt(id0).source
  OBVIOUS
<1>3. TookBack(id0, src)
  BY <1>1, <1>2, ReverseReturnEntryLines
<1>4. /\ ReturnLines' = ReturnLines /\ id0 \in ReturnLines /\ DispatchLines' = DispatchLines
      /\ ReturnLineAt(id0)' = [ReturnLineAt(id0) EXCEPT !.reversed = TRUE]
      /\ \A id \in ReturnLines : id # id0 => ReturnLineAt(id)' = ReturnLineAt(id)
  BY <1>3 DEF TookBack
<1>5. return'[r].status # "ABSENT" /\ \A q \in Return : q # r => return'[q] = return[q]
  BY DerivedTyped DEF ReverseReturnEntry, TypeOK
<1>6. \A q \in Return : return'[q].status = "ABSENT" => return'[q].lines = <<>>
  BY <1>5 DEF Shape
<1>7. ASSUME NEW id \in ReturnLines' PROVE ReturnLineAt(id)'.source \in DispatchLines'
  <2>1. ReturnLineAt(id)'.source = ReturnLineAt(id).source
    BY <1>4, ReturnLineTyped, ReturnLineMarked
  <2>2. QED
    BY <1>4, <2>1 DEF Shape
<1>8. IsFiniteSet(DispatchLines') /\ IsFiniteSet(ReturnLines')
  BY <1>4 DEF Shape
<1>9. QED
  BY <1>6, <1>7, <1>8 DEF Shape

LEMMA InvoiceStepShape ==
    ASSUME TypeOK, Shape, InvoiceStep
    PROVE  Shape'
<1>1. UNCHANGED <<dispatch, return>>
  BY InvoiceStepCounters
<1>2. /\ DispatchLines' = DispatchLines /\ \A id : DispatchLineAt(id)' = DispatchLineAt(id)
      /\ ReturnLines' = ReturnLines /\ \A id : ReturnLineAt(id)' = ReturnLineAt(id)
  BY <1>1, LinesUntouched
<1>3. QED
  BY <1>1, <1>2 DEF Shape

-----------------------------------------------------------------------------
(***************************************************************************)
(* What the services check before they increment and decrement is enough.   *)
(***************************************************************************)

\* What customers can hold of a line of a dispatch.
Holds(line) == IF line.reversed THEN 0 ELSE line.quantity

Bounds ==
    /\ \A s \in Sku : dispatched[s] <= invoiced[s]
    /\ \A id \in DispatchLines : DispatchLineAt(id).returned <= Holds(DispatchLineAt(id))

StatusOfCounters ==
    /\ status \in {"ABSENT", "OPEN", "CANCELLED"} => \A s \in Sku : dispatched[s] <= 0
    /\ status = "COMPLETE" => \A s \in Sku : dispatched[s] >= invoiced[s]
    /\ status = "PARTIALLY_DISPATCHED" => /\ \E s \in Sku : dispatched[s] > 0
                                          /\ \E s \in Sku : dispatched[s] < invoiced[s]

\* Booking keeps the status in step with the counters; nothing more goes out
\* against a cancelled invoice.
LEMMA BookedStatus ==
    ASSUME TypeOK, StatusOfCounters, NEW delta, Book(delta), \A s \in Sku : delta[s] \in Int,
           status = "CANCELLED" => \A s \in Sku : delta[s] <= 0,
           UNCHANGED invoiced
    PROVE  StatusOfCounters'
<1>1. dispatched' \in [Sku -> Int] /\ dispatched \in [Sku -> Int] /\ invoiced \in [Sku -> Nat]
  BY BookTyped DEF TypeOK
<1>2. /\ status' = Recomputed(dispatched')
      /\ \A s \in Sku : dispatched'[s] = dispatched[s] + delta[s]
  BY DEF Book
<1>3. CASE status = "CANCELLED"
  <2>1. status' = "CANCELLED" /\ \A s \in Sku : dispatched[s] <= 0 /\ delta[s] <= 0
    BY <1>2, <1>3 DEF Recomputed, StatusOfCounters
  <2>2. \A s \in Sku : dispatched'[s] <= 0
    BY <1>1, <1>2, <2>1
  <2>3. QED
    BY <2>1, <2>2 DEF StatusOfCounters
<1>4. CASE status # "CANCELLED"
  <2>1. status' = "COMPLETE" => \A s \in Sku : dispatched'[s] >= invoiced[s]
    BY <1>2, <1>4 DEF Recomputed
  <2>2. status' \in {"ABSENT", "OPEN", "CANCELLED"} => \A s \in Sku : dispatched'[s] <= 0
    BY <1>1, <1>2, <1>4 DEF Recomputed
  <2>3. status' = "PARTIALLY_DISPATCHED" =>
            (\E s \in Sku : dispatched'[s] > 0) /\ (\E s \in Sku : dispatched'[s] < invoiced[s])
    BY <1>1, <1>2, <1>4 DEF Recomputed
  <2>4. QED
    BY <2>1, <2>2, <2>3 DEF StatusOfCounters
<1>5. QED
  BY <1>3, <1>4

LEMMA PostDispatchBounds ==
    ASSUME TypeOK, Shape, Bounds, StatusOfCounters,
           NEW d \in Dispatch, NEW input \in DispatchInput, PostDispatch(d, input)
    PROVE  Bounds' /\ StatusOfCounters'
<1>1. PICK lines : lines = input.lines
  OBVIOUS
<1>2. /\ DispatchLines' = DispatchLines \cup Named(d, DOMAIN lines)
      /\ \A id \in DispatchLines : DispatchLineAt(id)' = DispatchLineAt(id)
      /\ \A n \in DOMAIN lines : DispatchLineAt(<<d, n>>)' = Stored(lines[n])
  BY <1>1, PostDispatchLines DEF Dispatched
<1>3. \A s \in Sku : QuantityOf(lines, s) \in Nat
  BY <1>1, DispatchSums
<1>4. UNCHANGED invoiced
  BY DEF PostDispatch
<1>5. StatusOfCounters' /\ \A s \in Sku : dispatched'[s] <= invoiced'[s]
  <2>1. CASE input.linked
    <3> DEFINE delta == [s \in Sku |-> QuantityOf(lines, s)]
    <3>1. /\ Book(delta) /\ WithinRemaining(lines)
          /\ status \in {"OPEN", "PARTIALLY_DISPATCHED"}
      BY <1>1, <2>1 DEF PostDispatch, ApplyToInvoice, Dispatchable
    <3>2. \A s \in Sku : delta[s] \in Nat /\ delta[s] <= invoiced[s] - dispatched[s]
      BY <1>3, <3>1 DEF WithinRemaining
    <3> HIDE DEF delta
    <3>3. StatusOfCounters'
      BY <1>4, <3>1, <3>2, BookedStatus
    <3>4. ASSUME NEW s \in Sku PROVE dispatched'[s] <= invoiced'[s]
      <4>1. dispatched'[s] = dispatched[s] + delta[s]
        BY <3>1 DEF Book
      <4>2. dispatched[s] \in Int /\ invoiced[s] \in Nat
        BY DEF TypeOK
      <4>3. QED
        BY <1>4, <3>2, <4>1, <4>2
    <3>5. QED
      BY <3>3, <3>4
  <2>2. CASE ~input.linked
    <3>1. UNCHANGED <<dispatched, status>>
      BY <2>2 DEF PostDispatch
    <3>2. QED
      BY <1>4, <3>1 DEF Bounds, StatusOfCounters
  <2>3. QED
    BY <2>1, <2>2
<1>6. ASSUME NEW id \in DispatchLines'
      PROVE  DispatchLineAt(id)'.returned <= Holds(DispatchLineAt(id)')
  <2>1. CASE id \in DispatchLines
    BY <1>2, <2>1 DEF Bounds
  <2>2. CASE id \in Named(d, DOMAIN lines)
    <3>1. id = <<d, id[2]>> /\ id[2] \in DOMAIN lines
      BY <2>2, NamedAre
    <3>2. DispatchLineAt(id)' = Stored(lines[id[2]])
      BY <1>2, <3>1
    <3>3. lines[id[2]].quantity \in Nat
      BY <1>1, <3>1, DispatchInputs
    <3>4. QED
      BY <3>2, <3>3 DEF Stored, Holds
  <2>3. QED
    BY <1>2, <2>1, <2>2
<1>7. QED
  BY <1>5, <1>6 DEF Bounds

LEMMA ReverseDispatchEntryBounds ==
    ASSUME TypeOK, Shape, Bounds, StatusOfCounters,
           NEW d \in Dispatch, NEW n \in DOMAIN dispatch[d].lines, ReverseDispatchEntry(d, n)
    PROVE  Bounds' /\ StatusOfCounters'
<1>1. PICK id0 : id0 = <<d, n>>
  OBVIOUS
<1>2. PICK line : line = DispatchLineAt(id0)
  OBVIOUS
<1>3. Undone(id0)
  BY <1>1, ReverseDispatchEntryLines
<1>4. line = dispatch[d].lines[n] /\ line \in DispatchLine
  BY <1>1, <1>2, <1>3, DispatchLineTyped DEF DispatchLineAt, Undone
<1>5. line.quantity \in Nat
  BY <1>4 DEF DispatchLine
<1>6. Release(d, line) /\ line.returned <= 0 /\ UNCHANGED invoiced
  BY <1>4 DEF ReverseDispatchEntry, Reversible, NothingReturned
<1>7. StatusOfCounters' /\ \A s \in Sku : dispatched'[s] <= invoiced'[s]
  <2>1. CASE dispatch[d].linked
    <3> DEFINE delta == [s \in Sku |-> IF s = line.sku THEN -line.quantity ELSE 0]
    <3>1. Book(delta)
      BY <1>6, <2>1 DEF Release
    <3>2. \A s \in Sku : delta[s] \in Int /\ delta[s] <= 0
      BY <1>5
    <3> HIDE DEF delta
    <3>3. StatusOfCounters'
      BY <1>6, <3>1, <3>2, BookedStatus
    <3>4. ASSUME NEW s \in Sku PROVE dispatched'[s] <= invoiced'[s]
      <4>1. dispatched'[s] = dispatched[s] + delta[s]
        BY <3>1 DEF Book
      <4>2. dispatched[s] \in Int /\ invoiced[s] \in Nat /\ dispatched[s] <= invoiced[s]
        BY DEF TypeOK, Bounds
      <4>3. QED
        BY <1>6, <3>2, <4>1, <4>2
    <3>5. QED
      BY <3>3, <3>4
  <2>2. CASE ~dispatch[d].linked
    <3>1. UNCHANGED <<dispatched, status>>
      BY <1>6, <2>2 DEF Release
    <3>2. QED
      BY <1>6, <3>1 DEF Bounds, StatusOfCounters
  <2>3. QED
    BY <2>1, <2>2
<1>8. ASSUME NEW id \in DispatchLines'
      PROVE  DispatchLineAt(id)'.returned <= Holds(DispatchLineAt(id)')
  <2>1. CASE id = id0
    <3>1. DispatchLineAt(id0)' = [line EXCEPT !.reversed = TRUE]
      BY <1>2, <1>3 DEF Undone
    <3>2. DispatchLineAt(id0)'.returned = line.returned /\ DispatchLineAt(id0)'.reversed = TRUE
      BY <1>4, <3>1, DispatchLineMarked
    <3>3. QED
      BY <1>6, <2>1, <3>2 DEF Holds
  <2>2. CASE id # id0
    BY <1>3, <2>2 DEF Bounds, Undone
  <2>3. QED
    BY <2>1, <2>2
<1>9. QED
  BY <1>7, <1>8 DEF Bounds

\* A customer return names a line at most once, so it takes one quantity of it.
LEMMA TakenOnce ==
    ASSUME NEW input \in ReturnInput, ValidReturn(input.lines), NEW n
    PROVE  \/ TakenBack(input.lines, n) = 0
           \/ \E m \in DOMAIN input.lines : /\ input.lines[m].line = n
                                            /\ TakenBack(input.lines, n) = input.lines[m].quantity
<1>1. PICK lines : lines = input.lines
  OBVIOUS
<1> DEFINE f == [m \in DOMAIN lines |-> lines[m].quantity]
<1> DEFINE N == {m \in DOMAIN lines : lines[m].line = n}
<1>2. TakenBack(lines, n) = SumFunctionOnSet(f, N)
  BY DEF TakenBack, SumLines
<1>3. CASE N = {}
  <2>1. TakenBack(lines, n) = 0
    BY <1>2, <1>3, SumEmpty
  <2>2. QED
    BY <1>1, <2>1
<1>4. CASE N # {}
  <2>1. PICK m \in DOMAIN lines : lines[m].line = n
    BY <1>4
  <2>2. \A k \in DOMAIN lines : lines[k].line = n => k = m
    BY <1>1, <2>1 DEF ValidReturn, NoDuplicateLines
  <2>3. N = {m}
    BY <2>1, <2>2
  <2>4. f[m] = lines[m].quantity
    OBVIOUS
  <2>5. lines[m].quantity \in Int
    BY <1>1, ReturnInputs
  <2> HIDE DEF f, N
  <2>6. SumFunctionOnSet(f, {m}) = f[m]
    BY <2>4, <2>5, SumOfOne
  <2>7. TakenBack(lines, n) = lines[m].quantity
    BY <1>2, <2>3, <2>4, <2>6
  <2>8. QED
    BY <1>1, <2>1, <2>7
<1>5. QED
  BY <1>3, <1>4

LEMMA PostReturnBounds ==
    ASSUME TypeOK, Shape, Bounds, StatusOfCounters,
           NEW r \in Return, NEW d \in Dispatch, NEW input \in ReturnInput, PostReturn(r, d, input)
    PROVE  Bounds' /\ StatusOfCounters'
<1>1. PICK lines : lines = input.lines
  OBVIOUS
<1>2. /\ DispatchLines' = DispatchLines
      /\ \A id \in DispatchLines : DispatchLineAt(id)' = IF id[1] = d
            THEN ReturnedMore(DispatchLineAt(id), TakenBack(lines, id[2]))
            ELSE DispatchLineAt(id)
  BY <1>1, PostReturnLines DEF Returned
<1>3. /\ UNCHANGED <<status, invoiced, dispatched>>
      /\ ValidReturn(lines)
      /\ \A m \in DOMAIN lines : lines[m].quantity <= Returnable(dispatch[d].lines[lines[m].line])
  BY <1>1 DEF PostReturn, WithinReturnable
<1>4. ASSUME NEW id \in DispatchLines'
      PROVE  DispatchLineAt(id)'.returned <= Holds(DispatchLineAt(id)')
  <2>1. CASE id[1] # d
    BY <1>2, <2>1 DEF Bounds
  <2>2. CASE id[1] = d
    <3>1. PICK q : q = TakenBack(lines, id[2])
      OBVIOUS
    <3>2. PICK old : old = DispatchLineAt(id)
      OBVIOUS
    <3>3. old \in DispatchLine /\ q \in Int
      BY <1>1, <1>2, <3>1, <3>2, DispatchLineTyped, ReturnSums
    <3>4. DispatchLineAt(id)' = ReturnedMore(old, q)
      BY <1>2, <2>2, <3>1, <3>2
    <3>5. /\ ReturnedMore(old, q).quantity = old.quantity
          /\ ReturnedMore(old, q).reversed = old.reversed
          /\ ReturnedMore(old, q).returned = old.returned + q
      BY <3>3, DispatchLineReturned
    <3>6. old.returned \in Int /\ old.quantity \in Nat
      BY <3>3 DEF DispatchLine
    <3>7. old.returned <= Holds(old)
      BY <1>2, <3>2 DEF Bounds
    <3>8. old.returned + q <= Holds(old)
      <4>1. CASE q = 0
        BY <3>6, <3>7, <4>1
      <4>2. CASE \E m \in DOMAIN lines : lines[m].line = id[2] /\ q = lines[m].quantity
        <5>1. PICK m \in DOMAIN lines : lines[m].line = id[2] /\ q = lines[m].quantity
          BY <4>2
        <5>2. old = dispatch[d].lines[lines[m].line]
          BY <2>2, <3>2, <5>1 DEF DispatchLineAt
        <5>3. q <= Returnable(old) /\ q \in Nat \ {0}
          BY <1>1, <1>3, <5>1, <5>2, ReturnInputs
        <5>4. ~old.reversed /\ q <= old.quantity - old.returned
          BY <5>3 DEF Returnable
        <5>5. QED
          BY <3>3, <3>6, <5>4 DEF Holds
      <4>3. QED
        BY <1>1, <1>3, <3>1, <4>1, <4>2, TakenOnce
    <3>9. QED
      BY <3>4, <3>5, <3>8 DEF Holds
  <2>3. QED
    BY <2>1, <2>2
<1>5. QED
  BY <1>3, <1>4 DEF Bounds, StatusOfCounters

LEMMA ReverseReturnEntryBounds ==
    ASSUME TypeOK, Shape, Bounds, StatusOfCounters,
           NEW r \in Return, NEW m \in DOMAIN return[r].lines, ReverseReturnEntry(r, m)
    PROVE  Bounds' /\ StatusOfCounters'
<1>1. PICK id0 : id0 = <<r, m>>
  OBVIOUS
<1>2. PICK src : src = ReturnLineAt(id0).source
  OBVIOUS
<1>3. PICK quantity : quantity = ReturnLineAt(id0).quantity
  OBVIOUS
<1>4. TookBack(id0, src)
  BY <1>1, <1>2, ReverseReturnEntryLines
<1>5. /\ DispatchLines' = DispatchLines /\ id0 \in ReturnLines /\ src \in DispatchLines
      /\ DispatchLineAt(src)' = ReturnedMore(DispatchLineAt(src), -quantity)
      /\ \A id \in DispatchLines : id # src => DispatchLineAt(id)' = DispatchLineAt(id)
  BY <1>3, <1>4 DEF TookBack
<1>6. quantity \in Nat
  BY <1>3, <1>5, ReturnLineTyped DEF ReturnLine
<1>7. UNCHANGED <<status, invoiced, dispatched>>
  BY DEF ReverseReturnEntry
<1>8. ASSUME NEW id \in DispatchLines'
      PROVE  DispatchLineAt(id)'.returned <= Holds(DispatchLineAt(id)')
  <2>1. CASE id = src
    <3>1. DispatchLineAt(src) \in DispatchLine /\ -quantity \in Int
      BY <1>5, <1>6, DispatchLineTyped
    <3>2. /\ DispatchLineAt(src)'.quantity = DispatchLineAt(src).quantity
          /\ DispatchLineAt(src)'.reversed = DispatchLineAt(src).reversed
          /\ DispatchLineAt(src)'.returned = DispatchLineAt(src).returned + (-quantity)
      BY <1>5, <3>1, DispatchLineReturned
    <3>3. DispatchLineAt(src).returned \in Int /\ DispatchLineAt(src).quantity \in Nat
      BY <3>1 DEF DispatchLine
    <3>4. DispatchLineAt(src).returned <= Holds(DispatchLineAt(src))
      BY <1>5 DEF Bounds
    <3>5. QED
      BY <1>6, <2>1, <3>2, <3>3, <3>4 DEF Holds
  <2>2. CASE id # src
    BY <1>5, <2>2 DEF Bounds
  <2>3. QED
    BY <2>1, <2>2
<1>9. QED
  BY <1>7, <1>8 DEF Bounds, StatusOfCounters

LEMMA InvoiceStepBounds ==
    ASSUME TypeOK, Bounds, StatusOfCounters, InvoiceStep
    PROVE  Bounds' /\ StatusOfCounters'
<1>1. UNCHANGED <<dispatched, dispatch, return>>
  BY InvoiceStepCounters
<1>2. DispatchLines' = DispatchLines /\ \A id : DispatchLineAt(id)' = DispatchLineAt(id)
  BY <1>1, LinesUntouched
<1>3. \A id \in DispatchLines' : DispatchLineAt(id)'.returned <= Holds(DispatchLineAt(id)')
  BY <1>2 DEF Bounds
<1>4. CASE UNCHANGED <<status, invoiced>>
  BY <1>1, <1>3, <1>4 DEF Bounds, StatusOfCounters
<1>5. ASSUME NEW input \in InvoiceInput, Create(input) PROVE Bounds' /\ StatusOfCounters'
  <2>1. input \in [Sku -> Nat] /\ dispatched \in [Sku -> Int]
    BY SalesAssumption DEF TypeOK
  <2>2. status' = "OPEN" /\ invoiced' = input /\ \A s \in Sku : dispatched[s] <= 0
    BY <1>5 DEF Create, StatusOfCounters
  <2>3. \A s \in Sku : dispatched[s] <= input[s]
    BY <2>1, <2>2
  <2>4. QED
    BY <1>1, <1>3, <2>2, <2>3 DEF Bounds, StatusOfCounters
<1>6. CASE Cancel
  BY <1>1, <1>3, <1>6 DEF Cancel, Cancellable, Bounds, StatusOfCounters
<1>7. QED
  BY <1>4, <1>5, <1>6 DEF InvoiceStep, MoveGoods, vars

-----------------------------------------------------------------------------
(***************************************************************************)
(* The inductive invariant.                                                *)
(***************************************************************************)

\* What every operation on the invoice and its documents keeps.
IInv ==
    /\ TypeOK /\ Shape
    /\ CountersMatchDocuments /\ StockExplained
    /\ Bounds /\ StatusOfCounters

LEMMA InitInvariant == Init => IInv
<1> SUFFICES ASSUME Init PROVE IInv
  OBVIOUS
<1>1. TypeOK
  <2>1. NotPosted \in [status : DocStatus, lines : Seq(ReturnLine)]
    BY DEF NotPosted, DocStatus
  <2>2. QED
    BY <2>1, SalesAssumption DEF Init, TypeOK, Status
<1>2. DispatchLines = {} /\ ReturnLines = {}
  BY DEF Init, NotPosted, DispatchLines, ReturnLines
<1>3. Shape
  BY <1>2, FS_EmptySet DEF Init, NotPosted, Shape
<1>4. \A ids : Gone(ids) = 0 /\ CameBack(ids) = 0
  <2>1. ASSUME NEW ids PROVE Gone(ids) = 0 /\ CameBack(ids) = 0
    <3>1. Stands(ids) = {} /\ Back(ids) = {}
      BY <1>2 DEF Stands, Back
    <3>2. QED
      BY <3>1, SumEmpty DEF Gone, CameBack
  <2>2. QED
    BY <2>1
<1>5. CountersMatchDocuments
  <2>1. \A s \in Sku : dispatched[s] = 0
    BY DEF Init
  <2>2. QED
    BY <1>2, <1>4, <2>1, SumsAre DEF CountersMatchDocuments
<1>6. StockExplained
  <2>1. ASSUME NEW b \in Batch PROVE OnHand(b) = Supplied(b)
    BY DEF Init, OnHand, Supplied
  <2>2. QED
    BY <1>4, <2>1, SuppliedTyped DEF StockExplained
<1>7. Bounds /\ StatusOfCounters
  BY <1>2 DEF Init, Bounds, StatusOfCounters
<1>8. QED
  BY <1>1, <1>3, <1>5, <1>6, <1>7 DEF IInv

LEMMA NextInvariant == IInv /\ [Next]_vars => IInv'
<1> SUFFICES ASSUME IInv, [Next]_vars PROVE IInv'
  OBVIOUS
<1> USE DEF IInv
<1>1. CASE \E d \in Dispatch, input \in DispatchInput : PostDispatch(d, input)
  BY <1>1, PostDispatchTyped, PostDispatchShape, PostDispatchCounters, PostDispatchBounds
<1>2. CASE \E d \in Dispatch : \E n \in DOMAIN dispatch[d].lines : ReverseDispatchEntry(d, n)
  BY <1>2, ReverseDispatchEntryTyped, ReverseDispatchEntryShape, ReverseDispatchEntryCounters,
     ReverseDispatchEntryBounds
<1>3. CASE \E r \in Return, d \in Dispatch, input \in ReturnInput : PostReturn(r, d, input)
  BY <1>3, PostReturnTyped, PostReturnShape, PostReturnCounters, PostReturnBounds
<1>4. CASE \E r \in Return : \E m \in DOMAIN return[r].lines : ReverseReturnEntry(r, m)
  BY <1>4, ReverseReturnEntryTyped, ReverseReturnEntryShape, ReverseReturnEntryCounters,
     ReverseReturnEntryBounds
<1>5. CASE InvoiceStep
  BY <1>5, InvoiceStepTyped, InvoiceStepShape, InvoiceStepCounters, InvoiceStepBounds
<1>6. QED
  BY <1>1, <1>2, <1>3, <1>4, <1>5 DEF Next, InvoiceStep

LEMMA AlwaysInvariant == Spec => []IInv
BY InitInvariant, NextInvariant, PTL DEF Spec

-----------------------------------------------------------------------------
(***************************************************************************)
(* What follows from it.                                                   *)
(***************************************************************************)

\* The counters count standing lines, so that none falls below zero.
LEMMA CountersNotNegative ==
    ASSUME TypeOK, Shape, CountersMatchDocuments
    PROVE  /\ \A s \in Sku : dispatched[s] \in Nat
           /\ \A id \in DispatchLines : DispatchLineAt(id).returned \in Nat
BY SumsCounted, CountersBefore

NoneNegative == \A s \in Sku : dispatched[s] \in Nat

LEMMA NotNegative == IInv => NoneNegative
BY CountersNotNegative DEF IInv, NoneNegative

LEMMA InvariantBounds == IInv => NeverOverDispatched
<1> SUFFICES ASSUME IInv PROVE NeverOverDispatched
  OBVIOUS
<1>1. TypeOK /\ Shape /\ CountersMatchDocuments /\ Bounds
  BY DEF IInv
<1>2. ASSUME NEW s \in Sku PROVE dispatched[s] \in 0..invoiced[s]
  <2>1. dispatched[s] \in Nat /\ dispatched[s] <= invoiced[s] /\ invoiced[s] \in Nat
    BY <1>1, CountersNotNegative DEF Bounds, TypeOK
  <2>2. QED
    BY <2>1
<1>3. ASSUME NEW id \in DispatchLines
      PROVE  DispatchLineAt(id).returned \in 0..DispatchLineAt(id).quantity
  <2>1. /\ DispatchLineAt(id).returned \in Nat
        /\ DispatchLineAt(id).returned <= Holds(DispatchLineAt(id))
    BY <1>1, CountersNotNegative DEF Bounds
  <2>2. DispatchLineAt(id).quantity \in Nat
    BY <1>1, DispatchLineTyped DEF DispatchLine
  <2>3. QED
    BY <2>1, <2>2 DEF Holds
<1>4. QED
  BY <1>2, <1>3 DEF NeverOverDispatched

LEMMA InvariantStatus == IInv => StatusFollowsDispatches
<1> SUFFICES ASSUME IInv PROVE StatusFollowsDispatches
  OBVIOUS
<1>1. TypeOK /\ Shape /\ CountersMatchDocuments /\ Bounds /\ StatusOfCounters
  BY DEF IInv
<1>2. ASSUME NEW s \in Sku
      PROVE  /\ DispatchedNow(s) = dispatched[s] /\ dispatched[s] \in Nat
             /\ invoiced[s] \in Nat /\ dispatched[s] <= invoiced[s]
  BY <1>1, CountersNotNegative DEF CountersMatchDocuments, Bounds, TypeOK
<1>3. status \in {"ABSENT", "OPEN", "CANCELLED"} => \A s \in Sku : DispatchedNow(s) = 0
  BY <1>1, <1>2 DEF StatusOfCounters
<1>4. status = "COMPLETE" => \A s \in Sku : DispatchedNow(s) = invoiced[s]
  BY <1>1, <1>2 DEF StatusOfCounters
<1>5. status = "PARTIALLY_DISPATCHED" =>
          (\E s \in Sku : DispatchedNow(s) > 0) /\ (\E s \in Sku : DispatchedNow(s) < invoiced[s])
  BY <1>1, <1>2 DEF StatusOfCounters
<1>6. QED
  BY <1>3, <1>4, <1>5 DEF StatusFollowsDispatches

\* Of the dispatched lines of a batch no more came back than went out: of each line
\* no more is returned than its standing quantity, and the sums follow.
LEMMA NoMoreCameBack ==
    ASSUME IInv, NEW b \in Batch
    PROVE  CameBack(OfBatch(b)) <= Gone(OfBatch(b))
<1>1. TypeOK /\ Shape /\ CountersMatchDocuments /\ Bounds
  BY DEF IInv
<1> DEFINE ids == OfBatch(b)
<1> DEFINE taken == [id \in DispatchLines |-> DispatchLineAt(id).returned]
<1> DEFINE held == [id \in DispatchLines |-> Holds(DispatchLineAt(id))]
<1> DEFINE from == [id \in ReturnLines |-> ReturnLineAt(id).source]
<1> DEFINE undone == ids \ Stands(ids)
<1>2. ids \subseteq DispatchLines /\ Stands(ids) \subseteq ids
  BY DEF OfBatch, Stands
<1>3. IsFiniteSet(ids) /\ IsFiniteSet(Stands(ids)) /\ IsFiniteSet(undone)
  BY <1>1, <1>2, LinesCounted
<1>4. ASSUME NEW id \in ids
      PROVE  /\ taken[id] = CameBack({id}) /\ taken[id] \in Int
             /\ held[id] \in Int /\ taken[id] <= held[id]
  <2>1. id \in DispatchLines /\ DispatchLineAt(id) \in DispatchLine
    BY <1>1, <1>2, DispatchLineTyped
  <2>2. DispatchLineAt(id).returned \in Int /\ Holds(DispatchLineAt(id)) \in Int
    BY <2>1 DEF DispatchLine, Holds
  <2>3. /\ DispatchLineAt(id).returned = CameBack({id})
        /\ DispatchLineAt(id).returned <= Holds(DispatchLineAt(id))
    BY <1>1, <2>1, CountersBefore DEF Bounds
  <2>4. QED
    BY <2>1, <2>2, <2>3
<1> HIDE DEF ids
<1>5. CameBack(ids) = SumFunctionOnSet(taken, ids)
  <2>1. IsFiniteSet(Back(ids)) /\ \A id \in Back(ids) : BackQuantities[id] \in Int
    BY <1>1, LinesCounted
  <2>2. \A id \in Back(ids) : from[id] \in ids
    BY DEF Back
  <2>3. ASSUME NEW t \in ids
        PROVE  \E U \in SUBSET Back(ids) :
                  /\ \A id \in Back(ids) : id \in U <=> from[id] = t
                  /\ taken[t] = SumFunctionOnSet(BackQuantities, U)
    <3>1. Back({t}) \subseteq Back(ids)
      BY DEF Back
    <3>2. \A id \in Back(ids) : id \in Back({t}) <=> from[id] = t
      BY DEF Back
    <3>3. taken[t] = SumFunctionOnSet(BackQuantities, Back({t}))
      BY <1>4 DEF CameBack
    <3>4. QED
      BY <3>1, <3>2, <3>3
  <2> HIDE DEF taken, from
  <2>4. SumFunctionOnSet(BackQuantities, Back(ids)) = SumFunctionOnSet(taken, ids)
    BY <1>3, <2>1, <2>2, <2>3, SumCollected
  <2>5. QED
    BY <2>4 DEF CameBack
<1>6. Gone(ids) = SumFunctionOnSet(held, ids)
  <2>1. ASSUME NEW id \in Stands(ids) PROVE held[id] = SentQuantities[id]
    BY DEF Stands, Holds, SentQuantities
  <2>2. ASSUME NEW id \in undone PROVE held[id] = 0
    BY <1>2 DEF Stands, Holds
  <2>3. ids = Stands(ids) \cup undone /\ Stands(ids) \cap undone = {}
    BY <1>2
  <2>4. \A id \in Stands(ids) \cup undone : held[id] \in Int
    BY <1>4, <2>3
  <2> HIDE DEF held, undone
  <2>5. SumFunctionOnSet(held, Stands(ids) \cup undone)
            = SumFunctionOnSet(held, Stands(ids)) + SumFunctionOnSet(held, undone)
    BY <1>3, <2>3, <2>4, SumUnion
  <2>6. SumFunctionOnSet(held, undone) = 0
    BY <1>3, <2>2, SumZero
  <2>7. SumFunctionOnSet(held, Stands(ids)) = SumFunctionOnSet(SentQuantities, Stands(ids))
    BY <1>3, <2>1, SumEqual
  <2>8. Gone(ids) = SumFunctionOnSet(SentQuantities, Stands(ids)) /\ Gone(ids) \in Nat
    BY <1>1, SumsCounted DEF Gone
  <2>9. QED
    BY <2>3, <2>5, <2>6, <2>7, <2>8
<1> HIDE DEF taken, held
<1>7. SumFunctionOnSet(taken, ids) <= SumFunctionOnSet(held, ids)
  BY <1>3, <1>4, SumMonotone
<1>8. QED
  BY <1>5, <1>6, <1>7 DEF ids

LEMMA InvariantStock == IInv => NeverRestoredTwice
<1> SUFFICES ASSUME IInv PROVE NeverRestoredTwice
  OBVIOUS
<1>1. TypeOK /\ Shape /\ StockExplained
  BY DEF IInv
<1>2. ASSUME NEW b \in Batch PROVE OnHand(b) <= Supplied(b)
  <2>1. OnHand(b) = Supplied(b) - Gone(OfBatch(b)) + CameBack(OfBatch(b))
    BY <1>1 DEF StockExplained
  <2>2. CameBack(OfBatch(b)) <= Gone(OfBatch(b))
    BY NoMoreCameBack
  <2>3. Gone(OfBatch(b)) \in Nat /\ CameBack(OfBatch(b)) \in Nat /\ Supplied(b) \in Nat
    BY <1>1, SumsCounted, SuppliedTyped
  <2>4. QED
    BY <2>1, <2>2, <2>3
<1>3. \A k \in Godown \X Batch : stock[k] >= 0
  BY <1>1 DEF TypeOK
<1>4. QED
  BY <1>2, <1>3 DEF NeverRestoredTwice

-----------------------------------------------------------------------------
(***************************************************************************)
(* The pages.                                                              *)
(***************************************************************************)

\* Once the invoice exists, something is on it; a dispatch is REVERSED only when
\* all of its lines are.
Placed == status = "ABSENT" \/ \E s \in Sku : invoiced[s] > 0
AllUndone ==
    \A id \in DispatchLines : dispatch[id[1]].status = "REVERSED" => DispatchLineAt(id).reversed

LEMMA DerivedReversed ==
    ASSUME NEW S, NEW lines \in Seq(S),
           Derived(Len(lines), Cardinality(ReversedLines(lines))) = "REVERSED"
    PROVE  \A n \in DOMAIN lines : lines[n].reversed
<1>1. DOMAIN lines = 1..Len(lines) /\ Len(lines) \in Nat
  OBVIOUS
<1>2. IsFiniteSet(DOMAIN lines) /\ Cardinality(DOMAIN lines) = Len(lines)
  BY <1>1, FS_Interval
<1>3. ReversedLines(lines) \subseteq DOMAIN lines
  BY DEF ReversedLines
<1>4. /\ IsFiniteSet(ReversedLines(lines))
      /\ Cardinality(ReversedLines(lines)) <= Len(lines)
      /\ Cardinality(ReversedLines(lines)) = Len(lines) => ReversedLines(lines) = DOMAIN lines
  BY <1>2, <1>3, FS_Subset
<1>5. Cardinality(ReversedLines(lines)) \in Nat
  BY <1>4, FS_CardinalityType
<1>6. Cardinality(ReversedLines(lines)) >= Len(lines)
  BY <1>1, <1>5 DEF Derived
<1>7. ReversedLines(lines) = DOMAIN lines
  BY <1>1, <1>4, <1>5, <1>6
<1>8. QED
  BY <1>7 DEF ReversedLines

LEMMA ReverseDispatchEntryUndone ==
    ASSUME IInv, AllUndone, NEW d \in Dispatch, NEW n \in DOMAIN dispatch[d].lines,
           ReverseDispatchEntry(d, n)
    PROVE  AllUndone'
<1>1. TypeOK /\ dispatch[d] \in DispatchDoc /\ dispatch[d].lines \in Seq(DispatchLine)
  BY DispatchTyped DEF IInv
<1>2. PICK lines : lines = [dispatch[d].lines EXCEPT ![n].reversed = TRUE]
  OBVIOUS
<1>3. dispatch' = [dispatch EXCEPT ![d].lines = lines,
          ![d].status = Derived(Len(lines), Cardinality(ReversedLines(lines)))]
  BY <1>2 DEF ReverseDispatchEntry
<1>4. /\ dispatch'[d].lines = lines
      /\ dispatch'[d].status = Derived(Len(lines), Cardinality(ReversedLines(lines)))
      /\ \A e \in Dispatch : e # d => dispatch'[e] = dispatch[e]
  BY <1>1, <1>3 DEF TypeOK, DispatchDoc
<1>5. lines \in Seq(DispatchLine)
  <2> DEFINE old == dispatch[d].lines
  <2> DEFINE marked == [old[n] EXCEPT !.reversed = TRUE]
  <2>1. marked \in DispatchLine
    BY <1>1, DispatchLineMarked
  <2>2. lines = [old EXCEPT ![n] = marked]
    BY <1>2
  <2> HIDE DEF old, marked
  <2>3. old \in Seq(DispatchLine) /\ n \in DOMAIN old
    BY <1>1 DEF old
  <2>4. QED
    BY <2>1, <2>2, <2>3, LineReplaced
<1>6. ASSUME NEW id \in DispatchLines', dispatch'[id[1]].status = "REVERSED"
      PROVE  DispatchLineAt(id)'.reversed
  <2>1. /\ id[1] \in Dispatch /\ id[2] \in DOMAIN dispatch'[id[1]].lines
        /\ id[2] \in DOMAIN dispatch[id[1]].lines => id \in DispatchLines
    BY DispatchLinesAre, IdsAre, DispatchLineIds
  <2>2. CASE id[1] = d
    <3>1. \A k \in DOMAIN lines : lines[k].reversed
      BY <1>4, <1>5, <1>6, <2>2, DerivedReversed
    <3>2. QED
      BY <1>4, <2>1, <2>2, <3>1 DEF DispatchLineAt
  <2>3. CASE id[1] # d
    BY <1>4, <1>6, <2>1, <2>3 DEF AllUndone, DispatchLineAt
  <2>4. QED
    BY <2>2, <2>3
<1>7. QED
  BY <1>6 DEF AllUndone

\* Returns and their reversals leave the status and the entries of a dispatch alone.
LEMMA PostReturnUndone ==
    ASSUME IInv, AllUndone, NEW r \in Return, NEW d \in Dispatch, NEW input \in ReturnInput,
           PostReturn(r, d, input)
    PROVE  AllUndone'
<1>1. TypeOK /\ Shape
  BY DEF IInv
<1>2. Returned(r, d, input)
  BY <1>1, PostReturnLines
<1>3. dispatch[d] \in DispatchDoc
  BY <1>1, DispatchTyped DEF PostReturn
<1>4. \A e \in Dispatch : dispatch'[e].status = dispatch[e].status
  BY <1>1, <1>3 DEF PostReturn, TypeOK, DispatchDoc
<1>5. ASSUME NEW id \in DispatchLines', dispatch'[id[1]].status = "REVERSED"
      PROVE  DispatchLineAt(id)'.reversed
  <2>1. id \in DispatchLines /\ id[1] \in Dispatch
    BY <1>2, DispatchLineIds DEF Returned
  <2>2. DispatchLineAt(id).reversed
    BY <1>4, <1>5, <2>1 DEF AllUndone
  <2>3. DispatchLineAt(id) \in DispatchLine /\ TakenBack(input.lines, id[2]) \in Int
    BY <1>1, <2>1, DispatchLineTyped, ReturnSums
  <2>4. \/ DispatchLineAt(id)' = ReturnedMore(DispatchLineAt(id), TakenBack(input.lines, id[2]))
        \/ DispatchLineAt(id)' = DispatchLineAt(id)
    BY <1>2, <2>1 DEF Returned
  <2>5. DispatchLineAt(id)'.reversed = DispatchLineAt(id).reversed
    BY <2>3, <2>4, DispatchLineReturned
  <2>6. QED
    BY <2>2, <2>5
<1>6. QED
  BY <1>5 DEF AllUndone

LEMMA ReverseReturnEntryUndone ==
    ASSUME IInv, AllUndone, NEW r \in Return, NEW m \in DOMAIN return[r].lines,
           ReverseReturnEntry(r, m)
    PROVE  AllUndone'
<1>1. TypeOK /\ Shape
  BY DEF IInv
<1>2. PICK id0, src : id0 = <<r, m>> /\ src = ReturnLineAt(id0).source
  OBVIOUS
<1>3. TookBack(id0, src)
  BY <1>1, <1>2, ReverseReturnEntryLines
<1>4. /\ src \in DispatchLines /\ id0 \in ReturnLines
      /\ src[1] \in Dispatch /\ dispatch[src[1]] \in DispatchDoc
      /\ src = return[r].lines[m].source
  BY <1>1, <1>2, <1>3, DispatchLineIds, DispatchLineTyped DEF TookBack, ReturnLineAt
<1>5. \A e \in Dispatch : dispatch'[e].status = dispatch[e].status
  BY <1>1, <1>4 DEF ReverseReturnEntry, TypeOK, DispatchDoc
<1>6. ASSUME NEW id \in DispatchLines', dispatch'[id[1]].status = "REVERSED"
      PROVE  DispatchLineAt(id)'.reversed
  <2>1. id \in DispatchLines /\ id[1] \in Dispatch
    BY <1>3, DispatchLineIds DEF TookBack
  <2>2. DispatchLineAt(id).reversed
    BY <1>5, <1>6, <2>1 DEF AllUndone
  <2>3. DispatchLineAt(src) \in DispatchLine /\ -ReturnLineAt(id0).quantity \in Int
    BY <1>1, <1>4, DispatchLineTyped, ReturnLineTyped DEF ReturnLine
  <2>4. DispatchLineAt(src)'.reversed = DispatchLineAt(src).reversed
    BY <1>3, <2>3, DispatchLineReturned DEF TookBack
  <2>5. DispatchLineAt(id)'.reversed = DispatchLineAt(id).reversed
    BY <1>3, <2>1, <2>4 DEF TookBack
  <2>6. QED
    BY <2>2, <2>5
<1>7. QED
  BY <1>6 DEF AllUndone

LEMMA PostDispatchUndone ==
    ASSUME IInv, AllUndone, NEW d \in Dispatch, NEW input \in DispatchInput, PostDispatch(d, input)
    PROVE  AllUndone'
<1>1. TypeOK /\ Shape
  BY DEF IInv
<1>2. PICK lines : lines = input.lines
  OBVIOUS
<1>3. /\ DispatchLines' = DispatchLines \cup Named(d, DOMAIN lines)
      /\ \A id \in DispatchLines : id[1] # d /\ DispatchLineAt(id)' = DispatchLineAt(id)
  BY <1>1, <1>2, PostDispatchLines DEF Dispatched
<1>4. dispatch'[d].status = "POSTED" /\ \A e \in Dispatch : e # d => dispatch'[e] = dispatch[e]
  BY <1>1 DEF PostDispatch, TypeOK
<1>5. ASSUME NEW id \in DispatchLines', dispatch'[id[1]].status = "REVERSED"
      PROVE  DispatchLineAt(id)'.reversed
  <2>1. id[1] # d
    BY <1>4, <1>5
  <2>2. id \in DispatchLines
    BY <1>3, <2>1, NamedAre
  <2>3. QED
    BY <1>3, <1>4, <1>5, <2>1, <2>2, DispatchLineIds DEF AllUndone
<1>6. QED
  BY <1>5 DEF AllUndone

LEMMA AlwaysUndone == Spec => []AllUndone
<1>1. Init => AllUndone
  BY DEF Init, NotPosted, AllUndone, DispatchLines
<1>2. ASSUME IInv, AllUndone, [Next]_vars PROVE AllUndone'
  <2>1. CASE \E d \in Dispatch, input \in DispatchInput : PostDispatch(d, input)
    BY <1>2, <2>1, PostDispatchUndone
  <2>2. CASE \E d \in Dispatch : \E n \in DOMAIN dispatch[d].lines : ReverseDispatchEntry(d, n)
    BY <1>2, <2>2, ReverseDispatchEntryUndone
  <2>3. CASE \E r \in Return, d \in Dispatch, input \in ReturnInput : PostReturn(r, d, input)
    BY <1>2, <2>3, PostReturnUndone
  <2>4. CASE \E r \in Return : \E m \in DOMAIN return[r].lines : ReverseReturnEntry(r, m)
    BY <1>2, <2>4, ReverseReturnEntryUndone
  <2>5. CASE InvoiceStep
    <3>1. UNCHANGED dispatch
      BY <1>2, <2>5, InvoiceStepCounters DEF IInv
    <3>2. QED
      BY <1>2, <3>1 DEF AllUndone, DispatchLines, DispatchLineAt
  <2>6. QED
    BY <1>2, <2>1, <2>2, <2>3, <2>4, <2>5 DEF Next, InvoiceStep
<1>3. QED
  BY <1>1, <1>2, AlwaysInvariant, PTL DEF Spec

LEMMA AlwaysPlaced == Spec => []Placed
<1>1. Init => Placed
  BY DEF Init, Placed
<1>2. ASSUME IInv, Placed, [Next]_vars PROVE Placed'
  <2>1. CASE \E input \in InvoiceInput : Create(input)
    <3>1. PICK input \in InvoiceInput : Create(input)
      BY <2>1
    <3>2. \E s \in Sku : input[s] > 0
      BY SalesAssumption
    <3>3. QED
      BY <3>1, <3>2 DEF Create, Placed
  <2>2. CASE UNCHANGED invoiced /\ (status = "ABSENT" => status' = "ABSENT")
    BY <1>2, <2>2 DEF Placed
  <2>3. ASSUME NEW delta, Book(delta), UNCHANGED invoiced, status = "ABSENT",
               \A s \in Sku : delta[s] \in Int /\ delta[s] <= 0,
               \E s \in Sku : delta[s] < 0
        PROVE  \E s \in Sku : dispatched'[s] < 0
    <3>1. PICK s \in Sku : delta[s] < 0
      BY <2>3
    <3>2. dispatched[s] <= 0 /\ dispatched[s] \in Int
      BY <1>2, <2>3 DEF IInv, StatusOfCounters, TypeOK
    <3>3. QED
      BY <2>3, <3>1, <3>2 DEF Book
  <2>4. ASSUME NEW d \in Dispatch, NEW n \in DOMAIN dispatch[d].lines, ReverseDispatchEntry(d, n)
        PROVE  UNCHANGED invoiced /\ (status = "ABSENT" => status' = "ABSENT")
    <3>1. UNCHANGED invoiced /\ Release(d, dispatch[d].lines[n])
      BY <2>4 DEF ReverseDispatchEntry
    <3>2. PICK line : line = dispatch[d].lines[n]
      OBVIOUS
    <3>3. line.sku \in Sku /\ line.quantity \in Nat \ {0}
      <4>1. <<d, n>> \in DispatchLines /\ line = DispatchLineAt(<<d, n>>)
        BY <3>2, DispatchLineIds DEF DispatchLineAt
      <4>2. line \in DispatchLine
        BY <1>2, <4>1, DispatchLineTyped DEF IInv
      <4>3. QED
        BY <4>2 DEF DispatchLine
    <3>4. ASSUME status = "ABSENT", dispatch[d].linked PROVE FALSE
      <4> DEFINE delta == [s \in Sku |-> IF s = line.sku THEN -line.quantity ELSE 0]
      <4>1. Book(delta)
        BY <3>1, <3>2, <3>4 DEF Release
      <4>2. /\ \A s \in Sku : delta[s] \in Int /\ delta[s] <= 0
            /\ delta[line.sku] < 0
        BY <3>3
      <4> HIDE DEF delta
      <4>3. \E s \in Sku : dispatched'[s] < 0
        BY <2>3, <3>1, <3>3, <3>4, <4>1, <4>2
      <4>4. IInv'
        BY <1>2, NextInvariant
      <4>5. NoneNegative'
        BY <4>4, NotNegative, PTL
      <4>6. QED
        BY <4>3, <4>5 DEF NoneNegative
    <3>5. QED
      BY <3>1, <3>2, <3>4 DEF Release
  <2>5. ASSUME NEW d \in Dispatch, NEW input \in DispatchInput, PostDispatch(d, input)
        PROVE  UNCHANGED invoiced /\ (status = "ABSENT" => status' = "ABSENT")
    BY <2>5 DEF PostDispatch, ApplyToInvoice, Dispatchable
  <2>6. CASE \E r \in Return, d \in Dispatch, input \in ReturnInput : PostReturn(r, d, input)
    BY <2>2, <2>6 DEF PostReturn
  <2>7. CASE \E r \in Return : \E m \in DOMAIN return[r].lines : ReverseReturnEntry(r, m)
    BY <2>2, <2>7 DEF ReverseReturnEntry
  <2>8. CASE Cancel \/ UNCHANGED vars \/ \E b \in Batch, from, to \in Godown : MoveGoods(b, from, to, 1)
    BY <2>2, <2>8 DEF Cancel, Cancellable, MoveGoods, vars
  <2>9. QED
    BY <1>2, <2>1, <2>2, <2>4, <2>5, <2>6, <2>7, <2>8 DEF Next
<1>3. QED
  BY <1>1, <1>2, AlwaysInvariant, PTL DEF Spec

LEMMA QuantitiesTyped ==
    ASSUME IInv
    PROVE  \A n \in Quantities : n \in Nat \ {0}
<1> SUFFICES ASSUME NEW b \in Batch, NEW n \in 1..(1 + OnHand(b) + Supplied(b))
             PROVE  n \in Nat \ {0}
  BY DEF Quantities
<1>1. Supplied(b) \in Int /\ Gone(OfBatch(b)) \in Int /\ CameBack(OfBatch(b)) \in Int
  BY SuppliedTyped, SumsCounted DEF IInv
<1>2. OnHand(b) = Supplied(b) - Gone(OfBatch(b)) + CameBack(OfBatch(b))
  BY DEF IInv, StockExplained
<1>3. OnHand(b) \in Int
  BY <1>1, <1>2
<1>4. QED
  BY <1>1, <1>3

\* A dispatch out of one batch is taken when the invoice still waits for that much.
LEMMA DispatchTaken ==
    ASSUME IInv, NEW b \in Batch, NEW n \in Nat \ {0}
    PROVE  Dispatches(DispatchOf(b, n)) <=>
              /\ status \in {"OPEN", "PARTIALLY_DISPATCHED"}
              /\ n <= invoiced[SkuOf[b]] - dispatched[SkuOf[b]]
<1> DEFINE lines == DispatchOf(b, n)
<1> DEFINE sku == SkuOf[b]
<1>1. /\ DOMAIN lines = {1} /\ lines[1].sku = sku /\ lines[1].batch = b
      /\ lines[1].quantity = n
  BY DEF DispatchOf
<1>2. sku \in Sku
  BY SalesAssumption
<1> HIDE DEF lines
<1>3. ValidDispatch(lines)
  BY <1>1 DEF ValidDispatch, NoDuplicateLines
<1>4. ASSUME NEW s \in Sku PROVE QuantityOf(lines, s) = IF s = sku THEN n ELSE 0
  <2> DEFINE f == [k \in DOMAIN lines |-> lines[k].quantity]
  <2> DEFINE N == {k \in DOMAIN lines : lines[k].sku = s}
  <2>1. QuantityOf(lines, s) = SumFunctionOnSet(f, N)
    BY DEF QuantityOf, SumLines
  <2>2. f[1] = n
    BY <1>1
  <2>3. N = IF s = sku THEN {1} ELSE {}
    BY <1>1
  <2> HIDE DEF f, N
  <2>4. SumFunctionOnSet(f, {1}) = n
    BY <2>2, SumOfOne
  <2>5. QED
    BY <2>1, <2>3, <2>4, SumEmpty
<1> HIDE DEF sku
<1>5. \A s \in Sku : dispatched[s] \in Nat /\ invoiced[s] \in Nat /\ dispatched[s] <= invoiced[s]
  BY NotNegative DEF IInv, TypeOK, Bounds, NoneNegative
<1>6. WithinRemaining(lines) <=> n <= invoiced[sku] - dispatched[sku]
  BY <1>2, <1>4, <1>5 DEF WithinRemaining
<1>7. n <= invoiced[sku] - dispatched[sku] => invoiced[sku] > 0
  BY <1>2, <1>5
<1>8. (\A k \in DOMAIN lines : invoiced[lines[k].sku] > 0) <=> invoiced[sku] > 0
  BY <1>1
<1>9. QED
  BY <1>3, <1>6, <1>7, <1>8 DEF Dispatches, Dispatchable, lines, sku

\* The page of the invoice and the dispatch form offer what the services accept.
LEMMA InvoiceOffers ==
    ASSUME IInv, Placed, NEW role \in Role,
           NEW page, page = InvoicePage(role), NEW form, form = DispatchForm(role),
           NEW accepted,
           accepted = {k \in Batch \X Quantities : Dispatches(DispatchOf(k[1], k[2]))}
    PROVE  /\ page.cancel <=> CancelRoute(role)
           /\ page.dispatch <=> DispatchRoute(role) /\ DOMAIN form # {}
           /\ {k \in Batch \X Quantities : SkuOf[k[1]] \in DOMAIN form /\ k[2] <= form[SkuOf[k[1]]]}
                = (IF DispatchRoute(role) THEN accepted ELSE {})
<1> DEFINE live == status \in {"OPEN", "PARTIALLY_DISPATCHED"}
<1> DEFINE shown == {k \in Batch \X Quantities :
                        SkuOf[k[1]] \in DOMAIN form /\ k[2] <= form[SkuOf[k[1]]]}
<1>1. \A s \in Sku : dispatched[s] \in Nat /\ invoiced[s] \in Nat /\ dispatched[s] <= invoiced[s]
  BY NotNegative DEF IInv, TypeOK, Bounds, NoneNegative
<1>2. page.cancel <=> CancelRoute(role)
  <2>1. (\A s \in Sku : dispatched[s] = 0) <=> (\A s \in Sku : dispatched[s] <= 0)
    BY <1>1
  <2>2. QED
    BY <2>1 DEF InvoicePage, CancelRoute, Cancellable
<1>3. /\ DOMAIN form = IF live /\ DispatchRoute(role) THEN {s \in Sku : invoiced[s] > dispatched[s]} ELSE {}
      /\ \A s \in DOMAIN form : form[s] = invoiced[s] - dispatched[s]
  BY DEF DispatchForm, ListedAsOpen, RemainingBySku, DispatchRoute
<1>4. ASSUME live PROVE \E s \in Sku : invoiced[s] > dispatched[s]
  <2>1. CASE status = "OPEN"
    <3>1. PICK s \in Sku : invoiced[s] > 0
      BY <2>1 DEF Placed
    <3>2. dispatched[s] <= 0
      BY <2>1 DEF IInv, StatusOfCounters
    <3>3. QED
      BY <1>1, <3>1, <3>2
  <2>2. CASE status = "PARTIALLY_DISPATCHED"
    <3>1. PICK s \in Sku : dispatched[s] < invoiced[s]
      BY <2>2 DEF IInv, StatusOfCounters
    <3>2. QED
      BY <1>1, <3>1
  <2>3. QED
    BY <1>4, <2>1, <2>2
<1>5. page.dispatch <=> DispatchRoute(role) /\ DOMAIN form # {}
  <2>1. page.dispatch <=> live /\ DispatchRoute(role)
    BY DEF InvoicePage, DispatchRoute
  <2>2. DOMAIN form # {} <=> live /\ DispatchRoute(role)
    BY <1>3, <1>4
  <2> HIDE DEF live
  <2>3. QED
    BY <2>1, <2>2
<1>6. \A n \in Quantities : n \in Nat \ {0}
  BY QuantitiesTyped
<1>7. ASSUME NEW b \in Batch, NEW n \in Quantities
      PROVE  <<b, n>> \in shown <=> DispatchRoute(role) /\ <<b, n>> \in accepted
  <2>1. <<b, n>> \in accepted <=> live /\ n <= invoiced[SkuOf[b]] - dispatched[SkuOf[b]]
    BY <1>6, DispatchTaken
  <2>2. SkuOf[b] \in Sku
    BY SalesAssumption
  <2>3. n <= invoiced[SkuOf[b]] - dispatched[SkuOf[b]] => invoiced[SkuOf[b]] > dispatched[SkuOf[b]]
    BY <1>1, <1>6, <2>2
  <2>4. <<b, n>> \in shown <=> SkuOf[b] \in DOMAIN form /\ n <= form[SkuOf[b]]
    OBVIOUS
  <2> HIDE DEF live, shown
  <2>5. QED
    BY <1>3, <2>1, <2>2, <2>3, <2>4
<1>8. shown = (IF DispatchRoute(role) THEN accepted ELSE {})
  <2>1. shown \subseteq Batch \X Quantities /\ accepted \subseteq Batch \X Quantities
    OBVIOUS
  <2> HIDE DEF shown
  <2>2. QED
    BY <1>7, <2>1
<1>9. QED
  BY <1>2, <1>5, <1>8

\* A line has standing returns exactly when its counter is above zero.
LEMMA OutstandingIs ==
    ASSUME IInv, NEW id \in DispatchLines
    PROVE  id \in Outstanding <=> DispatchLineAt(id).returned > 0
<1>1. TypeOK /\ Shape /\ CountersMatchDocuments
  BY DEF IInv
<1>2. DispatchLineAt(id).returned = SumFunctionOnSet(BackQuantities, Back({id}))
  BY <1>1, CountersBefore DEF CameBack
<1>3. IsFiniteSet(Back({id})) /\ \A r \in Back({id}) : BackQuantities[r] \in Nat \ {0}
  BY <1>1, LinesCounted
<1>4. id \in Outstanding <=> Back({id}) # {}
  BY DEF Outstanding, Back
<1>5. CASE Back({id}) = {}
  BY <1>2, <1>4, <1>5, SumEmpty
<1>6. CASE Back({id}) # {}
  <2>1. PICK r \in Back({id}) : TRUE
    BY <1>6
  <2>2. /\ SumFunctionOnSet(BackQuantities, Back({id})) \in Nat
        /\ BackQuantities[r] <= SumFunctionOnSet(BackQuantities, Back({id}))
    BY <1>3, <2>1, SumNat
  <2>3. QED
    BY <1>2, <1>3, <1>4, <1>6, <2>1, <2>2
<1>7. QED
  BY <1>5, <1>6

\* A return of one line is taken when that much of it can be returned.
LEMMA ReturnTaken ==
    ASSUME NEW d, NEW n, NEW quantity
    PROVE  TakesReturn(d, <<[line |-> n, quantity |-> quantity]>>) <=>
              n \in DOMAIN dispatch[d].lines /\ quantity <= Returnable(dispatch[d].lines[n])
<1> DEFINE lines == <<[line |-> n, quantity |-> quantity]>>
<1>1. DOMAIN lines = {1} /\ lines[1].line = n /\ lines[1].quantity = quantity
  OBVIOUS
<1> HIDE DEF lines
<1>2. ValidReturn(lines)
  BY <1>1 DEF ValidReturn, NoDuplicateLines
<1>3. QED
  BY <1>1, <1>2 DEF TakesReturn, WithinReturnable, lines

\* The pages of a dispatch offer what its routes accept.
LEMMA DispatchOffers ==
    ASSUME IInv, AllUndone, NEW d \in Dispatch, dispatch[d].status # "ABSENT",
           NEW returnable, returnable = ReturnableLines(d)
    PROVE  LET lines == dispatch[d].lines
               admitted == {role \in Role : ReturnRoute(role)}
               offered == {role \in Role : ReturnLink(role, d)}
               takes == {k \in (DOMAIN lines) \X Quantities :
                           TakesReturn(d, <<[line |-> k[1], quantity |-> k[2]]>>)}
               shown == {k \in (DOMAIN lines) \X Quantities : k[2] <= returnable[k[1]]}
           IN  /\ offered \subseteq admitted
               /\ IF offered # {} THEN shown = takes /\ admitted \subseteq offered ELSE takes = {}
               /\ \A n \in DOMAIN lines :
                     {role \in Role : n \in ReversibleEntries(role, d)} =
                     IF Reversible(lines[n]) \/ <<d, n>> \in Outstanding
                     THEN {role \in Role : ReverseRoute(role)} ELSE {}
<1> DEFINE lines == dispatch[d].lines
<1> DEFINE admitted == {role \in Role : ReturnRoute(role)}
<1> DEFINE offered == {role \in Role : ReturnLink(role, d)}
<1> DEFINE takes == {k \in (DOMAIN lines) \X Quantities :
                        TakesReturn(d, <<[line |-> k[1], quantity |-> k[2]]>>)}
<1> DEFINE shown == {k \in (DOMAIN lines) \X Quantities : k[2] <= returnable[k[1]]}
<1>1. TypeOK /\ Shape /\ CountersMatchDocuments /\ Bounds
  BY DEF IInv
<1>2. ASSUME NEW n \in DOMAIN lines
      PROVE  /\ lines[n] \in DispatchLine /\ lines[n].returned \in Nat
             /\ lines[n].reversed \in BOOLEAN
             /\ <<d, n>> \in DispatchLines /\ DispatchLineAt(<<d, n>>) = lines[n]
             /\ lines[n].returned <= Holds(lines[n])
  <2>1. <<d, n>> \in DispatchLines /\ DispatchLineAt(<<d, n>>) = lines[n]
    BY DispatchLineIds DEF DispatchLineAt
  <2>2. lines[n] \in DispatchLine
    BY <1>1, <2>1, DispatchLineTyped
  <2>3. lines[n].reversed \in BOOLEAN
    BY <2>2 DEF DispatchLine
  <2>4. lines[n].returned \in Nat /\ lines[n].returned <= Holds(lines[n])
    BY <1>1, <2>1, CountersNotNegative DEF Bounds
  <2>5. QED
    BY <2>1, <2>2, <2>3, <2>4
<1>3. admitted # {}
  <2>1. "ADMIN" \in Role /\ ReturnRoute("ADMIN")
    BY DEF ReturnRoute, Can, Holders, Role, Floor
  <2>2. QED
    BY <2>1
<1>4. offered = IF dispatch[d].status # "REVERSED" THEN admitted ELSE {}
  BY DEF ReturnLink, ReturnRoute
<1>5. \A n \in DOMAIN lines : returnable[n] = Returnable(lines[n])
  BY DEF ReturnableLines, ReversedBy, Returnable
<1>6. ASSUME NEW n \in DOMAIN lines, NEW quantity \in Quantities
      PROVE  /\ <<n, quantity>> \in takes <=> quantity <= Returnable(lines[n])
             /\ <<n, quantity>> \in shown <=> quantity <= Returnable(lines[n])
  BY <1>5, ReturnTaken
<1>7. takes \subseteq (DOMAIN lines) \X Quantities /\ shown \subseteq (DOMAIN lines) \X Quantities
  OBVIOUS
<1>8. takes = shown
  <2> HIDE DEF takes, shown
  <2>1. QED
    BY <1>6, <1>7
<1>9. ASSUME dispatch[d].status = "REVERSED" PROVE takes = {}
  <2>1. ASSUME NEW n \in DOMAIN lines PROVE Returnable(lines[n]) = 0
    <3>1. lines[n].reversed
      BY <1>2, <1>9 DEF AllUndone
    <3>2. QED
      BY <3>1 DEF Returnable
  <2>2. \A quantity \in Quantities : quantity \in Nat \ {0}
    BY QuantitiesTyped
  <2>3. ASSUME NEW n \in DOMAIN lines, NEW quantity \in Quantities PROVE <<n, quantity>> \notin takes
    BY <1>6, <2>1, <2>2
  <2> HIDE DEF takes
  <2>4. QED
    BY <1>7, <2>3
<1>10. ASSUME NEW n \in DOMAIN lines
       PROVE  {role \in Role : n \in ReversibleEntries(role, d)} =
                 IF Reversible(lines[n]) \/ <<d, n>> \in Outstanding
                 THEN {role \in Role : ReverseRoute(role)} ELSE {}
  <2>1. <<d, n>> \in Outstanding <=> lines[n].returned > 0
    BY <1>2, OutstandingIs
  <2>2. ~lines[n].reversed <=> Reversible(lines[n]) \/ <<d, n>> \in Outstanding
    BY <1>2, <2>1 DEF Reversible, NothingReturned, Holds
  <2>3. \A role \in Role : n \in ReversibleEntries(role, d) <=> ReverseRoute(role) /\ ~lines[n].reversed
    BY DEF ReversibleEntries, ReverseRoute
  <2>4. QED
    BY <2>2, <2>3
<1> HIDE DEF takes, shown, admitted, offered
<1>11. /\ offered \subseteq admitted
       /\ IF offered # {} THEN shown = takes /\ admitted \subseteq offered ELSE takes = {}
  BY <1>3, <1>4, <1>8, <1>9
<1>12. QED
  BY <1>10, <1>11 DEF takes, shown, admitted, offered

LEMMA InvariantPages == IInv /\ Placed /\ AllUndone => PagesOfferWhatRoutesAccept
<1> SUFFICES ASSUME IInv, Placed, AllUndone PROVE PagesOfferWhatRoutesAccept
  OBVIOUS
<1>1. \A accepted \in {{k \in Batch \X Quantities : Dispatches(DispatchOf(k[1], k[2]))}} :
        \A role \in Role : \A page \in {InvoicePage(role)}, form \in {DispatchForm(role)} :
            /\ page.cancel <=> CancelRoute(role)
            /\ page.dispatch <=> DispatchRoute(role) /\ DOMAIN form # {}
            /\ {k \in Batch \X Quantities : SkuOf[k[1]] \in DOMAIN form /\ k[2] <= form[SkuOf[k[1]]]}
                 = (IF DispatchRoute(role) THEN accepted ELSE {})
  BY InvoiceOffers
<1>2. \A outstanding \in {Outstanding} : \A d \in {e \in Dispatch : dispatch[e].status # "ABSENT"} :
        \A returnable \in {ReturnableLines(d)} :
          LET lines == dispatch[d].lines
              admitted == {role \in Role : ReturnRoute(role)}
              offered == {role \in Role : ReturnLink(role, d)}
              takes == {k \in (DOMAIN lines) \X Quantities :
                          TakesReturn(d, <<[line |-> k[1], quantity |-> k[2]]>>)}
              shown == {k \in (DOMAIN lines) \X Quantities : k[2] <= returnable[k[1]]}
          IN  /\ offered \subseteq admitted
              /\ IF offered # {} THEN shown = takes /\ admitted \subseteq offered ELSE takes = {}
              /\ \A n \in DOMAIN lines :
                    {role \in Role : n \in ReversibleEntries(role, d)} =
                    IF Reversible(lines[n]) \/ <<d, n>> \in outstanding
                    THEN {role \in Role : ReverseRoute(role)} ELSE {}
  BY DispatchOffers
<1>3. QED
  BY <1>1, <1>2 DEF PagesOfferWhatRoutesAccept

-----------------------------------------------------------------------------
(***************************************************************************)
(* The theorems.                                                           *)
(***************************************************************************)

\* The documents stay what the schema says they are.
THEOREM TypeCorrect == Spec => []TypeOK
<1>1. IInv => TypeOK
  BY DEF IInv
<1>2. QED
  BY <1>1, AlwaysInvariant, PTL

\* dispatched_qty and returned_qty, which four services increment and decrement,
\* always equal what the standing dispatches and customer returns add up to.
THEOREM CountersHold == Spec => []CountersMatchDocuments
<1>1. IInv => CountersMatchDocuments
  BY DEF IInv
<1>2. QED
  BY <1>1, AlwaysInvariant, PTL

\* No more goes out than was invoiced and no more comes back than went out, so
\* that invoice_item_qty_chk and outward_item_returned_chk never refuse a step.
THEOREM NeverOverDispatchedHolds == Spec => []NeverOverDispatched
BY InvariantBounds, AlwaysInvariant, PTL

\* Reversing dispatches and returns, in any order and after any transfer, never
\* leaves more of a batch in the godowns than there was.
THEOREM NeverRestoredTwiceHolds == Spec => []NeverRestoredTwice
BY InvariantStock, AlwaysInvariant, PTL

\* What is in the godowns of a batch, together with what customers hold of it, is
\* what was there to begin with: no service loses or makes goods.
THEOREM StockExplainedHolds == Spec => []StockExplained
<1>1. IInv => StockExplained
  BY DEF IInv
<1>2. QED
  BY <1>1, AlwaysInvariant, PTL

\* The invoice status that recomputeInvoiceStatus stores is the one its standing
\* dispatches call for, and nothing is out against a cancelled invoice.
THEOREM StatusHolds == Spec => []StatusFollowsDispatches
BY InvariantStatus, AlwaysInvariant, PTL

\* The pages of the invoice, of its dispatches and of their returns offer every user
\* what the services accept from him.
THEOREM PagesHold == Spec => []PagesOfferWhatRoutesAccept
BY AlwaysInvariant, AlwaysPlaced, AlwaysUndone, InvariantPages, PTL
==============================================================================
