----------------------------- MODULE ScreensProofs -----------------------------
(***************************************************************************)
(* Proofs about Screens for every set of masters, rows and requests, and   *)
(* about ChangeFeed, which keeps open pages current, for any of them.      *)
(***************************************************************************)
EXTENDS Screens, ChangeFeed, SumTheorems

-----------------------------------------------------------------------------
(***************************************************************************)
(* Sequences of rows.  FlattenSeq and Kept are functions defined by        *)
(* recursion over the places of a sequence; what holds at every place is   *)
(* shown by looking at the first counterexample.                           *)
(***************************************************************************)

Flattens(f, seqs, L) ==
    f = [i \in 1..L |-> IF i = 1 THEN seqs[i] ELSE f[i - 1] \o seqs[i]]

\* The first L places of a recursion over more of them.
LEMMA FlattensExists ==
    ASSUME NEW L \in Nat, NEW seqs
    PROVE  \E f : Flattens(f, seqs, L)
<1> DEFINE Bad == {n \in 0..L : ~\E f : Flattens(f, seqs, n)}
<1> SUFFICES ASSUME Bad # {} PROVE FALSE
  OBVIOUS
<1>1. PICK n \in Bad : \A i \in Bad : n <= i
  <2>1. Bad \in SUBSET (0..L)
    OBVIOUS
  <2> HIDE DEF Bad
  <2>2. QED
    BY <2>1, LeastOf
<1>2. n \in 0..L /\ ~\E f : Flattens(f, seqs, n)
  OBVIOUS
<1> HIDE DEF Bad
<1>3. n # 0
  <2> DEFINE e == [i \in 1..0 |-> 0]
  <2>1. 1..0 = {}
    OBVIOUS
  <2>2. e = [i \in 1..0 |-> IF i = 1 THEN seqs[i] ELSE e[i - 1] \o seqs[i]]
    BY <2>1
  <2>3. Flattens(e, seqs, 0)
    BY <2>2 DEF Flattens
  <2>4. QED
    BY <1>2, <2>3
<1>4. n - 1 \in 0..L /\ n - 1 \notin Bad
  BY <1>1, <1>2, <1>3
<1>5. PICK g : Flattens(g, seqs, n - 1)
  BY <1>4 DEF Bad
<1> DEFINE f == [i \in 1..n |-> IF i = n THEN (IF n = 1 THEN seqs[n] ELSE g[n - 1] \o seqs[n]) ELSE g[i]]
<1>6. f = [i \in 1..n |-> IF i = 1 THEN seqs[i] ELSE f[i - 1] \o seqs[i]]
  <2>1. \A i \in 1..n : i # n => i \in 1..(n - 1)
    BY <1>2, <1>3
  <2>2. \A i \in 1..(n - 1) : g[i] = IF i = 1 THEN seqs[i] ELSE g[i - 1] \o seqs[i]
    BY <1>5 DEF Flattens
  <2>3. \A i \in 1..n : f[i] = IF i = n THEN (IF n = 1 THEN seqs[n] ELSE g[n - 1] \o seqs[n]) ELSE g[i]
    OBVIOUS
  <2>4. \A i \in 1..n : i # 1 => i - 1 \in 1..n /\ i - 1 # n
    BY <1>2
  <2>5. f = [i \in 1..n |-> f[i]]
    OBVIOUS
  <2> HIDE DEF f
  <2>6. ASSUME NEW i \in 1..n PROVE f[i] = IF i = 1 THEN seqs[i] ELSE f[i - 1] \o seqs[i]
    <3>1. CASE i = n
      BY <2>3, <2>4, <3>1
    <3>2. CASE i # n
      BY <2>1, <2>2, <2>3, <2>4, <3>2
    <3>3. QED
      BY <3>1, <3>2
  <2>7. QED
    BY <2>5, <2>6
<1>7. QED
  BY <1>2, <1>6 DEF Flattens

\* The members of sequences put one after another are members of one of them.
LEMMA Flattened ==
    ASSUME NEW T, NEW seqs \in Seq(Seq(T)), seqs # <<>>, \A i \in DOMAIN seqs : seqs[i] # <<>>
    PROVE  FlattenSeq(seqs) \in Seq(T) /\ FlattenSeq(seqs) # <<>>
<1> DEFINE L == Len(seqs)
           f == CHOOSE f : Flattens(f, seqs, L)
<1>1. L \in Nat /\ L # 0 /\ DOMAIN seqs = 1..L /\ \A i \in 1..L : seqs[i] \in Seq(T) /\ seqs[i] # <<>>
  OBVIOUS
<1>2. FlattenSeq(seqs) = f[L]
  BY <1>1 DEF FlattenSeq, Flattens
<1>3. Flattens(f, seqs, L)
  BY <1>1, FlattensExists
<1> HIDE DEF f, L
<1>4. \A i \in 1..L : f[i] = IF i = 1 THEN seqs[i] ELSE f[i - 1] \o seqs[i]
  BY <1>3 DEF Flattens
<1> DEFINE Bad == {n \in 0..L : n # 0 /\ ~(f[n] \in Seq(T) /\ f[n] # <<>>)}
<1>5. Bad = {}
  <2> SUFFICES ASSUME Bad # {} PROVE FALSE
    OBVIOUS
  <2>1. PICK n \in Bad : \A i \in Bad : n <= i
    <3>1. Bad \in SUBSET (0..L)
      OBVIOUS
    <3> HIDE DEF Bad
    <3>2. QED
      BY <1>1, <3>1, LeastOf
  <2>2. n \in 1..L /\ ~(f[n] \in Seq(T) /\ f[n] # <<>>)
    BY <1>1
  <2>3. n # 1
    BY <1>1, <1>4, <2>2
  <2>4. n - 1 \in 0..L /\ n - 1 # 0 /\ n - 1 \notin Bad
    BY <1>1, <2>1, <2>2, <2>3
  <2>5. f[n - 1] \in Seq(T) /\ f[n - 1] # <<>>
    BY <2>4
  <2> HIDE DEF Bad
  <2>6. f[n] = f[n - 1] \o seqs[n] /\ seqs[n] \in Seq(T) /\ seqs[n] # <<>>
    BY <1>1, <1>4, <2>2, <2>3
  <2>7. QED
    BY <2>2, <2>5, <2>6
<1>6. L \in 0..L
  BY <1>1
<1>7. QED
  BY <1>1, <1>2, <1>5, <1>6

\* The rows kept for an invoice: some of the rows, of its SKUs.
Keeps(f, i, rows) ==
    f = [n \in 0..Len(rows) |->
            IF n = 0 THEN <<>>
            ELSE IF OnIt(i, rows[n]) THEN Append(f[n - 1], rows[n]) ELSE f[n - 1]]

LEMMA KeepsExists ==
    ASSUME NEW i, NEW S, NEW rows \in Seq(S)
    PROVE  \E f : Keeps(f, i, rows)
<1> DEFINE L == Len(rows)
           Upto(f, m) == f = [n \in 0..m |->
                                IF n = 0 THEN <<>>
                                ELSE IF OnIt(i, rows[n]) THEN Append(f[n - 1], rows[n]) ELSE f[n - 1]]
           Bad == {m \in 0..L : ~\E f : Upto(f, m)}
<1>0. L \in Nat
  OBVIOUS
<1>1. Bad = {}
  <2> SUFFICES ASSUME Bad # {} PROVE FALSE
    OBVIOUS
  <2>1. PICK m \in Bad : \A j \in Bad : m <= j
    <3>1. Bad \in SUBSET (0..L)
      OBVIOUS
    <3> HIDE DEF Bad, L
    <3>2. QED
      BY <1>0, <3>1, LeastOf
  <2>2. m \in 0..L /\ ~\E f : Upto(f, m)
    OBVIOUS
  <2>3. m # 0
    <3> DEFINE e == [n \in 0..0 |-> <<>>]
    <3>1. \A n \in 0..0 : n = 0
      OBVIOUS
    <3>2. e = [n \in 0..0 |-> IF n = 0 THEN <<>>
                              ELSE IF OnIt(i, rows[n]) THEN Append(e[n - 1], rows[n]) ELSE e[n - 1]]
      BY <3>1
    <3>3. Upto(e, 0)
      BY <3>2
    <3> HIDE DEF Upto
    <3>4. QED
      BY <2>2, <3>3
  <2>4. m - 1 \in 0..L /\ m - 1 \notin Bad
    <3>1. m - 1 \in 0..L /\ ~(m <= m - 1)
      BY <1>0, <2>2, <2>3
    <3> HIDE DEF Bad
    <3>2. QED
      BY <2>1, <3>1
  <2>5. PICK g : Upto(g, m - 1)
    BY <2>4
  <2> DEFINE last == IF OnIt(i, rows[m]) THEN Append(g[m - 1], rows[m]) ELSE g[m - 1]
             f == [n \in 0..m |-> IF n = m THEN last ELSE g[n]]
  <2>6. f = [n \in 0..m |-> IF n = 0 THEN <<>>
                            ELSE IF OnIt(i, rows[n]) THEN Append(f[n - 1], rows[n]) ELSE f[n - 1]]
    <3>1. \A n \in 0..m : n # m => n \in 0..(m - 1)
      BY <2>2, <2>3
    <3>2. \A n \in 0..(m - 1) : g[n] = IF n = 0 THEN <<>>
                                        ELSE IF OnIt(i, rows[n]) THEN Append(g[n - 1], rows[n]) ELSE g[n - 1]
      BY <2>5
    <3>3. \A n \in 0..m : f[n] = IF n = m THEN last ELSE g[n]
      OBVIOUS
    <3>4. \A n \in 0..m : n # 0 => n - 1 \in 0..m /\ n - 1 # m
      BY <2>2
    <3>5. f = [n \in 0..m |-> f[n]]
      OBVIOUS
    <3> HIDE DEF f
    <3>6. ASSUME NEW n \in 0..m
          PROVE  f[n] = IF n = 0 THEN <<>>
                        ELSE IF OnIt(i, rows[n]) THEN Append(f[n - 1], rows[n]) ELSE f[n - 1]
      <4>1. CASE n = m
        BY <2>3, <3>3, <3>4, <4>1
      <4>2. CASE n # m
        BY <3>1, <3>2, <3>3, <3>4, <4>2
      <4>3. QED
        BY <4>1, <4>2
    <3>7. QED
      BY <3>5, <3>6
  <2>7. QED
    BY <2>2, <2>6
<1>2. L \in 0..L
  BY <1>0
<1>3. \E f : Upto(f, L)
  BY <1>1, <1>2
<1>4. QED
  BY <1>3 DEF Keeps

LEMMA KeptAre ==
    ASSUME NEW i, NEW S, lines \in Seq(S)
    PROVE  /\ Kept(i) \in Seq({line \in S : OnIt(i, line)})
           /\ Len(Kept(i)) <= Len(lines)
<1> DEFINE L == Len(lines)
           T == {line \in S : OnIt(i, line)}
           f == CHOOSE f : Keeps(f, i, lines)
<1>1. L \in Nat /\ \A n \in 1..L : lines[n] \in S
  OBVIOUS
<1>2. Kept(i) = f[L]
  BY DEF Kept, Keeps
<1>3. Keeps(f, i, lines)
  BY KeepsExists
<1> HIDE DEF f
<1>4. \A n \in 0..L : f[n] = IF n = 0 THEN <<>>
                              ELSE IF OnIt(i, lines[n]) THEN Append(f[n - 1], lines[n]) ELSE f[n - 1]
  BY <1>3 DEF Keeps
<1> HIDE DEF L
<1> DEFINE Bad == {n \in 0..L : ~(f[n] \in Seq(T) /\ Len(f[n]) <= n)}
<1>5. Bad = {}
  <2> SUFFICES ASSUME Bad # {} PROVE FALSE
    OBVIOUS
  <2>1. PICK n \in Bad : \A j \in Bad : n <= j
    <3>1. Bad \in SUBSET (0..L)
      OBVIOUS
    <3> HIDE DEF Bad
    <3>2. QED
      BY <1>1, <3>1, LeastOf
  <2>2. n \in 0..L /\ ~(f[n] \in Seq(T) /\ Len(f[n]) <= n)
    OBVIOUS
  <2>3. n # 0
    <3>1. n = 0 => f[n] = <<>>
      BY <1>4, <2>2
    <3>2. <<>> \in Seq(T) /\ Len(<<>>) = 0
      OBVIOUS
    <3> HIDE DEF T
    <3>3. n = 0 => f[n] \in Seq(T) /\ Len(f[n]) = 0
      BY <3>1, <3>2
    <3>4. n = 0 => Len(f[n]) <= n
      BY <3>3
    <3>5. QED
      BY <2>2, <3>3, <3>4
  <2>4. n - 1 \in 0..L /\ n - 1 \notin Bad /\ n \in 1..L
    BY <1>1, <2>1, <2>2, <2>3
  <2>5. f[n - 1] \in Seq(T) /\ Len(f[n - 1]) <= n - 1
    BY <2>4
  <2>6. f[n] = IF OnIt(i, lines[n]) THEN Append(f[n - 1], lines[n]) ELSE f[n - 1]
    BY <1>4, <2>2, <2>3
  <2>7. OnIt(i, lines[n]) => lines[n] \in T
    BY <1>1, <2>4
  <2> HIDE DEF Bad, T
  <2>8. CASE OnIt(i, lines[n])
    <3>1. Append(f[n - 1], lines[n]) \in Seq(T) /\ Len(Append(f[n - 1], lines[n])) = Len(f[n - 1]) + 1
      BY <2>5, <2>7, <2>8
    <3>2. Len(f[n - 1]) \in Nat
      BY <2>5
    <3>3. QED
      BY <2>2, <2>4, <2>5, <2>6, <2>8, <3>1, <3>2
  <2>9. CASE ~OnIt(i, lines[n])
    <3>1. Len(f[n - 1]) \in Nat
      BY <2>5
    <3>2. QED
      BY <2>2, <2>4, <2>5, <2>6, <2>9, <3>1
  <2>10. QED
    BY <2>8, <2>9
<1>6. L \in 0..L
  BY <1>1
<1>7. QED
  BY <1>2, <1>5, <1>6 DEF L

-----------------------------------------------------------------------------
(***************************************************************************)
(* The screens documents are entered on: the inductive invariant.          *)
(***************************************************************************)

\* The choice and the SKU of a row fit a form of kind k, its godown g and invoice i,
\* unless a pick was overtaken.
Fits(k, g, i, over, line) ==
    /\ k \in Batched /\ line.decrease /\ line.sku # None /\ line.choice # None /\ ~over =>
          line.choice \in ToSet(Available[<<line.sku, g>>])
    /\ k \in Priced /\ line.choice # None => line.sku # None /\ line.choice \in Units[line.sku]
    /\ i # None /\ line.sku # None /\ ~over => line.sku \in OnInvoice[i]

Fitting(k, g, i, over) == {line \in Line : Fits(k, g, i, over, line)}

RowsFit == lines \in Seq(Fitting(kind, godown, invoice, overtaken))

\* A pick was asked for a row with an SKU.
PickFits ==
    pick # NoPick =>
        /\ kind \in {"DISPATCH", "TRANSFER"}
        /\ pick.key \in Key /\ pick.sku \in Sku /\ pick.godown \in Godown /\ pick.lines \in Seq(Line)
        /\ \E n \in DOMAIN pick.lines : pick.lines[n].sku = pick.sku

FormInv == TypeOK /\ RowsFit /\ PickFits /\ AcceptedFollows

LEMMA NoneIsNoMaster == None \notin Sku /\ None \notin Godown /\ None \notin Invoice /\ None \notin Choice
BY FormsAssumption

LEMMA FreshFits ==
    ASSUME NEW k, NEW g, NEW i, NEW over, NEW key \in Key
    PROVE  Fresh(key) \in Fitting(k, g, i, over)
<1>1. Fresh(key) \in Line /\ Fresh(key).choice = None /\ Fresh(key).sku = None
  BY DEF Fresh, Line
<1>2. QED
  BY <1>1 DEF Fitting, Fits

LEMMA FormInit == Init => FormInv
<1> SUFFICES ASSUME Init PROVE FormInv
  OBVIOUS
<1>1. MaxKeys \in Nat \ {0} /\ MaxLines \in Nat \ {0} /\ 1 \in Key /\ 1 \in 1..MaxLines
  BY FormsAssumption DEF Key
<1>2. lines \in Seq(Fitting(kind, godown, invoice, overtaken)) /\ Len(lines) = 1
  <2>1. Fresh(1) \in Fitting(kind, godown, invoice, overtaken)
    BY <1>1, FreshFits
  <2> DEFINE F == Fitting(kind, godown, invoice, overtaken)
  <2>2. Fresh(1) \in F
    BY <2>1
  <2> HIDE DEF F
  <2>3. <<Fresh(1)>> \in Seq(F) /\ Len(<<Fresh(1)>>) = 1
    BY <2>2
  <2>4. QED
    BY <2>3 DEF F, Init
<1>3. lines \in Seq(Line)
  BY <1>1, FreshFits DEF Init, Fitting
<1>4. TypeOK
  <2>1. result \in [Key -> Pair \cup {None}] /\ loading \subseteq Key \X Pair
    BY DEF Init
  <2>2. pick.key \in 0..MaxKeys /\ pick.lines \in Seq(Line)
    BY <1>1 DEF Init, NoPick
  <2>3. input \in [Shown -> Input] /\ touched \subseteq Shown
    BY DEF Init, Input, Blank
  <2>4. kind \in Kind /\ phase \in {"EDITING", "PENDING", "DONE"} /\ godown \in Godown
        /\ invoice \in Invoice \cup {None} /\ keys \in Key /\ overtaken \in BOOLEAN
    BY <1>1 DEF Init
  <2>5. QED
    BY <1>1, <1>2, <1>3, <2>1, <2>2, <2>3, <2>4 DEF TypeOK
<1>5. PickFits /\ AcceptedFollows
  BY DEF Init, PickFits, AcceptedFollows, Blank
<1>6. QED
  BY <1>2, <1>4, <1>5 DEF FormInv, RowsFit

\* What a form shows after its rows change.
LEMMA ShowTypes ==
    ASSUME TypeOK, NEW rows \in Seq(Line), NEW g \in Godown, Show(rows, g)
    PROVE  lines' = rows /\ result' \in [Key -> Pair \cup {None}] /\ loading' \subseteq Key \X Pair
<1>1. lines' = rows
  BY DEF Show
<1>2. result' \in [Key -> Pair \cup {None}]
  BY DEF Show, TypeOK
<1>3. Wanted(rows, g) \subseteq Key \X Pair
  <2>1. ASSUME NEW n \in DOMAIN rows, NEW p \in {rows[n].key} \X Asks(rows[n], g)
        PROVE  p \in Key \X Pair
    <3>1. rows[n] \in Line
      OBVIOUS
    <3>2. rows[n].key \in Key /\ (rows[n].sku # None => rows[n].sku \in Sku)
      BY <3>1 DEF Line
    <3>3. \A q \in Asks(rows[n], g) : q \in Pair
      BY <3>2 DEF Asks, Pair
    <3>4. QED
      BY <3>2, <3>3
  <2>2. QED
    BY <2>1 DEF Wanted
<1>4. loading' \subseteq Key \X Pair
  BY <1>3 DEF Show, TypeOK
<1>5. QED
  BY <1>1, <1>2, <1>4

\* New rows that fit, on a form that is otherwise as it was.
LEMMA RowsChanged ==
    ASSUME FormInv, NEW g \in Godown, NEW i \in Invoice \cup {None}, NEW count \in Key,
           NEW rows \in Seq(Fitting(kind, g, i, overtaken)), Len(rows) \in 1..MaxLines,
           Show(rows, g), godown' = g, invoice' = i, keys' = count,
           UNCHANGED <<kind, phase, pick, overtaken, input, touched>>
    PROVE  FormInv'
<1>1. rows \in Seq(Line)
  BY DEF Fitting
<1>2. lines' = rows /\ result' \in [Key -> Pair \cup {None}] /\ loading' \subseteq Key \X Pair
  BY <1>1, ShowTypes DEF FormInv
<1>3. TypeOK'
  BY <1>1, <1>2 DEF FormInv, TypeOK
<1>4. RowsFit'
  BY <1>2 DEF RowsFit
<1>5. PickFits' /\ AcceptedFollows'
  BY DEF FormInv, PickFits, AcceptedFollows
<1>6. QED
  BY <1>3, <1>4, <1>5 DEF FormInv

\* One row changes.
LEMMA UpdateStep ==
    ASSUME FormInv, NEW n \in DOMAIN lines, NEW line \in Fitting(kind, godown, invoice, overtaken),
           Update(n, line)
    PROVE  FormInv'
<1> DEFINE F == Fitting(kind, godown, invoice, overtaken)
           rows == [lines EXCEPT ![n] = line]
<1>1. lines \in Seq(F) /\ Len(lines) \in 1..MaxLines /\ line \in F /\ godown \in Godown
      /\ invoice \in Invoice \cup {None} /\ keys \in Key
  BY DEF FormInv, RowsFit, TypeOK
<1> HIDE DEF F
<1>2. rows \in Seq(F) /\ Len(rows) = Len(lines)
  BY <1>1
<1>3. Show(rows, godown) /\ UNCHANGED <<kind, phase, godown, invoice, keys, pick, overtaken, input, touched>>
  BY DEF Update
<1> HIDE DEF rows
<1>4. Len(rows) \in 1..MaxLines
  BY <1>1, <1>2
<1>5. QED
  BY <1>1, <1>2, <1>3, <1>4, RowsChanged DEF F

\* A row of the form.
LEMMA RowIs ==
    ASSUME FormInv, NEW n \in DOMAIN lines
    PROVE  lines[n] \in Line /\ Fits(kind, godown, invoice, overtaken, lines[n])
<1> DEFINE F == Fitting(kind, godown, invoice, overtaken)
<1>1. lines \in Seq(F)
  BY DEF FormInv, RowsFit
<1> HIDE DEF F
<1>2. lines[n] \in F
  BY <1>1
<1>3. QED
  BY <1>2 DEF F, Fitting

LEMMA SelectSkuStep ==
    ASSUME FormInv, NEW n \in DOMAIN lines, NEW sku \in Sku \cup {None}, SelectSku(n, sku)
    PROVE  FormInv'
<1> DEFINE line == WithSku(lines[n], sku)
<1>1. lines[n] \in Line
  BY RowIs
<1>2. line \in Line /\ line.sku = sku /\ line.choice = None
  BY <1>1 DEF WithSku, Line
<1>3. sku # None /\ invoice # None => sku \in OnInvoice[invoice]
  BY DEF SelectSku, Selectable
<1>4. Update(n, line)
  BY DEF SelectSku
<1> HIDE DEF line
<1>5. line \in Fitting(kind, godown, invoice, overtaken)
  BY <1>2, <1>3 DEF Fitting, Fits
<1>6. QED
  BY <1>4, <1>5, UpdateStep

\* The options of a row are the batches of its SKU in the form's godown.
LEMMA OptionsAre ==
    ASSUME NEW line, NEW choice \in ToSet(Current(line))
    PROVE  /\ kind \in Batched /\ line.decrease /\ line.sku # None
           /\ Current(line) = Available[<<line.sku, godown>>]
<1>1. CASE result[line.key] # None /\ result[line.key] \in Asks(line, godown)
  <2>1. Current(line) = Available[result[line.key]]
    BY <1>1 DEF Current
  <2>2. kind \in Batched /\ line.decrease /\ line.sku # None /\ result[line.key] = <<line.sku, godown>>
    BY <1>1 DEF Asks
  <2>3. QED
    BY <2>1, <2>2
<1>2. CASE ~(result[line.key] # None /\ result[line.key] \in Asks(line, godown))
  <2>1. Current(line) = <<>>
    BY <1>2 DEF Current
  <2>2. ToSet(<<>>) = {}
    BY DEF ToSet
  <2>3. QED
    BY <2>1, <2>2
<1>3. QED
  BY <1>1, <1>2

\* The batches of an SKU in a godown can be chosen.
LEMMA BatchesAre ==
    ASSUME NEW sku \in Sku, NEW g \in Godown
    PROVE  Available[<<sku, g>>] \in Seq(Choice) /\ ToSet(Available[<<sku, g>>]) \subseteq Choice
<1>1. Available[<<sku, g>>] \in Seq(Choice)
  BY FormsAssumption
<1> DEFINE s == Available[<<sku, g>>]
<1>2. s \in Seq(Choice)
  BY <1>1
<1> HIDE DEF s
<1>3. ToSet(s) \subseteq Choice
  BY <1>2 DEF ToSet
<1>4. QED
  BY <1>1, <1>3 DEF s

LEMMA SelectBatchStep ==
    ASSUME FormInv, NEW n \in DOMAIN lines, NEW choice, SelectBatch(n, choice)
    PROVE  FormInv'
<1> DEFINE line == [lines[n] EXCEPT !.choice = choice]
<1>1. lines[n] \in Line /\ Fits(kind, godown, invoice, overtaken, lines[n]) /\ godown \in Godown
  BY RowIs DEF FormInv, TypeOK
<1>2. choice \in ToSet(Current(lines[n])) \cup {None} /\ kind \in Batched /\ Update(n, line)
  BY DEF SelectBatch
<1>3. choice # None => choice \in ToSet(Available[<<lines[n].sku, godown>>]) /\ lines[n].sku # None
  BY <1>2, OptionsAre
<1>4. choice \in Choice \cup {None}
  <2>1. choice # None => lines[n].sku \in Sku
    BY <1>1, <1>3 DEF Line
  <2>2. QED
    BY <1>1, <1>3, <2>1, BatchesAre
<1>5. /\ line \in Line /\ line.sku = lines[n].sku /\ line.choice = choice
      /\ line.decrease = lines[n].decrease
  BY <1>1, <1>4 DEF Line
<1> HIDE DEF line
<1>6. kind \notin Priced
  BY <1>2 DEF Batched, Priced
<1>7. line \in Fitting(kind, godown, invoice, overtaken)
  BY <1>1, <1>3, <1>5, <1>6 DEF Fitting, Fits
<1>8. QED
  BY <1>2, <1>7, UpdateStep

LEMMA SelectUnitStep ==
    ASSUME FormInv, NEW n \in DOMAIN lines, NEW choice, SelectUnit(n, choice)
    PROVE  FormInv'
<1> DEFINE line == [lines[n] EXCEPT !.choice = choice]
<1>1. lines[n] \in Line /\ Fits(kind, godown, invoice, overtaken, lines[n])
  BY RowIs
<1>2. /\ choice \in Units[lines[n].sku] \cup {None} /\ kind \in Priced /\ Update(n, line)
      /\ lines[n].sku # None
  BY DEF SelectUnit
<1>3. choice \in Choice \cup {None}
  <2>1. lines[n].sku \in Sku
    BY <1>1, <1>2 DEF Line
  <2>2. QED
    BY <1>2, <2>1, FormsAssumption
<1>4. line \in Line /\ line.sku = lines[n].sku /\ line.choice = choice
  BY <1>1, <1>3 DEF Line
<1> HIDE DEF line
<1>5. kind \notin Batched
  BY <1>2 DEF Batched, Priced
<1>6. line \in Fitting(kind, godown, invoice, overtaken)
  BY <1>1, <1>2, <1>4, <1>5 DEF Fitting, Fits
<1>7. QED
  BY <1>2, <1>6, UpdateStep

LEMMA SelectDirectionStep ==
    ASSUME FormInv, NEW n \in DOMAIN lines, SelectDirection(n)
    PROVE  FormInv'
<1> DEFINE line == [lines[n] EXCEPT !.decrease = ~@, !.choice = None]
<1>1. lines[n] \in Line /\ Fits(kind, godown, invoice, overtaken, lines[n])
  BY RowIs
<1>2. Update(n, line)
  BY DEF SelectDirection
<1>3. line \in Line /\ line.sku = lines[n].sku /\ line.choice = None
  BY <1>1 DEF Line
<1> HIDE DEF line
<1>4. line \in Fitting(kind, godown, invoice, overtaken)
  BY <1>1, <1>3 DEF Fitting, Fits
<1>5. QED
  BY <1>2, <1>4, UpdateStep

LEMMA AddLineStep == ASSUME FormInv, AddLine PROVE FormInv'
<1> DEFINE F == Fitting(kind, godown, invoice, overtaken)
           new == Fresh(keys + 1)
           rows == Append(lines, new)
<1>1. /\ lines \in Seq(F) /\ Len(lines) \in 1..MaxLines /\ godown \in Godown
      /\ invoice \in Invoice \cup {None} /\ keys \in Key /\ keys + 1 \in Key
      /\ MaxLines \in Nat
  BY FormsAssumption DEF FormInv, RowsFit, TypeOK, AddLine, Key
<1>2. new \in F
  BY <1>1, FreshFits
<1>3. /\ Show(rows, godown) /\ Len(lines) < MaxLines /\ keys' = keys + 1
      /\ UNCHANGED <<kind, phase, godown, invoice, pick, overtaken, input, touched>>
  BY DEF AddLine
<1> HIDE DEF F, new
<1>4. rows \in Seq(F) /\ Len(rows) = Len(lines) + 1
  BY <1>1, <1>2
<1>5. Len(rows) \in 1..MaxLines
  BY <1>1, <1>3, <1>4
<1> HIDE DEF rows
<1>6. QED
  BY <1>1, <1>3, <1>4, <1>5, RowsChanged DEF F

LEMMA RemoveLineStep == ASSUME FormInv, NEW n \in DOMAIN lines, RemoveLine(n) PROVE FormInv'
<1> DEFINE F == Fitting(kind, godown, invoice, overtaken)
           before == SubSeq(lines, 1, n - 1)
           after == SubSeq(lines, n + 1, Len(lines))
           rows == RemoveAt(lines, n)
<1>1. /\ lines \in Seq(F) /\ Len(lines) \in 1..MaxLines /\ godown \in Godown
      /\ invoice \in Invoice \cup {None} /\ keys \in Key /\ MaxLines \in Nat
      /\ Len(lines) > 1
  BY FormsAssumption DEF FormInv, RowsFit, TypeOK, RemoveLine
<1>2. /\ Show(rows, godown)
      /\ UNCHANGED <<kind, phase, godown, invoice, keys, pick, overtaken, input, touched>>
  BY DEF RemoveLine
<1>3. rows = before \o after
  BY DEF RemoveAt
<1> HIDE DEF F, rows
<1>4. n \in 1..Len(lines) /\ Len(lines) \in Nat
  BY <1>1
<1>5. before \in Seq(F) /\ Len(before) = n - 1
  BY <1>1, <1>4
<1>6. after \in Seq(F) /\ Len(after) = Len(lines) - n
  BY <1>1, <1>4
<1> HIDE DEF before, after
<1>7. rows \in Seq(F) /\ Len(rows) = Len(lines) - 1
  BY <1>3, <1>4, <1>5, <1>6
<1>8. Len(rows) \in 1..MaxLines
  BY <1>1, <1>7
<1>9. QED
  BY <1>1, <1>2, <1>7, <1>8, RowsChanged DEF F

LEMMA SelectGodownStep == ASSUME FormInv, NEW g \in Godown, SelectGodown(g) PROVE FormInv'
<1> DEFINE F == Fitting(kind, g, invoice, overtaken)
           rows == IF kind \in Batched THEN Cleared(lines) ELSE lines
<1>1. /\ Len(lines) \in 1..MaxLines /\ invoice \in Invoice \cup {None} /\ keys \in Key
      /\ lines \in Seq(Line)
  BY DEF FormInv, TypeOK
<1>2. /\ Show(rows, g) /\ godown' = g /\ kind \notin Priced
      /\ UNCHANGED <<kind, phase, invoice, keys, pick, overtaken, input, touched>>
  BY DEF SelectGodown
<1>3. Len(rows) = Len(lines) /\ rows \in Seq(F)
  <2>1. CASE kind \in Batched
    <3>1. rows = [n \in 1..Len(lines) |-> [lines[n] EXCEPT !.choice = None]]
      BY <1>1, <2>1 DEF Cleared
    <3>2. ASSUME NEW n \in 1..Len(lines) PROVE [lines[n] EXCEPT !.choice = None] \in F
      <4> DEFINE line == [lines[n] EXCEPT !.choice = None]
      <4>1. n \in DOMAIN lines
        BY <1>1
      <4>2. lines[n] \in Line /\ Fits(kind, godown, invoice, overtaken, lines[n])
        BY <4>1, RowIs
      <4>3. line \in Line /\ line.choice = None /\ line.sku = lines[n].sku
        BY <4>2 DEF Line
      <4> HIDE DEF line
      <4>4. line \in F
        BY <4>2, <4>3 DEF Fitting, Fits
      <4>5. QED
        BY <4>4 DEF line
    <3> HIDE DEF rows, F
    <3>3. QED
      BY <1>1, <3>1, <3>2
  <2>2. CASE kind \notin Batched
    <3>1. rows = lines
      BY <2>2
    <3>2. ASSUME NEW n \in 1..Len(lines) PROVE lines[n] \in F
      <4>1. n \in DOMAIN lines
        BY <1>1
      <4>2. lines[n] \in Line /\ Fits(kind, godown, invoice, overtaken, lines[n])
        BY <4>1, RowIs
      <4>3. QED
        BY <1>2, <2>2, <4>2 DEF Fitting, Fits
    <3> HIDE DEF rows, F
    <3>3. QED
      BY <1>1, <3>1, <3>2
  <2>3. QED
    BY <2>1, <2>2
<1> HIDE DEF rows
<1>4. Len(rows) \in 1..MaxLines
  BY <1>1, <1>3
<1>5. QED
  BY <1>1, <1>2, <1>3, <1>4, RowsChanged DEF F

LEMMA SelectInvoiceStep ==
    ASSUME FormInv, NEW i \in Invoice \cup {None}, SelectInvoice(i)
    PROVE  FormInv'
<1> DEFINE F == Fitting(kind, godown, i, overtaken)
           kept == IF i = None THEN lines ELSE Kept(i)
<1>1. /\ Len(lines) \in 1..MaxLines /\ godown \in Godown /\ keys \in Key
      /\ lines \in Seq(Line) /\ MaxLines \in Nat \ {0}
  BY FormsAssumption DEF FormInv, TypeOK
<1>2. /\ invoice' = i /\ kind = "DISPATCH"
      /\ UNCHANGED <<kind, phase, godown, pick, overtaken, input, touched>>
      /\ IF kept # <<>> THEN Show(kept, godown) /\ UNCHANGED keys
         ELSE keys < MaxKeys /\ keys' = keys + 1 /\ Show(<<Fresh(keys + 1)>>, godown)
  BY DEF SelectInvoice
<1>3. kept \in Seq(F) /\ Len(kept) <= Len(lines)
  <2>1. CASE i = None
    <3>1. ASSUME NEW n \in 1..Len(lines) PROVE lines[n] \in F
      <4>1. n \in DOMAIN lines
        BY <1>1
      <4>2. lines[n] \in Line /\ Fits(kind, godown, invoice, overtaken, lines[n])
        BY <4>1, RowIs
      <4>3. QED
        BY <2>1, <4>2 DEF Fitting, Fits
    <3>2. kept = lines
      BY <2>1
    <3> HIDE DEF kept, F
    <3>3. QED
      BY <1>1, <3>1, <3>2
  <2>2. CASE i # None
    <3> DEFINE S == Fitting(kind, godown, invoice, overtaken)
               T == {line \in S : OnIt(i, line)}
    <3>1. lines \in Seq(S)
      BY DEF FormInv, RowsFit
    <3>2. T \subseteq F
      BY DEF Fitting, Fits, OnIt
    <3> HIDE DEF S, F
    <3>3. Kept(i) \in Seq(T) /\ Len(Kept(i)) <= Len(lines)
      BY <3>1, KeptAre
    <3>4. kept = Kept(i)
      BY <2>2
    <3> HIDE DEF kept, T
    <3>5. Kept(i) \in Seq(F)
      BY <3>2, <3>3
    <3>6. QED
      BY <3>3, <3>4, <3>5
  <2>3. QED
    BY <2>1, <2>2
<1> HIDE DEF kept
<1>4. CASE kept # <<>>
  <2>1. Len(kept) \in 1..MaxLines
    <3> HIDE DEF F
    <3>1. Len(kept) \in Nat /\ Len(kept) # 0
      BY <1>3, <1>4
    <3>2. QED
      BY <1>1, <1>3, <3>1
  <2>2. keys' = keys /\ Show(kept, godown) /\ godown' = godown
    BY <1>2, <1>4
  <2>3. QED
    BY <1>1, <1>2, <1>3, <2>1, <2>2, RowsChanged DEF F
<1>5. CASE kept = <<>>
  <2> DEFINE new == Fresh(keys + 1)
             rows == <<new>>
  <2>1. keys + 1 \in Key /\ keys' = keys + 1 /\ Show(rows, godown) /\ godown' = godown
    BY <1>1, <1>2, <1>5, FormsAssumption DEF Key
  <2>2. new \in F
    BY <2>1, FreshFits
  <2> HIDE DEF new, F
  <2>3. rows \in Seq(F) /\ Len(rows) = 1
    BY <2>2
  <2>4. Len(rows) \in 1..MaxLines
    BY <1>1, <2>3
  <2> HIDE DEF rows
  <2>5. QED
    BY <1>1, <1>2, <2>1, <2>3, <2>4, RowsChanged DEF F
<1>6. QED
  BY <1>4, <1>5

LEMMA AskPickStep == ASSUME FormInv, NEW n \in DOMAIN lines, AskPick(n) PROVE FormInv'
<1>1. lines[n] \in Line /\ lines \in Seq(Line) /\ godown \in Godown /\ MaxKeys \in Nat
  BY RowIs, FormsAssumption DEF FormInv, TypeOK
<1>2. /\ kind \in {"DISPATCH", "TRANSFER"} /\ lines[n].sku # None
      /\ pick' = [key |-> lines[n].key, sku |-> lines[n].sku, godown |-> godown, lines |-> lines]
      /\ UNCHANGED <<kind, phase, godown, invoice, lines, keys, result, loading, overtaken,
                     input, touched>>
  BY DEF AskPick
<1>3. lines[n].key \in Key /\ lines[n].sku \in Sku
  BY <1>1, <1>2 DEF Line
<1>4. /\ pick'.key \in Key /\ pick'.key \in 0..MaxKeys /\ pick'.sku \in Sku
      /\ pick'.godown \in Godown /\ pick'.lines \in Seq(Line)
      /\ \E m \in DOMAIN pick'.lines : pick'.lines[m].sku = pick'.sku
  BY <1>1, <1>2, <1>3 DEF Key
<1>5. TypeOK'
  BY <1>2, <1>4 DEF FormInv, TypeOK
<1>6. PickFits'
  BY <1>2, <1>4 DEF PickFits
<1>7. RowsFit' /\ AcceptedFollows'
  BY <1>2 DEF FormInv, RowsFit, AcceptedFollows
<1>8. QED
  BY <1>5, <1>6, <1>7 DEF FormInv

\* The rows of a pick take the batches of its SKU and godown, in their order.
LEMMA PickedAre ==
    ASSUME NEW first \in Nat, NEW picked \in Picked(first)
    PROVE  /\ picked = [m \in 1..Len(picked) |-> picked[m]] /\ Len(picked) \in Nat \ {0}
           /\ Len(picked) <= Len(Available[<<pick.sku, pick.godown>>])
           /\ \A m \in 1..Len(picked) :
                 picked[m] = [key |-> IF m = 1 THEN pick.key ELSE first + m - 2, sku |-> pick.sku,
                              choice |-> Available[<<pick.sku, pick.godown>>][m], decrease |-> TRUE]
<1> DEFINE from == Available[<<pick.sku, pick.godown>>]
           taken(m) == [key |-> IF m = 1 THEN pick.key ELSE first + m - 2, sku |-> pick.sku,
                        choice |-> from[m], decrease |-> TRUE]
<1>1. PICK last \in 1..Len(from) : picked = [m \in 1..last |-> taken(m)]
  BY DEF Picked
<1> HIDE DEF taken
<1>2. last \in Nat \ {0} /\ last <= Len(from)
  OBVIOUS
<1>3. Len(picked) = last /\ DOMAIN picked = 1..last
  BY <1>1, <1>2
<1>4. picked = [m \in 1..last |-> picked[m]] /\ \A m \in 1..last : picked[m] = taken(m)
  BY <1>1
<1>5. QED
  BY <1>2, <1>3, <1>4 DEF taken

LEMMA PickAnsweredStep ==
    ASSUME FormInv, NEW picked, PickAnswered(picked)
    PROVE  FormInv'
<1> DEFINE over == overtaken \/ lines # pick.lines \/ godown # pick.godown
           F == Fitting(kind, godown, invoice, over)
           parts == [n \in DOMAIN pick.lines |->
                       IF pick.lines[n].key = pick.key THEN picked ELSE <<pick.lines[n]>>]
           rows == FlattenSeq(parts)
           from == Available[<<pick.sku, pick.godown>>]
           count == keys + Len(picked) - 1
<1>1. /\ pick # NoPick /\ picked \in Picked(keys + 1)
      /\ Len(rows) <= MaxLines /\ count <= MaxKeys
      /\ Show(rows, godown) /\ keys' = count /\ overtaken' = over /\ pick' = NoPick
      /\ UNCHANGED <<kind, phase, godown, invoice, input, touched>>
  BY DEF PickAnswered
<1>2. /\ lines \in Seq(Line) /\ godown \in Godown /\ invoice \in Invoice \cup {None}
      /\ keys \in 1..MaxKeys /\ MaxKeys \in Nat \ {0} /\ MaxLines \in Nat \ {0}
  BY FormsAssumption DEF FormInv, TypeOK, Key
<1>3. /\ kind \in {"DISPATCH", "TRANSFER"} /\ kind \notin Priced
      /\ pick.key \in Key /\ pick.sku \in Sku /\ pick.godown \in Godown
      /\ pick.lines \in Seq(Line)
      /\ \E n \in DOMAIN pick.lines : pick.lines[n].sku = pick.sku
  BY <1>1 DEF FormInv, PickFits, Priced
<1>4. from \in Seq(Choice) /\ ToSet(from) \subseteq Choice
  BY <1>3, BatchesAre
<1>5. keys + 1 \in Nat
  BY <1>2
<1>6. /\ picked = [m \in 1..Len(picked) |-> picked[m]] /\ Len(picked) \in Nat \ {0}
      /\ Len(picked) <= Len(from)
      /\ \A m \in 1..Len(picked) :
            picked[m] = [key |-> IF m = 1 THEN pick.key ELSE keys + 1 + m - 2, sku |-> pick.sku,
                         choice |-> from[m], decrease |-> TRUE]
  BY <1>1, <1>5, PickedAre
<1>7. ~over /\ invoice # None => pick.sku \in OnInvoice[invoice]
  <2> SUFFICES ASSUME ~over, invoice # None PROVE pick.sku \in OnInvoice[invoice]
    OBVIOUS
  <2>1. PICK n \in DOMAIN lines : lines[n].sku = pick.sku
    BY <1>3
  <2>2. Fits(kind, godown, invoice, overtaken, lines[n])
    BY RowIs
  <2>3. pick.sku # None
    BY <1>3, NoneIsNoMaster
  <2>4. QED
    BY <2>1, <2>2, <2>3 DEF Fits
<1>8. ASSUME NEW m \in 1..Len(picked) PROVE picked[m] \in F
  <2> DEFINE line == picked[m]
  <2>1. line.key \in Key
    <3>1. CASE m = 1
      BY <1>3, <1>6, <3>1
    <3>2. CASE m # 1
      <4>1. line.key = keys + 1 + m - 2
        BY <1>6, <3>2
      <4>2. keys + 1 + m - 2 \in 1..MaxKeys
        BY <1>1, <1>2, <1>6, <3>2
      <4>3. QED
        BY <4>1, <4>2 DEF Key
    <3>3. QED
      BY <3>1, <3>2
  <2>2. from[m] \in Choice /\ from[m] \in ToSet(from)
    <3> HIDE DEF from
    <3>1. m \in DOMAIN from
      BY <1>4, <1>6
    <3>2. QED
      BY <1>4, <3>1 DEF ToSet
  <2>3. line.sku = pick.sku /\ line.choice = from[m] /\ line.decrease = TRUE
    BY <1>6
  <2>4. line \in Line
    <3>1. line = [key |-> line.key, sku |-> line.sku, choice |-> line.choice, decrease |-> line.decrease]
      BY <1>6
    <3> HIDE DEF line, from
    <3>2. QED
      BY <1>3, <2>1, <2>2, <2>3, <3>1 DEF Line
  <2>5. ~over => line.choice \in ToSet(Available[<<line.sku, godown>>])
    BY <2>2, <2>3
  <2>6. ~over /\ invoice # None => line.sku \in OnInvoice[invoice]
    BY <1>7, <2>3
  <2> HIDE DEF line, over
  <2>7. line \in F
    BY <1>3, <2>4, <2>5, <2>6 DEF Fitting, Fits
  <2>8. QED
    BY <2>7 DEF line
<1>9. picked \in Seq(F) /\ picked # <<>>
  <2> HIDE DEF F
  <2>1. picked \in Seq(F)
    BY <1>6, <1>8
  <2>2. QED
    BY <1>6, <2>1
<1>10. ASSUME NEW n \in DOMAIN pick.lines PROVE pick.lines[n] \in F
  <2>1. pick.lines[n] \in Line
    BY <1>3
  <2>2. ~over => Fits(kind, godown, invoice, overtaken, pick.lines[n])
    BY RowIs
  <2>3. Fits(kind, godown, invoice, over, pick.lines[n])
    BY <1>3, <2>2 DEF Fits
  <2>4. QED
    BY <2>1, <2>3 DEF Fitting
<1> HIDE DEF over, F, from
<1>11. ASSUME NEW n \in DOMAIN pick.lines PROVE parts[n] \in Seq(F) /\ parts[n] # <<>>
  BY <1>9, <1>10
<1>12. DOMAIN parts = 1..Len(pick.lines) /\ Len(pick.lines) \in Nat \ {0} /\ DOMAIN parts = DOMAIN pick.lines
  BY <1>3
<1>13. parts \in Seq(Seq(F)) /\ parts # <<>>
  <2>1. parts = [n \in 1..Len(pick.lines) |-> parts[n]]
    BY <1>12
  <2> HIDE DEF parts
  <2> DEFINE P == Seq(F)
             L == Len(pick.lines)
  <2>2. L \in Nat \ {0} /\ parts = [n \in 1..L |-> parts[n]] /\ \A n \in 1..L : parts[n] \in P
    BY <1>11, <1>12, <2>1
  <2> HIDE DEF P, L
  <2>3. parts \in Seq(P) /\ Len(parts) = L
    BY <2>2
  <2>4. parts # <<>>
    BY <2>2, <2>3
  <2>5. QED
    BY <2>3, <2>4 DEF P
<1>14. \A n \in DOMAIN parts : parts[n] # <<>>
  BY <1>11, <1>12
<1> HIDE DEF parts
<1>15. rows \in Seq(F) /\ rows # <<>>
  BY <1>13, <1>14, Flattened
<1> HIDE DEF rows
<1>16. Len(rows) \in 1..MaxLines
  BY <1>1, <1>2, <1>15
<1>17. rows \in Seq(Line)
  BY <1>15 DEF F, Fitting
<1>18. lines' = rows /\ result' \in [Key -> Pair \cup {None}] /\ loading' \subseteq Key \X Pair
  BY <1>1, <1>2, <1>17, ShowTypes DEF FormInv
<1>19. count \in Key
  BY <1>1, <1>2, <1>6 DEF Key
<1>20. pick'.key = 0 /\ pick'.lines = <<>>
  BY <1>1 DEF NoPick
<1>21. TypeOK'
  <2>1. pick'.key \in 0..MaxKeys /\ pick'.lines \in Seq(Line)
    BY <1>2, <1>20
  <2>2. overtaken' \in BOOLEAN
    BY <1>1 DEF over, FormInv, TypeOK
  <2>3. lines' \in Seq(Line) /\ Len(lines') \in 1..MaxLines /\ keys' \in Key
    BY <1>1, <1>16, <1>17, <1>18, <1>19
  <2>4. QED
    BY <1>1, <1>18, <2>1, <2>2, <2>3 DEF FormInv, TypeOK
<1>22. RowsFit'
  BY <1>1, <1>15, <1>18 DEF RowsFit, F
<1>23. PickFits' /\ AcceptedFollows'
  BY <1>1 DEF FormInv, PickFits, AcceptedFollows
<1>24. QED
  BY <1>21, <1>22, <1>23 DEF FormInv

LEMMA PickFailedStep == ASSUME FormInv, PickFailed PROVE FormInv'
<1>1. /\ pick' = NoPick
      /\ UNCHANGED <<kind, phase, godown, invoice, lines, keys, result, loading, overtaken,
                     input, touched>>
  BY DEF PickFailed
<1>2. pick'.key \in 0..MaxKeys /\ pick'.lines \in Seq(Line)
  BY <1>1, FormsAssumption DEF NoPick
<1>3. TypeOK'
  BY <1>1, <1>2 DEF FormInv, TypeOK
<1>4. PickFits' /\ RowsFit' /\ AcceptedFollows'
  BY <1>1 DEF FormInv, PickFits, RowsFit, AcceptedFollows
<1>5. QED
  BY <1>3, <1>4 DEF FormInv

LEMMA LoadStep ==
    ASSUME FormInv, NEW key \in Key, NEW pair \in Pair, Loaded(key, pair) \/ LoadFailed(key, pair)
    PROVE  FormInv'
<1>1. /\ result' = [result EXCEPT ![key] = pair] \/ result' = [result EXCEPT ![key] = None]
      /\ loading' = loading \ {<<key, pair>>}
      /\ UNCHANGED <<kind, phase, godown, invoice, lines, keys, pick, overtaken, input, touched>>
  BY DEF Loaded, LoadFailed
<1>2. result' \in [Key -> Pair \cup {None}] /\ loading' \subseteq Key \X Pair
  BY <1>1 DEF FormInv, TypeOK
<1>3. TypeOK'
  BY <1>1, <1>2 DEF FormInv, TypeOK
<1>4. PickFits' /\ RowsFit' /\ AcceptedFollows'
  BY <1>1 DEF FormInv, PickFits, RowsFit, AcceptedFollows
<1>5. QED
  BY <1>3, <1>4 DEF FormInv

\* A line of a receipt or a return.
LEMMA InputChanged ==
    ASSUME FormInv, input' \in [Shown -> Input], touched' \subseteq Shown, AcceptedFollows',
           UNCHANGED <<kind, phase, godown, invoice, lines, keys, result, loading, pick, overtaken>>
    PROVE  FormInv'
<1>1. TypeOK'
  BY DEF FormInv, TypeOK
<1>2. PickFits' /\ RowsFit'
  BY DEF FormInv, PickFits, RowsFit
<1>3. QED
  BY <1>1, <1>2 DEF FormInv

LEMMA TypeReceivedStep ==
    ASSUME FormInv, NEW l \in Shown, NEW text \in Text \cup {None}, TypeReceived(l, text)
    PROVE  FormInv'
<1> DEFINE new == [received |-> text,
                   accepted |-> IF kind = "RECEIPT" /\ Follows(input[l]) THEN text ELSE input[l].accepted]
<1>1. /\ input' = [input EXCEPT ![l] = new] /\ touched' = touched
      /\ UNCHANGED <<kind, phase, godown, invoice, lines, keys, result, loading, pick, overtaken>>
  BY DEF TypeReceived
<1>2. input \in [Shown -> Input] /\ touched \subseteq Shown
  BY DEF FormInv, TypeOK
<1>3. new \in Input /\ new.received = text
      /\ new.accepted = (IF kind = "RECEIPT" /\ Follows(input[l]) THEN text ELSE input[l].accepted)
  BY <1>2 DEF Input
<1> HIDE DEF new
<1>4. input' \in [Shown -> Input] /\ touched' \subseteq Shown
  BY <1>1, <1>2, <1>3
<1>5. AcceptedFollows'
  <2> SUFFICES ASSUME NEW m \in Shown \ touched, kind = "RECEIPT"
               PROVE  input'[m].accepted = input'[m].received
    BY <1>1 DEF AcceptedFollows
  <2>1. input[m].accepted = input[m].received
    BY DEF FormInv, AcceptedFollows
  <2>2. CASE m = l
    BY <1>1, <1>2, <1>3, <2>1, <2>2 DEF Follows
  <2>3. CASE m # l
    BY <1>1, <1>2, <2>1, <2>3
  <2>4. QED
    BY <2>2, <2>3
<1>6. QED
  BY <1>1, <1>4, <1>5, InputChanged

LEMMA TypeAcceptedStep ==
    ASSUME FormInv, NEW l \in Shown, NEW text \in Text \cup {None}, TypeAccepted(l, text)
    PROVE  FormInv'
<1>1. /\ input' = [input EXCEPT ![l].accepted = text] /\ touched' = touched \cup {l}
      /\ UNCHANGED <<kind, phase, godown, invoice, lines, keys, result, loading, pick, overtaken>>
  BY DEF TypeAccepted
<1>2. input \in [Shown -> Input] /\ touched \subseteq Shown
  BY DEF FormInv, TypeOK
<1>3. input' \in [Shown -> Input] /\ touched' \subseteq Shown
  <2>1. [input[l] EXCEPT !.accepted = text] \in Input
    BY <1>2 DEF Input
  <2>2. QED
    BY <1>1, <1>2, <2>1
<1>4. AcceptedFollows'
  <2> SUFFICES ASSUME NEW m \in Shown \ (touched \cup {l}), kind = "RECEIPT"
               PROVE  input'[m].accepted = input'[m].received
    BY <1>1 DEF AcceptedFollows
  <2>1. input[m].accepted = input[m].received
    BY DEF FormInv, AcceptedFollows
  <2>2. QED
    BY <1>1, <1>2, <2>1
<1>5. QED
  BY <1>1, <1>3, <1>4, InputChanged

\* Sending, and the answer of the server: nothing of the form changes.
LEMMA PhaseStep ==
    ASSUME FormInv, phase' \in {"EDITING", "PENDING", "DONE"}, UNCHANGED <<kind, edited>>
    PROVE  FormInv'
<1>1. UNCHANGED <<kind, godown, invoice, lines, keys, result, loading, pick, overtaken, input, touched>>
  BY DEF edited
<1>2. TypeOK'
  BY <1>1 DEF FormInv, TypeOK
<1>3. PickFits' /\ RowsFit' /\ AcceptedFollows'
  BY <1>1 DEF FormInv, PickFits, RowsFit, AcceptedFollows
<1>4. QED
  BY <1>2, <1>3 DEF FormInv

LEMMA SubmitStep ==
    ASSUME FormInv,
           \/ SubmitDispatch \/ SubmitTransfer \/ SubmitAdjustment \/ SubmitOrder \/ SubmitInvoice
           \/ SubmitOpening \/ SubmitReceipt \/ SubmitReturn \/ Rejected
    PROVE  FormInv'
<1>1. phase' \in {"EDITING", "PENDING", "DONE"} /\ UNCHANGED <<kind, edited>>
  BY DEF SubmitDispatch, SubmitTransfer, SubmitAdjustment, SubmitOrder, SubmitInvoice, SubmitOpening,
         SubmitReceipt, SubmitReturn, Submit, Rejected
<1>2. QED
  BY <1>1, PhaseStep

LEMMA GoneStep == ASSUME FormInv, Gone PROVE FormInv'
<1> DEFINE F == Fitting(kind, godown, None, FALSE)
           new == Fresh(1)
<1>1. /\ phase' = "DONE" /\ invoice' = None /\ lines' = <<new>> /\ keys' = 1
      /\ result' = [key \in Key |-> None] /\ loading' = {}
      /\ pick' = NoPick /\ overtaken' = FALSE
      /\ input' = [l \in Shown |-> Blank] /\ touched' = {}
      /\ UNCHANGED <<kind, godown>>
  BY DEF Gone
<1>2. MaxLines \in Nat \ {0} /\ 1 \in Key /\ 1 \in 1..MaxLines /\ MaxKeys \in Nat
  BY FormsAssumption DEF Key
<1>3. new \in F /\ new \in Line
  BY <1>2, FreshFits DEF Fitting
<1> HIDE DEF F, new
<1>4. lines' \in Seq(F) /\ lines' \in Seq(Line) /\ Len(lines') = 1
  BY <1>1, <1>3
<1>5. pick'.key \in 0..MaxKeys /\ pick'.lines \in Seq(Line)
  BY <1>1, <1>2 DEF NoPick
<1>6. input' \in [Shown -> Input] /\ touched' \subseteq Shown
  BY <1>1 DEF Blank, Input
<1>7. TypeOK'
  <2>1. result' \in [Key -> Pair \cup {None}] /\ loading' \subseteq Key \X Pair
    BY <1>1
  <2>2. QED
    BY <1>1, <1>2, <1>4, <1>5, <1>6, <2>1 DEF FormInv, TypeOK
<1>8. RowsFit'
  BY <1>1, <1>4 DEF RowsFit, F
<1>9. PickFits' /\ AcceptedFollows'
  BY <1>1 DEF PickFits, AcceptedFollows, Blank
<1>10. QED
  BY <1>7, <1>8, <1>9 DEF FormInv

LEMMA ReceiptPostedStep == ASSUME FormInv, ReceiptPosted PROVE FormInv'
<1>1. /\ phase' \in {"EDITING", "PENDING", "DONE"}
      /\ input' = [l \in Shown |-> Blank] /\ touched' = {}
      /\ UNCHANGED <<kind, godown, invoice, lines, keys, result, loading, pick, overtaken>>
  BY DEF ReceiptPosted
<1>2. input' \in [Shown -> Input] /\ touched' \subseteq Shown
  BY <1>1 DEF Blank, Input
<1>3. TypeOK'
  BY <1>1, <1>2 DEF FormInv, TypeOK
<1>4. PickFits' /\ RowsFit' /\ AcceptedFollows'
  BY <1>1 DEF FormInv, PickFits, RowsFit, AcceptedFollows, Blank
<1>5. QED
  BY <1>3, <1>4 DEF FormInv

LEMMA FormStutter == ASSUME FormInv, UNCHANGED vars PROVE FormInv'
<1>1. /\ phase' \in {"EDITING", "PENDING", "DONE"}
      /\ UNCHANGED <<kind, edited>>
  BY DEF vars, FormInv, TypeOK
<1>2. QED
  BY <1>1, PhaseStep

LEMMA FormNext == ASSUME FormInv, Next PROVE FormInv'
<1>1. ASSUME NEW key \in Key, NEW pair \in Pair, Loaded(key, pair) \/ LoadFailed(key, pair)
      PROVE  FormInv'
  BY <1>1, LoadStep
<1>2. ASSUME NEW n \in DOMAIN lines,
             BatchLine(n) \/ AdjustmentLine(n) \/ PricedLine(n) \/ OpeningLine(n)
      PROVE  FormInv'
  <2>1. \/ \E sku \in Sku \cup {None} : SelectSku(n, sku)
        \/ \E choice \in Choice \cup {None} : SelectBatch(n, choice) \/ SelectUnit(n, choice)
        \/ AskPick(n) \/ RemoveLine(n) \/ SelectDirection(n)
    BY <1>2 DEF BatchLine, AdjustmentLine, PricedLine, OpeningLine
  <2>2. QED
    BY <2>1, SelectSkuStep, SelectBatchStep, SelectUnitStep, AskPickStep, RemoveLineStep,
       SelectDirectionStep
<1>3. CASE AddLine
  BY <1>3, AddLineStep
<1>4. ASSUME NEW g \in Godown, SelectGodown(g) PROVE FormInv'
  BY <1>4, SelectGodownStep
<1>5. ASSUME NEW i \in Invoice \cup {None}, SelectInvoice(i) PROVE FormInv'
  BY <1>5, SelectInvoiceStep
<1>6. ASSUME NEW picked \in Picked(keys + 1), PickAnswered(picked) PROVE FormInv'
  BY <1>6, PickAnsweredStep
<1>7. CASE PickFailed
  BY <1>7, PickFailedStep
<1>8. ASSUME NEW l \in Shown, ReceiptLine(l) \/ ReturnLine(l) PROVE FormInv'
  <2>1. \E text \in Text \cup {None} : TypeReceived(l, text) \/ TypeAccepted(l, text)
    BY <1>8 DEF ReceiptLine, ReturnLine
  <2>2. QED
    BY <2>1, TypeReceivedStep, TypeAcceptedStep
<1>9. CASE \/ SubmitDispatch \/ SubmitTransfer \/ SubmitAdjustment \/ SubmitOrder \/ SubmitInvoice
           \/ SubmitOpening \/ SubmitReceipt \/ SubmitReturn \/ Rejected
  BY <1>9, SubmitStep
<1>10. CASE Posted \/ SignedOut
  BY <1>10, GoneStep DEF Posted, SignedOut
<1>11. CASE ReceiptPosted
  BY <1>11, ReceiptPostedStep
<1>12. QED
  BY <1>1, <1>2, <1>3, <1>4, <1>5, <1>6, <1>7, <1>8, <1>9, <1>10, <1>11 DEF Next

\* What a row offers and holds fits the form.
LEMMA FitIsEnough == FormInv => ChoicesBelong
<1> SUFFICES ASSUME FormInv, NEW n \in DOMAIN lines
             PROVE  LET line == lines[n]
                    IN  /\ kind \in Batched => \A pair \in Asks(line, godown) :
                              /\ ToSet(Current(line)) \subseteq ToSet(Available[pair])
                              /\ ~overtaken /\ line.choice # None => line.choice \in ToSet(Available[pair])
                        /\ kind \in Priced /\ line.choice # None => line.choice \in Units[line.sku]
                        /\ ~overtaken /\ invoice # None /\ line.sku # None => line.sku \in OnInvoice[invoice]
  BY DEF ChoicesBelong
<1> DEFINE line == lines[n]
<1>1. Fits(kind, godown, invoice, overtaken, line)
  BY RowIs
<1> HIDE DEF line
<1>2. ASSUME kind \in Batched, NEW pair \in Asks(line, godown)
      PROVE  /\ ToSet(Current(line)) \subseteq ToSet(Available[pair])
             /\ ~overtaken /\ line.choice # None => line.choice \in ToSet(Available[pair])
  <2>1. pair = <<line.sku, godown>> /\ line.decrease /\ line.sku # None
    BY <1>2 DEF Asks
  <2>2. ASSUME NEW choice \in ToSet(Current(line)) PROVE choice \in ToSet(Available[pair])
    BY <2>1, <2>2, OptionsAre
  <2>3. ~overtaken /\ line.choice # None => line.choice \in ToSet(Available[pair])
    BY <1>1, <1>2, <2>1 DEF Fits
  <2>4. QED
    BY <2>2, <2>3
<1>3. /\ kind \in Priced /\ line.choice # None => line.choice \in Units[line.sku]
      /\ ~overtaken /\ invoice # None /\ line.sku # None => line.sku \in OnInvoice[invoice]
  BY <1>1 DEF Fits
<1>4. QED
  BY <1>2, <1>3 DEF line

-----------------------------------------------------------------------------
(***************************************************************************)
(* The dialogs: what each component does, and the inductive invariant.     *)
(***************************************************************************)

\* Opening forgets the last error, but for a reversal's and where nothing opens; what
\* is never closed does not close on success; what is refused is shown beside its
\* field, or told.
WellMade(d) ==
    /\ d.forgets \/ d = ReverseEntryButton \/ Inline(d)
    /\ Inline(d) => "CLOSE" \notin d.then
    /\ d.alerts \/ d.refused \subseteq d.marks

LEMMA EditorsWellMade ==
    ASSUME NEW e \in BOOLEAN
    PROVE  /\ WellMade(SkuFormDialog(e)) /\ WellMade(GodownFormDialog(e))
           /\ WellMade(PartyFormDialog(e)) /\ WellMade(UserFormDialog(e))
           /\ WellMade(ReorderRuleDialog(e)) /\ WellMade(SkuUnitsDialog(e))
<1>1. WellMade(SkuFormDialog(e))
  BY DEF WellMade, Inline, SkuFormDialog, Editor, Component, SkuSchema
<1>2. WellMade(GodownFormDialog(e))
  BY DEF WellMade, Inline, GodownFormDialog, Editor, Component, GodownSchema
<1>3. WellMade(PartyFormDialog(e))
  BY DEF WellMade, Inline, PartyFormDialog, Editor, Component, PartySchema
<1>4. WellMade(UserFormDialog(e))
  BY DEF WellMade, Inline, UserFormDialog, Editor, Component, UserSchema
<1>5. WellMade(ReorderRuleDialog(e))
  BY DEF WellMade, Inline, ReorderRuleDialog, Editor, Component, ReorderRuleSchema
<1>6. WellMade(SkuUnitsDialog(e))
  BY DEF WellMade, Inline, SkuUnitsDialog, Component, SkuUnitSchema
<1>7. QED
  BY <1>1, <1>2, <1>3, <1>4, <1>5, <1>6

LEMMA ComponentsWellMade == ASSUME NEW d \in Dialog PROVE WellMade(d)
<1>1. \/ \E e \in BOOLEAN : d \in {SkuFormDialog(e), GodownFormDialog(e), PartyFormDialog(e),
                                   UserFormDialog(e), ReorderRuleDialog(e), SkuUnitsDialog(e)}
      \/ d \in {CsvImportDialog, ResetPasswordDialog, ReasonActionButton, ReverseEntryButton,
                UomForm, CategoryForm, CategoryToggleButton, ChangePasswordForm, LoginForm,
                AdjustmentReview, RunTallySyncButton, RetryTallyJobButton}
  <2> DEFINE Edits(e) == {SkuFormDialog(e), GodownFormDialog(e), PartyFormDialog(e),
                          UserFormDialog(e), ReorderRuleDialog(e), SkuUnitsDialog(e)}
             Others == {CsvImportDialog, ResetPasswordDialog, ReasonActionButton, ReverseEntryButton,
                        UomForm, CategoryForm, CategoryToggleButton, ChangePasswordForm, LoginForm,
                        AdjustmentReview, RunTallySyncButton, RetryTallyJobButton}
             Editors == UNION {Edits(e) : e \in BOOLEAN}
  <2>1. Dialog = Editors \cup Others
    BY DEF Dialog
  <2>2. ASSUME d \in Editors PROVE \E e \in BOOLEAN : d \in Edits(e)
    <3> HIDE DEF Edits
    <3>1. PICK S \in {Edits(e) : e \in BOOLEAN} : d \in S
      BY <2>2
    <3>2. PICK e \in BOOLEAN : S = Edits(e)
      OBVIOUS
    <3>3. QED
      BY <3>1, <3>2
  <2>3. d \in Editors \/ d \in Others
    <3> HIDE DEF Editors, Others
    <3>1. QED
      BY <2>1
  <2> HIDE DEF Editors, Edits, Others
  <2>4. (\E e \in BOOLEAN : d \in Edits(e)) \/ d \in Others
    BY <2>2, <2>3
  <2>5. QED
    BY <2>4 DEF Edits, Others
<1>2. ASSUME NEW e \in BOOLEAN,
             d \in {SkuFormDialog(e), GodownFormDialog(e), PartyFormDialog(e),
                    UserFormDialog(e), ReorderRuleDialog(e), SkuUnitsDialog(e)}
      PROVE  WellMade(d)
  BY <1>2, EditorsWellMade
<1>3. WellMade(CsvImportDialog) /\ WellMade(ResetPasswordDialog)
  BY DEF WellMade, Inline, CsvImportDialog, ResetPasswordDialog, Component
<1>4. WellMade(ReasonActionButton)
  BY DEF WellMade, Inline, ReasonActionButton, Component
<1>5. WellMade(ReverseEntryButton)
  BY DEF WellMade, Inline, ReverseEntryButton, Component
<1>6. WellMade(UomForm) /\ WellMade(CategoryForm) /\ WellMade(CategoryToggleButton)
  BY DEF WellMade, Inline, UomForm, CategoryForm, CategoryToggleButton, Component
<1>7. WellMade(ChangePasswordForm)
  BY DEF WellMade, Inline, ChangePasswordForm, Component, PasswordChangeSchema
<1>8. WellMade(LoginForm)
  BY DEF WellMade, Inline, LoginForm, Component, LoginSchema
<1>9. WellMade(AdjustmentReview) /\ WellMade(RunTallySyncButton) /\ WellMade(RetryTallyJobButton)
  BY DEF WellMade, Inline, AdjustmentReview, RunTallySyncButton, RetryTallyJobButton, Component
<1>10. QED
  BY <1>1, <1>2, <1>3, <1>4, <1>5, <1>6, <1>7, <1>8, <1>9

DialogTypes ==
    /\ dialog \in Dialog \cup {NoDialog}
    /\ sent \in Nat /\ since \in Nat /\ error.of \in Nat
    /\ open \in BOOLEAN

\* A page without a dialog has nothing of one; what is never closed is open.
Mounting ==
    /\ dialog = NoDialog =>
          request = NoRequest /\ error = NoError /\ sent = 0 /\ since = 0 /\ done = 0
    /\ dialog # NoDialog /\ Inline(dialog) => open

\* A request that is not answered was sent after the answers that came before the
\* dialog was opened; one carried out is recorded.
Sending ==
    /\ since <= sent
    /\ request # NoRequest => since < sent
    /\ request.phase = "CARRIED" => sent \in carried

\* Whether it is open or not, the form holds what its user saw or will see, and an
\* error is of a kind that is seen.
Telling ==
    /\ form = holds
    /\ error.seen
    /\ open => error.of > since \/ error = NoError \/ dialog = ReverseEntryButton
    /\ open /\ done # 0 => done \in carried /\ done > since

DialogInv == DialogTypes /\ Mounting /\ Sending /\ Telling

LEMMA DialogInit == ASSUME NEW d \in Dialog \cup {NoDialog}, Mounted(d) PROVE DialogInv
<1>1. /\ dialog = d /\ open = (d # NoDialog /\ Inline(d))
      /\ form = holds /\ request = NoRequest /\ sent = 0 /\ error = NoError /\ done = 0 /\ since = 0
  BY DEF Mounted
<1>2. NoError.seen /\ NoError.of = 0 /\ NoRequest.phase # "CARRIED"
  BY DEF NoError, NoRequest
<1>3. open \in BOOLEAN
  BY <1>1
<1>4. DialogTypes
  BY <1>1, <1>2, <1>3 DEF DialogTypes
<1>5. Mounting
  BY <1>1 DEF Mounting
<1>6. Sending /\ Telling
  BY <1>1, <1>2 DEF Sending, Telling
<1>7. QED
  BY <1>4, <1>5, <1>6 DEF DialogInv

LEMMA DialogStutter == ASSUME DialogInv, UNCHANGED dialogVars PROVE DialogInv'
BY DEF dialogVars, DialogInv, DialogTypes, Mounting, Sending, Telling

\* The steps of a dialog that stays on its page.
Stays == dialog # NoDialog /\ dialog' = dialog

LEMMA PageStep ==
    ASSUME DialogInv, Stays,
           Refresh \/ \E content \in Content : OthersSave(content) \/ Type(content)
    PROVE  DialogInv'
<1>1. /\ form' = holds'
      /\ UNCHANGED <<dialog, open, request, sent, error, done, since, carried>>
  BY DEF Refresh, OthersSave, Type, DialogInv, Telling
<1>2. QED
  BY <1>1 DEF DialogInv, DialogTypes, Mounting, Sending, Telling, Stays

LEMMA OpenStep == ASSUME DialogInv, Stays, OpenDialog PROVE DialogInv'
<1>1. /\ ~open /\ open' = TRUE /\ form' = holds' /\ done' = 0
      /\ error' = IF dialog.forgets THEN NoError ELSE error
      /\ since' = IF request = NoRequest THEN sent ELSE sent - 1
      /\ UNCHANGED <<dialog, request, sent, carried>>
  BY DEF OpenDialog, FormAtOpening, ErrorAtOpening
<1>2. dialog \in Dialog /\ dialog # NoDialog
  BY DEF DialogInv, DialogTypes, Stays
<1>3. dialog.forgets \/ dialog = ReverseEntryButton
  BY <1>1, <1>2, ComponentsWellMade DEF WellMade, DialogInv, Mounting
<1>4. NoError.seen /\ NoError.of = 0
  BY DEF NoError
<1>5. since' \in Nat /\ since' <= sent /\ (request # NoRequest => since' < sent)
  BY <1>1 DEF DialogInv, DialogTypes, Sending
<1>6. DialogTypes'
  BY <1>1, <1>2, <1>4, <1>5 DEF DialogInv, DialogTypes
<1>7. Mounting' /\ Sending'
  BY <1>1, <1>2, <1>5 DEF DialogInv, Mounting, Sending
<1>8. Telling'
  BY <1>1, <1>3, <1>4 DEF DialogInv, Telling
<1>9. QED
  BY <1>6, <1>7, <1>8 DEF DialogInv

LEMMA CloseStep == ASSUME DialogInv, Stays, CloseDialog PROVE DialogInv'
<1>1. /\ ~Inline(dialog) /\ open' = FALSE
      /\ UNCHANGED <<dialog, form, holds, request, sent, error, done, since, carried>>
  BY DEF CloseDialog
<1>2. QED
  BY <1>1 DEF DialogInv, DialogTypes, Mounting, Sending, Telling, Stays

LEMMA SendStep == ASSUME DialogInv, Stays, SubmitDialog \/ PasswordsDiffer PROVE DialogInv'
<1>1. CASE SubmitDialog
  <2>1. /\ request'.phase = "SENT" /\ sent' = sent + 1 /\ error' = NoError
        /\ (done' = 0 \/ done' = done)
        /\ UNCHANGED <<dialog, open, form, holds, since, carried>>
    BY <1>1 DEF SubmitDialog
  <2>2. NoError.seen /\ NoError.of = 0
    BY DEF NoError
  <2>3. QED
    BY <2>1, <2>2 DEF DialogInv, DialogTypes, Mounting, Sending, Telling, Stays
<1>2. CASE PasswordsDiffer
  <2>1. /\ done' = 0
        /\ UNCHANGED <<dialog, open, form, holds, request, sent, error, since, carried>>
    BY <1>2 DEF PasswordsDiffer
  <2>2. QED
    BY <2>1 DEF DialogInv, DialogTypes, Mounting, Sending, Telling, Stays
<1>3. QED
  BY <1>1, <1>2

LEMMA CarryStep == ASSUME DialogInv, Stays, Carry \/ RefuseRequest PROVE DialogInv'
<1>1. /\ request.phase = "SENT"
      /\ \/ request' = [request EXCEPT !.phase = "CARRIED"] /\ carried' = carried \cup {sent}
         \/ request' = [request EXCEPT !.phase = "REFUSED"] /\ carried' = carried
      /\ UNCHANGED <<dialog, open, form, holds, sent, error, done, since>>
  BY DEF Carry, RefuseRequest
<1>2. request # NoRequest
  BY <1>1 DEF NoRequest
<1>3. since < sent
  BY <1>2 DEF DialogInv, Sending
<1>4. request'.phase = "CARRIED" => sent \in carried'
  <2>1. CASE request' = [request EXCEPT !.phase = "CARRIED"] /\ carried' = carried \cup {sent}
    BY <2>1
  <2>2. CASE request' = [request EXCEPT !.phase = "REFUSED"] /\ carried' = carried
    BY <1>1, <2>2 DEF DialogInv, Sending
  <2>3. QED
    BY <1>1, <2>1, <2>2
<1>5. carried \subseteq carried'
  BY <1>1
<1>6. QED
  BY <1>1, <1>3, <1>4, <1>5 DEF DialogInv, DialogTypes, Mounting, Sending, Telling, Stays

LEMMA SucceededStep == ASSUME DialogInv, Stays, Succeeded PROVE DialogInv'
<1>1. /\ request.phase = "CARRIED" /\ request' = NoRequest
      /\ open' = (open /\ "CLOSE" \notin dialog.then)
      /\ form' = (IF "CLEAR" \in dialog.then THEN Nothing ELSE form)
      /\ holds' = (IF "CLEAR" \in dialog.then THEN Nothing ELSE holds)
      /\ (done' = sent \/ done' = done)
      /\ UNCHANGED <<dialog, sent, error, since, carried>>
  BY DEF Succeeded
<1>2. request # NoRequest /\ NoRequest.phase # "CARRIED"
  BY <1>1 DEF NoRequest
<1>3. dialog \in Dialog /\ dialog # NoDialog
  BY DEF DialogInv, DialogTypes, Stays
<1>4. Inline(dialog) => "CLOSE" \notin dialog.then
  BY <1>3, ComponentsWellMade DEF WellMade
<1>5. since < sent /\ sent \in carried
  BY <1>1, <1>2 DEF DialogInv, Sending
<1>6. form' = holds'
  BY <1>1 DEF DialogInv, Telling
<1>7. DialogTypes' /\ Sending'
  BY <1>1, <1>2 DEF DialogInv, DialogTypes, Sending
<1>8. Mounting'
  BY <1>1, <1>3, <1>4 DEF DialogInv, Mounting
<1>9. Telling'
  BY <1>1, <1>5, <1>6 DEF DialogInv, Telling
<1>10. QED
  BY <1>7, <1>8, <1>9 DEF DialogInv

LEMMA SignedInStep == ASSUME DialogInv, SignedIn PROVE DialogInv'
<1>1. /\ dialog' = NoDialog /\ open' = FALSE /\ form' = Nothing /\ holds' = Nothing
      /\ request' = NoRequest /\ sent' = 0 /\ error' = NoError /\ done' = 0 /\ since' = 0
  BY DEF SignedIn
<1>2. NoError.seen /\ NoError.of = 0 /\ NoRequest.phase # "CARRIED"
  BY DEF NoError, NoRequest
<1>3. DialogTypes'
  <2>1. error'.of \in Nat /\ sent' \in Nat /\ since' \in Nat
    BY <1>1, <1>2
  <2>2. open' \in BOOLEAN
    BY <1>1
  <2>3. dialog' \in Dialog \cup {NoDialog}
    BY <1>1
  <2>4. QED
    BY <2>1, <2>2, <2>3 DEF DialogTypes
<1>4. Mounting' /\ Sending' /\ Telling'
  BY <1>1, <1>2 DEF Mounting, Sending, Telling
<1>5. QED
  BY <1>3, <1>4 DEF DialogInv

\* An error is of the request just answered, and seen.
LEMMA FailedStep == ASSUME DialogInv, Stays, Failed \/ AnswerLost PROVE DialogInv'
<1>1. dialog \in Dialog /\ dialog # NoDialog
  BY DEF DialogInv, DialogTypes, Stays
<1>2. request # NoRequest
  <2>1. NoRequest.phase # "REFUSED"
    BY DEF NoRequest
  <2>2. request.phase = "REFUSED" \/ request # NoRequest
    BY DEF Failed, AnswerLost
  <2>3. QED
    BY <2>1, <2>2
<1>3. since < sent
  BY <1>2 DEF DialogInv, Sending
<1>4. PICK field \in dialog.refused \cup {""} : error' = ErrorShown(field)
  BY DEF Failed, AnswerLost
<1>5. Seen(dialog, field)
  BY <1>1, ComponentsWellMade DEF WellMade, Seen
<1>6. error'.of = sent /\ error'.seen
  BY <1>4, <1>5 DEF ErrorShown
<1>7. /\ request' = NoRequest
      /\ UNCHANGED <<dialog, open, form, holds, sent, done, since, carried>>
  BY DEF Failed, AnswerLost
<1>8. NoRequest.phase # "CARRIED"
  BY DEF NoRequest
<1>9. QED
  BY <1>1, <1>3, <1>6, <1>7, <1>8 DEF DialogInv, DialogTypes, Mounting, Sending, Telling

LEMMA DialogStep == ASSUME DialogInv, DialogNext PROVE DialogInv'
<1>1. CASE SignedIn
  BY <1>1, SignedInStep
<1>2. CASE ~SignedIn
  <2>1. Stays
    BY <1>2 DEF Stays, DialogNext, OthersSave, Type, Refresh, OpenDialog, CloseDialog, SubmitDialog,
             PasswordsDiffer, Carry, RefuseRequest, Succeeded, Failed, AnswerLost
  <2>2. QED
    BY <1>2, <2>1, PageStep, OpenStep, CloseStep, SendStep, CarryStep, SucceededStep, FailedStep
       DEF DialogNext
<1>3. QED
  BY <1>1, <1>2

\* The types of what a dialog keeps, in three parts.
ContentTypes == {form, holds, page, row} \subseteq Content \cup {Nothing}

RequestTypes ==
    request \in [phase : {"NONE", "SENT", "CARRIED", "REFUSED"}, body : Content \cup {Nothing}]

CountTypes ==
    /\ {sent, done, since} \subseteq 0..MaxSent
    /\ error \in [of : 0..MaxSent, seen : BOOLEAN]
    /\ carried \subseteq 1..MaxSent

LEMMA DialogTypeParts ==
    DialogTypeOK <=> /\ dialog \in Dialog \cup {NoDialog} /\ open \in BOOLEAN
                     /\ ContentTypes /\ RequestTypes /\ CountTypes
BY DEF DialogTypeOK, ContentTypes, RequestTypes, CountTypes

LEMMA NoneTypes ==
    /\ NoRequest \in [phase : {"NONE", "SENT", "CARRIED", "REFUSED"}, body : Content \cup {Nothing}]
    /\ NoError \in [of : 0..MaxSent, seen : BOOLEAN]
BY DialogsAssumption DEF NoRequest, NoError

LEMMA DialogTypeInit == ASSUME NEW d \in Dialog \cup {NoDialog}, Mounted(d) PROVE ContentTypes /\ RequestTypes /\ CountTypes
<1>1. /\ row \in RowsOf(d) /\ page = row /\ form = Nothing /\ holds = Nothing
      /\ request = NoRequest /\ sent = 0 /\ error = NoError /\ done = 0 /\ since = 0 /\ carried = {}
  BY DEF Mounted
<1>2. RowsOf(d) \subseteq Content \cup {Nothing}
  BY DEF RowsOf
<1>3. 0 \in 0..MaxSent
  BY DialogsAssumption
<1>4. QED
  BY <1>1, <1>2, <1>3, NoneTypes DEF ContentTypes, RequestTypes, CountTypes

LEMMA ContentStep == ASSUME ContentTypes, RequestTypes, DialogNext PROVE ContentTypes'
<1>1. /\ row' \in Content \/ row' \in {row, request.body}
      /\ page' \in {page, row}
      /\ form' \in Content \/ form' \in {form, page, Nothing}
      /\ holds' \in Content \/ holds' \in {form, holds, page, Nothing}
  <2>1. ASSUME NEW content \in Content, OthersSave(content) \/ Type(content)
        PROVE  /\ row' \in Content \/ row' \in {row, request.body}
               /\ page' \in {page, row}
               /\ form' \in Content \/ form' \in {form, page, Nothing}
               /\ holds' \in Content \/ holds' \in {form, holds, page, Nothing}
    BY <2>1 DEF OthersSave, Type
  <2>2. CASE Refresh \/ OpenDialog \/ CloseDialog \/ SubmitDialog \/ PasswordsDiffer
    BY <2>2 DEF Refresh, OpenDialog, FormAtOpening, CloseDialog, SubmitDialog, PasswordsDiffer
  <2>3. CASE Carry \/ RefuseRequest \/ Succeeded \/ SignedIn \/ Failed \/ AnswerLost
    BY <2>3 DEF Carry, RefuseRequest, Succeeded, SignedIn, Failed, AnswerLost
  <2>4. QED
    BY <2>1, <2>2, <2>3 DEF DialogNext
<1>2. request.body \in Content \cup {Nothing}
  BY DEF RequestTypes
<1>3. QED
  BY <1>1, <1>2 DEF ContentTypes

LEMMA RequestStep == ASSUME ContentTypes, RequestTypes, DialogNext PROVE RequestTypes'
<1> DEFINE R == [phase : {"NONE", "SENT", "CARRIED", "REFUSED"}, body : Content \cup {Nothing}]
<1>1. \/ request' = request \/ request' = NoRequest \/ request' = [phase |-> "SENT", body |-> form]
      \/ request' = [request EXCEPT !.phase = "CARRIED"]
      \/ request' = [request EXCEPT !.phase = "REFUSED"]
  BY DEF DialogNext, OthersSave, Type, Refresh, OpenDialog, CloseDialog, SubmitDialog,
         PasswordsDiffer, Carry, RefuseRequest, Succeeded, SignedIn, Failed, AnswerLost
<1>2. request \in R /\ form \in Content \cup {Nothing} /\ NoRequest \in R
  BY NoneTypes DEF RequestTypes, ContentTypes
<1>3. request' \in R
  BY <1>1, <1>2
<1>4. QED
  BY <1>3 DEF RequestTypes

LEMMA CountStep == ASSUME CountTypes, DialogInv, DialogNext PROVE CountTypes'
<1> DEFINE Upto == 0..MaxSent
           E == [of : Upto, seen : BOOLEAN]
<1>1. /\ sent \in Upto /\ done \in Upto /\ since \in Upto /\ error \in E
      /\ carried \subseteq 1..MaxSent /\ MaxSent \in Nat
  BY DialogsAssumption DEF CountTypes
<1>2. request # NoRequest => sent \in 1..MaxSent
  BY <1>1 DEF DialogInv, Sending, DialogTypes
<1>3. NoError \in E
  BY NoneTypes
<1>4. ASSUME NEW field PROVE ErrorShown(field) \in E
  BY <1>1 DEF ErrorShown, Seen
<1>5. sent' \in Upto
  <2>1. sent' = sent \/ sent' = 0 \/ (sent' = sent + 1 /\ sent < MaxSent)
    BY DEF DialogNext, OthersSave, Type, Refresh, OpenDialog, CloseDialog, SubmitDialog,
           PasswordsDiffer, Carry, RefuseRequest, Succeeded, SignedIn, Failed, AnswerLost
  <2>2. QED
    BY <1>1, <2>1
<1>6. since' \in Upto
  <2>1. since' \in {since, sent, 0} \/ (since' = sent - 1 /\ request # NoRequest)
    BY DEF DialogNext, OthersSave, Type, Refresh, OpenDialog, CloseDialog, SubmitDialog,
           PasswordsDiffer, Carry, RefuseRequest, Succeeded, SignedIn, Failed, AnswerLost
  <2>2. QED
    BY <1>1, <1>2, <2>1
<1>7. done' \in Upto
  <2>1. done' \in {done, sent, 0}
    BY DEF DialogNext, OthersSave, Type, Refresh, OpenDialog, CloseDialog, SubmitDialog,
           PasswordsDiffer, Carry, RefuseRequest, Succeeded, SignedIn, Failed, AnswerLost
  <2>2. QED
    BY <1>1, <2>1
<1>8. error' \in E
  <2>1. error' = error \/ error' = NoError \/ \E field : error' = ErrorShown(field)
    BY DEF DialogNext, OthersSave, Type, Refresh, OpenDialog, ErrorAtOpening, CloseDialog,
           SubmitDialog, PasswordsDiffer, Carry, RefuseRequest, Succeeded, SignedIn, Failed, AnswerLost
  <2> HIDE DEF E
  <2>2. QED
    BY <1>1, <1>3, <1>4, <2>1
<1>9. carried' \subseteq 1..MaxSent
  <2>1. carried' \in {carried, {}} \/ (carried' = carried \cup {sent} /\ request.phase = "SENT")
    BY DEF DialogNext, OthersSave, Type, Refresh, OpenDialog, CloseDialog, SubmitDialog,
           PasswordsDiffer, Carry, RefuseRequest, Succeeded, SignedIn, Failed, AnswerLost
  <2>2. request.phase = "SENT" => request # NoRequest
    BY DEF NoRequest
  <2>3. QED
    BY <1>1, <1>2, <2>1, <2>2
<1>10. QED
  BY <1>5, <1>6, <1>7, <1>8, <1>9 DEF CountTypes

DialogTyped == ContentTypes /\ RequestTypes /\ CountTypes

LEMMA DialogTypedStep == ASSUME DialogTyped, DialogInv, DialogNext PROVE DialogTyped'
BY ContentStep, RequestStep, CountStep DEF DialogTyped

LEMMA DialogTypedStutter == ASSUME DialogTyped, UNCHANGED dialogVars PROVE DialogTyped'
BY DEF DialogTyped, ContentTypes, RequestTypes, CountTypes, dialogVars

-----------------------------------------------------------------------------
(***************************************************************************)
(* A tab of the browser.                                                   *)
(***************************************************************************)

LEMMA ArriveStep ==
    ASSUME DialogInv, NEW d \in Dialog, Arrive(d)
    PROVE  DialogInv'
<1>1. /\ dialog = NoDialog /\ dialog' = d /\ open' = Inline(d)
      /\ UNCHANGED <<form, holds, request, sent, error, done, since, carried>>
  BY DEF Arrive
<1>2. request = NoRequest /\ error = NoError /\ sent = 0 /\ since = 0 /\ done = 0
  BY <1>1 DEF DialogInv, Mounting
<1>3. open' \in BOOLEAN
  BY <1>1 DEF Inline
<1>4. DialogTypes' /\ Sending' /\ Telling'
  BY <1>1, <1>2, <1>3 DEF DialogInv, DialogTypes, Sending, Telling
<1>5. Mounting'
  BY <1>1, <1>2 DEF Mounting
<1>6. QED
  BY <1>4, <1>5 DEF DialogInv

LEMMA ArriveTyped == ASSUME DialogTyped, NEW d, Arrive(d) PROVE DialogTyped'
BY DEF Arrive, DialogTyped, ContentTypes, RequestTypes, CountTypes

TabInv == FormInv /\ DialogInv /\ DialogTyped

LEMMA TabInitial == TabInit => TabInv
<1> SUFFICES ASSUME TabInit PROVE TabInv
  OBVIOUS
<1>1. Init /\ \E d \in Dialog \cup {NoDialog} : Mounted(d)
  BY DEF TabInit, OnForm, OnPage
<1>2. QED
  BY <1>1, FormInit, DialogInit, DialogTypeInit DEF TabInv, DialogTyped

LEMMA ButtonIsDialog == ButtonOf(kind) \in Dialog /\ LoginForm \in Dialog
<1>1. {ReasonActionButton, AdjustmentReview, ReverseEntryButton, LoginForm} \subseteq Dialog
  <2> DEFINE Others == {CsvImportDialog, ResetPasswordDialog, ReasonActionButton, ReverseEntryButton,
                        UomForm, CategoryForm, CategoryToggleButton, ChangePasswordForm, LoginForm,
                        AdjustmentReview, RunTallySyncButton, RetryTallyJobButton}
  <2>1. Others \subseteq Dialog
    BY DEF Dialog
  <2>2. {ReasonActionButton, AdjustmentReview, ReverseEntryButton, LoginForm} \subseteq Others
    OBVIOUS
  <2>3. QED
    BY <2>1, <2>2
<1>2. ButtonOf(kind) \in {ReasonActionButton, AdjustmentReview, ReverseEntryButton}
  BY DEF ButtonOf
<1>3. QED
  BY <1>1, <1>2

LEMMA TabStep == TabInv /\ [TabNext]_tab => TabInv'
<1> SUFFICES ASSUME TabInv, [TabNext]_tab PROVE TabInv'
  OBVIOUS
<1>1. FormInv /\ DialogInv /\ DialogTyped
  BY DEF TabInv
<1>2. CASE Next /\ UNCHANGED dialogVars
  BY <1>1, <1>2, FormNext, DialogStutter, DialogTypedStutter DEF TabInv
<1>3. CASE DialogNext /\ UNCHANGED vars
  BY <1>1, <1>3, FormStutter, DialogStep, DialogTypedStep DEF TabInv
<1>4. ASSUME NEW d \in Dialog, Arrive(d) PROVE TabInv'
  <2>1. UNCHANGED vars
    BY <1>4 DEF Arrive
  <2>2. QED
    BY <1>1, <1>4, <2>1, FormStutter, ArriveStep, ArriveTyped DEF TabInv
<1>5. CASE UNCHANGED tab
  <2>1. UNCHANGED vars /\ UNCHANGED dialogVars
    BY <1>5 DEF tab
  <2>2. QED
    BY <1>1, <2>1, FormStutter, DialogStutter, DialogTypedStutter DEF TabInv
<1>6. QED
  BY <1>2, <1>3, <1>4, <1>5, ButtonIsDialog DEF TabNext

\* A message that is kept is of a request not yet answered when the dialog was opened.
LEMMA TellingIsTruth == DialogInv => DialogsTellTheTruth
BY DEF DialogInv, Telling, DialogsTellTheTruth

-----------------------------------------------------------------------------
(***************************************************************************)
(* The theorems.                                                           *)
(***************************************************************************)

\* Whatever a tab's user does and whenever answers come, a form keeps between one row
\* and the bound, with keys that were given out, masters that exist or nothing, and
\* loads and picks of those; a dialog keeps content, requests and errors of its own
\* (the useState of dispatch-form.tsx and its siblings, useApiMutation).
THEOREM TabTypeCorrect == TabSpec => [](TypeOK /\ DialogTypeOK)
<1>1. TabInv => TypeOK /\ DialogTypeOK
  BY DialogTypeParts DEF TabInv, FormInv, DialogInv, DialogTypes, DialogTyped
<1>2. QED
  BY <1>1, TabInitial, TabStep, PTL DEF TabSpec

\* A row offers and holds only batches of its SKU in the form's godown, units of its
\* SKU and SKUs of the invoice, unless a pick was overtaken, for any masters, rows,
\* and answers to loads and picks in any order (dispatch-form.tsx:71,
\* available-batch-select.tsx).
THEOREM ChoicesBelongHolds == TabSpec => []ChoicesBelong
<1>1. TabInv => ChoicesBelong
  BY FitIsEnough DEF TabInv
<1>2. QED
  BY <1>1, TabInitial, TabStep, PTL DEF TabSpec

\* Every line of a receipt whose accepted quantity was left alone accepts what is
\* received, for any number of lines and corrections (receive-goods-form.tsx:70).
THEOREM AcceptedFollowsHolds == TabSpec => []AcceptedFollows
<1>1. TabInv => AcceptedFollows
  BY DEF TabInv, FormInv
<1>2. QED
  BY <1>1, TabInitial, TabStep, PTL DEF TabSpec

\* Each of the dialogs shows nothing of an earlier use but what it means to, tells
\* every refusal, and reports as done only what was carried out, for any number of
\* requests and any content (the openDialog functions of the dialogs, use-api-mutation.ts).
THEOREM DialogsTellTheTruthHolds == TabSpec => []DialogsTellTheTruth
<1>1. TabInv => DialogsTellTheTruth
  BY TellingIsTruth DEF TabInv
<1>2. QED
  BY <1>1, TabInitial, TabStep, PTL DEF TabSpec

-----------------------------------------------------------------------------
(***************************************************************************)
(* Proofs about the live change feed, for any set of screens and any number *)
(* of failed attempts and lost connections.                                *)
(***************************************************************************)

\* While nobody watches there is neither a connection nor a timer, and whenever
\* a screen that was served has no connection, the loss is remembered.
Remembered ==
    /\ FeedTypeOK
    /\ IdleWhenUnwatched
    /\ client => missedLater = {}
    /\ (served # {} /\ ~client) => hadConnectionLoss

LEMMA InitRemembered == FeedInit => Remembered
<1> SUFFICES ASSUME FeedInit PROVE Remembered
    OBVIOUS
<1>1. failures \in 0..MaxFailures /\ losses \in 0..MaxLosses
      BY FeedAssumption DEF FeedInit, FeedAssumption
<1> QED BY <1>1 DEF FeedInit, Remembered, FeedTypeOK, IdleWhenUnwatched, Await

\* A reconnect is never scheduled for nobody.
LEMMA ReconnectScheduled ==
    ASSUME ScheduleReconnect
    PROVE  /\ reconnectTimer' \in BOOLEAN
           /\ (subscribers = {} /\ reconnectTimer') => reconnectTimer
BY Zenon DEF ScheduleReconnect

LEMMA NextRemembered == Remembered /\ [FeedNext]_feedVars => Remembered'
<1> SUFFICES ASSUME Remembered, [FeedNext]_feedVars PROVE Remembered'
    OBVIOUS
<1> USE FeedAssumption DEF Remembered, FeedTypeOK, IdleWhenUnwatched, Await, FeedAssumption
<1>1. CASE UNCHANGED feedVars
      BY <1>1 DEF feedVars
<1>2. ASSUME NEW b \in Screen, Subscribe(b) PROVE Remembered'
      BY <1>2 DEF Subscribe, EnsureConnected, bounds
<1>3. ASSUME NEW b \in Screen, Unsubscribe(b) PROVE Remembered'
  <2>1. CASE subscribers' = {}
        BY <1>3, <2>1 DEF Unsubscribe, Disconnect, bounds
  <2>2. CASE subscribers' # {}
        BY <1>3, <2>2 DEF Unsubscribe, bounds
  <2> QED BY <2>1, <2>2
<1>4. CASE Connected
      BY <1>4 DEF Connected, SomebodyIsLeft, bounds
<1>5. CASE EveryoneLeft
      BY <1>5 DEF EveryoneLeft, SomebodyIsLeft, bounds, screens
<1>6. CASE Ended
      BY <1>6 DEF Ended, bounds, screens
<1>7. CASE ConnectFails
      BY <1>7 DEF ConnectFails, screens
<1>8. CASE GaveUp
  <2>1. /\ reconnectTimer' \in BOOLEAN
        /\ (subscribers = {} /\ reconnectTimer') => reconnectTimer
        BY <1>8, ReconnectScheduled DEF GaveUp
  <2>2. /\ hadConnectionLoss' \in BOOLEAN
        /\ hadConnectionLoss => hadConnectionLoss'
        BY <1>8, Zenon DEF GaveUp
  <2> QED BY <1>8, <2>1, <2>2 DEF GaveUp, bounds, screens
<1>9. CASE ConnectionLost
  <2>1. /\ reconnectTimer' \in BOOLEAN
        /\ (subscribers = {} /\ reconnectTimer') => reconnectTimer
        BY <1>9, ReconnectScheduled DEF ConnectionLost
  <2>2. hadConnectionLoss' = TRUE
        BY <1>9 DEF ConnectionLost, LossNoticed
  <2>3. losses' \in 0..MaxLosses
        BY <1>9 DEF ConnectionLost
  <2>4. /\ client' = FALSE
        /\ UNCHANGED <<subscribers, connecting, served, missedFirst, missedLater, failures>>
        BY <1>9 DEF ConnectionLost, screens
  <2>5. FeedTypeOK'
        BY <2>1, <2>2, <2>3, <2>4
  <2>6. (subscribers = {} => ~client /\ ~reconnectTimer)'
        BY <2>1, <2>4
  <2> QED BY <2>2, <2>4, <2>5, <2>6
<1>10. CASE TimerFires
      BY <1>10 DEF TimerFires, EnsureConnected, bounds, screens
<1>11. CASE Change
      BY <1>11 DEF Change, bounds
<1> QED
    BY <1>1, <1>2, <1>3, <1>4, <1>5, <1>6, <1>7, <1>8, <1>9, <1>10, <1>11 DEF FeedNext

LEMMA AlwaysRemembered == FeedSpec => []Remembered
BY InitRemembered, NextRemembered, PTL DEF FeedSpec

\* One process never holds two listening connections, and its state is typed.
THEOREM FeedTypeCorrect == FeedSpec => []FeedTypeOK
<1>1. Remembered => FeedTypeOK
      BY DEF Remembered
<1> QED BY <1>1, AlwaysRemembered, PTL

\* A process nobody watches keeps neither a connection nor a timer, however
\* leaving, connecting and losing the connection overlap.
THEOREM IdleWhenUnwatchedHolds == FeedSpec => []IdleWhenUnwatched
<1>1. Remembered => IdleWhenUnwatched
      BY DEF Remembered
<1> QED BY <1>1, AlwaysRemembered, PTL

\* No screen that was on the feed before misses a change once the feed is back.
THEOREM ResyncAfterLossHolds == FeedSpec => []ResyncAfterLoss
<1>1. Remembered => ResyncAfterLoss
      BY DEF Remembered, ResyncAfterLoss
<1> QED BY <1>1, AlwaysRemembered, PTL
==============================================================================
