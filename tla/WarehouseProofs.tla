---------------------------- MODULE WarehouseProofs ---------------------------
(***************************************************************************)
(* Proofs about Warehouse for every set of masters, documents and inputs,  *)
(* and about TallySync, which carries its documents to Tally, for any      *)
(* number of jobs and passes.                                              *)
(***************************************************************************)
EXTENDS WarehousePages, TallySync, SumTheorems

-----------------------------------------------------------------------------
(***************************************************************************)
(* What a line moves.                                                      *)
(***************************************************************************)

KeyTo(line) == <<line.sku, line.to, line.batch>>
KeyFrom(line) == <<line.sku, line.from, line.batch>>

\* What a line of d adds to stock row k: its quantity where it goes, and less by
\* as much where a transfer takes it from.
Effect(d, line, k) ==
    (IF k = KeyTo(line) THEN line.quantity ELSE 0)
    - (IF Kind[d] = "TRANSFER" /\ k = KeyFrom(line) THEN line.quantity ELSE 0)

LEMMA EffectIsInt ==
    ASSUME NEW d, NEW line, line.quantity \in Int, NEW k
    PROVE  Effect(d, line, k) \in Int
BY DEF Effect

LEMMA LegsAre ==
    ASSUME NEW d \in Doc, NEW line
    PROVE  /\ Kind[d] = "OPENING" => Legs(d, line) = {Leg("OPENING", line, line.to, line.quantity)}
           /\ Kind[d] = "ADJUSTMENT" => Legs(d, line) = {Leg("ADJUSTMENT", line, line.to, line.quantity)}
           /\ Kind[d] = "TRANSFER" =>
                 Legs(d, line) = {Leg("TRANSFER_OUT", line, line.from, -line.quantity),
                                  Leg("TRANSFER_IN", line, line.to, line.quantity)}
           /\ Kind[d] \in {"OPENING", "TRANSFER", "ADJUSTMENT"}
<1>1. Kind[d] \in {"OPENING", "TRANSFER", "ADJUSTMENT"}
  BY WarehouseAssumption
<1>2. QED
  BY <1>1 DEF Legs

\* The sum over two different legs.
LEMMA SumOfTwo ==
    ASSUME NEW a, NEW b, a # b, NEW f, f[a] \in Int, f[b] \in Int
    PROVE  SumFunctionOnSet(f, {a, b}) = f[a] + f[b]
<1>1. IsFiniteSet({b}) /\ a \notin {b} /\ \A x \in {b} \cup {a} : f[x] \in Int
  BY FS_Singleton
<1>2. SumFunctionOnSet(f, {b} \cup {a}) = f[a] + SumFunctionOnSet(f, {b})
  BY <1>1, SumPutIn
<1>3. {b} \cup {a} = {a, b}
  OBVIOUS
<1>4. QED
  BY <1>2, <1>3, SumOfOne

\* The legs of a line add up to its effect.
LEMMA MovesAre ==
    ASSUME NEW d \in Doc, NEW line, line.quantity \in Int, NEW k
    PROVE  Moves(d, line, k) = Effect(d, line, k)
<1> DEFINE L == {leg \in Legs(d, line) : leg.key = k}
           f == [leg \in L |-> leg.quantity]
<1>1. Moves(d, line, k) = SumFunctionOnSet(f, L)
  BY DEF Moves, SumFunction
<1>2. CASE Kind[d] # "TRANSFER"
  <2>1. PICK type : Legs(d, line) = {Leg(type, line, line.to, line.quantity)}
    BY <1>2, LegsAre
  <2> DEFINE a == Leg(type, line, line.to, line.quantity)
  <2>2. a.key = KeyTo(line) /\ a.quantity = line.quantity
    BY DEF Leg, KeyTo
  <2>3. CASE k = KeyTo(line)
    <3>1. L = {a} /\ f[a] = line.quantity
      BY <2>1, <2>2, <2>3
    <3> HIDE DEF a, L, f
    <3>2. SumFunctionOnSet(f, L) = line.quantity
      BY <3>1, SumOfOne
    <3>3. QED
      BY <1>1, <1>2, <2>3, <3>2 DEF Effect
  <2>4. CASE k # KeyTo(line)
    <3>1. L = {}
      BY <2>1, <2>2, <2>4
    <3> HIDE DEF a, L, f
    <3>2. QED
      BY <1>1, <1>2, <2>4, <3>1, SumEmpty DEF Effect
  <2>5. QED
    BY <2>3, <2>4
<1>3. CASE Kind[d] = "TRANSFER"
  <2> DEFINE a == Leg("TRANSFER_OUT", line, line.from, -line.quantity)
             b == Leg("TRANSFER_IN", line, line.to, line.quantity)
  <2>1. Legs(d, line) = {a, b}
    BY <1>3, LegsAre
  <2>2. /\ a.key = KeyFrom(line) /\ a.quantity = -line.quantity
        /\ b.key = KeyTo(line) /\ b.quantity = line.quantity
        /\ a.type # b.type
    BY DEF Leg, KeyFrom, KeyTo
  <2> HIDE DEF a, b
  <2>3. a # b
    BY <2>2
  <2>4. -line.quantity \in Int
    OBVIOUS
  <2>5. CASE k = KeyFrom(line) /\ k = KeyTo(line)
    <3>1. L = {a, b} /\ f[a] = -line.quantity /\ f[b] = line.quantity
      BY <2>1, <2>2, <2>5
    <3> HIDE DEF L, f
    <3>2. f[a] \in Int /\ f[b] \in Int
      BY <2>4, <3>1
    <3>3. SumFunctionOnSet(f, {a, b}) = f[a] + f[b]
      BY <2>3, <3>2, SumOfTwo
    <3>4. SumFunctionOnSet(f, L) = 0
      BY <3>1, <3>3
    <3>5. QED
      BY <1>1, <1>3, <2>5, <3>4 DEF Effect
  <2>6. CASE k = KeyFrom(line) /\ k # KeyTo(line)
    <3>1. L = {a} /\ f[a] = -line.quantity
      BY <2>1, <2>2, <2>6
    <3> HIDE DEF L, f
    <3>2. SumFunctionOnSet(f, L) = -line.quantity
      BY <2>4, <3>1, SumOfOne
    <3>3. QED
      BY <1>1, <1>3, <2>6, <3>2 DEF Effect
  <2>7. CASE k # KeyFrom(line) /\ k = KeyTo(line)
    <3>1. L = {b} /\ f[b] = line.quantity
      BY <2>1, <2>2, <2>7
    <3> HIDE DEF L, f
    <3>2. SumFunctionOnSet(f, L) = line.quantity
      BY <3>1, SumOfOne
    <3>3. QED
      BY <1>1, <1>3, <2>7, <3>2 DEF Effect
  <2>8. CASE k # KeyFrom(line) /\ k # KeyTo(line)
    <3>1. L = {}
      BY <2>1, <2>2, <2>8
    <3> HIDE DEF L, f
    <3>2. QED
      BY <1>1, <1>3, <2>8, <3>1, SumEmpty DEF Effect
  <2>9. QED
    BY <2>5, <2>6, <2>7, <2>8
<1>4. QED
  BY <1>2, <1>3

LEMMA MovedIs ==
    ASSUME NEW d \in Doc, NEW S, NEW lines \in Seq(S), \A n \in DOMAIN lines : lines[n].quantity \in Int,
           NEW k
    PROVE  /\ Moved(d, lines, k) =
                 SumFunctionOnSet([n \in DOMAIN lines |-> Effect(d, lines[n], k)], DOMAIN lines)
           /\ Moved(d, lines, k) \in Int
           /\ (\A n \in DOMAIN lines : Effect(d, lines[n], k) >= 0) => Moved(d, lines, k) >= 0
<1> DEFINE f == [n \in DOMAIN lines |-> Moves(d, lines[n], k)]
           g == [n \in DOMAIN lines |-> Effect(d, lines[n], k)]
<1>1. Moved(d, lines, k) = SumFunctionOnSet(f, DOMAIN lines)
  BY DEF Moved, SumFunction
<1>2. \A n \in DOMAIN lines : f[n] = g[n] /\ g[n] \in Int
  BY MovesAre, EffectIsInt
<1>3. IsFiniteSet(DOMAIN lines)
  BY LinesFinite
<1>4. ASSUME \A n \in DOMAIN lines : Effect(d, lines[n], k) >= 0
      PROVE  SumFunctionOnSet(g, DOMAIN lines) >= 0
  <2>1. \A n \in DOMAIN lines : g[n] \in Nat
    BY <1>2, <1>4
  <2> HIDE DEF g
  <2>2. SumFunctionOnSet(g, DOMAIN lines) \in Nat
    BY <1>3, <2>1, SumNat
  <2>3. QED
    BY <2>2
<1> HIDE DEF f, g
<1>5. SumFunctionOnSet(f, DOMAIN lines) = SumFunctionOnSet(g, DOMAIN lines)
  BY <1>2, <1>3, SumEqual
<1>6. SumFunctionOnSet(g, DOMAIN lines) \in Int
  BY <1>2, <1>3, SumInt
<1>7. QED
  BY <1>1, <1>4, <1>5, <1>6 DEF g

-----------------------------------------------------------------------------
(***************************************************************************)
(* What the standing lines of the documents add up to, and how postings    *)
(* and reversals change it.                                                *)
(***************************************************************************)

LineOf(docs, id) == docs[id[1]].lines[id[2]]
PostedOf(docs) == {id \in IdsOf(Doc, docs) : Posted(LineOf(docs, id))}
StandingOf(docs) == {id \in PostedOf(docs) : ~Reversed(LineOf(docs, id))}
EffectsOf(docs, k) == [id \in IdsOf(Doc, docs) |-> Effect(id[1], LineOf(docs, id), k)]
StandingSum(docs, k) == SumFunctionOnSet(EffectsOf(docs, k), StandingOf(docs))

\* Every line has a quantity, and there are finitely many entries.
Summable(docs) ==
    /\ IsFiniteSet(PostedOf(docs))
    /\ \A d \in Doc : \A n \in DOMAIN docs[d].lines : docs[d].lines[n].quantity \in Int

LEMMA SameIds ==
    /\ LineIds = IdsOf(Doc, doc) /\ \A id : LineAt(id) = LineOf(doc, id)
    /\ PostedIds = PostedOf(doc)
    /\ Standing = StandingOf(doc)
<1>1. LineIds = IdsOf(Doc, doc) /\ \A id : LineAt(id) = LineOf(doc, id)
  BY DEF LineIds, IdsOf, LineAt, LineOf
<1>2. PostedIds = PostedOf(doc)
  BY <1>1 DEF PostedIds, PostedOf
<1>3. Standing = StandingOf(doc)
  BY <1>1, <1>2 DEF Standing, ReversedIds, StandingOf, PostedOf
<1>4. QED
  BY <1>1, <1>2, <1>3

LEMMA StandingFacts ==
    ASSUME NEW docs, Summable(docs), NEW k
    PROVE  /\ IsFiniteSet(StandingOf(docs))
           /\ StandingOf(docs) \subseteq IdsOf(Doc, docs)
           /\ \A id \in IdsOf(Doc, docs) :
                 EffectsOf(docs, k)[id] = Effect(id[1], LineOf(docs, id), k) /\ EffectsOf(docs, k)[id] \in Int
           /\ StandingSum(docs, k) \in Int
<1>1. StandingOf(docs) \subseteq PostedOf(docs) /\ PostedOf(docs) \subseteq IdsOf(Doc, docs)
  BY DEF StandingOf, PostedOf
<1>2. IsFiniteSet(StandingOf(docs))
  BY <1>1, FS_Subset DEF Summable
<1>3. ASSUME NEW id \in IdsOf(Doc, docs)
      PROVE  EffectsOf(docs, k)[id] = Effect(id[1], LineOf(docs, id), k) /\ EffectsOf(docs, k)[id] \in Int
  <2>1. LineOf(docs, id).quantity \in Int
    BY IdsAre DEF LineOf, Summable
  <2>2. EffectsOf(docs, k)[id] = Effect(id[1], LineOf(docs, id), k)
    BY DEF EffectsOf
  <2>3. QED
    BY <2>1, <2>2, EffectIsInt
<1>4. \A id \in StandingOf(docs) : EffectsOf(docs, k)[id] \in Int
  BY <1>1, <1>3
<1>5. StandingSum(docs, k) \in Int
  BY <1>2, <1>4, SumInt DEF StandingSum
<1>6. QED
  BY <1>1, <1>2, <1>3, <1>5

\* Lines that are not on the ledger come and go.
LEMMA NothingPosted ==
    ASSUME NEW docs, Summable(docs), NEW new,
           \A e \in Doc : \A n \in DOMAIN new[e].lines : new[e].lines[n].quantity \in Int,
           \A e \in Doc :
              \/ new[e].lines = docs[e].lines
              \/ /\ \A n \in DOMAIN docs[e].lines : ~Posted(docs[e].lines[n])
                 /\ \A n \in DOMAIN new[e].lines : ~Posted(new[e].lines[n])
    PROVE  Summable(new) /\ \A k : StandingSum(new, k) = StandingSum(docs, k)
<1>1. ASSUME NEW id PROVE id \in PostedOf(new) <=> id \in PostedOf(docs)
  BY IdsAre DEF PostedOf, LineOf
<1>2. PostedOf(new) = PostedOf(docs)
  BY <1>1
<1>3. ASSUME NEW id \in PostedOf(docs)
      PROVE  LineOf(new, id) = LineOf(docs, id) /\ id \in IdsOf(Doc, docs) /\ id \in IdsOf(Doc, new)
  BY <1>2, IdsAre DEF PostedOf, LineOf
<1>4. StandingOf(new) = StandingOf(docs)
  BY <1>2, <1>3 DEF StandingOf
<1>5. Summable(new)
  BY <1>2 DEF Summable
<1>6. ASSUME NEW k PROVE StandingSum(new, k) = StandingSum(docs, k)
  <2>1. \A id \in StandingOf(docs) : EffectsOf(new, k)[id] = EffectsOf(docs, k)[id]
    BY <1>3 DEF StandingOf, EffectsOf
  <2>2. QED
    BY <1>4, <2>1, StandingFacts, SumEqual DEF StandingSum
<1>7. QED
  BY <1>5, <1>6

\* The documents of a file are posted, or one document is.
FilePosted(file, docs, new) ==
    /\ IsFiniteSet(file) /\ file \subseteq Doc
    /\ \A e \in Doc \ file : new[e].lines = docs[e].lines
    /\ \A e \in file :
          /\ new[e].lines \in Seq(Line)
          /\ \A n \in DOMAIN new[e].lines : Posted(new[e].lines[n]) /\ ~Reversed(new[e].lines[n])
          /\ \A n \in DOMAIN docs[e].lines : ~Posted(docs[e].lines[n])

MovedBy(file, new, k) == SumFunctionOnSet([e \in file |-> Moved(e, new[e].lines, k)], file)

LEMMA ImageFinite ==
    ASSUME NEW S, IsFiniteSet(S), NEW f
    PROVE  IsFiniteSet({f[x] : x \in S})
<1> DEFINE T == {f[x] : x \in S}
           g == [x \in S |-> f[x]]
<1>1. g \in Surjection(S, T)
  BY DEF Surjection
<1>2. QED
  BY <1>1, FS_Surjection

\* The new lines, named with their documents.
LEMMA FileIds ==
    ASSUME NEW docs, NEW new, NEW file, FilePosted(file, docs, new)
    PROVE  LET added == UNION {Named(e, DOMAIN new[e].lines) : e \in file}
           IN  /\ IsFiniteSet(added)
               /\ \A id : id \in added <=> id \in IdsOf(Doc, new) /\ id[1] \in file
               /\ PostedOf(new) = PostedOf(docs) \cup added
               /\ StandingOf(new) = StandingOf(docs) \cup added
               /\ PostedOf(docs) \cap added = {} /\ StandingOf(docs) \cap added = {}
               /\ \A id \in PostedOf(docs) : LineOf(new, id) = LineOf(docs, id) /\ id \in IdsOf(Doc, new)
<1> DEFINE names == [e \in file |-> Named(e, DOMAIN new[e].lines)]
           added == UNION {names[e] : e \in file}
<1>1. \A e \in file : IsFiniteSet(names[e])
  BY LinesFinite, NamedAre DEF FilePosted
<1>2. IsFiniteSet(added)
  <2>1. IsFiniteSet(file)
    BY DEF FilePosted
  <2>2. \A T \in {names[e] : e \in file} : IsFiniteSet(T)
    BY <1>1
  <2> HIDE DEF names
  <2>4. IsFiniteSet({names[e] : e \in file})
    BY <2>1, ImageFinite
  <2>3. QED
    BY <2>4, <2>2, FS_UNION
<1>3. ASSUME NEW id PROVE id \in added <=> id \in IdsOf(Doc, new) /\ id[1] \in file
  <2>1. ASSUME id \in added PROVE id \in IdsOf(Doc, new) /\ id[1] \in file
    <3>1. PICK e \in file : id \in names[e]
      BY <2>1
    <3>2. id[1] = e /\ id[2] \in DOMAIN new[e].lines /\ id = <<e, id[2]>>
      BY <3>1, NamedAre
    <3>3. e \in Doc
      BY DEF FilePosted
    <3>4. QED
      BY <3>1, <3>2, <3>3, IdsAre
  <2>2. ASSUME id \in IdsOf(Doc, new), id[1] \in file PROVE id \in added
    <3>1. id[2] \in DOMAIN new[id[1]].lines /\ id = <<id[1], id[2]>>
      BY <2>2, IdsAre
    <3>2. id \in names[id[1]]
      BY <2>2, <3>1, NamedAre
    <3>3. QED
      BY <2>2, <3>2
  <2>3. QED
    BY <2>1, <2>2
<1>4. ASSUME NEW id \in PostedOf(docs)
      PROVE  id[1] \notin file /\ LineOf(new, id) = LineOf(docs, id) /\ id \in IdsOf(Doc, new)
  <2>1. id[1] \in Doc /\ id[2] \in DOMAIN docs[id[1]].lines /\ id = <<id[1], id[2]>>
    BY IdsAre DEF PostedOf
  <2>2. id[1] \notin file
    BY <2>1 DEF PostedOf, LineOf, FilePosted
  <2>3. new[id[1]].lines = docs[id[1]].lines
    BY <2>1, <2>2 DEF FilePosted
  <2>4. QED
    BY <2>1, <2>2, <2>3, IdsAre DEF LineOf
<1>5. ASSUME NEW id \in IdsOf(Doc, new), id[1] \notin file
      PROVE  id \in IdsOf(Doc, docs) /\ LineOf(new, id) = LineOf(docs, id)
  <2>1. id[1] \in Doc /\ id[2] \in DOMAIN new[id[1]].lines /\ id = <<id[1], id[2]>>
    BY IdsAre
  <2>2. new[id[1]].lines = docs[id[1]].lines
    BY <1>5, <2>1 DEF FilePosted
  <2>3. QED
    BY <2>1, <2>2, IdsAre DEF LineOf
<1>6. ASSUME NEW id \in IdsOf(Doc, new), id[1] \in file
      PROVE  Posted(LineOf(new, id)) /\ ~Reversed(LineOf(new, id))
  BY <1>6, IdsAre DEF LineOf, FilePosted
<1> HIDE DEF added, names
<1>7. PostedOf(new) = PostedOf(docs) \cup added
  BY <1>3, <1>4, <1>5, <1>6 DEF PostedOf
<1>8. StandingOf(new) = StandingOf(docs) \cup added
  BY <1>3, <1>4, <1>6, <1>7 DEF StandingOf, PostedOf
<1>9. PostedOf(docs) \cap added = {} /\ StandingOf(docs) \cap added = {}
  BY <1>3, <1>4 DEF StandingOf
<1>10. added = UNION {Named(e, DOMAIN new[e].lines) : e \in file}
  BY DEF added, names
<1>11. QED
  BY <1>2, <1>3, <1>4, <1>7, <1>8, <1>9, <1>10

LEMMA PostedAddsUp ==
    ASSUME NEW docs, Summable(docs), NEW new, NEW file, FilePosted(file, docs, new)
    PROVE  /\ Summable(new)
           /\ \A k : StandingSum(new, k) = StandingSum(docs, k) + MovedBy(file, new, k)
<1> DEFINE added == UNION {Named(e, DOMAIN new[e].lines) : e \in file}
<1>1. /\ IsFiniteSet(added)
      /\ \A id : id \in added <=> id \in IdsOf(Doc, new) /\ id[1] \in file
      /\ PostedOf(new) = PostedOf(docs) \cup added
      /\ StandingOf(new) = StandingOf(docs) \cup added
      /\ PostedOf(docs) \cap added = {} /\ StandingOf(docs) \cap added = {}
      /\ \A id \in PostedOf(docs) : LineOf(new, id) = LineOf(docs, id) /\ id \in IdsOf(Doc, new)
  BY FileIds
<1> HIDE DEF added
<1>2. IsFiniteSet(PostedOf(new))
  <2>1. IsFiniteSet(PostedOf(docs))
    BY DEF Summable
  <2>2. IsFiniteSet(PostedOf(docs) \cup added)
    BY <1>1, <2>1, FS_Union
  <2>3. QED
    BY <1>1, <2>2
<1>3. ASSUME NEW e \in Doc, NEW n \in DOMAIN new[e].lines PROVE new[e].lines[n].quantity \in Int
  <2>1. CASE e \in file
    <3>1. new[e].lines[n] \in Line
      BY <2>1, LinesFinite DEF FilePosted
    <3>2. QED
      BY <3>1 DEF Line
  <2>2. CASE e \notin file
    BY <2>2 DEF Summable, FilePosted
  <2>3. QED
    BY <2>1, <2>2
<1>4. Summable(new)
  BY <1>2, <1>3 DEF Summable
<1>5. ASSUME NEW k PROVE StandingSum(new, k) = StandingSum(docs, k) + MovedBy(file, new, k)
  <2> DEFINE f == EffectsOf(docs, k)
             g == EffectsOf(new, k)
             c == [e \in file |-> Moved(e, new[e].lines, k)]
             m == [id \in added |-> id[1]]
  <2>1. \A id \in StandingOf(docs) : f[id] \in Int /\ g[id] = f[id]
    <3>1. \A id \in StandingOf(docs) : id \in PostedOf(docs) /\ id \in IdsOf(Doc, docs)
      BY DEF StandingOf, PostedOf
    <3>2. QED
      BY <1>1, <3>1, StandingFacts DEF EffectsOf
  <2>2. \A id \in added : g[id] \in Int /\ m[id] \in file
    BY <1>1, <1>4, StandingFacts
  <2>3. ASSUME NEW e \in file
        PROVE  \E U \in SUBSET added : /\ \A id \in added : id \in U <=> m[id] = e
                                       /\ c[e] = SumFunctionOnSet(g, U)
    <3> DEFINE lines == new[e].lines
               N == DOMAIN lines
               U == Named(e, N)
               h == [n \in N |-> Effect(e, lines[n], k)]
    <3>1. /\ e \in Doc /\ lines \in Seq(Line)
          /\ \A n \in N : lines[n].quantity \in Int
      BY <1>3 DEF FilePosted
    <3>2. c[e] = SumFunctionOnSet(h, N)
      BY <3>1, MovedIs
    <3>3. ASSUME NEW n \in N
          PROVE  <<e, n>> \in IdsOf(Doc, new) /\ h[n] \in Int /\ g[<<e, n>>] = h[n]
      <4>1. <<e, n>> \in IdsOf(Doc, new)
        BY <3>1, IdsAre
      <4>2. h[n] \in Int
        BY <3>1, EffectIsInt
      <4>3. QED
        BY <4>1, <4>2 DEF EffectsOf, LineOf
    <3>4. Alike(e, N, h, g)
      BY <3>3 DEF Alike
    <3>5. IsFiniteSet(N)
      BY <3>1, LinesFinite
    <3>6. U \in SUBSET added /\ \A id \in added : id \in U <=> m[id] = e
      <4>1. \A id \in U : id[1] = e /\ id[2] \in N /\ id = <<e, id[2]>>
        BY NamedAre
      <4>2. \A id \in U : id \in IdsOf(Doc, new)
        BY <3>3, <4>1
      <4>3. U \subseteq added
        BY <1>1, <4>1, <4>2
      <4>4. ASSUME NEW id \in added, m[id] = e PROVE id \in U
        <5>1. id[1] = e /\ id[2] \in N /\ id = <<id[1], id[2]>>
          BY <1>1, <4>4, IdsAre
        <5>2. QED
          BY <5>1, NamedAre
      <4>5. QED
        BY <4>1, <4>3, <4>4
    <3> HIDE DEF lines, N, U, h, c, m, g
    <3>7. SumFunctionOnSet(g, U) = SumFunctionOnSet(h, N)
      BY <3>4, <3>5, SumNamed DEF U
    <3>8. QED
      BY <3>2, <3>6, <3>7
  <2> HIDE DEF f, g, c, m
  <2>4. SumFunctionOnSet(g, added) = SumFunctionOnSet(c, file)
    <3>1. IsFiniteSet(file)
      BY DEF FilePosted
    <3>2. (\A id \in added : m[id] \in file) /\ (\A id \in added : g[id] \in Int)
      BY <2>2
    <3>3. IsFiniteSet(added)
      BY <1>1
    <3> HIDE DEF added
    <3>4. QED
      BY <2>3, <3>1, <3>2, <3>3, SumCollected
  <2>5. SumFunctionOnSet(g, StandingOf(docs) \cup added)
          = SumFunctionOnSet(f, StandingOf(docs)) + SumFunctionOnSet(g, added)
    BY <1>1, <2>1, <2>2, StandingFacts, SumAdded
  <2>6. QED
    BY <1>1, <2>4, <2>5 DEF StandingSum, MovedBy, c, f, g
<1>6. QED
  BY <1>4, <1>5

\* A line of a document is reversed.
LineUndone(d, n, docs, new) ==
    /\ d \in Doc /\ n \in DOMAIN docs[d].lines
    /\ Posted(docs[d].lines[n]) /\ ~Reversed(docs[d].lines[n])
    /\ Posted(new[d].lines[n]) /\ Reversed(new[d].lines[n])
    /\ new[d].lines[n].quantity \in Int
    /\ DOMAIN new[d].lines = DOMAIN docs[d].lines
    /\ \A i \in DOMAIN docs[d].lines \ {n} : new[d].lines[i] = docs[d].lines[i]
    /\ \A e \in Doc \ {d} : new[e].lines = docs[e].lines

LEMMA ReversedSubtracts ==
    ASSUME NEW docs, Summable(docs), NEW new, NEW d, NEW n, LineUndone(d, n, docs, new)
    PROVE  /\ Summable(new)
           /\ \A k : StandingSum(new, k) = StandingSum(docs, k) - Effect(d, docs[d].lines[n], k)
<1> DEFINE a == <<d, n>>
<1>1. \A e \in Doc : DOMAIN new[e].lines = DOMAIN docs[e].lines
  BY DEF LineUndone
<1>2. IdsOf(Doc, new) = IdsOf(Doc, docs)
  BY <1>1, IdsKept
<1>3. ASSUME NEW id \in IdsOf(Doc, docs), id # a
      PROVE  LineOf(new, id) = LineOf(docs, id)
  <2>1. id[1] \in Doc /\ id[2] \in DOMAIN docs[id[1]].lines /\ id = <<id[1], id[2]>>
    BY IdsAre
  <2>2. CASE id[1] = d
    <3>1. id[2] # n
      BY <1>3, <2>1, <2>2
    <3>2. QED
      BY <2>1, <2>2, <3>1 DEF LineOf, LineUndone
  <2>3. CASE id[1] # d
    BY <2>1, <2>3 DEF LineOf, LineUndone
  <2>4. QED
    BY <2>2, <2>3
<1>4. a \in IdsOf(Doc, docs)
  BY IdsAre DEF LineUndone
<1>5. LineOf(docs, a) = docs[d].lines[n] /\ LineOf(new, a) = new[d].lines[n]
  BY DEF LineOf
<1> HIDE DEF a
<1>6. PostedOf(new) = PostedOf(docs)
  BY <1>2, <1>3, <1>4, <1>5 DEF PostedOf, LineUndone
<1>7. StandingOf(new) = StandingOf(docs) \ {a} /\ a \in StandingOf(docs)
  BY <1>2, <1>3, <1>4, <1>5, <1>6 DEF StandingOf, PostedOf, LineUndone
<1>8. Summable(new)
  BY <1>1, <1>6 DEF Summable, LineUndone
<1>9. ASSUME NEW k PROVE StandingSum(new, k) = StandingSum(docs, k) - Effect(d, docs[d].lines[n], k)
  <2> DEFINE f == EffectsOf(docs, k)
             g == EffectsOf(new, k)
  <2>1. /\ IsFiniteSet(StandingOf(docs))
        /\ StandingOf(docs) \subseteq IdsOf(Doc, docs)
        /\ \A id \in StandingOf(docs) : f[id] \in Int
    BY StandingFacts
  <2>2. \A id \in StandingOf(docs) \ {a} : g[id] = f[id]
    BY <1>2, <1>3, <2>1 DEF EffectsOf
  <2>3. f[a] = Effect(d, docs[d].lines[n], k)
    BY <1>4, <1>5 DEF EffectsOf, a
  <2> HIDE DEF f, g
  <2>4. SumFunctionOnSet(g, StandingOf(docs) \ {a}) = SumFunctionOnSet(f, StandingOf(docs)) - f[a]
    BY <1>7, <2>1, <2>2, SumWithout
  <2>5. QED
    BY <1>7, <2>3, <2>4 DEF StandingSum, f, g
<1>10. QED
  BY <1>8, <1>9

-----------------------------------------------------------------------------
(***************************************************************************)
(* The clock and the calendar.                                             *)
(***************************************************************************)

LEMMA DivIs ==
    ASSUME NEW a \in Nat, NEW p \in Nat \ {0}
    PROVE  a \div p \in Nat /\ p * (a \div p) <= a /\ a < p * (a \div p) + p
OBVIOUS

LEMMA DivMonotonic ==
    ASSUME NEW a \in Nat, NEW b \in Nat, NEW p \in Nat \ {0}, a <= b
    PROVE  a \div p <= b \div p
<1> DEFINE q == a \div p
           r == b \div p
<1>1. /\ q \in Nat /\ p * q <= a /\ a < p * q + p
      /\ r \in Nat /\ p * r <= b /\ b < p * r + p
  BY DivIs
<1> HIDE DEF q, r
<1>2. CASE r < q
  <2>1. q >= r + 1
    BY <1>1, <1>2
  <2>2. p * q >= p * r + p
    BY <1>1, <2>1
  <2>3. QED
    BY <1>1, <2>2
<1>3. q <= r
  BY <1>1, <1>2
<1>4. QED
  BY <1>3 DEF q, r

LEMMA DivShift ==
    ASSUME NEW a \in Nat, NEW n \in Nat, NEW p \in Nat \ {0}
    PROVE  (a + n * p) \div p = a \div p + n
<1> DEFINE q == a \div p
           r == (a + n * p) \div p
<1>1. a + n * p \in Nat
  OBVIOUS
<1>2. /\ q \in Nat /\ p * q <= a /\ a < p * q + p
      /\ r \in Nat /\ p * r <= a + n * p /\ a + n * p < p * r + p
  BY <1>1, DivIs
<1> HIDE DEF q, r
<1>3. p * (q + n) <= a + n * p /\ a + n * p < p * (q + n) + p
  BY <1>2
<1>4. r < q + n + 1
  <2> SUFFICES ASSUME r >= q + n + 1 PROVE FALSE
    BY <1>2
  <2>1. p * r >= p * (q + n + 1)
    BY <1>2
  <2>2. p * (q + n + 1) = p * (q + n) + p
    BY <1>2
  <2>3. QED
    BY <1>2, <1>3, <2>1, <2>2
<1>5. q + n < r + 1
  <2> SUFFICES ASSUME q + n >= r + 1 PROVE FALSE
    BY <1>2
  <2>1. p * (q + n) >= p * (r + 1)
    BY <1>2
  <2>2. p * (r + 1) = p * r + p
    BY <1>2
  <2>3. QED
    BY <1>2, <1>3, <2>1, <2>2
<1>6. QED
  BY <1>2, <1>4, <1>5 DEF q, r

\* Days follow each other as instants do, n days later is n times 24 hours later,
\* and the day in India is at most one ahead of the one in UTC.
LEMMA DaysAre ==
    ASSUME NEW t \in Nat \ {0}
    PROVE  /\ DayOf(t) \in Nat \ {0} /\ UtcDayOf(t) \in Nat \ {0}
           /\ DayOf(t) <= UtcDayOf(t) + 1
           /\ \A u \in Nat \ {0} : t <= u => DayOf(t) <= DayOf(u)
           /\ \A n \in Nat : t + n * PerDay \in Nat \ {0} /\ DayOf(t + n * PerDay) = DayOf(t) + n
<1>1. PerDay \in Nat \ {0} /\ IstOffset \in Nat /\ IstOffset < PerDay
  BY WarehouseAssumption
<1>2. t - 1 \in Nat /\ t - 1 + IstOffset \in Nat
  BY <1>1
<1>3. DayOf(t) \in Nat \ {0} /\ UtcDayOf(t) \in Nat \ {0}
  <2>1. (t - 1 + IstOffset) \div PerDay \in Nat /\ (t - 1) \div PerDay \in Nat
    BY <1>1, <1>2, DivIs
  <2>2. QED
    BY <2>1 DEF DayOf, UtcDayOf
<1>4. DayOf(t) <= UtcDayOf(t) + 1
  <2>1. t - 1 + 1 * PerDay \in Nat /\ t - 1 + IstOffset <= t - 1 + 1 * PerDay
    BY <1>1, <1>2
  <2>2. (t - 1 + IstOffset) \div PerDay <= (t - 1 + 1 * PerDay) \div PerDay
    BY <1>1, <1>2, <2>1, DivMonotonic
  <2>3. (t - 1 + 1 * PerDay) \div PerDay = (t - 1) \div PerDay + 1
    BY <1>1, <1>2, DivShift
  <2>4. (t - 1) \div PerDay \in Nat /\ (t - 1 + IstOffset) \div PerDay \in Nat
    BY <1>1, <1>2, DivIs
  <2>5. QED
    BY <2>2, <2>3, <2>4 DEF DayOf, UtcDayOf
<1>5. ASSUME NEW u \in Nat \ {0}, t <= u
      PROVE  DayOf(t) <= DayOf(u)
  <2>1. u - 1 + IstOffset \in Nat /\ t - 1 + IstOffset <= u - 1 + IstOffset
    BY <1>1, <1>5
  <2>2. (t - 1 + IstOffset) \div PerDay <= (u - 1 + IstOffset) \div PerDay
    BY <1>1, <1>2, <2>1, DivMonotonic
  <2>3. (t - 1 + IstOffset) \div PerDay \in Nat /\ (u - 1 + IstOffset) \div PerDay \in Nat
    BY <1>1, <1>2, <2>1, DivIs
  <2>4. QED
    BY <2>2, <2>3 DEF DayOf
<1>6. ASSUME NEW n \in Nat
      PROVE  t + n * PerDay \in Nat \ {0} /\ DayOf(t + n * PerDay) = DayOf(t) + n
  <2>1. n * PerDay \in Nat
    BY <1>1
  <2>2. ((t + n * PerDay) - 1) + IstOffset = t - 1 + IstOffset + n * PerDay
    BY <1>1, <2>1
  <2>3. (t - 1 + IstOffset + n * PerDay) \div PerDay = (t - 1 + IstOffset) \div PerDay + n
    BY <1>1, <1>2, DivShift
  <2>4. (t - 1 + IstOffset) \div PerDay \in Nat
    BY <1>1, <1>2, DivIs
  <2>5. DayOf(t + n * PerDay) = (t - 1 + IstOffset + n * PerDay) \div PerDay + 1
    BY <2>2, Zenon DEF DayOf
  <2>6. DayOf(t) = (t - 1 + IstOffset) \div PerDay + 1
    BY DEF DayOf
  <2> DEFINE q == (t - 1 + IstOffset) \div PerDay
  <2>7. q \in Nat /\ DayOf(t + n * PerDay) = (q + n) + 1 /\ DayOf(t) = q + 1
    BY <2>3, <2>4, <2>5, <2>6, Zenon
  <2> HIDE DEF q
  <2>8. DayOf(t + n * PerDay) = DayOf(t) + n
    BY <2>7
  <2>9. QED
    BY <2>1, <2>8
<1>7. QED
  BY <1>3, <1>4, <1>5, <1>6

\* The least and the largest of finitely many numbers.
LEMMA MinIs ==
    ASSUME NEW S, IsFiniteSet(S), S # {}, \A x \in S : x \in Int
    PROVE  Min(S) \in S /\ \A y \in S : Min(S) <= y
<1> DEFINE f == [x \in S |-> -x]
<1>1. \A x \in S : f[x] \in Int /\ f[x] = -x
  OBVIOUS
<1>2. \E x \in S : \A y \in S : f[y] <= f[x]
  <2> HIDE DEF f
  <2>1. QED
    BY <1>1, Largest
<1>3. \E x \in S : \A y \in S : x <= y
  BY <1>1, <1>2
<1>4. QED
  BY <1>3 DEF Min

LEMMA MaxIs ==
    ASSUME NEW S, IsFiniteSet(S), S # {}, \A x \in S : x \in Int
    PROVE  Max(S) \in S /\ \A y \in S : y <= Max(S)
<1> DEFINE f == [x \in S |-> x]
<1>1. \A x \in S : f[x] \in Int
  OBVIOUS
<1>2. \E x \in S : \A y \in S : f[y] <= f[x]
  <2> HIDE DEF f
  <2>1. QED
    BY <1>1, Largest
<1>3. \E x \in S : \A y \in S : x >= y
  BY <1>2
<1>4. Max(S) \in S /\ \A y \in S : Max(S) >= y
  BY <1>3 DEF Max
<1>5. QED
  BY <1>4

-----------------------------------------------------------------------------
(***************************************************************************)
(* The inductive invariant.                                                *)
(***************************************************************************)

Waiting == {"ABSENT", "LOADED", "SUBMITTED", "REJECTED"}
Reviewed == {"SUBMITTED", "REJECTED", "APPROVED"}

\* A line is what its input made of it, posted and reversed by t.
LineShape(d, line, t) ==
    /\ line.quantity # 0
    /\ Kind[d] # "ADJUSTMENT" => line.quantity > 0
    /\ Kind[d] # "TRANSFER" => line.from = line.to
    /\ line.posted <= t /\ line.reversed <= t
    /\ Reversed(line) => Posted(line)

\* A document has its lines once it is there, all of them posted or none, and a
\* status that follows from which of them are reversed.
DocShape(d, row, t) ==
    /\ \A n \in DOMAIN row.lines : LineShape(d, row.lines[n], t)
    /\ row.lines = <<>> <=> row.status = "ABSENT"
    /\ \A n \in DOMAIN row.lines : Posted(row.lines[n]) <=> row.status \notin Waiting
    /\ Kind[d] = "ADJUSTMENT" => row.status \in Reviewed \cup {"ABSENT", "REVERSED"}
    /\ Kind[d] # "ADJUSTMENT" => row.status \notin Reviewed
    /\ row.status = "POSTED" => \A n \in DOMAIN row.lines : ~Reversed(row.lines[n])
    /\ row.status \in {"APPROVED", "PARTIALLY_REVERSED"} =>
          \E n \in DOMAIN row.lines : ~Reversed(row.lines[n])
    /\ row.status = "PARTIALLY_REVERSED" => \E n \in DOMAIN row.lines : Reversed(row.lines[n])
    /\ row.status = "REVERSED" => \A n \in DOMAIN row.lines : Reversed(row.lines[n])
    /\ Kind[d] = "ADJUSTMENT" /\ row.status \notin Waiting => row.reviewer \in User \ {row.by}

Shapes == \A d \in Doc : DocShape(d, doc[d], now)

\* Every stock row is what the standing lines bring it.
Accounted == \A k \in Key : stock[k] = StandingSum(doc, k)

IInv == TypeOK /\ Shapes /\ Summable(doc) /\ Accounted

\* The clock shows one of its moments.
LEMMA ClockIs ==
    ASSUME IInv
    PROVE  now \in Moment /\ now \in Nat \ {0} /\ DayOf(now) \in Nat \ {0} /\ DayOf(now) < Never
<1>1. now \in Moment
  BY DEF IInv, TypeOK
<1>2. now \in Nat \ {0} /\ DayOf(now) < Never
  BY <1>1, WarehouseAssumption
<1>3. QED
  BY <1>1, <1>2, DaysAre

LEMMA QuantitiesAreInt ==
    ASSUME NEW docs \in [Doc -> [status : Status, by : User \cup {NoUser},
                                 reviewer : User \cup {NoUser}, lines : Seq(Line)]]
    PROVE  \A e \in Doc : \A n \in DOMAIN docs[e].lines :
              docs[e].lines[n] \in Line /\ docs[e].lines[n].quantity \in Int
<1> TAKE e \in Doc
<1> TAKE n \in DOMAIN docs[e].lines
<1>1. docs[e].lines \in Seq(Line)
  OBVIOUS
<1>2. docs[e].lines[n] \in Line
  BY <1>1, LinesFinite
<1>3. QED
  BY <1>2 DEF Line

LEMMA KeysOf ==
    ASSUME NEW line \in Line
    PROVE  KeyTo(line) \in Key /\ KeyFrom(line) \in Key
BY DEF Line, Key, KeyTo, KeyFrom

\* derivePostedDocStatus, in terms of the lines that are reversed.
LEMMA DerivedIs ==
    ASSUME NEW S, NEW lines \in Seq(S), NEW undone \in SUBSET DOMAIN lines
    PROVE  Derived(Len(lines), Cardinality(undone)) =
              IF undone = {} THEN "POSTED"
              ELSE IF undone = DOMAIN lines THEN "REVERSED" ELSE "PARTIALLY_REVERSED"
<1>1. IsFiniteSet(DOMAIN lines) /\ IsFiniteSet(undone)
  BY LinesFinite
<1>2. Len(lines) \in Nat /\ DOMAIN lines = 1..Len(lines)
  OBVIOUS
<1>3. Cardinality(DOMAIN lines) = Len(lines)
  <2>1. Cardinality(1..Len(lines)) = IF 1 > Len(lines) THEN 0 ELSE Len(lines) - 1 + 1
    BY <1>2, FS_Interval
  <2>2. QED
    BY <1>2, <2>1
<1>4. /\ Cardinality(undone) \in Nat /\ Cardinality(undone) <= Cardinality(DOMAIN lines)
      /\ Cardinality(undone) = Cardinality(DOMAIN lines) => undone = DOMAIN lines
  BY <1>1, FS_Subset, FS_CardinalityType
<1>5. Cardinality(undone) = 0 <=> undone = {}
  BY <1>1, FS_EmptySet
<1>6. QED
  BY <1>2, <1>3, <1>4, <1>5 DEF Derived

LEMMA TypeInit == Init => TypeOK
<1> SUFFICES ASSUME Init PROVE TypeOK
  OBVIOUS
<1>1. MaxEdits \in Nat /\ Min(Moment) \in Moment
  <2>1. \A t \in Moment : t \in Int
    BY WarehouseAssumption
  <2>2. QED
    BY <2>1, MinIs, WarehouseAssumption
<1>2. now \in Moment /\ edits \in 0..MaxEdits /\ edit \subseteq (SkuEdit \cup GodownEdit)
  BY <1>1 DEF Init
<1>3. sku \in [Sku -> SkuRow] /\ active \in [Godown -> BOOLEAN] /\ stock \in [Key -> Nat]
  BY DEF Init, SkuRow
<1>4. <<>> \in Seq(Line)
  OBVIOUS
<1>5. Absent \in [status : Status, by : User \cup {NoUser}, reviewer : User \cup {NoUser},
                  lines : Seq(Line)]
  BY <1>4 DEF Absent, Status
<1>6. QED
  BY <1>2, <1>3, <1>5 DEF Init, TypeOK

LEMMA InvInit == Init => IInv
<1> SUFFICES ASSUME Init PROVE IInv
  OBVIOUS
<1>1. \A d \in Doc : doc[d] = Absent
  BY DEF Init
<1>2. Absent.lines = <<>> /\ Absent.status = "ABSENT"
  BY DEF Absent
<1>3. DOMAIN <<>> = {}
  OBVIOUS
<1>4. Shapes
  BY <1>1, <1>2, <1>3 DEF Shapes, DocShape, Waiting, Reviewed
<1>5. PostedOf(doc) = {}
  BY <1>1, <1>2, <1>3, IdsAre DEF PostedOf
<1>6. Summable(doc)
  BY <1>1, <1>2, <1>3, <1>5, FS_EmptySet DEF Summable
<1>7. StandingOf(doc) = {}
  BY <1>5 DEF StandingOf
<1>8. \A k \in Key : StandingSum(doc, k) = 0
  BY <1>7, SumEmpty DEF StandingSum
<1>9. QED
  BY <1>4, <1>6, <1>8, TypeInit DEF IInv, Accounted, Init

-----------------------------------------------------------------------------
(***************************************************************************)
(* The steps.                                                              *)
(***************************************************************************)

DocRow == [status : Status, by : User \cup {NoUser}, reviewer : User \cup {NoUser}, lines : Seq(Line)]

\* One document gets a new row, of the right shape.
LEMMA DocChanged ==
    ASSUME IInv, NEW d \in Doc, NEW row \in DocRow, DocShape(d, row, now),
           doc' = [doc EXCEPT ![d] = row], now' = now
    PROVE  /\ doc' \in [Doc -> DocRow] /\ doc'[d] = row
           /\ \A e \in Doc \ {d} : doc'[e] = doc[e]
           /\ Shapes'
<1>1. doc \in [Doc -> DocRow]
  BY DEF IInv, TypeOK, DocRow
<1>2. doc' \in [Doc -> DocRow] /\ doc'[d] = row /\ \A e \in Doc \ {d} : doc'[e] = doc[e]
  BY <1>1
<1>3. ASSUME NEW e \in Doc PROVE DocShape(e, doc'[e], now)
  <2>1. CASE e = d
    BY <1>2, <2>1
  <2>2. CASE e # d
    <3>1. doc'[e] = doc[e]
      BY <1>2, <2>2
    <3>2. DocShape(e, doc[e], now)
      BY DEF IInv, Shapes
    <3>3. QED
      BY <3>1, <3>2
  <2>3. QED
    BY <2>1, <2>2
<1>4. Shapes'
  BY <1>3 DEF Shapes, DocShape, LineShape, Posted, Reversed, Waiting, Reviewed
<1>5. QED
  BY <1>2, <1>4

\* No line of the ledger changes, nor does the stock.
LEMMA LedgerKept ==
    ASSUME IInv, doc' \in [Doc -> DocRow], stock' = stock,
           \A e \in Doc :
              \/ doc'[e].lines = doc[e].lines
              \/ /\ \A n \in DOMAIN doc[e].lines : ~Posted(doc[e].lines[n])
                 /\ \A n \in DOMAIN doc'[e].lines : ~Posted(doc'[e].lines[n])
    PROVE  Summable(doc') /\ Accounted'
<1>1. \A e \in Doc : \A n \in DOMAIN doc'[e].lines : doc'[e].lines[n].quantity \in Int
  BY QuantitiesAreInt DEF DocRow
<1>2. Summable(doc') /\ \A k : StandingSum(doc', k) = StandingSum(doc, k)
  BY <1>1, NothingPosted DEF IInv
<1>3. Accounted'
  BY <1>2 DEF Accounted, IInv
<1>4. QED
  BY <1>2, <1>3

LEMMA QuantityIsInt ==
    ASSUME NEW lines \in Seq(Line)
    PROVE  \A n \in DOMAIN lines : lines[n] \in Line /\ lines[n].quantity \in Int
<1> TAKE n \in DOMAIN lines
<1>1. lines[n] \in Line
  BY LinesFinite
<1>2. QED
  BY <1>1 DEF Line

LEMMA HasLine ==
    ASSUME NEW S, NEW lines \in Seq(S), lines # <<>>
    PROVE  1 \in DOMAIN lines
<1>1. Len(lines) \in Nat /\ DOMAIN lines = 1..Len(lines)
  OBVIOUS
<1>2. Len(lines) # 0
  OBVIOUS
<1>3. QED
  BY <1>1, <1>2

\* What a request is resolved to.
LEMMA ResolvedAre ==
    ASSUME IInv, NEW d \in Doc, NEW lines \in Input[d], Loadable(d, lines)
    PROVE  /\ Resolved(d, lines) \in Seq(Line) /\ Resolved(d, lines) # <<>>
           /\ \A n \in DOMAIN Resolved(d, lines) :
                 LET line == Resolved(d, lines)[n]
                 IN  ~Posted(line) /\ ~Reversed(line) /\ LineShape(d, line, now)
<1> DEFINE new == Resolved(d, lines)
<1>1. lines \in Seq(InputLine) /\ lines # <<>>
  BY WarehouseAssumption
<1>2. DOMAIN new = DOMAIN lines
  BY DEF Resolved
<1>3. ASSUME NEW n \in DOMAIN lines
      PROVE  /\ new[n] \in Line
             /\ ~Posted(new[n]) /\ ~Reversed(new[n]) /\ LineShape(d, new[n], now)
  <2>1. lines[n] \in InputLine
    BY <1>1, LinesFinite
  <2>2. /\ Kind[d] # "TRANSFER" => lines[n].from = lines[n].to
        /\ Kind[d] # "ADJUSTMENT" => lines[n].quantity > 0
        /\ lines[n].quantity # 0
    BY WarehouseAssumption
  <2>3. BatchOf(d, lines[n]) \in Known
    BY <2>1 DEF BatchOf, Loadable, InputLine, Known
  <2>4. new[n] = [sku |-> lines[n].sku, batch |-> BatchOf(d, lines[n]), from |-> lines[n].from,
                  to |-> lines[n].to, quantity |-> lines[n].quantity, posted |-> 0, reversed |-> 0]
    BY DEF Resolved
  <2>5. new[n] \in Line
    BY <2>1, <2>3, <2>4 DEF Line, InputLine
  <2>6. now \in Nat
    BY WarehouseAssumption DEF IInv, TypeOK
  <2>7. ~Posted(new[n]) /\ ~Reversed(new[n]) /\ LineShape(d, new[n], now)
    BY <2>2, <2>4, <2>6 DEF Posted, Reversed, LineShape
  <2>8. QED
    BY <2>5, <2>7
<1>4. new = [n \in DOMAIN lines |-> new[n]]
  BY <1>2 DEF Resolved
<1> HIDE DEF new
<1>5. new \in Seq(Line)
  BY <1>1, <1>3, <1>4, LinesMade
<1>6. new # <<>>
  <2>1. DOMAIN lines # {}
    BY <1>1, HasLine
  <2>2. QED
    BY <1>2, <2>1
<1>7. QED
  BY <1>2, <1>3, <1>5, <1>6 DEF new

\* What has an effect is the same.
Same(a, b) ==
    a.sku = b.sku /\ a.batch = b.batch /\ a.from = b.from /\ a.to = b.to /\ a.quantity = b.quantity

LEMMA SameEffect ==
    ASSUME NEW d, NEW a, NEW b, Same(a, b), NEW k
    PROVE  Effect(d, a, k) = Effect(d, b, k)
BY DEF Same, Effect, KeyTo, KeyFrom

LEMMA OnLedgerAre ==
    ASSUME IInv, NEW d \in Doc, NEW lines \in Seq(Line),
           \A n \in DOMAIN lines : ~Reversed(lines[n]) /\ LineShape(d, lines[n], now)
    PROVE  /\ OnLedger(lines) \in Seq(Line) /\ DOMAIN OnLedger(lines) = DOMAIN lines
           /\ \A n \in DOMAIN lines :
                 LET line == OnLedger(lines)[n]
                 IN  Posted(line) /\ ~Reversed(line) /\ LineShape(d, line, now)
           /\ \A k : Moved(d, OnLedger(lines), k) = Moved(d, lines, k)
<1> DEFINE new == OnLedger(lines)
<1>1. DOMAIN new = DOMAIN lines /\ new = [n \in DOMAIN lines |-> new[n]]
  BY DEF OnLedger
<1>2. now \in Nat /\ now # 0
  BY WarehouseAssumption DEF IInv, TypeOK
<1>3. ASSUME NEW n \in DOMAIN lines
      PROVE  /\ new[n] \in Line /\ Same(new[n], lines[n])
             /\ Posted(new[n]) /\ ~Reversed(new[n]) /\ LineShape(d, new[n], now)
  <2>1. lines[n] \in Line
    BY LinesFinite
  <2>2. new[n] = [lines[n] EXCEPT !.posted = now]
    BY DEF OnLedger
  <2>3. new[n] \in Line /\ Same(new[n], lines[n]) /\ new[n].posted = now /\ new[n].reversed = lines[n].reversed
    BY <1>2, <2>1, <2>2 DEF Line, Same
  <2>4. QED
    BY <1>2, <2>3 DEF Same, Posted, Reversed, LineShape
<1> HIDE DEF new
<1>4. new \in Seq(Line)
  BY <1>1, <1>3, LinesMade
<1>5. ASSUME NEW k PROVE Moved(d, new, k) = Moved(d, lines, k)
  <2> DEFINE f == [n \in DOMAIN lines |-> Effect(d, lines[n], k)]
             g == [n \in DOMAIN new |-> Effect(d, new[n], k)]
  <2>1. \A n \in DOMAIN lines : lines[n].quantity \in Int /\ new[n].quantity \in Int
    BY <1>1, <1>4, QuantityIsInt
  <2>2. Moved(d, new, k) = SumFunctionOnSet(g, DOMAIN new)
    BY <1>1, <1>4, <2>1, MovedIs
  <2>3. Moved(d, lines, k) = SumFunctionOnSet(f, DOMAIN lines)
    BY <2>1, MovedIs
  <2>4. \A n \in DOMAIN lines : f[n] = g[n]
    BY <1>1, <1>3, SameEffect
  <2> HIDE DEF f, g
  <2>5. QED
    BY <1>1, <2>2, <2>3, <2>4, LinesFinite, SumEqual
<1>6. QED
  BY <1>1, <1>3, <1>4, <1>5 DEF new

\* A document that waits is posted.
LEMMA PostStep ==
    ASSUME IInv, NEW d \in Doc, doc[d].status \in Waiting, Post(d, doc[d].lines),
           doc' \in [Doc -> DocRow], doc'[d].lines = OnLedger(doc[d].lines),
           \A e \in Doc \ {d} : doc'[e] = doc[e]
    PROVE  stock' \in [Key -> Nat] /\ Summable(doc') /\ Accounted'
<1> DEFINE lines == doc[d].lines
           new == doc'[d].lines
<1>1. lines \in Seq(Line)
  BY DEF IInv, TypeOK
<1>2. \A n \in DOMAIN lines : ~Posted(lines[n]) /\ ~Reversed(lines[n]) /\ LineShape(d, lines[n], now)
  BY DEF IInv, Shapes, DocShape, LineShape
<1>3. /\ new \in Seq(Line) /\ DOMAIN new = DOMAIN lines
      /\ \A n \in DOMAIN new : Posted(new[n]) /\ ~Reversed(new[n])
      /\ \A k : Moved(d, new, k) = Moved(d, lines, k)
  BY <1>1, <1>2, OnLedgerAre
<1>4. FilePosted({d}, doc, doc')
  BY <1>2, <1>3, FS_Singleton DEF FilePosted
<1>5. ASSUME NEW k PROVE MovedBy({d}, doc', k) = Moved(d, lines, k) /\ Moved(d, lines, k) \in Int
  <2> DEFINE f == [e \in {d} |-> Moved(e, doc'[e].lines, k)]
  <2>1. \A n \in DOMAIN new : new[n].quantity \in Int
    BY <1>3, QuantityIsInt
  <2>2. Moved(d, new, k) \in Int
    BY <1>3, <2>1, MovedIs
  <2>3. f[d] = Moved(d, new, k)
    OBVIOUS
  <2> HIDE DEF f
  <2>4. SumFunctionOnSet(f, {d}) = f[d]
    BY <2>2, <2>3, SumOfOne
  <2>5. QED
    BY <1>3, <2>2, <2>3, <2>4 DEF MovedBy, f
<1>6. Summable(doc') /\ \A k : StandingSum(doc', k) = StandingSum(doc, k) + Moved(d, lines, k)
  BY <1>4, <1>5, PostedAddsUp DEF IInv
<1>7. \A k \in Key : stock'[k] = stock[k] + Moved(d, lines, k) /\ stock'[k] >= 0 /\ stock[k] \in Nat
  BY DEF Post, IInv, TypeOK
<1>8. stock' \in [Key -> Nat]
  <2>1. \A k \in Key : stock'[k] \in Nat
    BY <1>5, <1>7
  <2>2. stock' = [k \in Key |-> stock[k] + Moved(d, lines, k)]
    BY DEF Post
  <2>3. QED
    BY <2>1, <2>2
<1>9. Accounted'
  BY <1>6, <1>7 DEF Accounted, IInv
<1>10. QED
  BY <1>6, <1>8, <1>9

\* What most steps leave alone.
LEMMA RestKept ==
    ASSUME IInv, UNCHANGED <<now, sku, active, masterEdits>>,
           doc' \in [Doc -> DocRow], stock' \in [Key -> Nat]
    PROVE  TypeOK'
BY DEF IInv, TypeOK, DocRow, masterEdits

LEMMA LoadStep ==
    ASSUME IInv, NEW d \in Doc, NEW lines \in Input[d], Load(d, lines)
    PROVE  IInv'
<1> DEFINE new == Resolved(d, lines)
           row == [doc[d] EXCEPT !.status = "LOADED", !.lines = new]
<1>1. /\ new \in Seq(Line) /\ new # <<>>
      /\ \A n \in DOMAIN new : ~Posted(new[n]) /\ ~Reversed(new[n]) /\ LineShape(d, new[n], now)
  BY ResolvedAre DEF Load
<1>2. doc[d] \in DocRow /\ DocShape(d, doc[d], now) /\ doc[d].status = "ABSENT"
  BY DEF IInv, TypeOK, Shapes, DocRow, Load
<1> HIDE DEF new
<1>3. /\ row \in DocRow /\ row.lines = new /\ row.status = "LOADED"
      /\ row.by = doc[d].by /\ row.reviewer = doc[d].reviewer
  BY <1>1, <1>2 DEF DocRow, Status
<1>4. doc' = [doc EXCEPT ![d] = row]
  BY DEF Load, new
<1> HIDE DEF row
<1>5. DocShape(d, row, now)
  BY <1>1, <1>3 DEF DocShape, Load, Waiting, Reviewed
<1>6. /\ doc' \in [Doc -> DocRow] /\ doc'[d] = row
      /\ \A e \in Doc \ {d} : doc'[e] = doc[e]
      /\ Shapes'
  BY <1>3, <1>4, <1>5, DocChanged DEF Load
<1>7. \A n \in DOMAIN doc[d].lines : ~Posted(doc[d].lines[n])
  BY <1>2 DEF DocShape, Waiting
<1>8. Summable(doc') /\ Accounted'
  BY <1>1, <1>3, <1>6, <1>7, LedgerKept DEF Load
<1>9. QED
  BY <1>6, <1>8, RestKept DEF IInv, TypeOK, Load

LEMMA PostLoadedStep ==
    ASSUME IInv, NEW d \in Doc, PostLoaded(d)
    PROVE  IInv'
<1> DEFINE lines == doc[d].lines
           new == OnLedger(lines)
           row == [doc[d] EXCEPT !.status = "POSTED", !.lines = new]
<1>1. /\ doc[d] \in DocRow /\ DocShape(d, doc[d], now) /\ doc[d].status = "LOADED"
      /\ lines \in Seq(Line)
  BY DEF IInv, TypeOK, Shapes, DocRow, PostLoaded
<1>2. \A n \in DOMAIN lines : ~Posted(lines[n]) /\ ~Reversed(lines[n]) /\ LineShape(d, lines[n], now)
  BY <1>1 DEF DocShape, LineShape, Waiting
<1>3. /\ new \in Seq(Line) /\ DOMAIN new = DOMAIN lines
      /\ \A n \in DOMAIN lines : Posted(new[n]) /\ ~Reversed(new[n]) /\ LineShape(d, new[n], now)
  BY <1>1, <1>2, OnLedgerAre
<1>4. new # <<>>
  <2>1. 1 \in DOMAIN lines
    BY <1>1, HasLine DEF DocShape
  <2>2. QED
    BY <1>3, <2>1
<1> HIDE DEF new
<1>5. row \in DocRow /\ row.lines = new /\ row.status = "POSTED"
  BY <1>1, <1>3 DEF DocRow, Status
<1>6. doc' = [doc EXCEPT ![d] = row]
  BY DEF PostLoaded, new
<1> HIDE DEF row
<1>7. Kind[d] # "ADJUSTMENT"
  BY <1>1 DEF DocShape, Reviewed
<1>8. DocShape(d, row, now)
  BY <1>3, <1>4, <1>5, <1>7 DEF DocShape, Waiting, Reviewed
<1>9. /\ doc' \in [Doc -> DocRow] /\ doc'[d] = row
      /\ \A e \in Doc \ {d} : doc'[e] = doc[e]
      /\ Shapes'
  BY <1>5, <1>6, <1>8, DocChanged DEF PostLoaded
<1>10. stock' \in [Key -> Nat] /\ Summable(doc') /\ Accounted'
  BY <1>1, <1>5, <1>9, PostStep DEF PostLoaded, Waiting, new
<1>11. QED
  BY <1>9, <1>10, RestKept DEF IInv, PostLoaded

LEMMA AbandonStep ==
    ASSUME IInv, NEW d \in Doc, Abandon(d)
    PROVE  IInv'
<1>1. Absent \in DocRow /\ Absent.lines = <<>> /\ Absent.status = "ABSENT" /\ DOMAIN Absent.lines = {}
  BY DEF Absent, DocRow, Status
<1>2. DocShape(d, Absent, now)
  BY <1>1 DEF DocShape, Waiting, Reviewed
<1>3. /\ doc' \in [Doc -> DocRow] /\ doc'[d] = Absent
      /\ \A e \in Doc \ {d} : doc'[e] = doc[e]
      /\ Shapes'
  BY <1>1, <1>2, DocChanged DEF Abandon
<1>4. \A n \in DOMAIN doc[d].lines : ~Posted(doc[d].lines[n])
  BY DEF IInv, Shapes, DocShape, Waiting, Abandon
<1>5. Summable(doc') /\ Accounted'
  BY <1>1, <1>3, <1>4, LedgerKept DEF Abandon
<1>6. QED
  BY <1>3, <1>5, RestKept DEF IInv, TypeOK, Abandon

LEMMA CreateAdjustmentStep ==
    ASSUME IInv, NEW d \in Doc, NEW user \in User, NEW lines \in Input[d],
           CreateAdjustment(d, user, lines)
    PROVE  IInv'
<1> DEFINE new == Resolved(d, lines)
           row == [Absent EXCEPT !.status = "SUBMITTED", !.by = user, !.lines = new]
<1>1. /\ new \in Seq(Line) /\ new # <<>>
      /\ \A n \in DOMAIN new : ~Posted(new[n]) /\ ~Reversed(new[n]) /\ LineShape(d, new[n], now)
  BY ResolvedAre DEF CreateAdjustment
<1>2. DocShape(d, doc[d], now) /\ doc[d].status = "ABSENT"
  BY DEF IInv, Shapes, CreateAdjustment
<1> HIDE DEF new
<1>3. row \in DocRow /\ row.lines = new /\ row.status = "SUBMITTED"
  BY <1>1 DEF DocRow, Status, Absent
<1>4. doc' = [doc EXCEPT ![d] = row]
  BY DEF CreateAdjustment, new
<1> HIDE DEF row
<1>5. DocShape(d, row, now)
  BY <1>1, <1>3 DEF DocShape, CreateAdjustment, Waiting, Reviewed
<1>6. /\ doc' \in [Doc -> DocRow] /\ doc'[d] = row
      /\ \A e \in Doc \ {d} : doc'[e] = doc[e]
      /\ Shapes'
  BY <1>3, <1>4, <1>5, DocChanged DEF CreateAdjustment
<1>7. \A n \in DOMAIN doc[d].lines : ~Posted(doc[d].lines[n])
  BY <1>2 DEF DocShape, Waiting
<1>8. Summable(doc') /\ Accounted'
  BY <1>1, <1>3, <1>6, <1>7, LedgerKept DEF CreateAdjustment
<1>9. QED
  BY <1>6, <1>8, RestKept DEF IInv, TypeOK, CreateAdjustment

LEMMA ApproveStep ==
    ASSUME IInv, NEW d \in Doc, NEW user \in User, Approve(d, user)
    PROVE  IInv'
<1> DEFINE lines == doc[d].lines
           new == OnLedger(lines)
           row == [doc[d] EXCEPT !.status = "APPROVED", !.reviewer = user, !.lines = new]
<1>1. /\ doc[d] \in DocRow /\ DocShape(d, doc[d], now) /\ doc[d].status = "SUBMITTED"
      /\ doc[d].by # user /\ lines \in Seq(Line)
  BY DEF IInv, TypeOK, Shapes, DocRow, Approve, Reviewable
<1>2. \A n \in DOMAIN lines : ~Posted(lines[n]) /\ ~Reversed(lines[n]) /\ LineShape(d, lines[n], now)
  BY <1>1 DEF DocShape, LineShape, Waiting
<1>3. /\ new \in Seq(Line) /\ DOMAIN new = DOMAIN lines
      /\ \A n \in DOMAIN lines : Posted(new[n]) /\ ~Reversed(new[n]) /\ LineShape(d, new[n], now)
  BY <1>1, <1>2, OnLedgerAre
<1>4. 1 \in DOMAIN new /\ new # <<>>
  <2>1. 1 \in DOMAIN lines
    BY <1>1, HasLine DEF DocShape
  <2>2. QED
    BY <1>3, <2>1
<1> HIDE DEF new
<1>5. /\ row \in DocRow /\ row.lines = new /\ row.status = "APPROVED"
      /\ row.by = doc[d].by /\ row.reviewer = user
  BY <1>1, <1>3 DEF DocRow, Status
<1>6. doc' = [doc EXCEPT ![d] = row]
  BY DEF Approve, new
<1> HIDE DEF row
<1>7. Kind[d] = "ADJUSTMENT"
  BY <1>1 DEF DocShape, Reviewed
<1>8. DocShape(d, row, now)
  BY <1>1, <1>3, <1>4, <1>5, <1>7 DEF DocShape, Waiting, Reviewed
<1>9. /\ doc' \in [Doc -> DocRow] /\ doc'[d] = row
      /\ \A e \in Doc \ {d} : doc'[e] = doc[e]
      /\ Shapes'
  BY <1>5, <1>6, <1>8, DocChanged DEF Approve
<1>10. stock' \in [Key -> Nat] /\ Summable(doc') /\ Accounted'
  BY <1>1, <1>5, <1>9, PostStep DEF Approve, Waiting, new
<1>11. QED
  BY <1>9, <1>10, RestKept DEF IInv, Approve

LEMMA RejectStep ==
    ASSUME IInv, NEW d \in Doc, NEW user \in User, Reject(d, user)
    PROVE  IInv'
<1> DEFINE row == [doc[d] EXCEPT !.status = "REJECTED", !.reviewer = user]
<1>1. doc[d] \in DocRow /\ DocShape(d, doc[d], now) /\ doc[d].status = "SUBMITTED"
  BY DEF IInv, TypeOK, Shapes, DocRow, Reject, Reviewable
<1>2. row \in DocRow /\ row.lines = doc[d].lines /\ row.status = "REJECTED"
  BY <1>1 DEF DocRow, Status
<1>3. doc' = [doc EXCEPT ![d] = row]
  BY DEF Reject
<1> HIDE DEF row
<1>4. DocShape(d, row, now)
  BY <1>1, <1>2 DEF DocShape, Waiting, Reviewed
<1>5. /\ doc' \in [Doc -> DocRow] /\ doc'[d] = row
      /\ \A e \in Doc \ {d} : doc'[e] = doc[e]
      /\ Shapes'
  BY <1>2, <1>3, <1>4, DocChanged DEF Reject
<1>6. Summable(doc') /\ Accounted'
  BY <1>2, <1>5, LedgerKept DEF Reject
<1>7. QED
  BY <1>5, <1>6, RestKept DEF IInv, TypeOK, Reject

LEMMA ImportStep ==
    ASSUME IInv, NEW file \in Together, Import(file)
    PROVE  IInv'
<1> DEFINE new(d) == OnLedger(doc[d].lines)
           row(d) == [doc[d] EXCEPT !.status = "POSTED", !.lines = new(d)]
<1>1. IsFiniteSet(file) /\ file \subseteq Doc /\ \A d \in file : Kind[d] = "OPENING"
  BY WarehouseAssumption
<1>2. doc \in [Doc -> DocRow] /\ \A d \in Doc : DocShape(d, doc[d], now)
  BY DEF IInv, TypeOK, DocRow, Shapes
<1>3. ASSUME NEW d \in file
      PROVE  /\ \A n \in DOMAIN doc[d].lines : ~Posted(doc[d].lines[n])
             /\ new(d) \in Seq(Line) /\ row(d) \in DocRow /\ DocShape(d, row(d), now)
             /\ row(d).lines = new(d)
             /\ \A n \in DOMAIN new(d) : Posted(new(d)[n]) /\ ~Reversed(new(d)[n])
             /\ \A k : /\ Moved(d, new(d), k) = Moved(d, doc[d].lines, k)
                       /\ Moved(d, doc[d].lines, k) \in Nat
  <2> DEFINE old == doc[d].lines
             onLedger == new(d)
  <2>1. d \in Doc /\ Kind[d] = "OPENING" /\ doc[d].status = "LOADED"
    BY <1>1 DEF Import
  <2>2. doc[d] \in DocRow /\ DocShape(d, doc[d], now)
    BY <1>2, <2>1
  <2>3. old \in Seq(Line) /\ old # <<>> /\ onLedger = OnLedger(old)
        /\ \A n \in DOMAIN old : ~Posted(old[n]) /\ ~Reversed(old[n]) /\ LineShape(d, old[n], now)
    BY <2>1, <2>2 DEF DocRow, DocShape, Waiting, LineShape
  <2> HIDE DEF old
  <2>4. /\ onLedger \in Seq(Line) /\ DOMAIN onLedger = DOMAIN old
        /\ \A n \in DOMAIN old : /\ Posted(onLedger[n]) /\ ~Reversed(onLedger[n])
                                 /\ LineShape(d, onLedger[n], now)
        /\ \A k : Moved(d, onLedger, k) = Moved(d, old, k)
    BY <2>1, <2>3, OnLedgerAre
  <2> HIDE DEF onLedger
  <2>5. onLedger # <<>>
    BY <2>3, <2>4, HasLine
  <2> DEFINE r == [doc[d] EXCEPT !.status = "POSTED", !.lines = onLedger]
  <2>6. r \in DocRow /\ r.lines = onLedger /\ r.status = "POSTED"
    BY <2>2, <2>4 DEF DocRow, Status
  <2> HIDE DEF r
  <2>7. DocShape(d, r, now)
    BY <2>1, <2>4, <2>5, <2>6 DEF DocShape, Waiting, Reviewed
  <2>8. ASSUME NEW k PROVE Moved(d, old, k) \in Nat
    <3>1. \A n \in DOMAIN old : old[n].quantity \in Int
      BY <2>3, QuantityIsInt
    <3>2. \A n \in DOMAIN old : old[n].quantity > 0
      BY <2>1, <2>3 DEF LineShape
    <3>3. \A n \in DOMAIN old : Effect(d, old[n], k) >= 0
      BY <2>1, <3>1, <3>2 DEF Effect
    <3>4. Moved(d, old, k) \in Int /\ Moved(d, old, k) >= 0
      BY <2>1, <2>3, <3>1, <3>3, MovedIs
    <3>5. QED
      BY <3>4
  <2>9. /\ \A n \in DOMAIN old : ~Posted(old[n])
        /\ onLedger \in Seq(Line) /\ \A n \in DOMAIN onLedger : Posted(onLedger[n]) /\ ~Reversed(onLedger[n])
        /\ \A k : Moved(d, onLedger, k) = Moved(d, old, k) /\ Moved(d, old, k) \in Nat
    BY <2>3, <2>4, <2>8
  <2>10. QED
    BY <2>6, <2>7, <2>9 DEF onLedger, old, r
<1>4. \A d \in file : doc'[d] = row(d)
  BY <1>1 DEF Import
<1>5. \A d \in Doc \ file : doc'[d] = doc[d]
  BY DEF Import
<1>6. ASSUME NEW d \in Doc
      PROVE  doc'[d] \in DocRow /\ DocShape(d, doc'[d], now)
  <2>1. CASE d \in file
    <3>1. doc'[d] = row(d) /\ row(d) \in DocRow /\ DocShape(d, row(d), now)
      BY <1>3, <1>4, <2>1
    <3> HIDE DEF row
    <3>2. QED
      BY <3>1
  <2>2. CASE d \notin file
    <3>1. doc'[d] = doc[d]
      BY <1>5, <2>2
    <3>2. QED
      BY <1>2, <3>1
  <2>3. QED
    BY <2>1, <2>2
<1>7. doc' \in [Doc -> DocRow]
  <2>1. doc' = [d \in Doc |-> doc'[d]]
    BY DEF Import
  <2>2. QED
    BY <1>6, <2>1
<1>8. ASSUME NEW d \in file
      PROVE  doc'[d].lines = new(d)
  BY <1>3, <1>4
<1>9. ASSUME NEW d \in file
      PROVE  /\ doc'[d].lines \in Seq(Line)
             /\ \A n \in DOMAIN doc'[d].lines : Posted(doc'[d].lines[n]) /\ ~Reversed(doc'[d].lines[n])
             /\ \A n \in DOMAIN doc[d].lines : ~Posted(doc[d].lines[n])
             /\ \A k : Moved(d, doc'[d].lines, k) = Moved(d, doc[d].lines, k) /\ Moved(d, doc[d].lines, k) \in Nat
  BY <1>3, <1>8
<1>10. FilePosted(file, doc, doc')
  BY <1>1, <1>5, <1>9 DEF FilePosted
<1>11. ASSUME NEW k
       PROVE  /\ MovedBy(file, doc', k) = SumFunction([d \in file |-> Moved(d, doc[d].lines, k)])
              /\ MovedBy(file, doc', k) \in Nat
  <2> DEFINE f == [d \in file |-> Moved(d, doc'[d].lines, k)]
             g == [d \in file |-> Moved(d, doc[d].lines, k)]
  <2>1. \A d \in file : f[d] = g[d] /\ f[d] \in Nat
    BY <1>9
  <2>2. SumFunction(g) = SumFunctionOnSet(g, file)
    BY DEF SumFunction
  <2>3. MovedBy(file, doc', k) = SumFunctionOnSet(f, file)
    BY DEF MovedBy
  <2> HIDE DEF f, g
  <2>4. SumFunctionOnSet(f, file) = SumFunctionOnSet(g, file) /\ SumFunctionOnSet(f, file) \in Nat
    BY <1>1, <2>1, SumEqual, SumNat
  <2>5. SumFunction(g) = MovedBy(file, doc', k) /\ MovedBy(file, doc', k) \in Nat
    BY <2>2, <2>3, <2>4
  <2>6. QED
    BY <2>5 DEF g
<1>12. Summable(doc') /\ \A k : StandingSum(doc', k) = StandingSum(doc, k) + MovedBy(file, doc', k)
  BY <1>10, PostedAddsUp DEF IInv
<1>13. \A k \in Key : stock'[k] = stock[k] + MovedBy(file, doc', k) /\ stock[k] \in Nat
  BY <1>11 DEF Import, IInv, TypeOK
<1>14. stock' \in [Key -> Nat]
  <2>1. \A k \in Key : stock'[k] \in Nat
    <3> TAKE k \in Key
    <3>1. MovedBy(file, doc', k) \in Nat
      BY <1>11
    <3>2. QED
      BY <1>13, <3>1
  <2>2. stock' = [k \in Key |-> stock'[k]]
    BY DEF Import
  <2>3. QED
    BY <2>1, <2>2
<1>15. Accounted'
  BY <1>12, <1>13 DEF Accounted, IInv
<1>16. Shapes'
  <2>1. now' = now
    BY DEF Import
  <2>2. \A d \in Doc : DocShape(d, doc'[d], now')
    BY <1>6, <2>1
  <2>3. QED
    BY <2>2 DEF Shapes, DocShape, LineShape, Posted, Reversed, Waiting, Reviewed
<1>17. QED
  BY <1>7, <1>12, <1>14, <1>15, <1>16, RestKept DEF IInv, Import

LEMMA ReverseLineStep ==
    ASSUME IInv, NEW d \in Doc, NEW n \in DOMAIN doc[d].lines, ReverseLine(d, n)
    PROVE  IInv'
<1> DEFINE old == doc[d].lines
           line == old[n]
           undone == [line EXCEPT !.reversed = now]
           new == [old EXCEPT ![n] = undone]
           row == [doc[d] EXCEPT !.lines = new, !.status = StatusAfterReversal(d, new)]
<1>1. /\ doc[d] \in DocRow /\ DocShape(d, doc[d], now) /\ old \in Seq(Line)
      /\ Posted(line) /\ ~Reversed(line) /\ line \in Line /\ LineShape(d, line, now)
  <2>1. doc[d] \in DocRow /\ DocShape(d, doc[d], now) /\ old \in Seq(Line)
    BY DEF IInv, TypeOK, Shapes, DocRow
  <2>2. line \in Line
    BY <2>1, LinesFinite
  <2>3. QED
    BY <2>1, <2>2 DEF ReverseLine, Reversible, DocShape
<1>2. now \in Nat /\ now # 0
  BY WarehouseAssumption DEF IInv, TypeOK
<1>3. /\ undone \in Line /\ Posted(undone) /\ Reversed(undone) /\ LineShape(d, undone, now)
      /\ Same(undone, line)
  <2> HIDE DEF line
  <2>1. /\ undone \in Line /\ undone.reversed = now /\ undone.posted = line.posted
        /\ Same(undone, line)
    BY <1>1, <1>2 DEF Line, Same
  <2>2. QED
    BY <1>1, <1>2, <2>1 DEF Posted, Reversed, LineShape, Same
<1> HIDE DEF undone
<1>4. /\ new \in Seq(Line) /\ DOMAIN new = DOMAIN old
      /\ \A i \in DOMAIN old : new[i] = IF i = n THEN undone ELSE old[i]
  BY <1>1, <1>3, LineReplaced
<1> HIDE DEF new
<1>5. new # <<>>
  BY <1>4
<1>6. \A i \in DOMAIN new : Posted(new[i]) /\ LineShape(d, new[i], now)
  BY <1>1, <1>3, <1>4 DEF DocShape
<1>7. doc[d].status \notin Waiting
  BY <1>1 DEF DocShape
<1> DEFINE gone == {i \in DOMAIN new : Reversed(new[i])}
           standing == StatusAfterReversal(d, new)
<1>8. n \in gone /\ gone \in SUBSET DOMAIN new
  BY <1>3, <1>4
<1>9. /\ standing \in Status /\ standing \notin Waiting
      /\ Kind[d] = "ADJUSTMENT" => standing \in {"APPROVED", "REVERSED"}
      /\ Kind[d] # "ADJUSTMENT" => standing \in {"PARTIALLY_REVERSED", "REVERSED"}
      /\ standing = "REVERSED" <=> gone = DOMAIN new
  <2>1. CASE Kind[d] = "ADJUSTMENT"
    <3>1. doc[d].status = "APPROVED"
      BY <1>1, <1>7, <2>1 DEF DocShape, Waiting, Reviewed
    <3>2. standing = IF gone = DOMAIN new THEN "REVERSED" ELSE doc[d].status
      BY <2>1 DEF StatusAfterReversal
    <3>3. QED
      BY <2>1, <3>1, <3>2 DEF Status, Waiting
  <2>2. CASE Kind[d] # "ADJUSTMENT"
    <3>1. standing = Derived(Len(new), Cardinality(gone))
      BY <2>2 DEF StatusAfterReversal
    <3>2. standing = IF gone = DOMAIN new THEN "REVERSED" ELSE "PARTIALLY_REVERSED"
      BY <1>4, <1>8, <3>1, DerivedIs
    <3>3. QED
      BY <2>2, <3>2 DEF Status, Waiting
  <2>3. QED
    BY <2>1, <2>2
<1> HIDE DEF standing
<1>10. /\ row \in DocRow /\ row.lines = new /\ row.status = standing
       /\ row.by = doc[d].by /\ row.reviewer = doc[d].reviewer
  BY <1>1, <1>4, <1>9 DEF DocRow, standing
<1>11. doc' = [doc EXCEPT ![d] = row]
  BY DEF ReverseLine, new, undone
<1> HIDE DEF row
<1>12. DocShape(d, row, now)
  <2>1. /\ row.status = "POSTED" => \A i \in DOMAIN new : ~Reversed(new[i])
        /\ row.status \in {"APPROVED", "PARTIALLY_REVERSED"} => \E i \in DOMAIN new : ~Reversed(new[i])
        /\ row.status = "PARTIALLY_REVERSED" => \E i \in DOMAIN new : Reversed(new[i])
        /\ row.status = "REVERSED" => \A i \in DOMAIN new : Reversed(new[i])
    BY <1>8, <1>9, <1>10
  <2>2. /\ Kind[d] = "ADJUSTMENT" => row.status \in Reviewed \cup {"ABSENT", "REVERSED"}
        /\ Kind[d] # "ADJUSTMENT" => row.status \notin Reviewed
        /\ row.lines = <<>> <=> row.status = "ABSENT"
    BY <1>5, <1>9, <1>10 DEF Waiting, Reviewed
  <2>3. Kind[d] = "ADJUSTMENT" => row.reviewer \in User \ {row.by}
    BY <1>1, <1>7, <1>10 DEF DocShape
  <2>4. QED
    BY <1>6, <1>9, <1>10, <2>1, <2>2, <2>3 DEF DocShape
<1>13. /\ doc' \in [Doc -> DocRow] /\ doc'[d] = row
       /\ \A e \in Doc \ {d} : doc'[e] = doc[e]
       /\ Shapes'
  BY <1>10, <1>11, <1>12, DocChanged DEF ReverseLine
<1>14. LineUndone(d, n, doc, doc')
  BY <1>1, <1>3, <1>4, <1>10, <1>13 DEF LineUndone, Line
<1>15. Summable(doc') /\ \A k : StandingSum(doc', k) = StandingSum(doc, k) - Effect(d, line, k)
  BY <1>14, ReversedSubtracts DEF IInv
<1>16. ASSUME NEW k \in Key
       PROVE  stock'[k] = stock[k] - Effect(d, line, k) /\ stock'[k] \in Nat
  <2>1. stock'[k] = stock[k] - TakenBack(d, line, k) /\ stock'[k] >= 0 /\ stock[k] \in Nat
    BY DEF ReverseLine, IInv, TypeOK
  <2>2. line.quantity \in Int
    BY <1>1 DEF Line
  <2>3. TakenBack(d, line, k) = Effect(d, line, k) /\ Effect(d, line, k) \in Int
    BY <2>2, MovesAre, EffectIsInt DEF TakenBack
  <2>4. QED
    BY <2>1, <2>3
<1>17. stock' \in [Key -> Nat]
  <2>1. stock' = [k \in Key |-> stock'[k]]
    BY DEF ReverseLine
  <2>2. QED
    BY <1>16, <2>1
<1>18. Accounted'
  BY <1>15, <1>16 DEF Accounted, IInv
<1>19. QED
  BY <1>13, <1>15, <1>17, <1>18, RestKept DEF IInv, ReverseLine

\* The ledger is left alone.
LEMMA LedgerUntouched ==
    ASSUME IInv, UNCHANGED <<stock, doc>>, now' \in Moment, now <= now',
           sku' \in [Sku -> SkuRow], active' \in [Godown -> BOOLEAN],
           edit' \subseteq (SkuEdit \cup GodownEdit), edits' \in 0..MaxEdits
    PROVE  IInv'
<1>1. TypeOK'
  BY DEF IInv, TypeOK
<1>2. now \in Nat /\ now' \in Nat
  BY WarehouseAssumption DEF IInv, TypeOK
<1>3. \A d \in Doc : DocShape(d, doc[d], now')
  <2> TAKE d \in Doc
  <2>1. DocShape(d, doc[d], now)
    BY DEF IInv, Shapes
  <2>2. ASSUME NEW n \in DOMAIN doc[d].lines PROVE LineShape(d, doc[d].lines[n], now')
    <3>1. doc[d].lines[n] \in Line
      BY QuantitiesAreInt DEF IInv, TypeOK
    <3>2. LineShape(d, doc[d].lines[n], now)
      BY <2>1 DEF DocShape
    <3>3. QED
      BY <1>2, <3>1, <3>2 DEF LineShape, Line
  <2>3. QED
    BY <2>1, <2>2 DEF DocShape
<1>4. Shapes'
  BY <1>3 DEF Shapes, DocShape, LineShape, Posted, Reversed, Waiting, Reviewed
<1>5. Summable(doc') /\ Accounted'
  BY DEF IInv, Accounted
<1>6. QED
  BY <1>1, <1>4, <1>5 DEF IInv

LEMMA TickStep == IInv /\ Tick => IInv'
<1> SUFFICES ASSUME IInv, Tick PROVE IInv'
  OBVIOUS
<1>1. now' \in Moment /\ now <= now'
  BY WarehouseAssumption DEF IInv, TypeOK, Tick
<1>2. QED
  BY <1>1, LedgerUntouched DEF IInv, TypeOK, Tick, masterEdits

LEMMA MasterStep ==
    ASSUME IInv,
           \/ \E e \in SkuEdit : CheckSku(e[1], e[2]) \/ SaveSku(e[1], e[2])
           \/ \E e \in GodownEdit : CheckGodown(e[1], e[2]) \/ SaveGodown(e[1], e[2])
    PROVE  IInv'
<1>1. /\ now \in Moment /\ now \in Int /\ edits \in 0..MaxEdits /\ MaxEdits \in Nat
      /\ sku \in [Sku -> SkuRow] /\ active \in [Godown -> BOOLEAN]
      /\ edit \subseteq (SkuEdit \cup GodownEdit)
  BY WarehouseAssumption DEF IInv, TypeOK
<1>2. CASE \E e \in SkuEdit : CheckSku(e[1], e[2]) \/ SaveSku(e[1], e[2])
  <2>1. PICK e \in SkuEdit : CheckSku(e[1], e[2]) \/ SaveSku(e[1], e[2])
    BY <1>2
  <2>2. e[1] \in Sku /\ e[2] \in SkuRow /\ e = <<e[1], e[2]>>
    BY WarehouseAssumption
  <2>3. CASE CheckSku(e[1], e[2])
    <3>1. edits' \in 0..MaxEdits /\ edit' \subseteq (SkuEdit \cup GodownEdit)
      BY <1>1, <2>2, <2>3 DEF CheckSku, CanEdit
    <3>2. QED
      BY <1>1, <2>3, <3>1, LedgerUntouched DEF CheckSku
  <2>4. CASE SaveSku(e[1], e[2])
    <3>1. sku' \in [Sku -> SkuRow] /\ edit' \subseteq (SkuEdit \cup GodownEdit)
      BY <1>1, <2>2, <2>4 DEF SaveSku
    <3>2. QED
      BY <1>1, <2>4, <3>1, LedgerUntouched DEF SaveSku
  <2>5. QED
    BY <2>1, <2>3, <2>4
<1>3. CASE \E e \in GodownEdit : CheckGodown(e[1], e[2]) \/ SaveGodown(e[1], e[2])
  <2>1. PICK e \in GodownEdit : CheckGodown(e[1], e[2]) \/ SaveGodown(e[1], e[2])
    BY <1>3
  <2>2. e[1] \in Godown /\ e[2] \in BOOLEAN /\ e = <<e[1], e[2]>>
    BY WarehouseAssumption
  <2>3. CASE CheckGodown(e[1], e[2])
    <3>1. edits' \in 0..MaxEdits /\ edit' \subseteq (SkuEdit \cup GodownEdit)
      BY <1>1, <2>2, <2>3 DEF CheckGodown, CanEdit
    <3>2. QED
      BY <1>1, <2>3, <3>1, LedgerUntouched DEF CheckGodown
  <2>4. CASE SaveGodown(e[1], e[2])
    <3>1. active' \in [Godown -> BOOLEAN] /\ edit' \subseteq (SkuEdit \cup GodownEdit)
      BY <1>1, <2>2, <2>4 DEF SaveGodown
    <3>2. QED
      BY <1>1, <2>4, <3>1, LedgerUntouched DEF SaveGodown
  <2>5. QED
    BY <2>1, <2>3, <2>4
<1>4. QED
  BY <1>2, <1>3

LEMMA InvNext == IInv /\ [Next]_vars => IInv'
<1> SUFFICES ASSUME IInv, [Next]_vars PROVE IInv'
  OBVIOUS
<1>1. CASE UNCHANGED vars
  <2>1. now \in Int
    BY WarehouseAssumption DEF IInv, TypeOK
  <2>2. QED
    BY <1>1, <2>1, LedgerUntouched DEF vars, masterEdits, IInv, TypeOK
<1>2. CASE Tick
  BY <1>2, TickStep
<1>3. ASSUME NEW d \in Doc, NEW lines \in Input[d], Load(d, lines)
      PROVE  IInv'
  BY <1>3, LoadStep
<1>4. ASSUME NEW d \in Doc, PostLoaded(d) \/ Abandon(d)
      PROVE  IInv'
  BY <1>4, PostLoadedStep, AbandonStep
<1>5. ASSUME NEW d \in Doc, NEW user \in User, NEW lines \in Input[d], CreateAdjustment(d, user, lines)
      PROVE  IInv'
  BY <1>5, CreateAdjustmentStep
<1>6. ASSUME NEW d \in Doc, NEW user \in User, Approve(d, user) \/ Reject(d, user)
      PROVE  IInv'
  BY <1>6, ApproveStep, RejectStep
<1>7. ASSUME NEW d \in Doc, NEW n \in DOMAIN doc[d].lines, ReverseLine(d, n)
      PROVE  IInv'
  BY <1>7, ReverseLineStep
<1>8. ASSUME NEW file \in Together, Import(file)
      PROVE  IInv'
  BY <1>8, ImportStep
<1>9. CASE \/ \E e \in SkuEdit : CheckSku(e[1], e[2]) \/ SaveSku(e[1], e[2])
           \/ \E e \in GodownEdit : CheckGodown(e[1], e[2]) \/ SaveGodown(e[1], e[2])
  BY <1>9, MasterStep
<1>10. QED
  BY <1>1, <1>2, <1>3, <1>4, <1>5, <1>6, <1>7, <1>8, <1>9 DEF Next

\* Every reachable state satisfies the inductive invariant.
LEMMA InvHolds == Spec => []IInv
<1>1. QED
  BY InvInit, InvNext, PTL DEF Spec

-----------------------------------------------------------------------------
(***************************************************************************)
(* What follows from the invariant.                                        *)
(***************************************************************************)

\* The rows of every table keep the types the schema gives them, the stock on hand
\* is never negative, and every clock and counter stays in its bounds.
THEOREM TypeCorrect == Spec => []TypeOK
<1>1. IInv => TypeOK
  BY DEF IInv
<1>2. QED
  BY <1>1, InvHolds, PTL

\* A document's status says what became of its entries, whatever was posted,
\* reviewed and reversed in whatever order (DocumentsFollowEntries).
THEOREM DocumentsFollowEntriesHolds == Spec => []DocumentsFollowEntries
<1>1. ASSUME IInv PROVE DocumentsFollowEntries
  <2> SUFFICES ASSUME NEW d \in Doc
               PROVE  LET lines == {id \in LineIds : id[1] = d}
                          posted == lines \cap PostedIds
                          undone == lines \cap ReversedIds
                      IN  /\ undone \subseteq posted
                          /\ doc[d].status \in {"ABSENT", "LOADED", "SUBMITTED", "REJECTED"} <=> posted = {}
                          /\ posted # {} => posted = lines
                          /\ doc[d].status = "POSTED" => undone = {}
                          /\ doc[d].status = "APPROVED" => undone # lines
                          /\ doc[d].status = "PARTIALLY_REVERSED" => undone \notin {{}, lines}
                          /\ doc[d].status = "REVERSED" => undone = lines
                          /\ Kind[d] = "ADJUSTMENT" /\ posted # {} => doc[d].reviewer \in User \ {doc[d].by}
    BY DEF DocumentsFollowEntries
  <2> DEFINE lines == {id \in LineIds : id[1] = d}
             posted == lines \cap PostedIds
             undone == lines \cap ReversedIds
             row == doc[d]
  <2>1. DocShape(d, row, now) /\ row.lines \in Seq(Line)
    BY <1>1 DEF IInv, TypeOK, Shapes
  <2>2. \A n \in DOMAIN row.lines : <<d, n>> \in lines /\ LineAt(<<d, n>>) = row.lines[n]
    BY SameIds, IdsAre DEF LineAt
  <2>3. ASSUME NEW id \in lines
        PROVE  id[2] \in DOMAIN row.lines /\ id = <<d, id[2]>> /\ LineAt(id) = row.lines[id[2]]
    BY SameIds, IdsAre DEF LineAt
  <2>4. /\ \A id : id \in posted <=> id \in lines /\ Posted(LineAt(id))
        /\ \A id : id \in undone <=> id \in lines /\ Reversed(LineAt(id))
    BY DEF PostedIds, ReversedIds
  <2> HIDE DEF lines, posted, undone, row
  <2>5. \A id \in lines : Posted(LineAt(id)) <=> row.status \notin Waiting
    BY <2>1, <2>3 DEF DocShape
  <2>6. undone \subseteq posted
    BY <2>1, <2>3, <2>4 DEF DocShape, LineShape
  <2>7. row.status \notin Waiting => lines # {}
    BY <2>1, <2>2, HasLine DEF DocShape, Waiting
  <2>8. row.status \in Waiting <=> posted = {}
    BY <2>4, <2>5, <2>7
  <2>9. posted # {} => posted = lines
    BY <2>4, <2>5
  <2>10. /\ row.status = "POSTED" => undone = {}
         /\ row.status = "REVERSED" => undone = lines
    <3>1. row.status = "POSTED" => \A id \in lines : ~Reversed(LineAt(id))
      BY <2>1, <2>3 DEF DocShape
    <3>2. row.status = "REVERSED" => \A id \in lines : Reversed(LineAt(id))
      BY <2>1, <2>3 DEF DocShape
    <3>3. \A id \in undone : id \in lines
      BY <2>4
    <3>4. QED
      BY <2>4, <3>1, <3>2, <3>3
  <2>11. row.status \in {"APPROVED", "PARTIALLY_REVERSED"} => undone # lines
    BY <2>1, <2>2, <2>4 DEF DocShape
  <2>12. row.status = "PARTIALLY_REVERSED" => undone # {}
    BY <2>1, <2>2, <2>4 DEF DocShape
  <2>13. Kind[d] = "ADJUSTMENT" /\ posted # {} => row.reviewer \in User \ {row.by}
    BY <2>1, <2>8 DEF DocShape
  <2>14. QED
    BY <2>6, <2>8, <2>9, <2>10, <2>11, <2>12, <2>13 DEF Waiting, lines, posted, undone, row
<1>2. QED
  BY <1>1, InvHolds, PTL

\* What a standing line is.
LEMMA StandingLines ==
    ASSUME IInv, NEW id \in PostedIds
    PROVE  /\ id[1] \in Doc /\ id[2] \in DOMAIN doc[id[1]].lines /\ id = <<id[1], id[2]>>
           /\ LineAt(id) \in Line /\ LineAt(id).quantity \in Int
           /\ LineShape(id[1], LineAt(id), now)
<1>1. id \in IdsOf(Doc, doc)
  BY SameIds DEF PostedIds
<1>2. id[1] \in Doc /\ id[2] \in DOMAIN doc[id[1]].lines /\ id = <<id[1], id[2]>>
  BY <1>1, IdsAre
<1>3. LineAt(id) \in Line /\ LineAt(id).quantity \in Int
  BY <1>2, QuantitiesAreInt DEF IInv, TypeOK, LineAt
<1>4. LineShape(id[1], LineAt(id), now)
  BY <1>2 DEF IInv, Shapes, DocShape, LineAt
<1>5. QED
  BY <1>2, <1>3, <1>4

LEMMA PostedFinite ==
    ASSUME IInv
    PROVE  /\ IsFiniteSet(PostedIds) /\ IsFiniteSet(ReversedIds) /\ IsFiniteSet(Standing)
           /\ ReversedIds \subseteq PostedIds /\ Standing \subseteq PostedIds
<1>1. IsFiniteSet(PostedIds)
  BY SameIds DEF IInv, Summable
<1>2. ASSUME NEW id \in ReversedIds PROVE id \in PostedIds
  <2>1. id \in LineIds /\ Reversed(LineAt(id)) /\ id[1] \in Doc /\ id[2] \in DOMAIN doc[id[1]].lines
    BY SameIds, IdsAre DEF ReversedIds
  <2>2. Posted(LineAt(id))
    BY <2>1 DEF IInv, Shapes, DocShape, LineShape, LineAt
  <2>3. QED
    BY <2>1, <2>2 DEF PostedIds
<1>3. Standing \subseteq PostedIds /\ ReversedIds \subseteq PostedIds
  BY <1>2 DEF Standing
<1>4. QED
  BY <1>1, <1>3, FS_Subset

\* The effect of the line named id.
EffectAt(id, k) == Effect(id[1], LineAt(id), k)

LEMMA StockOfLines ==
    ASSUME IInv, NEW k \in Key
    PROVE  stock[k] = SumFunctionOnSet([id \in Standing |-> EffectAt(id, k)], Standing)
<1> DEFINE f == EffectsOf(doc, k)
           g == [id \in Standing |-> EffectAt(id, k)]
<1>1. stock[k] = SumFunctionOnSet(f, Standing)
  BY SameIds DEF IInv, Accounted, StandingSum
<1>2. \A id \in Standing : f[id] = g[id]
  BY SameIds, StandingFacts DEF IInv, EffectsOf, EffectAt
<1> HIDE DEF f, g
<1>3. SumFunctionOnSet(f, Standing) = SumFunctionOnSet(g, Standing)
  BY <1>2, PostedFinite, SumEqual
<1>4. QED
  BY <1>1, <1>3 DEF g

LEMMA KeysFinite ==
    /\ IsFiniteSet(Known) /\ IsFiniteSet(Key)
    /\ \A K \in SUBSET Key : IsFiniteSet(K)
    /\ \A K \in SUBSET Known : IsFiniteSet(K)
<1>1. IsFiniteSet(Known)
  BY WarehouseAssumption, FS_AddElement DEF Known
<1>2. Key = Sku \X Godown \X Known
  BY DEF Key
<1> DEFINE m == [p \in (Sku \X Godown) \X Known |-> <<p[1][1], p[1][2], p[2]>>]
<1>3. IsFiniteSet((Sku \X Godown) \X Known)
  BY <1>1, WarehouseAssumption, FS_Product
<1>4. ASSUME NEW k \in Key PROVE \E p \in (Sku \X Godown) \X Known : m[p] = k
  <2>1. k[1] \in Sku /\ k[2] \in Godown /\ k[3] \in Known /\ k = <<k[1], k[2], k[3]>>
    BY DEF Key
  <2> DEFINE p == <<<<k[1], k[2]>>, k[3]>>
  <2>2. p \in (Sku \X Godown) \X Known /\ p[1] = <<k[1], k[2]>> /\ p[2] = k[3]
    BY <2>1
  <2>3. m[p] = k
    BY <2>1, <2>2
  <2>4. QED
    BY <2>2, <2>3
<1>5. \A p \in (Sku \X Godown) \X Known : m[p] \in Key
  BY DEF Key
<1>6. m \in Surjection((Sku \X Godown) \X Known, Key)
  BY <1>4, <1>5 DEF Surjection
<1>7. IsFiniteSet(Key)
  BY <1>3, <1>6, FS_Surjection
<1>8. QED
  BY <1>1, <1>7, FS_Subset

\* A quantity in one stock row.
LEMMA SumAtOne ==
    ASSUME NEW K, IsFiniteSet(K), NEW a, NEW q \in Int
    PROVE  SumFunctionOnSet([k \in K |-> IF k = a THEN q ELSE 0], K) = IF a \in K THEN q ELSE 0
<1> DEFINE f == [k \in K |-> IF k = a THEN q ELSE 0]
<1>1. CASE a \in K
  <2>1. f[a] = q /\ \A x \in K \ {a} : f[x] = 0
    BY <1>1
  <2> HIDE DEF f
  <2>2. {a} \in SUBSET K /\ \A x \in {a} : f[x] \in Int
    BY <1>1, <2>1
  <2>3. SumFunctionOnSet(f, K) = SumFunctionOnSet(f, {a})
    BY <2>1, <2>2, SumOnly
  <2>4. SumFunctionOnSet(f, {a}) = q
    BY <2>1, SumOfOne
  <2>5. QED
    BY <1>1, <2>3, <2>4 DEF f
<1>2. CASE a \notin K
  <2>1. \A x \in K : f[x] = 0
    BY <1>2
  <2> HIDE DEF f
  <2>2. SumFunctionOnSet(f, K) = 0
    BY <2>1, SumZero
  <2>3. QED
    BY <1>2, <2>2 DEF f
<1>3. QED
  BY <1>1, <1>2

\* What a line changes in the stock rows K together: a transfer that stays within
\* them changes nothing.
LEMMA EffectWithin ==
    ASSUME NEW K, IsFiniteSet(K), NEW d, NEW line, line.quantity \in Int
    PROVE  SumFunctionOnSet([k \in K |-> Effect(d, line, k)], K) =
              (IF KeyTo(line) \in K THEN line.quantity ELSE 0)
              - (IF Kind[d] = "TRANSFER" /\ KeyFrom(line) \in K THEN line.quantity ELSE 0)
<1> DEFINE q == line.quantity
           r == IF Kind[d] = "TRANSFER" THEN q ELSE 0
           to == [k \in K |-> IF k = KeyTo(line) THEN q ELSE 0]
           from == [k \in K |-> IF k = KeyFrom(line) THEN r ELSE 0]
           f == [k \in K |-> Effect(d, line, k)]
<1>1. q \in Int /\ r \in Int
  OBVIOUS
<1>2. \A k \in K : to[k] \in Int /\ from[k] \in Int /\ f[k] = to[k] - from[k]
  BY <1>1 DEF Effect
<1>3. SumFunctionOnSet(to, K) = IF KeyTo(line) \in K THEN q ELSE 0
  BY <1>1, SumAtOne
<1>4. SumFunctionOnSet(from, K) = IF KeyFrom(line) \in K THEN r ELSE 0
  <2> HIDE DEF r
  <2>1. QED
    BY <1>1, SumAtOne
<1> HIDE DEF to, from, f
<1>5. SumFunctionOnSet(f, K) = SumFunctionOnSet(to, K) - SumFunctionOnSet(from, K)
  BY <1>2, SumMinus
<1>6. QED
  BY <1>3, <1>4, <1>5 DEF f

\* What a set K of stock rows holds is what each standing line brought into it.
LEMMA StockWithin ==
    ASSUME IInv, NEW K \in SUBSET Key,
           NEW c, \A id \in Standing : c[id] = SumFunctionOnSet([k \in K |-> EffectAt(id, k)], K)
    PROVE  SumFunctionOnSet(stock, K) = SumFunctionOnSet(c, Standing)
<1> DEFINE f == [p \in Standing \X K |-> EffectAt(p[1], p[2])]
<1>1. IsFiniteSet(K) /\ IsFiniteSet(Standing)
  BY KeysFinite, PostedFinite
<1>2. \A id \in Standing : \A k \in K : f[<<id, k>>] = EffectAt(id, k) /\ f[<<id, k>>] \in Int
  <2> TAKE id \in Standing
  <2> TAKE k \in K
  <2>1. LineAt(id).quantity \in Int
    BY PostedFinite, StandingLines
  <2>2. QED
    BY <2>1, EffectIsInt DEF EffectAt
<1>3. ASSUME NEW id \in Standing
      PROVE  c[id] = SumFunctionOnSet([k \in K |-> f[<<id, k>>]], K)
  <2>1. [k \in K |-> f[<<id, k>>]] = [k \in K |-> EffectAt(id, k)]
    BY <1>2
  <2>2. QED
    BY <2>1
<1>4. ASSUME NEW k \in K
      PROVE  stock[k] = SumFunctionOnSet([id \in Standing |-> f[<<id, k>>]], Standing)
  <2>1. [id \in Standing |-> f[<<id, k>>]] = [id \in Standing |-> EffectAt(id, k)]
    BY <1>2
  <2>2. QED
    BY <2>1, StockOfLines
<1>5. \A id \in Standing : \A k \in K : f[<<id, k>>] \in Int
  BY <1>2
<1> HIDE DEF f
<1>6. RowSums(c, f, Standing, K)
  BY <1>3 DEF RowSums
<1>7. ColumnSums(stock, f, Standing, K)
  BY <1>4 DEF ColumnSums
<1>8. QED
  BY <1>1, <1>5, <1>6, <1>7, SumSwap

LEMMA Explained == IInv => StockIsExplained
<1> SUFFICES ASSUME IInv PROVE StockIsExplained
  OBVIOUS
<1>1. ASSUME NEW k \in Key
      PROVE  stock[k] = SumFunction([id \in Standing |-> Moves(id[1], LineAt(id), k)])
  <2> DEFINE f == [id \in Standing |-> Moves(id[1], LineAt(id), k)]
  <2>1. \A id \in Standing : f[id] = EffectAt(id, k)
    BY PostedFinite, StandingLines, MovesAre DEF EffectAt
  <2>2. f = [id \in Standing |-> EffectAt(id, k)]
    BY <2>1
  <2>3. SumFunction(f) = SumFunctionOnSet(f, Standing)
    BY DEF SumFunction
  <2>4. QED
    BY <2>2, <2>3, StockOfLines
<1>2. ASSUME NEW x \in Sku
      PROVE  SumFunction([k \in StockOfSku(x) |-> stock[k]]) =
             SumFunction([id \in {id \in Standing : LineAt(id).sku = x /\ Kind[id[1]] # "TRANSFER"}
                              |-> LineAt(id).quantity])
  <2> DEFINE K == StockOfSku(x)
             U == {id \in Standing : LineAt(id).sku = x /\ Kind[id[1]] # "TRANSFER"}
             c == [id \in Standing |-> SumFunctionOnSet([k \in K |-> EffectAt(id, k)], K)]
             f == [k \in K |-> stock[k]]
             g == [id \in U |-> LineAt(id).quantity]
  <2>1. K \in SUBSET Key /\ IsFiniteSet(K)
    BY KeysFinite DEF StockOfSku
  <2>2. ASSUME NEW id \in Standing
        PROVE  c[id] \in Int /\ c[id] = IF id \in U THEN LineAt(id).quantity ELSE 0
    <3> DEFINE line == LineAt(id)
    <3>1. line.quantity \in Int /\ line \in Line
      BY PostedFinite, StandingLines
    <3>2. KeyTo(line) \in K <=> line.sku = x
      BY <3>1, KeysOf DEF StockOfSku, KeyTo
    <3>3. KeyFrom(line) \in K <=> line.sku = x
      BY <3>1, KeysOf DEF StockOfSku, KeyFrom
    <3>4. c[id] = SumFunctionOnSet([k \in K |-> Effect(id[1], line, k)], K)
      BY DEF EffectAt
    <3>5. id \in U <=> line.sku = x /\ Kind[id[1]] # "TRANSFER"
      OBVIOUS
    <3> HIDE DEF line, K, U, c
    <3>6. c[id] = (IF KeyTo(line) \in K THEN line.quantity ELSE 0)
                  - (IF Kind[id[1]] = "TRANSFER" /\ KeyFrom(line) \in K THEN line.quantity ELSE 0)
      BY <2>1, <3>1, <3>4, EffectWithin
    <3>7. c[id] = IF id \in U THEN line.quantity ELSE 0
      BY <3>1, <3>2, <3>3, <3>5, <3>6
    <3>8. QED
      BY <3>1, <3>7 DEF line
  <2>3. SumFunctionOnSet(stock, K) = SumFunctionOnSet(c, Standing)
    <3>1. \A id \in Standing : c[id] = SumFunctionOnSet([k \in K |-> EffectAt(id, k)], K)
      OBVIOUS
    <3> HIDE DEF c, K
    <3>2. QED
      BY <2>1, <3>1, StockWithin
  <2>4. SumFunctionOnSet(f, K) = SumFunctionOnSet(stock, K)
    <3>1. \A k \in K : f[k] = stock[k]
      OBVIOUS
    <3> HIDE DEF f, K
    <3>2. QED
      BY <2>1, <3>1, SumEqual
  <2>5. SumFunctionOnSet(c, Standing) = SumFunctionOnSet(g, U)
    <3>1. U \in SUBSET Standing /\ \A id \in U : g[id] = LineAt(id).quantity
      OBVIOUS
    <3> HIDE DEF c, g, U, K
    <3>2. (\A id \in U : c[id] \in Int) /\ (\A id \in Standing \ U : c[id] = 0)
      BY <2>2, <3>1
    <3>3. SumFunctionOnSet(c, Standing) = SumFunctionOnSet(c, U)
      BY <3>1, <3>2, PostedFinite, SumOnly
    <3>4. IsFiniteSet(U) /\ \A id \in U : c[id] = g[id]
      BY <2>2, <3>1, PostedFinite, FS_Subset
    <3>5. SumFunctionOnSet(c, U) = SumFunctionOnSet(g, U)
      BY <3>4, SumEqual
    <3>6. QED
      BY <3>3, <3>5
  <2>6. SumFunction(f) = SumFunctionOnSet(f, K) /\ SumFunction(g) = SumFunctionOnSet(g, U)
    BY DEF SumFunction
  <2>7. QED
    BY <2>3, <2>4, <2>5, <2>6
<1>3. QED
  BY <1>1, <1>2 DEF StockIsExplained

\* The stock of a SKU is what its standing opening balances and approved adjustments
\* brought, wherever transfers took it, and each stock row is what the standing lines
\* moved through it (StockIsExplained): no stock is lost or made on the way.
THEOREM StockIsExplainedHolds == Spec => []StockIsExplained
<1>1. QED
  BY Explained, InvHolds, PTL

-----------------------------------------------------------------------------
(***************************************************************************)
(* The entries of the ledger.                                              *)
(***************************************************************************)

LegsAt(id) == Legs(id[1], LineAt(id))

EntryOf(id, leg) ==
    [leg |-> leg, id |-> id, type |-> leg.type, quantity |-> leg.quantity, at |-> LineAt(id).posted]
UndoingOf(id, leg) ==
    [leg |-> leg, id |-> id, type |-> "REVERSAL", quantity |-> -leg.quantity, at |-> LineAt(id).reversed]

PostingEntries == {EntryOf(x[1], x[2]) : x \in LegsOf(PostedIds)}
UndoingEntries == {UndoingOf(x[1], x[2]) : x \in LegsOf(ReversedIds)}

LegTypes == {"OPENING", "ADJUSTMENT", "TRANSFER_OUT", "TRANSFER_IN"}

LEMMA LegsOfLine ==
    ASSUME NEW d \in Doc, NEW line \in Line
    PROVE  /\ IsFiniteSet(Legs(d, line))
           /\ \A leg \in Legs(d, line) :
                 /\ leg.type \in LegTypes /\ leg.quantity \in Int
                 /\ leg.key \in {KeyTo(line), KeyFrom(line)} /\ leg.key \in Key
<1>1. line.quantity \in Int /\ -line.quantity \in Int /\ KeyTo(line) \in Key /\ KeyFrom(line) \in Key
  BY KeysOf DEF Line
<1> DEFINE a == Leg("TRANSFER_OUT", line, line.from, -line.quantity)
           b == Leg("TRANSFER_IN", line, line.to, line.quantity)
           c == Leg("OPENING", line, line.to, line.quantity)
           e == Leg("ADJUSTMENT", line, line.to, line.quantity)
<1>2. /\ a.type \in LegTypes /\ a.quantity = -line.quantity /\ a.key = KeyFrom(line)
      /\ b.type \in LegTypes /\ b.quantity = line.quantity /\ b.key = KeyTo(line)
      /\ c.type \in LegTypes /\ c.quantity = line.quantity /\ c.key = KeyTo(line)
      /\ e.type \in LegTypes /\ e.quantity = line.quantity /\ e.key = KeyTo(line)
  BY DEF Leg, LegTypes, KeyTo, KeyFrom
<1>3. Legs(d, line) = {c} \/ Legs(d, line) = {e} \/ Legs(d, line) = {a, b}
  BY LegsAre
<1> HIDE DEF a, b, c, e
<1>4. IsFiniteSet({c}) /\ IsFiniteSet({e}) /\ IsFiniteSet({a, b})
  <2>1. IsFiniteSet({c}) /\ IsFiniteSet({e}) /\ IsFiniteSet({a}) /\ IsFiniteSet({b})
    BY FS_Singleton
  <2>2. IsFiniteSet({a} \cup {b})
    BY <2>1, FS_Union
  <2>3. {a} \cup {b} = {a, b}
    OBVIOUS
  <2>4. QED
    BY <2>1, <2>2, <2>3
<1>5. IsFiniteSet(Legs(d, line))
  BY <1>3, <1>4
<1>6. ASSUME NEW leg \in Legs(d, line)
      PROVE  /\ leg.type \in LegTypes /\ leg.quantity \in Int
             /\ leg.key \in {KeyTo(line), KeyFrom(line)} /\ leg.key \in Key
  <2>1. leg = a \/ leg = b \/ leg = c \/ leg = e
    BY <1>3
  <2>2. QED
    BY <1>1, <1>2, <2>1
<1>7. QED
  BY <1>5, <1>6

LEMMA LegsOfAre ==
    ASSUME NEW I
    PROVE  /\ \A x \in LegsOf(I) : x[1] \in I /\ x[2] \in LegsAt(x[1])
           /\ \A id \in I : \A leg \in LegsAt(id) : <<id, leg>> \in LegsOf(I)
<1>1. ASSUME NEW x \in LegsOf(I) PROVE x[1] \in I /\ x[2] \in LegsAt(x[1])
  <2>1. PICK id \in I : x \in {id} \X LegsAt(id)
    BY DEF LegsOf, LegsAt
  <2>2. x[1] = id /\ x[2] \in LegsAt(id)
    BY <2>1
  <2>3. QED
    BY <2>2
<1>2. ASSUME NEW id \in I, NEW leg \in LegsAt(id) PROVE <<id, leg>> \in LegsOf(I)
  <2>1. <<id, leg>> \in {id} \X LegsAt(id)
    OBVIOUS
  <2>2. QED
    BY <2>1 DEF LegsOf, LegsAt
<1>3. QED
  BY <1>1, <1>2

LEMMA LegsOfFinite ==
    ASSUME IInv, NEW I \in SUBSET PostedIds
    PROVE  IsFiniteSet(LegsOf(I))
<1> DEFINE f == [id \in I |-> {id} \X Legs(id[1], LineAt(id))]
<1>1. IsFiniteSet(I)
  BY PostedFinite, FS_Subset
<1>2. ASSUME NEW id \in I PROVE IsFiniteSet(f[id])
  <2>1. IsFiniteSet(Legs(id[1], LineAt(id)))
    BY StandingLines, LegsOfLine
  <2>2. IsFiniteSet({id})
    BY FS_Singleton
  <2>3. IsFiniteSet({id} \X Legs(id[1], LineAt(id)))
    BY <2>1, <2>2, FS_Product
  <2>4. QED
    BY <2>3
<1>3. LegsOf(I) = UNION {f[id] : id \in I}
  BY DEF LegsOf
<1> HIDE DEF f
<1>4. IsFiniteSet({f[id] : id \in I})
  BY <1>1, ImageFinite
<1>5. \A T \in {f[id] : id \in I} : IsFiniteSet(T)
  BY <1>2
<1>6. IsFiniteSet(UNION {f[id] : id \in I})
  BY <1>4, <1>5, FS_UNION
<1>7. QED
  BY <1>3, <1>6

\* What an entry is.
LEMMA EntriesAre ==
    ASSUME IInv
    PROVE  /\ Entries = PostingEntries \cup UndoingEntries
           /\ IsFiniteSet(PostingEntries) /\ IsFiniteSet(UndoingEntries) /\ IsFiniteSet(Entries)
           /\ \A e \in PostingEntries :
                 /\ e.id \in PostedIds /\ e.leg \in LegsAt(e.id) /\ e = EntryOf(e.id, e.leg)
                 /\ e.type \in LegTypes /\ e.quantity \in Int /\ e.quantity = e.leg.quantity
                 /\ e.leg.key \in Key /\ e.at \in 1..now
           /\ \A e \in UndoingEntries :
                 /\ e.id \in ReversedIds /\ e.leg \in LegsAt(e.id) /\ e = UndoingOf(e.id, e.leg)
                 /\ e.type = "REVERSAL" /\ e.quantity \in Int /\ e.quantity = -e.leg.quantity
                 /\ e.leg.quantity \in Int /\ e.leg.key \in Key /\ e.at \in 1..now
<1>1. Entries = PostingEntries \cup UndoingEntries
  BY DEF Entries, PostingEntries, UndoingEntries, EntryOf, UndoingOf
<1>2. IsFiniteSet(PostingEntries)
  <2> DEFINE f == [x \in LegsOf(PostedIds) |-> EntryOf(x[1], x[2])]
  <2>1. PostingEntries = {f[x] : x \in LegsOf(PostedIds)}
    BY DEF PostingEntries
  <2> HIDE DEF f
  <2>2. QED
    BY <2>1, LegsOfFinite, ImageFinite
<1>3. IsFiniteSet(UndoingEntries)
  <2> DEFINE f == [x \in LegsOf(ReversedIds) |-> UndoingOf(x[1], x[2])]
  <2>1. UndoingEntries = {f[x] : x \in LegsOf(ReversedIds)}
    BY DEF UndoingEntries
  <2> HIDE DEF f
  <2>2. QED
    BY <2>1, PostedFinite, LegsOfFinite, ImageFinite
<1>4. IsFiniteSet(Entries)
  BY <1>1, <1>2, <1>3, FS_Union
<1>5. now \in Nat
  BY WarehouseAssumption DEF IInv, TypeOK
<1>6. ASSUME NEW e \in PostingEntries
      PROVE  /\ e.id \in PostedIds /\ e.leg \in LegsAt(e.id) /\ e = EntryOf(e.id, e.leg)
             /\ e.type \in LegTypes /\ e.quantity \in Int /\ e.quantity = e.leg.quantity
             /\ e.leg.key \in Key /\ e.at \in 1..now
  <2>1. PICK x \in LegsOf(PostedIds) : e = EntryOf(x[1], x[2])
    BY DEF PostingEntries
  <2>2. /\ e.id = x[1] /\ e.leg = x[2] /\ e.type = e.leg.type /\ e.quantity = e.leg.quantity
        /\ e.at = LineAt(e.id).posted
    BY <2>1 DEF EntryOf
  <2>3. x[1] \in PostedIds /\ x[2] \in LegsAt(x[1])
    BY LegsOfAre
  <2>4. /\ e.id[1] \in Doc /\ LineAt(e.id) \in Line /\ Posted(LineAt(e.id))
        /\ LineShape(e.id[1], LineAt(e.id), now)
    BY <2>2, <2>3, StandingLines DEF PostedIds
  <2>5. e.leg.type \in LegTypes /\ e.leg.quantity \in Int /\ e.leg.key \in Key
    BY <2>2, <2>3, <2>4, LegsOfLine DEF LegsAt
  <2>6. e.at \in 1..now
    <3> DEFINE line == LineAt(e.id)
    <3>1. line.posted \in Nat /\ line.posted # 0 /\ line.posted <= now
      BY <2>4 DEF Posted, LineShape, Line
    <3>2. QED
      BY <1>5, <2>2, <3>1
  <2>7. QED
    BY <2>1, <2>2, <2>3, <2>5, <2>6
<1>7. ASSUME NEW e \in UndoingEntries
      PROVE  /\ e.id \in ReversedIds /\ e.leg \in LegsAt(e.id) /\ e = UndoingOf(e.id, e.leg)
             /\ e.type = "REVERSAL" /\ e.quantity \in Int /\ e.quantity = -e.leg.quantity
             /\ e.leg.quantity \in Int /\ e.leg.key \in Key /\ e.at \in 1..now
  <2>1. PICK x \in LegsOf(ReversedIds) : e = UndoingOf(x[1], x[2])
    BY DEF UndoingEntries
  <2>2. /\ e.id = x[1] /\ e.leg = x[2] /\ e.type = "REVERSAL" /\ e.quantity = -e.leg.quantity
        /\ e.at = LineAt(e.id).reversed
    BY <2>1 DEF UndoingOf
  <2>3. x[1] \in ReversedIds /\ x[2] \in LegsAt(x[1])
    BY LegsOfAre
  <2>4. /\ e.id[1] \in Doc /\ LineAt(e.id) \in Line /\ Reversed(LineAt(e.id))
        /\ LineShape(e.id[1], LineAt(e.id), now)
    BY <2>2, <2>3, PostedFinite, StandingLines DEF ReversedIds
  <2>5. e.leg.quantity \in Int /\ e.leg.key \in Key
    BY <2>2, <2>3, <2>4, LegsOfLine DEF LegsAt
  <2>6. e.at \in 1..now
    <3> DEFINE line == LineAt(e.id)
    <3>1. line.reversed \in Nat /\ line.reversed # 0 /\ line.reversed <= now
      BY <2>4 DEF Reversed, LineShape, Line
    <3>2. QED
      BY <1>5, <2>2, <3>1
  <2>7. QED
    BY <2>1, <2>2, <2>3, <2>5, <2>6
<1>8. QED
  BY <1>1, <1>2, <1>3, <1>4, <1>6, <1>7

\* E has one entry for each leg that the lines I have in stock row k.
LegsIn(E, I, k) ==
    /\ \A e \in E : e.id \in I /\ e.leg \in LegsAt(e.id) /\ e.leg.key = k
    /\ \A id \in I : \A leg \in LegsAt(id) : leg.key = k => \E e \in E : e.id = id /\ e.leg = leg
    /\ \A e, o \in E : e.id = o.id /\ e.leg = o.leg => e = o

\* The legs of I add up to its effects.
LEMMA LegsTotal ==
    ASSUME IInv, NEW I \in SUBSET PostedIds, NEW k, NEW E, IsFiniteSet(E), LegsIn(E, I, k)
    PROVE  SumFunctionOnSet([e \in E |-> e.leg.quantity], E)
              = SumFunctionOnSet([id \in I |-> EffectAt(id, k)], I)
<1> DEFINE f == [e \in E |-> e.leg.quantity]
           c == [id \in I |-> EffectAt(id, k)]
           m == [e \in E |-> e.id]
<1>1. \A id \in I : id[1] \in Doc /\ LineAt(id) \in Line /\ LineAt(id).quantity \in Int
  BY StandingLines
<1>2. \A e \in E : m[e] \in I /\ f[e] \in Int
  BY <1>1, LegsOfLine DEF LegsIn, LegsAt
<1>3. ASSUME NEW id \in I
      PROVE  \E U \in SUBSET E : (\A e \in E : e \in U <=> m[e] = id) /\ c[id] = SumFunctionOnSet(f, U)
  <2> DEFINE U == {e \in E : e.id = id}
             L == {leg \in LegsAt(id) : leg.key = k}
             g == [leg \in L |-> leg.quantity]
             n == [e \in U |-> e.leg]
  <2>1. c[id] = SumFunctionOnSet(g, L)
    <3>1. c[id] = Moves(id[1], LineAt(id), k)
      BY <1>1, MovesAre DEF EffectAt
    <3>2. QED
      BY <3>1 DEF Moves, LegsAt, SumFunction
  <2>2. Renames(n, U, L)
    <3>1. \A e \in U : n[e] \in L
      BY DEF LegsIn
    <3>2. \A leg \in L : \E e \in U : n[e] = leg
      BY DEF LegsIn
    <3>3. \A e, o \in U : n[e] = n[o] => e = o
      BY DEF LegsIn
    <3> HIDE DEF n, U, L
    <3>4. QED
      BY <3>1, <3>2, <3>3 DEF Renames
  <2>3. \A e \in U : f[e] \in Int /\ g[n[e]] = f[e]
    BY <1>2 DEF LegsIn
  <2>4. IsFiniteSet(U) /\ IsFiniteSet(L)
    BY <1>1, LegsOfLine, FS_Subset DEF LegsAt
  <2>5. U \in SUBSET E /\ \A e \in E : e \in U <=> m[e] = id
    OBVIOUS
  <2> HIDE DEF U, L, g, n, f, m, c
  <2>6. SumFunctionOnSet(f, U) = SumFunctionOnSet(g, L)
    BY <2>2, <2>3, <2>4, SumRenamed
  <2>7. QED
    BY <2>1, <2>5, <2>6
<1>4. IsFiniteSet(I)
  BY PostedFinite, FS_Subset
<1> HIDE DEF f, m, c
<1>5. SumFunctionOnSet(f, E) = SumFunctionOnSet(c, I)
  <2>1. (\A e \in E : m[e] \in I) /\ (\A e \in E : f[e] \in Int)
    BY <1>2
  <2>2. QED
    BY <1>3, <1>4, <2>1, SumCollected
<1>6. QED
  BY <1>5 DEF f, c

\* Quantities of entries.
LEMMA TotalIs ==
    ASSUME NEW E, IsFiniteSet(E), \A e \in E : e.quantity \in Int
    PROVE  /\ Total(E) \in Int
           /\ \A U \in SUBSET E : Total(U) \in Int
           /\ \A U \in SUBSET E : \A V \in SUBSET E : U \cap V = {} => Total(U \cup V) = Total(U) + Total(V)
<1> DEFINE f == [e \in E |-> e.quantity]
<1>1. ASSUME NEW U \in SUBSET E
      PROVE  IsFiniteSet(U) /\ Total(U) = SumFunctionOnSet(f, U) /\ Total(U) \in Int
  <2> DEFINE g == [e \in U |-> e.quantity]
  <2>1. IsFiniteSet(U)
    BY FS_Subset
  <2>2. \A e \in U : g[e] = f[e] /\ g[e] \in Int
    OBVIOUS
  <2>3. Total(U) = SumFunctionOnSet(g, U)
    BY DEF Total, SumFunction
  <2> HIDE DEF f, g
  <2>4. SumFunctionOnSet(g, U) = SumFunctionOnSet(f, U) /\ SumFunctionOnSet(g, U) \in Int
    BY <2>1, <2>2, SumEqual, SumInt
  <2>5. QED
    BY <2>1, <2>3, <2>4
<1>2. ASSUME NEW U \in SUBSET E, NEW V \in SUBSET E, U \cap V = {}
      PROVE  Total(U \cup V) = Total(U) + Total(V)
  <2>1. \A e \in U \cup V : f[e] \in Int
    OBVIOUS
  <2>2. U \cup V \in SUBSET E
    OBVIOUS
  <2> HIDE DEF f
  <2>3. SumFunctionOnSet(f, U \cup V) = SumFunctionOnSet(f, U) + SumFunctionOnSet(f, V)
    BY <1>1, <1>2, <2>1, SumUnion
  <2>4. QED
    BY <1>1, <2>2, <2>3
<1>3. QED
  BY <1>1, <1>2

EntriesAt(k) == {e \in Entries : e.leg.key = k}

\* The entries of a stock row add up to the stock.
LEMMA EntriesAddUp ==
    ASSUME IInv, NEW k \in Key
    PROVE  Total(EntriesAt(k)) = stock[k]
<1> DEFINE P == {e \in PostingEntries : e.leg.key = k}
           U == {e \in UndoingEntries : e.leg.key = k}
           f == [id \in PostedIds |-> EffectAt(id, k)]
           Over(I) == SumFunctionOnSet([id \in I |-> EffectAt(id, k)], I)
<1>1. EntriesAt(k) = P \cup U /\ P \cap U = {}
  <2>1. \A e \in P : e.type # "REVERSAL"
    BY EntriesAre DEF LegTypes
  <2>2. \A e \in U : e.type = "REVERSAL"
    BY EntriesAre
  <2>3. EntriesAt(k) = P \cup U
    BY EntriesAre DEF EntriesAt
  <2> HIDE DEF P, U
  <2>4. QED
    BY <2>1, <2>2, <2>3
<1>2. IsFiniteSet(P) /\ IsFiniteSet(U)
  BY EntriesAre, FS_Subset
<1>3. LegsIn(P, PostedIds, k)
  <2>1. \A e \in P : e.id \in PostedIds /\ e.leg \in LegsAt(e.id) /\ e.leg.key = k
    BY EntriesAre
  <2>2. ASSUME NEW id \in PostedIds, NEW leg \in LegsAt(id), leg.key = k
        PROVE  \E e \in P : e.id = id /\ e.leg = leg
    <3> DEFINE e == EntryOf(id, leg)
    <3>1. e.id = id /\ e.leg = leg
      BY DEF EntryOf
    <3>2. <<id, leg>> \in LegsOf(PostedIds)
      BY LegsOfAre
    <3>3. e \in PostingEntries
      BY <3>2 DEF PostingEntries
    <3>4. e \in P
      BY <2>2, <3>1, <3>3
    <3>5. QED
      BY <3>1, <3>4
  <2>3. \A e, o \in P : e.id = o.id /\ e.leg = o.leg => e = o
    <3>1. \A e \in P : e = EntryOf(e.id, e.leg)
      BY EntriesAre
    <3> HIDE DEF P
    <3>2. QED
      BY <3>1
  <2> HIDE DEF P
  <2>4. QED
    BY <2>1, <2>2, <2>3 DEF LegsIn
<1>4. LegsIn(U, ReversedIds, k)
  <2>1. \A e \in U : e.id \in ReversedIds /\ e.leg \in LegsAt(e.id) /\ e.leg.key = k
    BY EntriesAre
  <2>2. ASSUME NEW id \in ReversedIds, NEW leg \in LegsAt(id), leg.key = k
        PROVE  \E e \in U : e.id = id /\ e.leg = leg
    <3> DEFINE e == UndoingOf(id, leg)
    <3>1. e.id = id /\ e.leg = leg
      BY DEF UndoingOf
    <3>2. <<id, leg>> \in LegsOf(ReversedIds)
      BY LegsOfAre
    <3>3. e \in UndoingEntries
      BY <3>2 DEF UndoingEntries
    <3>4. e \in U
      BY <2>2, <3>1, <3>3
    <3>5. QED
      BY <3>1, <3>4
  <2>3. \A e, o \in U : e.id = o.id /\ e.leg = o.leg => e = o
    <3>1. \A e \in U : e = UndoingOf(e.id, e.leg)
      BY EntriesAre
    <3> HIDE DEF U
    <3>2. QED
      BY <3>1
  <2> HIDE DEF U
  <2>4. QED
    BY <2>1, <2>2, <2>3 DEF LegsIn
<1>5. ReversedIds \in SUBSET PostedIds /\ PostedIds \in SUBSET PostedIds /\ Standing \in SUBSET PostedIds
      /\ IsFiniteSet(PostedIds) /\ IsFiniteSet(ReversedIds) /\ IsFiniteSet(Standing)
  BY PostedFinite
<1>6. Total(P) = Over(PostedIds)
  <2> DEFINE g == [e \in P |-> e.leg.quantity]
             h == [e \in P |-> e.quantity]
  <2>1. \A e \in P : h[e] = g[e]
    BY EntriesAre
  <2>2. Total(P) = SumFunctionOnSet(h, P)
    BY DEF Total, SumFunction
  <2>3. SumFunctionOnSet(g, P) = Over(PostedIds)
    <3> HIDE DEF P
    <3>1. QED
      BY <1>2, <1>3, <1>5, LegsTotal
  <2> HIDE DEF g, h, P, Over
  <2>4. SumFunctionOnSet(h, P) = SumFunctionOnSet(g, P)
    BY <1>2, <2>1, SumEqual
  <2>5. QED
    BY <2>2, <2>3, <2>4
<1>7. Total(U) = 0 - Over(ReversedIds)
  <2> DEFINE g == [e \in U |-> e.leg.quantity]
             h == [e \in U |-> e.quantity]
             z == [e \in U |-> 0]
  <2>1. \A e \in U : z[e] \in Int /\ g[e] \in Int /\ h[e] = z[e] - g[e]
    BY EntriesAre
  <2>2. Total(U) = SumFunctionOnSet(h, U)
    BY DEF Total, SumFunction
  <2>3. SumFunctionOnSet(g, U) = Over(ReversedIds)
    <3> HIDE DEF U
    <3>1. QED
      BY <1>2, <1>4, <1>5, LegsTotal
  <2>4. \A e \in U : z[e] = 0
    OBVIOUS
  <2> HIDE DEF g, h, U, Over, z
  <2>5. SumFunctionOnSet(h, U) = SumFunctionOnSet(z, U) - SumFunctionOnSet(g, U)
    BY <1>2, <2>1, SumMinus
  <2>6. SumFunctionOnSet(z, U) = 0
    BY <1>2, <2>4, SumZero
  <2>7. QED
    BY <2>2, <2>3, <2>5, <2>6
<1>8. \A id \in PostedIds : f[id] \in Int
  BY StandingLines, EffectIsInt DEF EffectAt
<1>9. ASSUME NEW I \in SUBSET PostedIds, IsFiniteSet(I)
      PROVE  Over(I) = SumFunctionOnSet(f, I) /\ SumFunctionOnSet(f, I) \in Int
  <2> DEFINE g == [id \in I |-> EffectAt(id, k)]
  <2>1. \A id \in I : g[id] = f[id] /\ f[id] \in Int
    BY <1>8
  <2> HIDE DEF f, g
  <2>2. SumFunctionOnSet(g, I) = SumFunctionOnSet(f, I) /\ SumFunctionOnSet(f, I) \in Int
    BY <1>9, <2>1, SumEqual, SumInt
  <2>3. QED
    BY <2>2 DEF g
<1>10. stock[k] = Over(Standing)
  BY StockOfLines
<1>11. PostedIds = Standing \cup ReversedIds /\ Standing \cap ReversedIds = {}
  BY <1>5 DEF Standing
<1> HIDE DEF P, U, f, Over
<1>12. SumFunctionOnSet(f, Standing \cup ReversedIds)
          = SumFunctionOnSet(f, Standing) + SumFunctionOnSet(f, ReversedIds)
  <2>1. \A id \in Standing \cup ReversedIds : f[id] \in Int
    BY <1>8, <1>11
  <2>2. QED
    BY <1>5, <1>11, <2>1, SumUnion
<1>13. Over(PostedIds) = Over(Standing) + Over(ReversedIds) /\ Over(Standing) \in Int /\ Over(ReversedIds) \in Int
  <2>1. Over(PostedIds) = SumFunctionOnSet(f, Standing \cup ReversedIds)
    BY <1>5, <1>9, <1>11
  <2>2. Over(Standing) = SumFunctionOnSet(f, Standing) /\ SumFunctionOnSet(f, Standing) \in Int
    BY <1>5, <1>9
  <2>3. Over(ReversedIds) = SumFunctionOnSet(f, ReversedIds) /\ SumFunctionOnSet(f, ReversedIds) \in Int
    BY <1>5, <1>9
  <2>4. QED
    BY <1>12, <2>1, <2>2, <2>3
<1>14. Total(EntriesAt(k)) = Total(P) + Total(U)
  <2> DEFINE E == EntriesAt(k)
  <2>1. IsFiniteSet(E) /\ \A e \in E : e.quantity \in Int
    BY EntriesAre, FS_Subset DEF EntriesAt
  <2>2. P \in SUBSET E /\ U \in SUBSET E
    BY <1>1
  <2> HIDE DEF E
  <2>3. Total(P \cup U) = Total(P) + Total(U)
    BY <1>1, <2>1, <2>2, TotalIs
  <2>4. QED
    BY <1>1, <2>3
<1>15. QED
  BY <1>6, <1>7, <1>10, <1>13, <1>14

\* Documents that are queued have a line on the ledger.
LEMMA QueuedFinite == IInv => IsFiniteSet(QueuedDocs)
<1> SUFFICES ASSUME IInv PROVE IsFiniteSet(QueuedDocs)
  OBVIOUS
<1> DEFINE f == [id \in PostedIds |-> id[1]]
           T == {f[id] : id \in PostedIds}
<1>1. ASSUME NEW d \in QueuedDocs PROVE d \in T
  <2>1. PICK n \in DOMAIN doc[d].lines : Posted(doc[d].lines[n])
    BY DEF QueuedDocs
  <2>2. d \in Doc
    BY DEF QueuedDocs
  <2>3. <<d, n>> \in PostedIds
    BY <2>1, <2>2, SameIds, IdsAre DEF PostedIds, LineAt
  <2>4. f[<<d, n>>] = d
    BY <2>3
  <2>5. QED
    BY <2>3, <2>4
<1> HIDE DEF f
<1>2. IsFiniteSet(T)
  BY PostedFinite, ImageFinite
<1>3. QED
  BY <1>1, <1>2, FS_Subset

LEMMA TallyAgrees == IInv => TallyAddsUp
<1> SUFFICES ASSUME IInv, NEW k \in Key, k[2] \in Synced
             PROVE  StockInTally(Entries, k) = stock[k]
  BY DEF TallyAddsUp
<1> DEFINE E == EntriesAt(k)
           V == {e \in E : e.type # "REVERSAL"}
           U == {e \in E : e.type = "REVERSAL"}
           of(d) == {e \in Voucher(Entries, d) : e.leg.key = k}
           c == [d \in QueuedDocs |-> Total(of(d))]
           f == [e \in V |-> e.quantity]
           m == [e \in V |-> e.id[1]]
<1>1. IsFiniteSet(E) /\ \A e \in E : e.quantity \in Int
  BY EntriesAre, FS_Subset DEF EntriesAt
<1>2. Total(E) = Total(V) + Total(U)
  <2>1. V \in SUBSET E /\ U \in SUBSET E /\ V \cap U = {} /\ V \cup U = E
    OBVIOUS
  <2> HIDE DEF E, V, U
  <2>2. Total(V \cup U) = Total(V) + Total(U)
    BY <1>1, <2>1, TotalIs
  <2>3. QED
    BY <2>1, <2>2
<1>3. {e \in QueuedReversals(Entries) : e.leg.key = k} = U
  BY DEF QueuedReversals, EntriesAt
<1>4. ASSUME NEW e \in V
      PROVE  e.id[1] \in QueuedDocs /\ e.quantity \in Int
  <2>1. e \in PostingEntries /\ e.leg.key = k
    BY EntriesAre DEF EntriesAt
  <2>2. e.id \in PostedIds /\ e.leg \in LegsAt(e.id)
    BY <2>1, EntriesAre
  <2>3. /\ e.id[1] \in Doc /\ e.id[2] \in DOMAIN doc[e.id[1]].lines
        /\ LineAt(e.id) = doc[e.id[1]].lines[e.id[2]] /\ LineAt(e.id) \in Line
        /\ Posted(LineAt(e.id))
    BY <2>2, StandingLines DEF LineAt, PostedIds
  <2>4. k \in {KeyTo(LineAt(e.id)), KeyFrom(LineAt(e.id))}
    BY <2>1, <2>2, <2>3, LegsOfLine DEF LegsAt
  <2>5. k[2] \in {LineAt(e.id).from, LineAt(e.id).to}
    BY <2>4 DEF KeyTo, KeyFrom
  <2>6. e.id[1] \in QueuedDocs
    BY <2>3, <2>5 DEF QueuedDocs
  <2>7. QED
    BY <1>1, <2>6
<1>5. Total(V) = SumFunctionOnSet(f, V)
  BY DEF Total, SumFunction
<1>6. IsFiniteSet(V)
  BY <1>1, FS_Subset
<1>7. ASSUME NEW d \in QueuedDocs
      PROVE  \E W \in SUBSET V : (\A e \in V : e \in W <=> m[e] = d) /\ c[d] = SumFunctionOnSet(f, W)
  <2> DEFINE W == of(d)
             g == [e \in W |-> e.quantity]
  <2>1. W \in SUBSET V /\ \A e \in V : e \in W <=> m[e] = d
    BY DEF Voucher, EntriesAt
  <2>2. c[d] = SumFunctionOnSet(g, W)
    BY DEF Total, SumFunction
  <2>3. \A e \in W : g[e] = f[e]
    BY <2>1
  <2>4. IsFiniteSet(W)
    BY <1>6, <2>1, FS_Subset
  <2> HIDE DEF V, W, g, f, c, m
  <2>5. SumFunctionOnSet(g, W) = SumFunctionOnSet(f, W)
    BY <2>3, <2>4, SumEqual
  <2>6. QED
    BY <2>1, <2>2, <2>5
<1>8. SumFunctionOnSet(f, V) = SumFunctionOnSet(c, QueuedDocs)
  <2>1. (\A e \in V : m[e] \in QueuedDocs) /\ \A e \in V : f[e] \in Int
    BY <1>4
  <2> HIDE DEF V, f, c, m
  <2>2. QED
    BY <1>6, <1>7, <2>1, QueuedFinite, SumCollected
<1>9. StockInTally(Entries, k) = SumFunctionOnSet(c, QueuedDocs) + Total(U)
  <2>1. StockInTally(Entries, k) = SumFunction(c) + Total({e \in QueuedReversals(Entries) : e.leg.key = k})
    BY DEF StockInTally
  <2>2. SumFunction(c) = SumFunctionOnSet(c, QueuedDocs)
    BY DEF SumFunction
  <2> HIDE DEF c, U
  <2>3. QED
    BY <1>3, <2>1, <2>2
<1>10. Total(E) = stock[k]
  BY EntriesAddUp
<1> HIDE DEF E, V, U, c, f
<1>11. QED
  BY <1>2, <1>5, <1>8, <1>9, <1>10

\* A document, queued when it is posted and read when it is sent, and its reversals,
\* queued one by one, add up in Tally to the stock of every godown that is synced
\* (TallyAddsUp).
THEOREM TallyAddsUpHolds == Spec => []TallyAddsUp
<1>1. QED
  BY TallyAgrees, InvHolds, PTL

-----------------------------------------------------------------------------
(***************************************************************************)
(* The reports.                                                            *)
(***************************************************************************)

Upto(ledger, to, keys) == {e \in ledger : e.leg.key \in keys /\ DayOf(e.at) <= to}

LEMMA EntryDays ==
    ASSUME IInv
    PROVE  \A e \in Entries : /\ e.at \in Nat \ {0} /\ e.at <= now
                             /\ DayOf(e.at) \in Int /\ DayOf(e.at) \in 1..DayOf(now)
<1> TAKE e \in Entries
<1>1. e.at \in 1..now /\ now \in Nat \ {0} /\ DayOf(now) \in Nat \ {0}
  BY EntriesAre, ClockIs
<1>2. e.at \in Nat \ {0} /\ e.at <= now
  BY <1>1
<1>3. DayOf(e.at) \in Nat \ {0} /\ DayOf(e.at) <= DayOf(now)
  BY <1>1, <1>2, DaysAre
<1>4. QED
  BY <1>1, <1>2, <1>3

\* The rows of the stock summary: what it counts, and that its columns add up.
LEMMA SummaryIs ==
    ASSUME IInv, NEW ledger \in SUBSET Entries, NEW from \in 1..DayOf(now), NEW to \in from..DayOf(now), NEW keys
    PROVE  LET row == StockSummary(ledger, from, to, keys)
               of == Upto(ledger, to, keys)
               within == {e \in of : from <= DayOf(e.at)}
           IN  /\ row.closing = Total(of) /\ row.closing \in Int
               /\ row.opening \in Int
               /\ row.closing - row.opening = Total(within)
               /\ row.opening + row.inward - row.outward + row.adjustments = row.closing
               /\ ~row.listed => row.closing = 0
<1> DEFINE row == StockSummary(ledger, from, to, keys)
           of == Upto(ledger, to, keys)
           before == {e \in of : DayOf(e.at) < from}
           within == of \ before
           in == {e \in within : e.type \in InwardTypes}
           out == {e \in within : e.type \in OutwardTypes}
           adj == {e \in within : e.type \in AdjustmentTypes}
<1>1. /\ row.opening = Total(before) /\ row.inward = Total(in) /\ row.outward = -Total(out)
      /\ row.adjustments = Total(adj) /\ row.closing = Total(of)
      /\ row.listed = (row.opening # 0 \/ within # {})
  BY DEF StockSummary, Upto
<1>2. from \in Int /\ to \in Int
  BY ClockIs
<1>3. IsFiniteSet(of) /\ \A e \in of : /\ e.quantity \in Int /\ DayOf(e.at) \in Int
                                       /\ e.type \in LegTypes \cup {"REVERSAL"}
  <2>1. IsFiniteSet(of)
    BY EntriesAre, FS_Subset DEF Upto
  <2>2. ASSUME NEW e \in of
        PROVE  e.quantity \in Int /\ DayOf(e.at) \in Int /\ e.type \in LegTypes \cup {"REVERSAL"}
    <3>1. e \in Entries
      BY DEF Upto
    <3>2. QED
      BY <3>1, EntriesAre, EntryDays
  <2>3. QED
    BY <2>1, <2>2
<1> HIDE DEF of, row
<1>4. {e \in of : from <= DayOf(e.at)} = within
  <2>1. \A e \in of : from <= DayOf(e.at) <=> ~(DayOf(e.at) < from)
    BY <1>2, <1>3
  <2>2. QED
    BY <2>1
<1>5. /\ \A T \in SUBSET of : Total(T) \in Int
      /\ \A U \in SUBSET of : \A V \in SUBSET of :
            U \cap V = {} => Total(U \cup V) = Total(U) + Total(V)
  <2>1. IsFiniteSet(of) /\ \A e \in of : e.quantity \in Int
    BY <1>3
  <2>2. QED
    BY <2>1, TotalIs
<1>6. Total(of) = Total(before) + Total(within)
  <2>1. before \in SUBSET of /\ within \in SUBSET of /\ before \cap within = {} /\ before \cup within = of
    OBVIOUS
  <2> HIDE DEF before, within
  <2>2. Total(before \cup within) = Total(before) + Total(within)
    BY <1>5, <2>1
  <2>3. QED
    BY <2>1, <2>2
<1>7. Total(within) = Total(in) + Total(out) + Total(adj)
  <2>1. within \in SUBSET of /\ in \in SUBSET of /\ out \in SUBSET of /\ adj \in SUBSET of
    OBVIOUS
  <2>2. within = (in \cup out) \cup adj
    BY <1>3 DEF LegTypes, InwardTypes, OutwardTypes, AdjustmentTypes
  <2>3. in \cap out = {} /\ (in \cup out) \cap adj = {}
    BY DEF InwardTypes, OutwardTypes, AdjustmentTypes
  <2>4. in \cup out \in SUBSET of
    BY <2>1
  <2> HIDE DEF within, in, out, adj
  <2>5. Total(in \cup out) = Total(in) + Total(out)
    BY <1>5, <2>1, <2>3
  <2>6. Total((in \cup out) \cup adj) = Total(in \cup out) + Total(adj)
    BY <1>5, <2>1, <2>3, <2>4
  <2>7. QED
    BY <2>2, <2>5, <2>6
<1>8. /\ Total(of) \in Int /\ Total(before) \in Int /\ Total(within) \in Int
      /\ Total(in) \in Int /\ Total(out) \in Int /\ Total(adj) \in Int
  BY <1>5
<1>9. within = {} => of = before
  OBVIOUS
<1> HIDE DEF before, within, in, out, adj
<1>10. row.closing \in Int /\ row.opening \in Int /\ row.closing - row.opening = Total(within)
  BY <1>1, <1>6, <1>8
<1>11. row.opening + row.inward - row.outward + row.adjustments = row.closing
  BY <1>1, <1>6, <1>7, <1>8
<1>12. ~row.listed => row.closing = 0
  BY <1>1, <1>9
<1>13. QED
  BY <1>1, <1>4, <1>10, <1>11, <1>12 DEF of, row

\* The entries of the stock rows K add up to what is in them.
LEMMA EntriesWithin ==
    ASSUME IInv, NEW K \in SUBSET Key
    PROVE  Total({e \in Entries : e.leg.key \in K}) = SumFunctionOnSet(stock, K)
<1> DEFINE E == {e \in Entries : e.leg.key \in K}
           f == [e \in E |-> e.quantity]
           m == [e \in E |-> e.leg.key]
<1>1. IsFiniteSet(E) /\ IsFiniteSet(K) /\ \A e \in E : m[e] \in K /\ f[e] \in Int
  BY EntriesAre, KeysFinite, FS_Subset
<1>2. Total(E) = SumFunctionOnSet(f, E)
  BY DEF Total, SumFunction
<1>3. ASSUME NEW k \in K
      PROVE  \E W \in SUBSET E : (\A e \in E : e \in W <=> m[e] = k) /\ stock[k] = SumFunctionOnSet(f, W)
  <2> DEFINE W == EntriesAt(k)
             g == [e \in W |-> e.quantity]
  <2>1. W \in SUBSET E /\ \A e \in E : e \in W <=> m[e] = k
    BY DEF EntriesAt
  <2>2. stock[k] = SumFunctionOnSet(g, W)
    BY EntriesAddUp DEF Total, SumFunction
  <2>3. \A e \in W : g[e] = f[e]
    BY <2>1
  <2>4. IsFiniteSet(W)
    BY <1>1, <2>1, FS_Subset
  <2> HIDE DEF E, W, g, f, m
  <2>5. SumFunctionOnSet(g, W) = SumFunctionOnSet(f, W)
    BY <2>3, <2>4, SumEqual
  <2>6. QED
    BY <2>1, <2>2, <2>5
<1> HIDE DEF E, f, m
<1>4. SumFunctionOnSet(f, E) = SumFunctionOnSet(stock, K)
  <2>1. (\A e \in E : m[e] \in K) /\ \A e \in E : f[e] \in Int
    BY <1>1
  <2>2. QED
    BY <1>1, <1>3, <2>1, SumCollected
<1>5. QED
  BY <1>2, <1>4 DEF E

\* The stock rows of a SKU in a godown.
RowsOf(x, g) == StockOfSku(x) \cap StockOfGodown(g)

LEMMA RowsAre ==
    ASSUME NEW x \in Sku, NEW g \in Godown
    PROVE  /\ RowsOf(x, g) \in SUBSET Key /\ IsFiniteSet(RowsOf(x, g))
           /\ \A k \in Key : k \in RowsOf(x, g) <=> k[1] = x /\ k[2] = g
BY KeysFinite DEF RowsOf, StockOfSku, StockOfGodown

\* getSkuStock shows a godown exactly if it has some, and what it has.
LEMMA ByGodownIs ==
    ASSUME IInv, NEW x \in Sku, NEW g \in Godown
    PROVE  /\ g \in DOMAIN ByGodown(x) <=> \E k \in RowsOf(x, g) : stock[k] > 0
           /\ g \in DOMAIN ByGodown(x) => ByGodown(x)[g] = SumFunctionOnSet(stock, RowsOf(x, g))
           /\ g \notin DOMAIN ByGodown(x) => SumFunctionOnSet(stock, RowsOf(x, g)) = 0
           /\ g \in DOMAIN ByGodown(x) => SumFunctionOnSet(stock, RowsOf(x, g)) > 0
<1> DEFINE rows == StockBalances(StockOfSku(x))
           K == RowsOf(x, g)
           L == {k \in rows : k[2] = g}
           f == [k \in L |-> stock[k]]
<1>1. DOMAIN ByGodown(x) = {k[2] : k \in rows}
  BY DEF ByGodown
<1>2. g \in DOMAIN ByGodown(x) => ByGodown(x)[g] = SumFunctionOnSet(f, L)
  BY DEF ByGodown, SumFunction
<1>3. L = {k \in K : stock[k] > 0}
  BY DEF StockBalances, RowsOf, StockOfSku, StockOfGodown
<1>4. /\ IsFiniteSet(K) /\ K \in SUBSET Key /\ L \in SUBSET K /\ IsFiniteSet(L)
      /\ \A k \in K : stock[k] \in Nat
  <2>1. IsFiniteSet(K) /\ K \in SUBSET Key
    BY RowsAre
  <2>2. L \in SUBSET K
    BY <1>3
  <2>3. \A k \in K : stock[k] \in Nat
    BY <2>1 DEF IInv, TypeOK
  <2> HIDE DEF K, L
  <2>4. IsFiniteSet(L)
    BY <2>1, <2>2, FS_Subset
  <2>5. QED
    BY <2>1, <2>2, <2>3, <2>4
<1>5. g \in DOMAIN ByGodown(x) <=> L # {}
  BY <1>1
<1>6. \A k \in L : f[k] = stock[k]
  OBVIOUS
<1> HIDE DEF rows, K, L, f
<1>7. SumFunctionOnSet(f, L) = SumFunctionOnSet(stock, K)
  <2>1. SumFunctionOnSet(f, L) = SumFunctionOnSet(stock, L)
    BY <1>4, <1>6, SumEqual
  <2>2. (\A k \in L : stock[k] \in Int) /\ \A k \in K \ L : stock[k] = 0
    BY <1>3, <1>4
  <2>3. SumFunctionOnSet(stock, K) = SumFunctionOnSet(stock, L)
    BY <1>4, <2>2, SumOnly
  <2>4. QED
    BY <2>1, <2>3
<1>8. L = {} => SumFunctionOnSet(stock, K) = 0
  BY <1>3, <1>4, SumZero
<1>9. L # {} => SumFunctionOnSet(stock, K) > 0
  <2>1. SumFunctionOnSet(stock, K) \in Nat /\ \A k \in K : stock[k] <= SumFunctionOnSet(stock, K)
    BY <1>4, SumNat
  <2>2. ASSUME L # {} PROVE SumFunctionOnSet(stock, K) > 0
    <3>1. PICK k \in L : TRUE
      BY <2>2
    <3>2. stock[k] > 0 /\ k \in K
      BY <1>3, <3>1
    <3>3. QED
      BY <1>4, <2>1, <3>2
  <2>3. QED
    BY <2>2
<1>10. QED
  BY <1>2, <1>3, <1>5, <1>7, <1>8, <1>9 DEF K

\* The period of a report.
LEMMA MovementIs ==
    ASSUME IInv, NEW x \in Sku, NEW g \in Godown, NEW from, NEW to
    PROVE  /\ MovementReport(Entries, from, to, x, g) =
              {e \in Entries : e.leg.key \in RowsOf(x, g) /\ DayOf(e.at) \in from..to}
           /\ MovementsOf(Entries, x, g) = {e \in Entries : e.leg.key \in RowsOf(x, g)}
<1>1. \A e \in Entries : e.leg.key \in Key
  BY EntriesAre
<1>2. QED
  BY <1>1, RowsAre DEF MovementReport, MovementsOf

\* The first part of ReportsAgree: one stock row.
LEMMA RowsAgree ==
    ASSUME IInv, NEW k \in Key, NEW from \in 1..DayOf(now), NEW to \in from..DayOf(now)
    PROVE  LET row == StockSummary(EntriesAt(k), from, to, {k})
           IN  /\ row.opening + row.inward - row.outward + row.adjustments = row.closing
               /\ to = DayOf(now) => row.closing = stock[k]
               /\ ~row.listed => row.closing = 0
<1> DEFINE at == EntriesAt(k)
           keys == {k}
           row == StockSummary(at, from, to, keys)
           of == Upto(at, to, keys)
<1>1. at \in SUBSET Entries
  BY DEF EntriesAt
<1> HIDE DEF at, keys
<1>2. /\ row.closing = Total(of)
      /\ row.opening + row.inward - row.outward + row.adjustments = row.closing
      /\ ~row.listed => row.closing = 0
  BY <1>1, SummaryIs
<1>3. to = DayOf(now) => of = at
  BY <1>1, EntryDays DEF Upto, EntriesAt, at, keys
<1> HIDE DEF row, of
<1>4. to = DayOf(now) => row.closing = stock[k]
  BY <1>2, <1>3, EntriesAddUp DEF at
<1>5. QED
  BY <1>2, <1>4 DEF row, at, keys

\* The second part: a SKU in a godown.
LEMMA GodownsAgree ==
    ASSUME IInv, NEW x \in Sku, NEW g \in Godown, NEW from \in 1..DayOf(now), NEW to \in from..DayOf(now)
    PROVE  LET row == StockSummary(Entries, from, to, RowsOf(x, g))
           IN  /\ row.closing - row.opening = Total(MovementReport(Entries, from, to, x, g))
               /\ to = DayOf(now) => row.closing = SumFunctionOnSet(stock, RowsOf(x, g))
<1> DEFINE K == RowsOf(x, g)
           row == StockSummary(Entries, from, to, K)
           of == Upto(Entries, to, K)
           within == {e \in of : from <= DayOf(e.at)}
<1>1. /\ row.closing = Total(of) /\ row.closing - row.opening = Total(within)
  BY SummaryIs
<1>2. /\ from \in Int /\ to \in Int /\ to <= DayOf(now)
      /\ \A e \in Entries : DayOf(e.at) \in Int /\ DayOf(e.at) \in 1..DayOf(now)
  BY ClockIs, EntryDays
<1>3. within = MovementReport(Entries, from, to, x, g)
  <2>1. MovementReport(Entries, from, to, x, g) = {e \in Entries : e.leg.key \in K /\ DayOf(e.at) \in from..to}
    BY MovementIs
  <2>2. \A e \in Entries : DayOf(e.at) \in from..to <=> DayOf(e.at) <= to /\ from <= DayOf(e.at)
    BY <1>2
  <2> HIDE DEF K
  <2>3. QED
    BY <2>1, <2>2 DEF Upto
<1>4. to = DayOf(now) => of = {e \in Entries : e.leg.key \in K}
  BY <1>2 DEF Upto
<1>5. Total({e \in Entries : e.leg.key \in K}) = SumFunctionOnSet(stock, K)
  BY RowsAre, EntriesWithin
<1> HIDE DEF row, of, within, K
<1>6. QED
  BY <1>1, <1>3, <1>4, <1>5 DEF row, K

\* The third part: goods that did not move.
LEMMA AgingAgrees ==
    ASSUME IInv, NEW minDays \in 1..DayOf(now), NEW x \in Sku, NEW g \in Godown, g \in DOMAIN ByGodown(x)
    PROVE  LET moved == MovementsOf(Entries, x, g)
               slow == moved # {} /\ Max({e.at : e \in moved}) <= now - minDays * PerDay
               QuietSince(first) == MovementReport(Entries, first, DayOf(now), x, g) = {}
           IN  /\ slow => QuietSince(DayOf(now) - minDays + 1)
               /\ QuietSince(DayOf(now) - minDays) => slow
<1> DEFINE K == RowsOf(x, g)
           moved == MovementsOf(Entries, x, g)
           today == DayOf(now)
           Since(first) == MovementReport(Entries, first, today, x, g)
           times == {e.at : e \in moved}
           last == Max(times)
<1>1. /\ minDays \in Nat /\ now \in Nat \ {0} /\ today \in Nat
      /\ \A e \in Entries : /\ e.at \in Nat \ {0} /\ e.at <= now
                            /\ DayOf(e.at) \in Int /\ DayOf(e.at) \in 1..today
  BY ClockIs, EntryDays
<1>2. moved = {e \in Entries : e.leg.key \in K}
  BY MovementIs
<1>3. \A first : Since(first) = {e \in moved : DayOf(e.at) \in first..today}
  BY <1>2, MovementIs
<1>4. moved # {}
  <2>1. Total(moved) = SumFunctionOnSet(stock, K)
    BY <1>2, RowsAre, EntriesWithin
  <2>2. SumFunctionOnSet(stock, K) > 0
    BY ByGodownIs
  <2>3. Total({}) = 0
    BY SumEmpty DEF Total, SumFunction
  <2> HIDE DEF moved, K
  <2>4. QED
    BY <2>1, <2>2, <2>3
<1>5. IsFiniteSet(times)
  <2> DEFINE f == [e \in moved |-> e.at]
  <2>1. IsFiniteSet(moved)
    BY <1>2, EntriesAre, FS_Subset
  <2>2. times = {f[e] : e \in moved}
    OBVIOUS
  <2> HIDE DEF f, moved, times
  <2>3. QED
    BY <2>1, <2>2, ImageFinite
<1>6. times # {} /\ \A n \in times : n \in Int
  BY <1>1, <1>2, <1>4
<1>7. last \in times /\ \A n \in times : n <= last
  <2> HIDE DEF times
  <2>1. QED
    BY <1>5, <1>6, MaxIs
<1>8. PICK e \in moved : e.at = last
  BY <1>7
<1>9. \A o \in moved : o.at \in times
  OBVIOUS
<1> HIDE DEF moved, times, last, today, Since, K
<1>10. /\ last \in Nat \ {0} /\ DayOf(last) \in 1..today /\ DayOf(last) \in Int
       /\ \A o \in moved : o.at \in Nat \ {0} /\ o.at <= last /\ DayOf(o.at) \in Int
  BY <1>1, <1>2, <1>7, <1>8, <1>9
<1>11. /\ last + minDays * PerDay \in Nat \ {0}
       /\ DayOf(last + minDays * PerDay) = DayOf(last) + minDays
  BY <1>1, <1>10, DaysAre
<1>12. last <= now - minDays * PerDay <=> last + minDays * PerDay <= now
  <2>1. minDays * PerDay \in Nat
    BY <1>1, WarehouseAssumption
  <2>2. QED
    BY <1>1, <1>10, <2>1
<1>13. ASSUME last <= now - minDays * PerDay
       PROVE  Since(today - minDays + 1) = {}
  <2>1. DayOf(last + minDays * PerDay) <= today
    BY <1>1, <1>11, <1>12, <1>13, DaysAre DEF today
  <2>2. ASSUME NEW o \in moved PROVE DayOf(o.at) \notin (today - minDays + 1)..today
    <3>1. DayOf(o.at) <= DayOf(last)
      BY <1>10, DaysAre
    <3>2. QED
      BY <1>1, <1>10, <1>11, <2>1, <3>1
  <2>3. QED
    BY <1>3, <2>2
<1>14. ASSUME Since(today - minDays) = {}
       PROVE  last <= now - minDays * PerDay
  <2>1. DayOf(last) \notin (today - minDays)..today
    BY <1>3, <1>8, <1>14
  <2>2. DayOf(last + minDays * PerDay) < today
    BY <1>1, <1>10, <1>11, <2>1
  <2>3. ~(now <= last + minDays * PerDay)
    <3>1. now <= last + minDays * PerDay => today <= DayOf(last + minDays * PerDay)
      BY <1>1, <1>11, DaysAre DEF today
    <3>2. DayOf(last + minDays * PerDay) \in Int
      BY <1>1, <1>10, <1>11
    <3>3. QED
      BY <1>1, <2>2, <3>1, <3>2
  <2>4. QED
    BY <1>1, <1>11, <1>12, <2>3
<1>15. QED
  BY <1>4, <1>13, <1>14 DEF moved, times, last, today, Since

LEMMA ShownGodowns ==
    ASSUME NEW x \in Sku
    PROVE  DOMAIN ByGodown(x) \subseteq Godown
BY DEF ByGodown, StockBalances, StockOfSku, Key

LEMMA ReportsSound == IInv => ReportsAgree
<1> SUFFICES ASSUME IInv PROVE ReportsAgree
  OBVIOUS
<1>1. ASSUME NEW k \in Key
      PROVE  \A entries \in {{e \in Entries : e.leg.key = k}} :
              \A from \in 1..DayOf(now) : \A to \in from..DayOf(now) :
                 \A row \in {StockSummary(entries, from, to, {k})} :
                     /\ row.opening + row.inward - row.outward + row.adjustments = row.closing
                     /\ to = DayOf(now) => row.closing = stock[k]
                     /\ ~row.listed => row.closing = 0
  BY RowsAgree DEF EntriesAt
<1>2. ASSUME NEW x \in Sku, NEW g \in Godown
      PROVE  \A from \in 1..DayOf(now) : \A to \in from..DayOf(now) :
                \A row \in {StockSummary(Entries, from, to, RowsOf(x, g))} :
                    /\ row.closing - row.opening = Total(MovementReport(Entries, from, to, x, g))
                    /\ to = DayOf(now) => row.closing =
                          (IF g \in DOMAIN ByGodown(x) THEN ByGodown(x)[g] ELSE 0)
  <2> DEFINE shown == ByGodown(x)
  <2>1. SumFunctionOnSet(stock, RowsOf(x, g)) = IF g \in DOMAIN shown THEN shown[g] ELSE 0
    BY ByGodownIs
  <2> HIDE DEF shown
  <2>2. \A from \in 1..DayOf(now) : \A to \in from..DayOf(now) :
           \A row \in {StockSummary(Entries, from, to, RowsOf(x, g))} :
               /\ row.closing - row.opening = Total(MovementReport(Entries, from, to, x, g))
               /\ to = DayOf(now) => row.closing = (IF g \in DOMAIN shown THEN shown[g] ELSE 0)
    BY <2>1, GodownsAgree
  <2>3. QED
    BY <2>2 DEF shown
<1>3. ASSUME NEW x \in Sku, NEW g \in DOMAIN ByGodown(x), NEW minDays \in 1..DayOf(now)
      PROVE  LET QuietSince(first) == MovementReport(Entries, first, DayOf(now), x, g) = {}
             IN  /\ <<x, g>> \in StockAging(Entries, minDays) => QuietSince(DayOf(now) - minDays + 1)
                 /\ QuietSince(DayOf(now) - minDays) => <<x, g>> \in StockAging(Entries, minDays)
  <2>1. g \in Godown
    BY ShownGodowns
  <2>2. <<x, g>> \in StockAging(Entries, minDays) <=>
           LET moved == MovementsOf(Entries, x, g)
           IN  moved # {} /\ Max({e.at : e \in moved}) <= now - minDays * PerDay
    BY <2>1 DEF StockAging
  <2>3. QED
    BY <2>1, <2>2, AgingAgrees
<1>4. QED
  BY <1>1, <1>2, <1>3 DEF ReportsAgree, RowsOf

\* The reports agree with the stock on hand, with each other and with the screens, for
\* every period, SKU, godown and batch (ReportsAgree).
THEOREM ReportsAgreeHolds == Spec => []ReportsAgree
<1>1. QED
  BY ReportsSound, InvHolds, PTL

-----------------------------------------------------------------------------
(***************************************************************************)
(* The pick suggestion.                                                    *)
(***************************************************************************)

\* s lists the batches of T, first the one that expires first.
Sorted(s, T) ==
    /\ s \in [1..Cardinality(T) -> T]
    /\ \A i, j \in 1..Cardinality(T) : i # j => s[i] # s[j]
    /\ \A i, j \in 1..Cardinality(T) : i < j => ExpiresFirst(s[i], s[j])

\* One batch of several expires last.
LEMMA LatestBatch ==
    ASSUME NEW T \in SUBSET Known, T # {}
    PROVE  \E a \in T : \A b \in T \ {a} : ExpiresFirst(b, a)
<1>1. \A b \in Known : b \in Int /\ Expiry[b] \in Int
  BY WarehouseAssumption DEF Known
<1>2. IsFiniteSet(T)
  BY KeysFinite
<1>3. PICK c \in T : \A b \in T : Expiry[b] <= Expiry[c]
  <2>1. \A b \in T : Expiry[b] \in Int
    BY <1>1
  <2>2. QED
    BY <1>2, <2>1, Largest
<1> DEFINE U == {b \in T : Expiry[b] = Expiry[c]}
           f == [b \in U |-> b]
<1>4. PICK a \in U : \A b \in U : b <= a
  <2>1. IsFiniteSet(U) /\ U # {}
    BY <1>2, FS_Subset
  <2>2. \A b \in U : f[b] \in Int /\ f[b] = b
    BY <1>1
  <2> HIDE DEF U, f
  <2>3. PICK a \in U : \A b \in U : f[b] <= f[a]
    BY <2>1, <2>2, Largest
  <2>4. QED
    BY <2>2, <2>3
<1>5. ASSUME NEW b \in T \ {a} PROVE ExpiresFirst(b, a)
  <2>1. a \in Int /\ b \in Int /\ Expiry[a] \in Int /\ Expiry[b] \in Int
    BY <1>1
  <2>2. Expiry[b] <= Expiry[a] /\ (Expiry[b] = Expiry[a] => b <= a)
    BY <1>3, <1>4
  <2>3. QED
    BY <2>1, <2>2 DEF ExpiresFirst
<1>6. QED
  BY <1>5

LEMMA SortedExists ==
    ASSUME NEW S \in SUBSET Known
    PROVE  \E s : Sorted(s, S)
<1> DEFINE Bad == {T \in SUBSET S : ~\E s : Sorted(s, T)}
<1> SUFFICES ASSUME Bad # {} PROVE FALSE
  OBVIOUS
<1>1. PICK T \in Bad : \A U \in Bad : U \subseteq T => U = T
  <2>1. Bad \subseteq SUBSET S /\ IsFiniteSet(S)
    BY KeysFinite
  <2> HIDE DEF Bad
  <2>2. QED
    BY <2>1, SmallestSubset
<1>2. T \in SUBSET Known /\ ~\E s : Sorted(s, T)
  OBVIOUS
<1>3. CASE T = {}
  <2>1. Cardinality(T) = 0
    BY <1>3, FS_EmptySet
  <2> DEFINE s == [i \in 1..0 |-> i]
  <2>2. Sorted(s, T)
    BY <2>1 DEF Sorted
  <2>3. QED
    BY <1>2, <2>2
<1>4. CASE T # {}
  <2>1. PICK a \in T : \A b \in T \ {a} : ExpiresFirst(b, a)
    BY <1>2, <1>4, LatestBatch
  <2> DEFINE U == T \ {a}
             c == Cardinality(U)
  <2>2. PICK s : Sorted(s, U)
    BY <1>1
  <2>3. c \in Nat /\ Cardinality(T) = c + 1
    <3>1. IsFiniteSet(T)
      BY <1>2, KeysFinite
    <3>2. IsFiniteSet(U)
      BY <3>1, FS_Subset
    <3>3. Cardinality(U) \in Nat
      BY <3>2, FS_CardinalityType
    <3>4. Cardinality(U) = Cardinality(T) - 1
      BY <3>1, FS_RemoveElement
    <3>5. Cardinality(T) \in Nat
      BY <3>1, FS_CardinalityType
    <3>6. QED
      BY <3>3, <3>4, <3>5
  <2> DEFINE new == [i \in 1..(c + 1) |-> IF i = c + 1 THEN a ELSE s[i]]
  <2>4. s \in [1..c -> U]
    BY <2>2 DEF Sorted
  <2>5. \A i, j \in 1..c : i # j => s[i] # s[j]
    BY <2>2 DEF Sorted
  <2>6. \A i, j \in 1..c : i < j => ExpiresFirst(s[i], s[j])
    BY <2>2 DEF Sorted
  <2> HIDE DEF c
  <2>7. \A i \in 1..c : i \in 1..(c + 1) /\ i # c + 1 /\ s[i] \in U /\ new[i] = s[i]
    BY <2>3, <2>4
  <2>8. new[c + 1] = a /\ \A i \in 1..(c + 1) : i = c + 1 \/ i \in 1..c
    BY <2>3
  <2>9. new \in [1..(c + 1) -> T]
    <3>1. \A i \in 1..(c + 1) : new[i] \in T
      BY <2>7, <2>8
    <3>2. QED
      BY <3>1
  <2>10. a \notin U
    OBVIOUS
  <2> HIDE DEF new, U
  <2>11. ASSUME NEW i \in 1..(c + 1), NEW j \in 1..(c + 1), i # j PROVE new[i] # new[j]
    BY <2>7, <2>8, <2>5, <2>10, <2>11
  <2>12. ASSUME NEW i \in 1..(c + 1), NEW j \in 1..(c + 1), i < j
         PROVE  ExpiresFirst(new[i], new[j])
    <3>1. i \in 1..c
      BY <2>3, <2>8, <2>12
    <3>2. CASE j = c + 1
      BY <2>1, <2>7, <2>8, <3>1, <3>2 DEF U
    <3>3. CASE j \in 1..c
      BY <2>7, <2>6, <2>12, <3>1, <3>3
    <3>4. QED
      BY <2>8, <3>2, <3>3
  <2>13. Sorted(new, T)
    BY <2>3, <2>9, <2>11, <2>12 DEF Sorted
  <2>14. QED
    BY <1>2, <2>13
<1>5. QED
  BY <1>3, <1>4

\* listAvailableBatches in FEFO order, without what expired.
LEMMA FefoOrderIs ==
    ASSUME NEW x, NEW g
    PROVE  LET order == FefoOrder(x, g)
               N == Cardinality(Usable(x, g))
           IN  /\ Sorted(order, Usable(x, g))
               /\ N \in Nat /\ Len(order) = N /\ DOMAIN order = 1..N
               /\ \A b \in Usable(x, g) : \E n \in 1..N : order[n] = b
<1> DEFINE T == Usable(x, g)
           N == Cardinality(T)
           order == FefoOrder(x, g)
           Good(s) == \A i, j \in DOMAIN s : i < j => ExpiresFirst(s[i], s[j])
<1>1. T \in SUBSET Known /\ IsFiniteSet(T)
  BY KeysFinite DEF Usable, Available
<1>2. N \in Nat
  BY <1>1, FS_CardinalityType
<1>3. PICK s : Sorted(s, T)
  BY <1>1, SortedExists
<1>4. s \in SetToSeqs(T) /\ Good(s)
  BY <1>3 DEF Sorted, SetToSeqs
<1>5. order = CHOOSE o \in SetToSeqs(T) : Good(o)
  BY DEF FefoOrder
<1> HIDE DEF T, order
<1>6. order \in SetToSeqs(T) /\ Good(order)
  BY <1>4, <1>5
<1>7. order \in [1..N -> T] /\ \A i, j \in 1..N : i # j => order[i] # order[j]
  BY <1>6 DEF SetToSeqs
<1>8. DOMAIN order = 1..N
  BY <1>7
<1>9. Sorted(order, T)
  BY <1>6, <1>7, <1>8 DEF Sorted
<1>10. Len(order) = N
  <2>1. order \in Seq(T)
    BY <1>2, <1>7
  <2>2. QED
    BY <1>2, <1>8, <2>1
<1>11. \A b \in T : \E n \in 1..N : order[n] = b
  <2>1. order \in Injection(1..N, T)
    BY <1>7, <1>8 DEF Injection, IsInjective
  <2>2. Cardinality(1..N) = N
    <3>1. Cardinality(1..N) = IF 1 > N THEN 0 ELSE N - 1 + 1
      BY <1>2, FS_Interval
    <3>2. QED
      BY <1>2, <3>1
  <2>3. order \in Surjection(1..N, T)
    <3> DEFINE n == N
    <3>1. n = Cardinality(T) /\ order \in Injection(1..n, T) /\ Cardinality(1..n) = n
      BY <2>1, <2>2
    <3> HIDE DEF n
    <3>2. order \in Surjection(1..n, T)
      BY <1>1, <3>1, FS_Injection
    <3>3. QED
      BY <3>2 DEF n
  <2>4. QED
    BY <2>3 DEF Surjection
<1>12. QED
  BY <1>2, <1>8, <1>9, <1>10, <1>11 DEF T, order

\* The loop of allocateFefo: what remains after each batch of the order.
Loops(r, x, g, order, requested) ==
    r = [n \in 0..Len(order) |->
            IF n = 0 THEN requested
            ELSE r[n - 1] - (IF stock[<<x, g, order[n]>>] < r[n - 1]
                             THEN stock[<<x, g, order[n]>>] ELSE r[n - 1])]

Remaining(x, g, order, requested) == CHOOSE r : Loops(r, x, g, order, requested)

LEMMA AllocateIs ==
    ASSUME NEW x, NEW g, NEW requested
    PROVE  LET order == FefoOrder(x, g)
               r == Remaining(x, g, order, requested)
               pick == AllocateFefo(x, g, requested)
           IN  /\ pick.shortfall = r[Len(order)]
               /\ pick.allocations = [n \in DOMAIN order |->
                     [batch |-> order[n],
                      quantity |-> IF stock[<<x, g, order[n]>>] < r[n - 1]
                                   THEN stock[<<x, g, order[n]>>] ELSE r[n - 1]]]
BY DEF AllocateFefo, Remaining, Loops

\* The sums of the first n of N quantities.
LEMMA PrefixSums ==
    ASSUME NEW N \in Nat, NEW q, \A n \in 1..N : q[n] \in Nat
    PROVE  /\ SumFunctionOnSet(q, 1..0) = 0
           /\ \A n \in 0..N : SumFunctionOnSet(q, 1..n) \in Nat
           /\ \A n \in 1..N : SumFunctionOnSet(q, 1..n) = SumFunctionOnSet(q, 1..(n - 1)) + q[n]
           /\ \A n \in 0..N : \A i \in 0..n : SumFunctionOnSet(q, 1..i) <= SumFunctionOnSet(q, 1..n)
<1>1. SumFunctionOnSet(q, 1..0) = 0
  <2>1. 1..0 = {}
    OBVIOUS
  <2>2. QED
    BY <2>1, SumEmpty
<1>2. ASSUME NEW n \in 0..N PROVE IsFiniteSet(1..n) /\ SumFunctionOnSet(q, 1..n) \in Nat
  <2>1. IsFiniteSet(1..n)
    BY FS_Interval
  <2>2. \A i \in 1..n : q[i] \in Nat
    OBVIOUS
  <2>3. SumFunctionOnSet(q, 1..n) \in Nat
    BY <2>1, <2>2, SumNat
  <2>4. QED
    BY <2>1, <2>3
<1>3. ASSUME NEW n \in 1..N
      PROVE  SumFunctionOnSet(q, 1..n) = SumFunctionOnSet(q, 1..(n - 1)) + q[n]
  <2>1. IsFiniteSet(1..n) /\ n \in 1..n /\ (1..n) \ {n} = 1..(n - 1)
    BY <1>2
  <2>2. \A i \in 1..n : q[i] \in Int
    OBVIOUS
  <2>3. SumFunctionOnSet(q, 1..n) = q[n] + SumFunctionOnSet(q, (1..n) \ {n})
    BY <2>1, <2>2, SumTakeOut
  <2>4. SumFunctionOnSet(q, 1..(n - 1)) \in Nat
    <3>1. n - 1 \in 0..N
      OBVIOUS
    <3>2. QED
      BY <1>2, <3>1
  <2>5. q[n] \in Nat
    OBVIOUS
  <2>6. SumFunctionOnSet(q, (1..n) \ {n}) = SumFunctionOnSet(q, 1..(n - 1))
    BY <2>1
  <2>7. QED
    BY <2>3, <2>4, <2>5, <2>6
<1>4. ASSUME NEW n \in 0..N, NEW i \in 0..n
      PROVE  SumFunctionOnSet(q, 1..i) <= SumFunctionOnSet(q, 1..n)
  <2> DEFINE A == 1..i
             B == (i + 1)..n
  <2>1. IsFiniteSet(A) /\ IsFiniteSet(B)
    BY FS_Interval
  <2>2. 1..n = A \cup B /\ A \cap B = {}
    OBVIOUS
  <2>3. (\A j \in A \cup B : q[j] \in Int) /\ (\A j \in B : q[j] \in Nat) /\ (\A j \in A : q[j] \in Nat)
    OBVIOUS
  <2> HIDE DEF A, B
  <2>4. SumFunctionOnSet(q, A \cup B) = SumFunctionOnSet(q, A) + SumFunctionOnSet(q, B)
    BY <2>1, <2>2, <2>3, SumUnion
  <2>5. SumFunctionOnSet(q, A) \in Nat
    BY <2>1, <2>3, SumNat
  <2>6. SumFunctionOnSet(q, B) \in Nat
    BY <2>1, <2>3, SumNat
  <2>7. SumFunctionOnSet(q, 1..n) = SumFunctionOnSet(q, A \cup B)
    BY <2>2
  <2>8. SumFunctionOnSet(q, A) <= SumFunctionOnSet(q, 1..n)
    BY <2>4, <2>5, <2>6, <2>7
  <2>9. QED
    BY <2>8 DEF A
<1>5. QED
  BY <1>1, <1>2, <1>3, <1>4

\* The quantities in the order's places; what the first places do not cover of a
\* request; and what each place gives of what is left for it.
Quantities(q, N, x, g, order) ==
    /\ N \in Nat /\ Len(order) = N
    /\ \A n \in 1..N : q[n] = stock[<<x, g, order[n]>>] /\ q[n] \in Nat
LeftOver(r, N, requested, q) ==
    \A n \in 0..N : r[n] = IF SumFunctionOnSet(q, 1..n) >= requested THEN 0
                           ELSE requested - SumFunctionOnSet(q, 1..n)
Gives(given, N, q, r) ==
    /\ N \in Nat
    /\ \A n \in 1..N : q[n] \in Nat /\ given[n] = IF q[n] < r[n - 1] THEN q[n] ELSE r[n - 1]

\* What remains is what the batches so far do not cover.
LEMMA RemainingIs ==
    ASSUME NEW x, NEW g, NEW order, NEW N, NEW requested \in Nat, NEW q, Quantities(q, N, x, g, order)
    PROVE  LeftOver(Remaining(x, g, order, requested), N, requested, q)
<1> DEFINE p == [n \in 0..N |-> SumFunctionOnSet(q, 1..n)]
           f == [n \in 0..N |-> IF p[n] >= requested THEN 0 ELSE requested - p[n]]
           r == Remaining(x, g, order, requested)
<1>0. /\ N \in Nat /\ Len(order) = N
      /\ \A n \in 1..N : q[n] = stock[<<x, g, order[n]>>] /\ q[n] \in Nat
  BY DEF Quantities
<1>1. /\ p[0] = 0 /\ \A n \in 0..N : p[n] = SumFunctionOnSet(q, 1..n) /\ p[n] \in Nat
      /\ \A n \in 1..N : p[n] = p[n - 1] + q[n] /\ n - 1 \in 0..N
  <2>1. \A n \in 0..N : p[n] = SumFunctionOnSet(q, 1..n)
    OBVIOUS
  <2>2. \A n \in 1..N : n \in 0..N /\ n - 1 \in 0..N
    BY <1>0
  <2>3. \A n \in 1..N : q[n] \in Nat
    BY <1>0
  <2>4. 0 \in 0..N
    BY <1>0
  <2> HIDE DEF p
  <2>5. /\ SumFunctionOnSet(q, 1..0) = 0
        /\ \A n \in 0..N : SumFunctionOnSet(q, 1..n) \in Nat
        /\ \A n \in 1..N : SumFunctionOnSet(q, 1..n) = SumFunctionOnSet(q, 1..(n - 1)) + q[n]
    BY <1>0, <2>3, PrefixSums
  <2>6. QED
    BY <2>1, <2>2, <2>4, <2>5
<1> HIDE DEF p
<1>2. f[0] = requested /\ \A n \in 0..N : f[n] = IF p[n] >= requested THEN 0 ELSE requested - p[n]
  BY <1>0, <1>1
<1>3. ASSUME NEW n \in 1..N
      PROVE  f[n] = f[n - 1] - (IF q[n] < f[n - 1] THEN q[n] ELSE f[n - 1])
  <2>1. n \in 0..N /\ n - 1 \in 0..N /\ q[n] \in Nat
    <3>1. n \in 0..N
      BY <1>0
    <3>2. n - 1 \in 0..N
      BY <1>0
    <3>3. q[n] \in Nat
      BY <1>0
    <3>4. QED
      BY <3>1, <3>2, <3>3
  <2>2. p[n] = p[n - 1] + q[n] /\ p[n - 1] \in Nat
    BY <1>1, <2>1
  <2>3. /\ f[n] = IF p[n] >= requested THEN 0 ELSE requested - p[n]
        /\ f[n - 1] = IF p[n - 1] >= requested THEN 0 ELSE requested - p[n - 1]
    BY <1>2, <2>1
  <2> HIDE DEF f
  <2>4. QED
    BY <2>1, <2>2, <2>3
<1>4. Loops(f, x, g, order, requested)
  <2> DEFINE h == [n \in 0..N |-> IF n = 0 THEN requested
                                  ELSE f[n - 1] - (IF stock[<<x, g, order[n]>>] < f[n - 1]
                                                   THEN stock[<<x, g, order[n]>>] ELSE f[n - 1])]
  <2>1. \A n \in 0..N : n = 0 \/ n \in 1..N
    OBVIOUS
  <2>2. f = [n \in 0..N |-> f[n]]
    OBVIOUS
  <2> HIDE DEF f
  <2>3. \A n \in 0..N : h[n] = f[n]
    BY <1>0, <1>2, <1>3, <2>1
  <2>4. f = h
    BY <2>2, <2>3
  <2>5. QED
    BY <1>0, <2>4 DEF Loops
<1> HIDE DEF f
<1>5. Loops(r, x, g, order, requested)
  BY <1>4 DEF Remaining
<1> HIDE DEF r
<1>6. r[0] = requested /\ \A n \in 1..N : r[n] = r[n - 1] - (IF q[n] < r[n - 1] THEN q[n] ELSE r[n - 1])
  <2>1. r = [n \in 0..N |-> IF n = 0 THEN requested
                            ELSE r[n - 1] - (IF stock[<<x, g, order[n]>>] < r[n - 1]
                                             THEN stock[<<x, g, order[n]>>] ELSE r[n - 1])]
    BY <1>0, <1>5 DEF Loops
  <2>2. 0 \in 0..N /\ \A n \in 1..N : n \in 0..N /\ n # 0
    BY <1>0
  <2>3. QED
    BY <1>0, <2>1, <2>2
<1>7. \A n \in 0..N : r[n] = f[n]
  <2> DEFINE Bad == {n \in 0..N : r[n] # f[n]}
  <2> SUFFICES ASSUME Bad # {} PROVE FALSE
    OBVIOUS
  <2>1. PICK n \in Bad : \A i \in Bad : n <= i
    <3>1. Bad \in SUBSET (0..N)
      OBVIOUS
    <3> HIDE DEF Bad
    <3>2. QED
      BY <1>0, <3>1, LeastOf
  <2>2. n \in 0..N /\ r[n] # f[n]
    OBVIOUS
  <2>3. n # 0
    BY <1>2, <1>6, <2>2
  <2>4. n \in 1..N /\ n - 1 \in 0..N /\ n - 1 \notin Bad
    BY <1>0, <2>1, <2>2, <2>3
  <2>5. r[n - 1] = f[n - 1]
    BY <2>4
  <2> HIDE DEF Bad
  <2>6. QED
    BY <1>3, <1>6, <2>2, <2>4, <2>5
<1>8. QED
  BY <1>1, <1>2, <1>7 DEF r, LeftOver

\* What the loop gives: never more than there is, the request less what remains in
\* all, and nothing from a place of the order before the earlier places are used up.
LEMMA GivenAre ==
    ASSUME NEW N, NEW requested \in Nat, NEW q, NEW r, NEW given,
           LeftOver(r, N, requested, q), Gives(given, N, q, r)
    PROVE  /\ \A n \in 1..N : given[n] \in 0..q[n]
           /\ SumFunctionOnSet(given, 1..N) = requested - r[N]
           /\ \A m, n \in 1..N : m < n /\ given[n] > 0 => given[m] = q[m]
<1> DEFINE p == [n \in 0..N |-> SumFunctionOnSet(q, 1..n)]
           s == [n \in 0..N |-> SumFunctionOnSet(given, 1..n)]
<1>0. /\ N \in Nat /\ \A n \in 1..N : q[n] \in Nat
      /\ \A n \in 0..N : r[n] = IF SumFunctionOnSet(q, 1..n) >= requested THEN 0
                               ELSE requested - SumFunctionOnSet(q, 1..n)
      /\ \A n \in 1..N : given[n] = IF q[n] < r[n - 1] THEN q[n] ELSE r[n - 1]
  BY DEF LeftOver, Gives
<1>1. /\ SumFunctionOnSet(q, 1..0) = 0
      /\ \A n \in 0..N : SumFunctionOnSet(q, 1..n) \in Nat
      /\ \A n \in 1..N : SumFunctionOnSet(q, 1..n) = SumFunctionOnSet(q, 1..(n - 1)) + q[n]
      /\ \A n \in 0..N : \A i \in 0..n : SumFunctionOnSet(q, 1..i) <= SumFunctionOnSet(q, 1..n)
  BY <1>0, PrefixSums
<1>2. 0 \in 0..N /\ N \in 0..N
  BY <1>0
<1>3. ASSUME NEW n \in 1..N PROVE n \in 0..N /\ n - 1 \in 0..N /\ q[n] \in Nat
  <2>1. n \in 0..N
    BY <1>0
  <2>2. n - 1 \in 0..N
    BY <1>0
  <2>3. q[n] \in Nat
    BY <1>0
  <2>4. QED
    BY <2>1, <2>2, <2>3
<1>4. /\ p[0] = 0 /\ \A n \in 0..N : p[n] \in Nat
      /\ \A n \in 0..N : r[n] = IF p[n] >= requested THEN 0 ELSE requested - p[n]
      /\ \A n \in 0..N : \A i \in 0..n : p[i] <= p[n]
      /\ \A n \in 1..N : p[n] = p[n - 1] + q[n]
  <2>1. \A n \in 0..N : p[n] = SumFunctionOnSet(q, 1..n)
    OBVIOUS
  <2>2. \A n \in 0..N : \A i \in 0..n : i \in 0..N
    BY <1>0
  <2>3. \A n \in 0..N : r[n] = IF SumFunctionOnSet(q, 1..n) >= requested THEN 0
                               ELSE requested - SumFunctionOnSet(q, 1..n)
    BY <1>0
  <2> HIDE DEF p
  <2>4. p[0] = 0
    BY <1>1, <1>2, <2>1
  <2>5. \A n \in 0..N : p[n] \in Nat
    BY <1>1, <2>1
  <2>6. \A n \in 0..N : r[n] = IF p[n] >= requested THEN 0 ELSE requested - p[n]
    BY <2>1, <2>3
  <2>7. \A n \in 0..N : \A i \in 0..n : p[i] <= p[n]
    BY <1>1, <2>1, <2>2
  <2>8. \A n \in 1..N : p[n] = p[n - 1] + q[n]
    BY <1>1, <1>3, <2>1
  <2>9. QED
    BY <2>4, <2>5, <2>6, <2>7, <2>8
<1> HIDE DEF p
<1>5. ASSUME NEW n \in 1..N
      PROVE  /\ given[n] \in Nat /\ given[n] <= q[n] /\ given[n] = r[n - 1] - r[n]
             /\ given[n] > 0 => p[n - 1] < requested
             /\ p[n] < requested => given[n] = q[n]
  <2>1. given[n] = IF q[n] < r[n - 1] THEN q[n] ELSE r[n - 1]
    BY <1>0
  <2>2. q[n] \in Nat /\ p[n - 1] \in Nat /\ p[n] \in Nat /\ p[n] = p[n - 1] + q[n]
    BY <1>3, <1>4
  <2>3. /\ r[n] = IF p[n] >= requested THEN 0 ELSE requested - p[n]
        /\ r[n - 1] = IF p[n - 1] >= requested THEN 0 ELSE requested - p[n - 1]
    BY <1>3, <1>4
  <2>4. QED
    BY <2>1, <2>2, <2>3
<1>6. \A n \in 1..N : given[n] \in 0..q[n]
  BY <1>3, <1>5
<1>7. ASSUME NEW m \in 1..N, NEW n \in 1..N, m < n, given[n] > 0 PROVE given[m] = q[m]
  <2>1. n - 1 \in 0..N /\ m \in 0..(n - 1) /\ m \in 0..N
    BY <1>0, <1>3, <1>7
  <2>2. p[m] <= p[n - 1]
    BY <1>4, <2>1
  <2>3. p[n - 1] < requested /\ p[n - 1] \in Nat /\ p[m] \in Nat
    BY <1>4, <1>5, <1>7, <2>1
  <2>4. p[m] < requested
    BY <2>2, <2>3
  <2>5. QED
    BY <1>0, <1>5, <2>4
<1>8. s[0] = 0 /\ \A n \in 1..N : s[n] = s[n - 1] + given[n] /\ s[n] \in Nat
  <2>1. \A n \in 0..N : s[n] = SumFunctionOnSet(given, 1..n)
    OBVIOUS
  <2>2. \A n \in 1..N : given[n] \in Nat
    BY <1>5
  <2> HIDE DEF s
  <2>3. /\ SumFunctionOnSet(given, 1..0) = 0
        /\ \A n \in 0..N : SumFunctionOnSet(given, 1..n) \in Nat
        /\ \A n \in 1..N : SumFunctionOnSet(given, 1..n) = SumFunctionOnSet(given, 1..(n - 1)) + given[n]
    BY <1>0, <2>2, PrefixSums
  <2>4. QED
    BY <1>2, <1>3, <2>1, <2>3
<1>9. SumFunctionOnSet(given, 1..N) = s[N]
  BY <1>2
<1> HIDE DEF s
<1>10. s[N] = requested - r[N]
  <2> DEFINE Bad == {n \in 0..N : s[n] # requested - r[n]}
  <2> SUFFICES ASSUME Bad # {} PROVE FALSE
    BY <1>2
  <2>1. PICK n \in Bad : \A i \in Bad : n <= i
    <3>1. Bad \in SUBSET (0..N)
      OBVIOUS
    <3> HIDE DEF Bad
    <3>2. QED
      BY <1>0, <3>1, LeastOf
  <2>2. n \in 0..N /\ s[n] # requested - r[n]
    OBVIOUS
  <2>3. n # 0
    <3>1. r[0] = requested
      BY <1>2, <1>4
    <3>2. s[0] = requested - r[0]
      BY <1>8, <3>1
    <3>3. QED
      BY <2>2, <3>2
  <2>4. n \in 1..N
    BY <1>0, <2>2, <2>3
  <2>5. n - 1 \in 0..N /\ n - 1 \notin Bad
    <3>1. n - 1 \in 0..N
      BY <1>3, <2>4
    <3>2. ~ (n <= n - 1)
      BY <2>4
    <3>3. QED
      BY <2>1, <3>1, <3>2
  <2>6. s[n - 1] = requested - r[n - 1]
    BY <2>5
  <2>7. s[n] = s[n - 1] + given[n] /\ given[n] = r[n - 1] - r[n]
    BY <1>5, <1>8, <2>4
  <2>8. r[n] \in Int /\ r[n - 1] \in Int
    <3>1. p[n] \in Nat /\ p[n - 1] \in Nat
      BY <1>4, <2>2, <2>5
    <3>2. /\ r[n] = IF p[n] >= requested THEN 0 ELSE requested - p[n]
          /\ r[n - 1] = IF p[n - 1] >= requested THEN 0 ELSE requested - p[n - 1]
      BY <1>4, <2>2, <2>5
    <3>3. QED
      BY <3>1, <3>2
  <2>9. s[n] = requested - r[n]
    BY <2>6, <2>7, <2>8
  <2>10. QED
    BY <2>2, <2>9
<1>11. QED
  BY <1>6, <1>7, <1>9, <1>10

\* The allocations, by place in the order.
LEMMA PlacesAre ==
    ASSUME TypeOK, NEW x \in Sku, NEW g \in Godown, NEW requested \in Nat
    PROVE  LET T == Usable(x, g)
               N == Cardinality(T)
               order == FefoOrder(x, g)
               taken == AllocateFefo(x, g, requested).allocations
               q == [n \in 1..N |-> stock[<<x, g, order[n]>>]]
               given == [n \in 1..N |-> taken[n].quantity]
               r == Remaining(x, g, order, requested)
           IN  /\ DOMAIN taken = 1..N /\ \A n \in 1..N : taken[n].batch = order[n]
               /\ AllocateFefo(x, g, requested).shortfall = r[N]
               /\ \A n \in 1..N : q[n] \in Nat /\ given[n] \in 0..q[n]
               /\ r[N] = IF SumFunctionOnSet(q, 1..N) >= requested THEN 0
                         ELSE requested - SumFunctionOnSet(q, 1..N)
               /\ SumFunctionOnSet(given, 1..N) = requested - r[N]
               /\ \A m, n \in 1..N : m < n /\ given[n] > 0 => given[m] = q[m]
<1> DEFINE T == Usable(x, g)
           N == Cardinality(T)
           order == FefoOrder(x, g)
           taken == AllocateFefo(x, g, requested).allocations
           q == [n \in 1..N |-> stock[<<x, g, order[n]>>]]
           given == [n \in 1..N |-> taken[n].quantity]
           r == Remaining(x, g, order, requested)
<1>1. N \in Nat /\ Len(order) = N /\ DOMAIN order = 1..N /\ Sorted(order, T)
  BY FefoOrderIs
<1>2. ASSUME NEW n \in 1..N PROVE stock[<<x, g, order[n]>>] \in Nat
  <2>1. order[n] \in Known
    BY <1>1 DEF Sorted, Usable, Available
  <2>2. <<x, g, order[n]>> \in Key
    BY <2>1 DEF Key
  <2>3. QED
    BY <2>2 DEF TypeOK
<1>3. \A n \in 1..N : q[n] = stock[<<x, g, order[n]>>] /\ q[n] \in Nat
  BY <1>2
<1>4. /\ AllocateFefo(x, g, requested).shortfall = r[Len(order)]
      /\ taken = [n \in DOMAIN order |->
                     [batch |-> order[n],
                      quantity |-> IF stock[<<x, g, order[n]>>] < r[n - 1]
                                   THEN stock[<<x, g, order[n]>>] ELSE r[n - 1]]]
  BY AllocateIs
<1> HIDE DEF q, order, taken, r, N
<1>5. LeftOver(r, N, requested, q)
  <2>1. Quantities(q, N, x, g, order)
    BY <1>1, <1>3 DEF Quantities
  <2>2. QED
    BY <2>1, RemainingIs DEF r
<1>6. DOMAIN taken = 1..N /\ \A n \in 1..N : /\ taken[n].batch = order[n]
                                             /\ taken[n].quantity = IF q[n] < r[n - 1] THEN q[n] ELSE r[n - 1]
  BY <1>1, <1>3, <1>4
<1>7. \A n \in 1..N : given[n] = IF q[n] < r[n - 1] THEN q[n] ELSE r[n - 1]
  BY <1>6
<1> HIDE DEF given
<1>8. \A n \in 1..N : q[n] \in Nat
  BY <1>3
<1>9. /\ \A n \in 1..N : given[n] \in 0..q[n]
      /\ SumFunctionOnSet(given, 1..N) = requested - r[N]
      /\ \A m, n \in 1..N : m < n /\ given[n] > 0 => given[m] = q[m]
  <2>1. Gives(given, N, q, r)
    BY <1>1, <1>7, <1>8 DEF Gives
  <2>2. QED
    BY <1>5, <2>1, GivenAre
<1>10. r[N] = IF SumFunctionOnSet(q, 1..N) >= requested THEN 0
              ELSE requested - SumFunctionOnSet(q, 1..N)
  <2>1. N \in 0..N
    BY <1>1
  <2>2. QED
    BY <1>5, <2>1 DEF LeftOver
<1>11. AllocateFefo(x, g, requested).shortfall = r[N]
  BY <1>1, <1>4
<1>12. QED
  BY <1>6, <1>8, <1>9, <1>10, <1>11 DEF q, given, order, taken, r, N

\* FefoIsSound at one pick.
SoundPick(x, g, requested, pick) ==
    LET taken == pick.allocations
        Gets(b) == SumFunction([n \in {n \in DOMAIN taken : taken[n].batch = b}
                                    |-> taken[n].quantity])
        Good == {b \in Known : Expiry[b] >= DayOf(now)}
        enough == SumFunction([b \in Good |-> stock[<<x, g, b>>]])
    IN  /\ pick.shortfall = (IF enough >= requested THEN 0 ELSE requested - enough)
        /\ SumFunction([b \in Known |-> Gets(b)]) = requested - pick.shortfall
        /\ \A b \in Known :
              /\ Gets(b) \in 0..stock[<<x, g, b>>]
              /\ Gets(b) > 0 =>
                    /\ b \in Good
                    /\ \A c \in Good : Expiry[c] < Expiry[b] => Gets(c) = stock[<<x, g, c>>]

LEMMA PickIsSound ==
    ASSUME TypeOK, NEW x \in Sku, NEW g \in Godown, NEW requested \in Nat
    PROVE  SoundPick(x, g, requested, SuggestFefoPick(x, g, requested))
<1> DEFINE T == Usable(x, g)
           N == Cardinality(T)
           order == FefoOrder(x, g)
           pick == SuggestFefoPick(x, g, requested)
           taken == pick.allocations
           q == [n \in 1..N |-> stock[<<x, g, order[n]>>]]
           given == [n \in 1..N |-> taken[n].quantity]
           r == Remaining(x, g, order, requested)
           Good == {b \in Known : Expiry[b] >= DayOf(now)}
           Gets(b) == SumFunction([n \in {n \in DOMAIN taken : taken[n].batch = b}
                                       |-> taken[n].quantity])
           held == [b \in Good |-> stock[<<x, g, b>>]]
           got == [b \in Known |-> Gets(b)]
           place == [n \in 1..N |-> order[n]]
<1>1. /\ N \in Nat /\ Sorted(order, T) /\ \A b \in T : \E n \in 1..N : order[n] = b
  BY FefoOrderIs
<1>2. /\ DOMAIN taken = 1..N /\ \A n \in 1..N : taken[n].batch = order[n]
      /\ pick.shortfall = r[N]
      /\ \A n \in 1..N : q[n] \in Nat /\ given[n] \in 0..q[n]
      /\ r[N] = IF SumFunctionOnSet(q, 1..N) >= requested THEN 0
                ELSE requested - SumFunctionOnSet(q, 1..N)
      /\ SumFunctionOnSet(given, 1..N) = requested - r[N]
      /\ \A m, n \in 1..N : m < n /\ given[n] > 0 => given[m] = q[m]
  BY PlacesAre DEF SuggestFefoPick
<1>3. /\ \A n \in 1..N : order[n] \in T
      /\ \A i, j \in 1..N : i # j => order[i] # order[j]
      /\ \A i, j \in 1..N : i < j => ExpiresFirst(order[i], order[j])
  BY <1>1 DEF Sorted
<1>4. \A b \in Known : stock[<<x, g, b>>] \in Nat /\ Expiry[b] \in Int
  <2>1. \A b \in Known : <<x, g, b>> \in Key
    BY DEF Key
  <2>2. QED
    BY <2>1, WarehouseAssumption DEF TypeOK
<1>5. /\ \A b \in T : b \in Known /\ b \in Good
      /\ \A b \in Good \ T : stock[<<x, g, b>>] = 0
      /\ T \in SUBSET Known /\ T \in SUBSET Good /\ Good \in SUBSET Known
  BY <1>4 DEF Usable, Available
<1>6. /\ \A n \in 1..N : q[n] = stock[<<x, g, order[n]>>]
      /\ \A n \in 1..N : given[n] = taken[n].quantity
      /\ \A n \in 1..N : place[n] = order[n]
      /\ \A b \in Good : held[b] = stock[<<x, g, b>>]
  OBVIOUS
<1>7. IsFiniteSet(1..N) /\ IsFiniteSet(T) /\ IsFiniteSet(Good) /\ IsFiniteSet(Known)
  BY <1>1, <1>5, FS_Interval, KeysFinite
<1> HIDE DEF T, N, order, pick, q, given, r, place
<1>8. Renames(place, 1..N, T)
  BY <1>1, <1>3, <1>6 DEF Renames
<1>9. ASSUME NEW n \in 1..N PROVE Gets(order[n]) = given[n]
  <2> DEFINE S == {i \in DOMAIN taken : taken[i].batch = order[n]}
             f == [i \in S |-> taken[i].quantity]
  <2>1. S = {n}
    BY <1>2, <1>3
  <2>2. SumFunction(f) = SumFunctionOnSet(f, {n})
    BY <2>1 DEF SumFunction
  <2>3. f[n] = given[n] /\ given[n] \in Int
    BY <1>2, <1>6, <2>1
  <2> HIDE DEF f
  <2>4. SumFunctionOnSet(f, {n}) = given[n]
    BY <2>3, SumOfOne
  <2>5. QED
    BY <2>2, <2>4 DEF f
<1>10. ASSUME NEW b \in Known \ T PROVE Gets(b) = 0
  <2> DEFINE S == {i \in DOMAIN taken : taken[i].batch = b}
             f == [i \in S |-> taken[i].quantity]
  <2>1. S = {}
    BY <1>2, <1>3
  <2>2. SumFunction(f) = SumFunctionOnSet(f, {})
    BY <2>1 DEF SumFunction
  <2>3. QED
    BY <2>2, SumEmpty
<1>11. ASSUME NEW b \in Known PROVE got[b] = Gets(b) /\ got[b] \in 0..stock[<<x, g, b>>]
  <2>1. CASE b \in T
    <3>1. PICK n \in 1..N : order[n] = b
      BY <1>1, <2>1
    <3>2. Gets(b) = given[n] /\ q[n] = stock[<<x, g, b>>]
      BY <1>6, <1>9, <3>1
    <3> HIDE DEF Gets
    <3>3. QED
      BY <1>2, <3>2
  <2>2. CASE b \notin T
    <3>1. Gets(b) = 0
      BY <1>10, <2>2
    <3> HIDE DEF Gets
    <3>2. QED
      BY <1>4, <3>1
  <2>3. QED
    BY <2>1, <2>2
<1>12. /\ \A n \in 1..N : got[order[n]] = given[n]
       /\ \A b \in Known \ T : got[b] = 0
  BY <1>3, <1>5, <1>9, <1>10
<1>13. SumFunction(got) = SumFunctionOnSet(got, Known) /\ SumFunction(held) = SumFunctionOnSet(held, Good)
  BY DEF SumFunction
<1>14. \A b \in Known : got[b] = Gets(b)
  BY <1>11
<1> HIDE DEF taken, Good, held, got
<1>15. SumFunctionOnSet(q, 1..N) = SumFunctionOnSet(held, Good)
  <2>1. ASSUME NEW n \in 1..N PROVE q[n] \in Int /\ held[place[n]] = q[n]
    <3>1. q[n] \in Nat /\ place[n] = order[n] /\ q[n] = stock[<<x, g, order[n]>>]
      BY <1>2, <1>6
    <3>2. order[n] \in Good
      BY <1>3, <1>5
    <3>3. held[order[n]] = stock[<<x, g, order[n]>>]
      BY <1>6, <3>2
    <3>4. QED
      BY <3>1, <3>3
  <2>2. SumFunctionOnSet(q, 1..N) = SumFunctionOnSet(held, T)
    <3> DEFINE places == 1..N
    <3>1. /\ IsFiniteSet(places) /\ IsFiniteSet(T) /\ Renames(place, places, T)
          /\ \A n \in places : q[n] \in Int /\ held[place[n]] = q[n]
      BY <1>7, <1>8, <2>1
    <3> HIDE DEF places
    <3>2. SumFunctionOnSet(q, places) = SumFunctionOnSet(held, T)
      BY <3>1, SumRenamed
    <3>3. QED
      BY <3>2 DEF places
  <2>3. (\A b \in T : held[b] \in Int) /\ (\A b \in Good \ T : held[b] = 0)
    <3>1. ASSUME NEW b \in T PROVE held[b] \in Int
      <4>1. b \in Good /\ b \in Known
        BY <1>5
      <4>2. held[b] = stock[<<x, g, b>>] /\ stock[<<x, g, b>>] \in Nat
        BY <1>4, <1>6, <4>1
      <4>3. QED
        BY <4>2
    <3>2. ASSUME NEW b \in Good \ T PROVE held[b] = 0
      BY <1>5, <1>6
    <3>3. QED
      BY <3>1, <3>2
  <2>4. SumFunctionOnSet(held, Good) = SumFunctionOnSet(held, T)
    BY <1>5, <1>7, <2>3, SumOnly
  <2>5. QED
    BY <2>2, <2>4
<1>16. SumFunctionOnSet(given, 1..N) = SumFunctionOnSet(got, Known)
  <2>1. \A n \in 1..N : given[n] \in Int /\ got[place[n]] = given[n]
    BY <1>2, <1>6, <1>12
  <2>2. SumFunctionOnSet(given, 1..N) = SumFunctionOnSet(got, T)
    <3> DEFINE places == 1..N
    <3>1. /\ IsFiniteSet(places) /\ IsFiniteSet(T) /\ Renames(place, places, T)
          /\ \A n \in places : given[n] \in Int /\ got[place[n]] = given[n]
      BY <1>7, <1>8, <2>1
    <3> HIDE DEF places
    <3>2. SumFunctionOnSet(given, places) = SumFunctionOnSet(got, T)
      BY <3>1, SumRenamed
    <3>3. QED
      BY <3>2 DEF places
  <2>3. (\A b \in T : got[b] \in Int) /\ (\A b \in Known \ T : got[b] = 0)
    <3>1. ASSUME NEW b \in T PROVE got[b] \in Int
      <4>1. b \in Known
        BY <1>5
      <4>2. got[b] \in 0..stock[<<x, g, b>>]
        BY <1>11, <4>1
      <4>3. QED
        BY <4>2
    <3>2. QED
      BY <1>12, <3>1
  <2>4. SumFunctionOnSet(got, Known) = SumFunctionOnSet(got, T)
    BY <1>5, <1>7, <2>3, SumOnly
  <2>5. QED
    BY <2>2, <2>4
<1>17. pick.shortfall = (IF SumFunction(held) >= requested THEN 0 ELSE requested - SumFunction(held))
  BY <1>2, <1>13, <1>15
<1>18. SumFunction(got) = requested - pick.shortfall
  BY <1>2, <1>13, <1>16
<1>19. ASSUME NEW b \in Known, got[b] > 0
       PROVE  b \in Good /\ \A c \in Good : Expiry[c] < Expiry[b] => got[c] = stock[<<x, g, c>>]
  <2>1. b \in T
    <3>1. got[b] # 0
      BY <1>19
    <3>2. QED
      BY <1>12, <3>1
  <2>2. PICK n \in 1..N : order[n] = b
    BY <1>1, <2>1
  <2>3. given[n] > 0
    BY <1>12, <1>19, <2>2
  <2>4. ASSUME NEW c \in Good, Expiry[c] < Expiry[b] PROVE got[c] = stock[<<x, g, c>>]
    <3>1. CASE c \notin T
      BY <1>5, <1>12, <3>1
    <3>2. CASE c \in T
      <4>1. PICK m \in 1..N : order[m] = c
        BY <1>1, <3>2
      <4>2. ~ ExpiresFirst(b, c) /\ b # c
        <5>1. Expiry[b] \in Int /\ Expiry[c] \in Int
          <6>1. b \in Known /\ c \in Known
            BY <1>5
          <6>2. QED
            BY <1>4, <6>1
        <5>2. QED
          BY <2>4, <5>1 DEF ExpiresFirst
      <4>3. ~ (n < m) /\ m # n
        BY <1>3, <2>2, <4>1, <4>2
      <4>4. m < n
        BY <4>3
      <4>5. given[m] = q[m]
        BY <1>2, <2>3, <4>4
      <4>6. QED
        BY <1>6, <1>12, <4>1, <4>5
    <3>3. QED
      BY <3>1, <3>2
  <2>5. QED
    BY <1>5, <2>1, <2>4
<1>20. \A b \in Known :
          /\ Gets(b) \in 0..stock[<<x, g, b>>]
          /\ Gets(b) > 0 =>
                /\ b \in Good
                /\ \A c \in Good : Expiry[c] < Expiry[b] => Gets(c) = stock[<<x, g, c>>]
  <2>1. \A c \in Good : c \in Known
    BY <1>5
  <2> HIDE DEF Gets
  <2>2. QED
    BY <1>11, <1>14, <1>19, <2>1
<1>21. QED
  BY <1>17, <1>18, <1>20 DEF pick, taken, Good, held, got, SoundPick

LEMMA FefoSound == IInv => FefoIsSound
<1> SUFFICES ASSUME TypeOK PROVE FefoIsSound
  BY DEF IInv
<1>1. \A x \in Sku, g \in Godown : \A requested \in 1..3 :
         \A pick \in {SuggestFefoPick(x, g, requested)} : SoundPick(x, g, requested, pick)
  <2>1. \A requested \in 1..3 : requested \in Nat
    OBVIOUS
  <2>2. QED
    BY <2>1, PickIsSound
<1>2. QED
  BY <1>1 DEF FefoIsSound, SoundPick

\* A pick suggested first-expiry-first covers the request as far as unexpired stock
\* reaches, takes nothing the stock row does not have, and touches a batch only when
\* every batch that expires earlier is used up (FefoIsSound).
THEOREM FefoIsSoundHolds == Spec => []FefoIsSound
<1>1. QED
  BY FefoSound, InvHolds, PTL

-----------------------------------------------------------------------------
(***************************************************************************)
(* What the pages show and offer.                                          *)
(***************************************************************************)

\* Only finitely many documents have been created.
Begun(docs) == {d \in Doc : docs[d].status # "ABSENT"}
FewDocuments == IsFiniteSet(Begun(doc))

LEMMA BegunKept ==
    ASSUME FewDocuments, NEW D, IsFiniteSet(D), \A d \in Doc \ D : doc'[d] = doc[d]
    PROVE  FewDocuments'
<1>1. IsFiniteSet(Begun(doc) \cup D)
  BY FS_Union DEF FewDocuments
<1>2. Begun(doc') \in SUBSET (Begun(doc) \cup D)
  BY DEF Begun
<1>3. IsFiniteSet(Begun(doc'))
  BY <1>1, <1>2, FS_Subset
<1>4. QED
  BY <1>3 DEF FewDocuments, Begun

LEMMA FewDocumentsInit == Init => FewDocuments
<1> SUFFICES ASSUME Init PROVE FewDocuments
  OBVIOUS
<1>1. Begun(doc) = {}
  BY DEF Init, Begun, Absent
<1>2. QED
  BY <1>1, FS_EmptySet DEF FewDocuments

LEMMA FewDocumentsNext == TypeOK /\ FewDocuments /\ [Next]_vars => FewDocuments'
<1> SUFFICES ASSUME TypeOK, FewDocuments, [Next]_vars PROVE FewDocuments'
  OBVIOUS
<1> DEFINE Rows == [status : Status, by : User \cup {NoUser}, reviewer : User \cup {NoUser},
                    lines : Seq(Line)]
<1>1. doc \in [Doc -> Rows]
  BY DEF TypeOK
<1> HIDE DEF Rows
<1>2. CASE UNCHANGED doc
  <2>1. IsFiniteSet({})
    BY FS_EmptySet
  <2>2. QED
    BY <1>2, <2>1, BegunKept
<1>3. ASSUME NEW d \in Doc, \A e \in Doc \ {d} : doc'[e] = doc[e] PROVE FewDocuments'
  <2>1. IsFiniteSet({d})
    BY FS_Singleton
  <2>2. QED
    BY <1>3, <2>1, BegunKept
<1>4. ASSUME NEW d \in Doc, NEW lines, Load(d, lines) PROVE FewDocuments'
  BY <1>1, <1>3, <1>4 DEF Load
<1>5. ASSUME NEW d \in Doc, PostLoaded(d) \/ Abandon(d) PROVE FewDocuments'
  BY <1>1, <1>3, <1>5 DEF PostLoaded, Abandon
<1>6. ASSUME NEW d \in Doc, NEW user, NEW lines, CreateAdjustment(d, user, lines) PROVE FewDocuments'
  BY <1>1, <1>3, <1>6 DEF CreateAdjustment
<1>7. ASSUME NEW d \in Doc, NEW user, Approve(d, user) \/ Reject(d, user) PROVE FewDocuments'
  BY <1>1, <1>3, <1>7 DEF Approve, Reject
<1>8. ASSUME NEW d \in Doc, NEW n, ReverseLine(d, n) PROVE FewDocuments'
  BY <1>1, <1>3, <1>8 DEF ReverseLine
<1>9. ASSUME NEW file \in Together, Import(file) PROVE FewDocuments'
  <2>1. IsFiniteSet(file)
    BY WarehouseAssumption
  <2>2. \A d \in Doc \ file : doc'[d] = doc[d]
    BY <1>9 DEF Import
  <2>3. QED
    BY <2>1, <2>2, BegunKept
<1>10. CASE \/ UNCHANGED vars \/ Tick
            \/ \E e \in SkuEdit : CheckSku(e[1], e[2]) \/ SaveSku(e[1], e[2])
            \/ \E e \in GodownEdit : CheckGodown(e[1], e[2]) \/ SaveGodown(e[1], e[2])
  BY <1>2, <1>10 DEF vars, Tick, CheckSku, SaveSku, CheckGodown, SaveGodown
<1>11. QED
  BY <1>4, <1>5, <1>6, <1>7, <1>8, <1>9, <1>10 DEF Next

LEMMA FewDocumentsHolds == Spec => []FewDocuments
<1>1. IInv => TypeOK
  BY DEF IInv
<1>2. QED
  BY <1>1, InvHolds, FewDocumentsInit, FewDocumentsNext, PTL DEF Spec

\* The adjustments that wait for a review: what a page offers, and how many there are.
LEMMA ReviewsAre ==
    ASSUME NEW d \in Doc, NEW user \in User, NEW role \in Role, NEW ledger
    PROVE  AdjustmentPage(user, role, ledger, d).canReview <=> ReviewRoute(role) /\ Reviewable(d, user)
BY DEF AdjustmentPage, ReviewRoute, Reviewable

LEMMA AdministratorMay ==
    /\ "ADMIN" \in Role
    /\ Can("ADMIN", "adjustment.approve") /\ Can("ADMIN", "ledger.reverse")
<1>1. "ADMIN" \in {"ADMIN", "STORE_MANAGER"}
  OBVIOUS
<1>2. Can("ADMIN", "adjustment.approve")
  BY <1>1 DEF Can, Holders
<1>3. Can("ADMIN", "ledger.reverse")
  BY <1>1 DEF Can, Holders
<1>4. QED
  BY <1>2, <1>3 DEF Role, Floor

LEMMA PendingAre ==
    ASSUME FewDocuments, \E u, v \in User : u # v, NEW ledger
    PROVE  LET pending == ListAdjustments("SUBMITTED")
               requests == {d \in Doc : Kind[d] = "ADJUSTMENT"}
           IN  /\ Cardinality(pending) > 0 <=> pending # {}
               /\ pending = {d \in requests : \E user \in User :
                                AdjustmentReview(AdjustmentPage(user, "ADMIN", ledger, d)) # {}}
<1> DEFINE pending == ListAdjustments("SUBMITTED")
<1>1. pending \in SUBSET Begun(doc)
  BY DEF ListAdjustments, Begun
<1>2. IsFiniteSet(pending)
  BY <1>1, FS_Subset DEF FewDocuments
<1>3. Cardinality(pending) > 0 <=> pending # {}
  <2> HIDE DEF pending
  <2>1. Cardinality(pending) \in Nat /\ (Cardinality(pending) = 0 <=> pending = {})
    BY <1>2, FS_CardinalityType, FS_EmptySet
  <2>2. QED
    BY <2>1
<1>4. ASSUME NEW d \in Doc, NEW user \in User
      PROVE  AdjustmentReview(AdjustmentPage(user, "ADMIN", ledger, d)) # {} <=> Reviewable(d, user)
  <2>1. AdjustmentPage(user, "ADMIN", ledger, d).canReview <=> Reviewable(d, user)
    BY ReviewsAre, AdministratorMay DEF ReviewRoute
  <2>2. QED
    BY <2>1 DEF AdjustmentReview
<1>5. ASSUME NEW d \in Doc
      PROVE  (\E user \in User : Reviewable(d, user)) <=> doc[d].status = "SUBMITTED"
  BY DEF Reviewable
<1>6. QED
  BY <1>3, <1>4, <1>5 DEF ListAdjustments

\* What can be reversed, on the page of a document and on that of a SKU.
LEMMA ReversalsAre ==
    ASSUME IInv, NEW role \in Role, NEW E \in SUBSET Entries
    PROVE  LedgerTable(role, E) =
           IF ReverseRoute(role) THEN {e \in E : e.type # "REVERSAL" /\ Reversible(LineAt(e.id))} ELSE {}
<1>1. \A e \in E : e.type # "REVERSAL" => Posted(LineAt(e.id))
  BY EntriesAre DEF PostedIds
<1>2. QED
  BY <1>1 DEF LedgerTable, ReverseRoute, Reversible

LEMMA PagesReverse ==
    ASSUME IInv
    PROVE  /\ \A d \in Doc : \A role \in Role :
                 TransferPage(role, Entries, d).reversible =
                 IF ReverseRoute(role)
                 THEN {e \in Entries : e.id[1] = d /\ e.type # "REVERSAL" /\ Reversible(LineAt(e.id))}
                 ELSE {}
           /\ \A x \in Sku : \A e \in SkuStockPage("ADMIN", Entries, x).reversible :
                 e \in TransferPage("ADMIN", Entries, e.id[1]).reversible
<1>1. ASSUME NEW d \in Doc, NEW role \in Role
      PROVE  TransferPage(role, Entries, d).reversible =
             IF ReverseRoute(role)
             THEN {e \in Entries : e.id[1] = d /\ e.type # "REVERSAL" /\ Reversible(LineAt(e.id))}
             ELSE {}
  <2> DEFINE E == EntriesForDocument(Entries, d)
  <2>1. E \in SUBSET Entries /\ \A e \in Entries : e \in E <=> e.id[1] = d
    BY DEF EntriesForDocument
  <2>2. TransferPage(role, Entries, d).reversible = LedgerTable(role, E)
    BY DEF TransferPage
  <2> HIDE DEF E
  <2>3. LedgerTable(role, E) =
        IF ReverseRoute(role) THEN {e \in E : e.type # "REVERSAL" /\ Reversible(LineAt(e.id))} ELSE {}
    BY <2>1, ReversalsAre
  <2>4. QED
    BY <2>1, <2>2, <2>3
<1>2. ASSUME NEW x \in Sku, NEW e \in SkuStockPage("ADMIN", Entries, x).reversible
      PROVE  e \in TransferPage("ADMIN", Entries, e.id[1]).reversible
  <2> DEFINE E == Latest({o \in Entries : o.leg.key[1] = x}, EntriesShown)
             D == EntriesForDocument(Entries, e.id[1])
  <2>1. E \in SUBSET Entries /\ e \in LedgerTable("ADMIN", E)
    BY DEF SkuStockPage, Latest
  <2>2. TransferPage("ADMIN", Entries, e.id[1]).reversible = LedgerTable("ADMIN", D)
    BY DEF TransferPage
  <2>3. \A o \in Entries : o.id[1] = e.id[1] => o \in D
    BY DEF EntriesForDocument
  <2> HIDE DEF E, D
  <2>4. e \in Entries /\ e.type # "REVERSAL" /\ ~Reversed(LineAt(e.id))
    BY <2>1, AdministratorMay DEF LedgerTable
  <2>5. e \in D
    BY <2>3, <2>4
  <2>6. QED
    BY <2>2, <2>4, <2>5, AdministratorMay DEF LedgerTable
<1>3. QED
  BY <1>1, <1>2

\* The stock lines, counted in all, by godown and by SKU.
LEMMA LinesCounted ==
    LET rows == StockBalances(Key)
        godowns == [g \in {k[2] : k \in rows} |-> Cardinality({k \in rows : k[2] = g})]
    IN  /\ Cardinality(rows) = SumFunction(godowns)
        /\ Cardinality(rows) = SumFunction([x \in Sku |-> Cardinality(StockBalances(StockOfSku(x)))])
<1> DEFINE rows == StockBalances(Key)
           R == {k[2] : k \in rows}
           godowns == [g \in R |-> Cardinality({k \in rows : k[2] = g})]
           skus == [x \in Sku |-> Cardinality(StockBalances(StockOfSku(x)))]
           second == [k \in rows |-> k[2]]
           first == [k \in rows |-> k[1]]
<1>1. rows \in SUBSET Key /\ IsFiniteSet(rows)
  BY KeysFinite DEF StockBalances
<1>2. R = {second[k] : k \in rows}
  OBVIOUS
<1>3. /\ \A k \in rows : second[k] \in R /\ second[k] = k[2]
      /\ \A k \in rows : first[k] \in Sku /\ first[k] = k[1]
  BY <1>1 DEF Key
<1>4. \A x \in Sku : StockBalances(StockOfSku(x)) = {k \in rows : k[1] = x}
  BY DEF StockBalances, StockOfSku
<1>5. /\ \A g \in R : godowns[g] = Cardinality({k \in rows : k[2] = g})
      /\ \A x \in Sku : skus[x] = Cardinality({k \in rows : k[1] = x})
  BY <1>4
<1>6. SumFunction(godowns) = SumFunctionOnSet(godowns, R) /\ SumFunction(skus) = SumFunctionOnSet(skus, Sku)
  BY DEF SumFunction
<1> HIDE DEF rows, godowns, skus, first, second, R
<1>7. IsFiniteSet(R) /\ IsFiniteSet(Sku)
  BY <1>1, <1>2, ImageFinite, WarehouseAssumption
<1>8. Cardinality(rows) = SumFunctionOnSet(godowns, R)
  <2>1. \A g \in R : {k \in rows : k[2] = g} = {k \in rows : second[k] = g}
    BY <1>3
  <2>2. Counts(godowns, rows, second, R)
    BY <1>5, <2>1 DEF Counts
  <2>3. \A k \in rows : second[k] \in R
    BY <1>3
  <2>4. QED
    BY <1>1, <1>7, <2>2, <2>3, CountedBy
<1>9. Cardinality(rows) = SumFunctionOnSet(skus, Sku)
  <2>1. \A x \in Sku : {k \in rows : k[1] = x} = {k \in rows : first[k] = x}
    BY <1>3
  <2>2. Counts(skus, rows, first, Sku)
    BY <1>5, <2>1 DEF Counts
  <2>3. \A k \in rows : first[k] \in Sku
    BY <1>3
  <2>4. QED
    BY <1>1, <1>7, <2>2, <2>3, CountedBy
<1>10. QED
  BY <1>6, <1>8, <1>9 DEF rows, godowns, skus, R

\* The stock of a SKU, by batch and by godown.
LEMMA TotalShown ==
    ASSUME TypeOK, NEW x \in Sku
    PROVE  SumFunction([k \in StockBalances(StockOfSku(x)) |-> stock[k]]) = SumFunction(ByGodown(x))
<1> DEFINE rows == StockBalances(StockOfSku(x))
           R == {k[2] : k \in rows}
           f == [k \in rows |-> stock[k]]
           c == ByGodown(x)
           m == [k \in rows |-> k[2]]
<1>1. rows \in SUBSET Key /\ IsFiniteSet(rows)
  BY KeysFinite DEF StockBalances, StockOfSku
<1>2. \A k \in rows : m[k] = k[2] /\ m[k] \in R /\ f[k] = stock[k] /\ f[k] \in Int
  BY <1>1 DEF TypeOK
<1>3. R = {m[k] : k \in rows}
  OBVIOUS
<1>4. c = [g \in R |-> SumFunction([k \in {k \in rows : k[2] = g} |-> stock[k]])]
  BY DEF ByGodown
<1>5. SumFunction(f) = SumFunctionOnSet(f, rows) /\ SumFunction(c) = SumFunctionOnSet(c, R)
  BY <1>4 DEF SumFunction
<1> HIDE DEF c, rows, R, f, m
<1>6. IsFiniteSet(R)
  BY <1>1, <1>3, ImageFinite
<1>7. ASSUME NEW g \in R
      PROVE  \E U \in SUBSET rows : /\ \A k \in rows : k \in U <=> m[k] = g
                                    /\ c[g] = SumFunctionOnSet(f, U)
  <2> DEFINE U == {k \in rows : k[2] = g}
             h == [k \in U |-> stock[k]]
  <2>1. c[g] = SumFunctionOnSet(h, U)
    BY <1>4 DEF SumFunction
  <2>2. U \in SUBSET rows /\ (\A k \in rows : k \in U <=> m[k] = g) /\ \A k \in U : h[k] = f[k]
    BY <1>2
  <2> HIDE DEF U, h
  <2>3. IsFiniteSet(U)
    BY <1>1, <2>2, FS_Subset
  <2>4. SumFunctionOnSet(h, U) = SumFunctionOnSet(f, U)
    BY <2>2, <2>3, SumEqual
  <2>5. QED
    BY <2>1, <2>2, <2>4
<1>8. SumFunctionOnSet(f, rows) = SumFunctionOnSet(c, R)
  <2>1. \A k \in rows : m[k] \in R
    BY <1>2
  <2>2. \A k \in rows : f[k] \in Int
    BY <1>2
  <2>3. QED
    BY <1>1, <1>6, <1>7, <2>1, <2>2, SumCollected
<1>9. QED
  BY <1>5, <1>8 DEF c, rows, f

\* The stock that expired, and whether the dashboard shows it or has no room for it.
Expired == {k \in Key : k[3] \in Available(k[1], k[2]) \ Usable(k[1], k[2])}

LEMMA ExpiredAre ==
    ASSUME IInv
    PROVE  /\ \A k \in Key : k \in Expired <=> stock[k] > 0 /\ Expiry[k[3]] < DayOf(now)
           /\ \A k \in Key : Expiry[k[3]] \in Int
<1> SUFFICES ASSUME NEW k \in Key
             PROVE  /\ k \in Expired <=> stock[k] > 0 /\ Expiry[k[3]] < DayOf(now)
                    /\ Expiry[k[3]] \in Int
  OBVIOUS
<1>1. k[1] \in Sku /\ k[2] \in Godown /\ k[3] \in Known /\ k = <<k[1], k[2], k[3]>>
  BY DEF Key
<1>2. k[3] \in Available(k[1], k[2]) <=> stock[k] > 0
  BY <1>1 DEF Available
<1>3. Expiry[k[3]] \in Int /\ DayOf(now) \in Int
  BY <1>1, WarehouseAssumption, ClockIs
<1>4. QED
  BY <1>1, <1>2, <1>3 DEF Expired, Usable

LEMMA ExpiredShown ==
    ASSUME IInv, NEW list \in ExpiringLists
    PROVE  \/ Expired \subseteq list
           \/ list \subseteq Expired /\ Cardinality(list) = BatchesShown
<1>1. ASSUME NEW k \in Expired
      PROVE  k \in Expiring
  <2>1. k \in Key /\ stock[k] > 0 /\ Expiry[k[3]] < DayOf(now) /\ Expiry[k[3]] \in Int
    BY ExpiredAre DEF Expired
  <2>2. /\ DayOf(now) \in Int /\ DayOf(now) < Never /\ Never \in Int /\ ExpiryWindow \in Nat
        /\ UtcDayOf(now) \in Int /\ DayOf(now) <= UtcDayOf(now) + 1
    BY ClockIs, DaysAre, WarehouseAssumption, PagesAssumption
  <2>3. Expiry[k[3]] # Never /\ Expiry[k[3]] <= UtcDayOf(now) + ExpiryWindow
    BY <2>1, <2>2
  <2>4. QED
    BY <2>1, <2>3 DEF Expiring, StockBalances
<1>2. SUFFICES ASSUME NEW k \in Expired, k \notin list
               PROVE  list \subseteq Expired /\ Cardinality(list) = BatchesShown
  OBVIOUS
<1>3. k \in Expiring \ list /\ list \subseteq Expiring
  BY <1>1, <1>2 DEF ExpiringLists
<1>4. Cardinality(list) = BatchesShown
  BY <1>3 DEF ExpiringLists
<1>5. ASSUME NEW a \in list
      PROVE  a \in Expired
  <2>1. a \in Key /\ stock[a] > 0
    BY <1>3 DEF Expiring, StockBalances
  <2>2. Expiry[a[3]] <= Expiry[k[3]]
    BY <1>3 DEF ExpiringLists
  <2>3. k \in Key /\ Expiry[k[3]] < DayOf(now) /\ Expiry[k[3]] \in Int
    BY <1>2, ExpiredAre DEF Expired
  <2>4. Expiry[a[3]] \in Int /\ DayOf(now) \in Int
    BY <2>1, ExpiredAre, ClockIs
  <2>5. QED
    BY <2>1, <2>2, <2>3, <2>4, ExpiredAre
<1>6. QED
  BY <1>4, <1>5

\* Every form can be sent.
LEMMA OffersWork ==
    ASSUME TypeOK, NEW role \in Role, NEW d \in Doc, NEW offer \in NewDocumentPage(role, Kind[d])
    PROVE  /\ CreateRoute(role, Kind[d])
           /\ Loadable(d, <<[sku |-> offer[1], from |-> offer[2], to |-> offer[2], batch |-> Default]>>)
<1> DEFINE line == [sku |-> offer[1], from |-> offer[2], to |-> offer[2], batch |-> Default]
<1>1. CreateRoute(role, Kind[d]) /\ offer \in SkuOptions \X GodownOptions
  BY DEF NewDocumentPage
<1>2. active[offer[2]] /\ sku[offer[1]].status = "ACTIVE"
  BY <1>1 DEF SkuOptions, GodownOptions
<1>3. BatchOf(d, line) = Default /\ Default # NoBatch
  BY WarehouseAssumption DEF BatchOf, Known
<1>4. line.sku = offer[1] /\ line.from = offer[2] /\ line.to = offer[2]
  OBVIOUS
<1> HIDE DEF line
<1>5. DOMAIN <<line>> = {1} /\ <<line>>[1] = line
  OBVIOUS
<1>6. Loadable(d, <<line>>)
  BY <1>2, <1>3, <1>4, <1>5 DEF Loadable
<1>7. QED
  BY <1>1, <1>6 DEF line

\* The two parts of ScreensAgree: what the dashboard shows, and what the pages offer.
DashboardAgrees(ledger, summary) ==
    LET requests == {d \in Doc : Kind[d] = "ADJUSTMENT"}
    IN  /\ summary.pendingAdjustments =
              Cardinality({d \in requests : \E user \in User :
                  AdjustmentReview(AdjustmentPage(user, "ADMIN", ledger, d)) # {}})
        /\ NeedsAttention(summary) <=> ListAdjustments("SUBMITTED") # {}
        /\ summary.stockLines = SumFunction(summary.godowns)
        /\ summary.stockLines =
              SumFunction([x \in Sku |-> Cardinality(SkuStockPage("ADMIN", ledger, x).byBatch)])
        /\ \/ Expired \subseteq summary.expiringBatches
           \/ /\ summary.expiringBatches \subseteq Expired
              /\ Cardinality(summary.expiringBatches) = BatchesShown

PagesAgree(ledger) ==
    /\ \A d \in {d \in Doc : Kind[d] = "ADJUSTMENT"}, user \in User : \A role \in Role :
          AdjustmentPage(user, role, ledger, d).canReview <=> ReviewRoute(role) /\ Reviewable(d, user)
    /\ \A d \in Doc : \A role \in Role :
          TransferPage(role, ledger, d).reversible =
          IF ReverseRoute(role)
          THEN {e \in ledger : e.id[1] = d /\ e.type # "REVERSAL" /\ Reversible(LineAt(e.id))}
          ELSE {}
    /\ \A x \in Sku : \A page \in {SkuStockPage("ADMIN", ledger, x)} :
          /\ page.total = SumFunction(page.byGodown)
          /\ \A e \in page.reversible : e \in TransferPage("ADMIN", ledger, e.id[1]).reversible
    /\ \A role \in Role : \A d \in Doc : \A offer \in NewDocumentPage(role, Kind[d]) :
          /\ CreateRoute(role, Kind[d])
          /\ Loadable(d, <<[sku |-> offer[1], from |-> offer[2], to |-> offer[2],
                            batch |-> Default]>>)

LEMMA DashboardSound ==
    ASSUME IInv, FewDocuments, \E u, v \in User : u # v, NEW list \in ExpiringLists
    PROVE  DashboardAgrees(Entries, DashboardSummary(Entries, list))
<1> DEFINE ledger == Entries
           requests == {d \in Doc : Kind[d] = "ADJUSTMENT"}
           summary == DashboardSummary(ledger, list)
           rows == StockBalances(Key)
           godowns == [g \in {k[2] : k \in rows} |-> Cardinality({k \in rows : k[2] = g})]
<1>1. /\ summary.pendingAdjustments = Cardinality(ListAdjustments("SUBMITTED"))
      /\ summary.stockLines = Cardinality(rows)
      /\ summary.godowns = godowns
      /\ summary.expiringBatches = list
  BY DEF DashboardSummary
<1> HIDE DEF summary, godowns, rows
<1>2. /\ summary.pendingAdjustments =
            Cardinality({d \in requests : \E user \in User :
                AdjustmentReview(AdjustmentPage(user, "ADMIN", ledger, d)) # {}})
      /\ NeedsAttention(summary) <=> ListAdjustments("SUBMITTED") # {}
  <2>1. /\ Cardinality(ListAdjustments("SUBMITTED")) > 0 <=> ListAdjustments("SUBMITTED") # {}
        /\ ListAdjustments("SUBMITTED") =
              {d \in requests : \E user \in User :
                  AdjustmentReview(AdjustmentPage(user, "ADMIN", ledger, d)) # {}}
    BY PendingAre
  <2> HIDE DEF requests, ledger
  <2>2. QED
    BY <1>1, <2>1 DEF NeedsAttention
<1>3. /\ summary.stockLines = SumFunction(summary.godowns)
      /\ summary.stockLines =
            SumFunction([x \in Sku |-> Cardinality(SkuStockPage("ADMIN", ledger, x).byBatch)])
  <2> DEFINE shown == [x \in Sku |-> Cardinality(SkuStockPage("ADMIN", ledger, x).byBatch)]
             counted == [x \in Sku |-> Cardinality(StockBalances(StockOfSku(x)))]
  <2>1. Cardinality(rows) = SumFunction(godowns) /\ Cardinality(rows) = SumFunction(counted)
    BY LinesCounted DEF rows, godowns
  <2>2. \A x \in Sku : SkuStockPage("ADMIN", ledger, x).byBatch = StockBalances(StockOfSku(x))
    BY DEF SkuStockPage
  <2>3. shown = counted
    BY <2>2
  <2> HIDE DEF shown, counted
  <2>4. QED
    BY <1>1, <2>1, <2>3 DEF shown
<1>4. \/ Expired \subseteq list
      \/ list \subseteq Expired /\ Cardinality(list) = BatchesShown
  BY ExpiredShown
<1> HIDE DEF ledger
<1>5. DashboardAgrees(ledger, summary)
  BY <1>1, <1>2, <1>3, <1>4 DEF DashboardAgrees, requests
<1>6. QED
  BY <1>5 DEF ledger, summary

LEMMA PagesSound ==
    ASSUME IInv
    PROVE  PagesAgree(Entries)
<1> DEFINE ledger == Entries
<1>1. TypeOK
  BY DEF IInv
<1>2. \A d \in {d \in Doc : Kind[d] = "ADJUSTMENT"}, user \in User : \A role \in Role :
         AdjustmentPage(user, role, ledger, d).canReview <=> ReviewRoute(role) /\ Reviewable(d, user)
  BY ReviewsAre
<1>3. \A d \in Doc : \A role \in Role :
         TransferPage(role, ledger, d).reversible =
         IF ReverseRoute(role)
         THEN {e \in ledger : e.id[1] = d /\ e.type # "REVERSAL" /\ Reversible(LineAt(e.id))}
         ELSE {}
  BY PagesReverse
<1>4. \A x \in Sku : \A page \in {SkuStockPage("ADMIN", ledger, x)} :
         /\ page.total = SumFunction(page.byGodown)
         /\ \A e \in page.reversible : e \in TransferPage("ADMIN", ledger, e.id[1]).reversible
  <2> TAKE x \in Sku
  <2> DEFINE page == SkuStockPage("ADMIN", ledger, x)
  <2>1. /\ page.total = SumFunction([k \in StockBalances(StockOfSku(x)) |-> stock[k]])
        /\ page.byGodown = ByGodown(x)
    BY DEF SkuStockPage
  <2>2. SumFunction([k \in StockBalances(StockOfSku(x)) |-> stock[k]]) = SumFunction(ByGodown(x))
    BY <1>1, TotalShown
  <2>3. \A e \in page.reversible : e \in TransferPage("ADMIN", ledger, e.id[1]).reversible
    BY PagesReverse
  <2> HIDE DEF page, ledger
  <2>4. page.total = SumFunction(page.byGodown)
    BY <2>1, <2>2
  <2>5. QED
    BY <2>3, <2>4 DEF page
<1>5. \A role \in Role : \A d \in Doc : \A offer \in NewDocumentPage(role, Kind[d]) :
         /\ CreateRoute(role, Kind[d])
         /\ Loadable(d, <<[sku |-> offer[1], from |-> offer[2], to |-> offer[2], batch |-> Default]>>)
  BY <1>1, OffersWork
<1> HIDE DEF ledger
<1>6. PagesAgree(ledger)
  BY <1>2, <1>3, <1>4, <1>5 DEF PagesAgree
<1>7. QED
  BY <1>6 DEF ledger

LEMMA ScreensSound ==
    ASSUME IInv, FewDocuments, \E u, v \in User : u # v
    PROVE  ScreensAgree
<1>1. \A list \in ExpiringLists : \A summary \in {DashboardSummary(Entries, list)} :
         DashboardAgrees(Entries, summary)
  BY DashboardSound
<1>2. PagesAgree(Entries)
  BY PagesSound
<1>3. \A ledger \in {Entries} :
         /\ \A list \in ExpiringLists : \A summary \in {DashboardSummary(ledger, list)} :
               DashboardAgrees(ledger, summary)
         /\ PagesAgree(ledger)
  BY <1>1, <1>2
<1>4. QED
  BY <1>3 DEF ScreensAgree, DashboardAgrees, PagesAgree, Expired

\* With two users at least, every adjustment the dashboard counts can be decided, and
\* only by those who may; the stock lines and totals of all pages agree; each page
\* offers what its routes accept; and expired stock is shown (ScreensAgree).
THEOREM ScreensAgreeHolds ==
    ASSUME \E u, v \in User : u # v
    PROVE  Spec => []ScreensAgree
<1>1. IInv /\ FewDocuments => ScreensAgree
  BY ScreensSound
<1>2. QED
  BY <1>1, InvHolds, FewDocumentsHolds, PTL

-----------------------------------------------------------------------------
(***************************************************************************)
(* What holds of the Tally queue for any number of jobs and passes, any    *)
(* batch limit and any number of crashes and retries.                      *)
(*                                                                         *)
(* Claims are exclusive because a job that a pass has claimed stays        *)
(* IN_PROGRESS under a running lease until that pass records it: Leased is *)
(* the inductive form, and needs the assumption that passes are shorter    *)
(* than the lease.  A job is only marked SYNCED by a pass that carries the *)
(* answer ok, and such a pass has had its voucher imported: Answered.      *)
(***************************************************************************)

\* The part of TallyTypeOK that the proofs need: the shape of the functions.
Typed ==
    /\ status \in [Job -> JobStatus]
    /\ lapsed \in [Job -> BOOLEAN]
    /\ due \in [Job -> BOOLEAN]
    /\ attempts \in [Job -> Nat]
    /\ claimed \in [Pass -> SUBSET Job]
    /\ pushing \in [Pass -> SUBSET Job]
    /\ result \in [Pass -> {"none", "ok", "failed"}]
    /\ accepted \in [Job -> BOOLEAN]

\* A pass works on a job it has claimed; while leases outlast passes, that job
\* is in progress under a running lease and nobody else has claimed it.
Leased ==
    /\ \A w \in Pass : pushing[w] \subseteq claimed[w]
    /\ ~PassOutlivesLease =>
         \A w \in Pass : \A j \in claimed[w] :
            /\ status[j] = "IN_PROGRESS"
            /\ ~lapsed[j]
            /\ \A x \in Pass \ {w} : j \notin claimed[x]

\* The answer ok is only held for a voucher that Tally has imported.
Answered ==
    /\ \A w \in Pass : result[w] = "ok" => pushing[w] # {}
    /\ \A w \in Pass : \A j \in pushing[w] : result[w] = "ok" => accepted[j]
    /\ SyncedIsInTally

-----------------------------------------------------------------------------
(***************************************************************************)
(* Typed is inductive.                                                     *)
(***************************************************************************)

\* The initial state is typed.
LEMMA InitTyped == TallyInit => Typed
BY DEF TallyInit, Typed, JobStatus

\* Every action keeps the shape of the variables.
LEMMA NextTyped == Typed /\ [TallyNext]_tallyVars => Typed'
<1> SUFFICES ASSUME Typed, [TallyNext]_tallyVars PROVE Typed'
  OBVIOUS
<1> USE DEF Typed
<1>1. ASSUME NEW w \in Pass, Claim(w) PROVE Typed'
  <2> DEFINE batch == Oldest({j \in Job : Claimable(j)})
  <2>1. batch \subseteq Job
    BY DEF Oldest
  <2>2. status' = [j \in Job |-> IF j \in batch THEN "IN_PROGRESS" ELSE status[j]]
    BY <1>1 DEF Claim
  <2>3. attempts' = [j \in Job |-> IF j \in batch THEN attempts[j] + 1 ELSE attempts[j]]
    BY <1>1 DEF Claim
  <2>4. lapsed' = [j \in Job |-> lapsed[j] /\ j \notin batch]
    BY <1>1 DEF Claim
  <2>5. claimed' = [claimed EXCEPT ![w] = batch]
    BY <1>1 DEF Claim
  <2>6. UNCHANGED <<due, pushing, result, accepted>>
    BY <1>1 DEF Claim
  <2> HIDE DEF batch
  <2>7. status' \in [Job -> JobStatus]
    BY <2>2 DEF JobStatus
  <2>8. attempts' \in [Job -> Nat]
    BY <2>3
  <2>9. lapsed' \in [Job -> BOOLEAN]
    BY <2>4
  <2>10. claimed' \in [Pass -> SUBSET Job]
    BY <2>1, <2>5
  <2> QED
    BY <2>6, <2>7, <2>8, <2>9, <2>10
<1>2. ASSUME NEW w \in Pass, StartPush(w) PROVE Typed'
  BY <1>2 DEF StartPush, jobRow, bounds
<1>3. ASSUME NEW w \in Pass, PushAccepted(w) PROVE Typed'
  <2>1. accepted' \in [Job -> BOOLEAN]
    BY <1>3 DEF PushAccepted
  <2>2. result' \in [Pass -> {"none", "ok", "failed"}]
    BY <1>3 DEF PushAccepted, ParseImportResponse
  <2> QED
    BY <1>3, <2>1, <2>2 DEF PushAccepted, jobRow, bounds
<1>4. ASSUME NEW w \in Pass, PushFailed(w) PROVE Typed'
  BY <1>4 DEF PushFailed, ParseImportResponse, jobRow, bounds
<1>5. ASSUME NEW w \in Pass, RecordAttempt(w) PROVE Typed'
  <2>1. status' \in [Job -> JobStatus]
    <3>1. Outcome(w) \in JobStatus
      BY DEF Outcome, JobStatus
    <3>2. status' = [j \in Job |-> IF j \in pushing[w] THEN Outcome(w) ELSE status[j]]
      BY <1>5 DEF RecordAttempt
    <3> QED
      BY <3>1, <3>2
  <2>2. lapsed' \in [Job -> BOOLEAN] /\ due' \in [Job -> BOOLEAN]
    BY <1>5 DEF RecordAttempt
  <2>3. /\ claimed' \in [Pass -> SUBSET Job]
        /\ pushing' \in [Pass -> SUBSET Job]
        /\ result' \in [Pass -> {"none", "ok", "failed"}]
    BY <1>5 DEF RecordAttempt
  <2> QED
    BY <1>5, <2>1, <2>2, <2>3 DEF RecordAttempt, bounds
<1>6. ASSUME NEW w \in Pass, Crash(w) PROVE Typed'
  BY <1>6 DEF Crash, jobRow
<1>7. ASSUME NEW j \in Job, Enqueue(j) PROVE Typed'
  BY <1>7 DEF Enqueue, bounds, JobStatus
<1>8. ASSUME NEW j \in Job, BackoffElapses(j) PROVE Typed'
  BY <1>8 DEF BackoffElapses, bounds
<1>9. ASSUME NEW j \in Job, LeaseExpires(j) PROVE Typed'
  BY <1>9 DEF LeaseExpires, bounds
<1>10. ASSUME NEW j \in Job, Retry(j) PROVE Typed'
  BY <1>10 DEF Retry, JobStatus
<1>11. CASE UNCHANGED tallyVars
  BY <1>11 DEF tallyVars
<1> QED
  BY <1>1, <1>2, <1>3, <1>4, <1>5, <1>6, <1>7, <1>8, <1>9, <1>10, <1>11 DEF TallyNext

-----------------------------------------------------------------------------
(***************************************************************************)
(* Leased is inductive.                                                    *)
(***************************************************************************)

\* Nobody has claimed anything at first.
LEMMA InitLeased == TallyInit => Leased
BY DEF TallyInit, Leased

\* A claimable job is claimed by no pass: its lease has run out or it has none.
LEMMA ClaimableIsUnclaimed ==
  ASSUME Typed, Leased, ~PassOutlivesLease, NEW j \in Job, Claimable(j), NEW w \in Pass
  PROVE  j \notin claimed[w]
BY DEF Typed, Leased, Claimable

\* Claims, records, crashes, leases and retries keep every claim exclusive.
LEMMA NextLeased == Typed /\ Leased /\ [TallyNext]_tallyVars => Leased'
<1> SUFFICES ASSUME Typed, Leased, [TallyNext]_tallyVars PROVE Leased'
  OBVIOUS
<1> USE DEF Typed, Leased
<1>1. ASSUME NEW w \in Pass, Claim(w) PROVE Leased'
  <2> DEFINE batch == Oldest({j \in Job : Claimable(j)})
  <2>1. \A j \in batch : j \in Job /\ Claimable(j)
    BY DEF Oldest
  <2>2. status' = [j \in Job |-> IF j \in batch THEN "IN_PROGRESS" ELSE status[j]]
    BY <1>1 DEF Claim
  <2>3. lapsed' = [j \in Job |-> lapsed[j] /\ j \notin batch]
    BY <1>1 DEF Claim
  <2>4. claimed' = [claimed EXCEPT ![w] = batch] /\ claimed[w] = {}
    BY <1>1 DEF Claim
  <2>5. pushing' = pushing
    BY <1>1 DEF Claim
  <2> HIDE DEF batch
  <2>6. \A x \in Pass : claimed'[x] = IF x = w THEN batch ELSE claimed[x]
    BY <2>4
  <2>7. \A x \in Pass : pushing'[x] \subseteq claimed'[x]
    BY <2>4, <2>5, <2>6
  <2>8. ASSUME ~PassOutlivesLease, NEW x \in Pass, NEW j \in claimed'[x]
        PROVE  /\ status'[j] = "IN_PROGRESS"
               /\ ~lapsed'[j]
               /\ \A y \in Pass \ {x} : j \notin claimed'[y]
    <3>1. CASE x = w
      <4>1. j \in batch
        BY <2>6, <3>1
      <4>2. \A y \in Pass : j \notin claimed[y]
        BY <2>1, <2>8, <4>1, ClaimableIsUnclaimed
      <4> QED
        BY <2>1, <2>2, <2>3, <2>6, <3>1, <4>1, <4>2
    <3>2. CASE x # w
      <4>1. j \in claimed[x]
        BY <2>6, <3>2
      <4>2. j \in Job /\ j \notin batch
        BY <2>1, <2>8, <4>1, ClaimableIsUnclaimed
      <4>3. status'[j] = status[j] /\ lapsed'[j] = lapsed[j]
        BY <2>2, <2>3, <4>2
      <4> QED
        BY <2>6, <2>8, <4>1, <4>2, <4>3
    <3> QED
      BY <3>1, <3>2
  <2> QED
    BY <2>7, <2>8
<1>2. ASSUME NEW w \in Pass, StartPush(w) PROVE Leased'
  BY <1>2 DEF StartPush, jobRow
<1>3. ASSUME NEW w \in Pass, PushAccepted(w) PROVE Leased'
  BY <1>3 DEF PushAccepted, jobRow
<1>4. ASSUME NEW w \in Pass, PushFailed(w) PROVE Leased'
  BY <1>4 DEF PushFailed, jobRow
<1>5. ASSUME NEW w \in Pass, RecordAttempt(w) PROVE Leased'
  <2>1. \A x \in Pass : claimed'[x] = IF x = w THEN claimed[x] \ pushing[w] ELSE claimed[x]
    BY <1>5 DEF RecordAttempt
  <2>2. \A x \in Pass : pushing'[x] = IF x = w THEN {} ELSE pushing[x]
    BY <1>5 DEF RecordAttempt
  <2>3. ASSUME ~PassOutlivesLease, NEW x \in Pass, NEW j \in claimed'[x]
        PROVE  /\ status'[j] = "IN_PROGRESS"
               /\ ~lapsed'[j]
               /\ \A y \in Pass \ {x} : j \notin claimed'[y]
    <3>1. j \in claimed[x] /\ j \in Job
      BY ZenonT(60), <2>1
    <3>2. status[j] = "IN_PROGRESS" /\ ~lapsed[j]
      BY <2>3, <3>1
    <3>3. ASSUME NEW y \in Pass, y # x PROVE j \notin claimed[y]
      BY <2>3, <3>1, <3>3
    <3>4. j \notin pushing[w]
      <4>1. CASE x = w
        BY <2>1, <2>3, <4>1
      <4>2. CASE x # w
        BY <3>3, <4>2
      <4> QED
        BY <4>1, <4>2
    <3>5. status'[j] = status[j]
      BY <1>5, <3>1, <3>4 DEF RecordAttempt
    <3>6. ~lapsed'[j]
      BY <1>5, <3>1, <3>2, <3>4 DEF RecordAttempt
    <3>7. ASSUME NEW y \in Pass, y # x PROVE j \notin claimed'[y]
      <4>1. j \notin claimed[y]
        BY <3>3, <3>7
      <4>2. CASE y = w
        <5>1. claimed'[y] = claimed[y] \ pushing[w]
          BY <2>1, <4>2
        <5> QED
          BY <4>1, <5>1
      <4>3. CASE y # w
        <5>1. claimed'[y] = claimed[y]
          BY <2>1, <4>3
        <5> QED
          BY <4>1, <5>1
      <4> QED
        BY <4>2, <4>3
    <3> QED
      BY <3>2, <3>5, <3>6, <3>7
  <2> QED
    BY <2>1, <2>2, <2>3
<1>6. ASSUME NEW w \in Pass, Crash(w) PROVE Leased'
  <2>1. \A x \in Pass : claimed'[x] = IF x = w THEN {} ELSE claimed[x]
    BY <1>6 DEF Crash
  <2>2. \A x \in Pass : pushing'[x] = IF x = w THEN {} ELSE pushing[x]
    BY <1>6 DEF Crash
  <2>3. status' = status /\ lapsed' = lapsed
    BY <1>6 DEF Crash, jobRow
  <2> QED
    BY <2>1, <2>2, <2>3
<1>7. ASSUME NEW j \in Job, Enqueue(j) PROVE Leased'
  BY <1>7 DEF Enqueue
<1>8. ASSUME NEW j \in Job, BackoffElapses(j) PROVE Leased'
  BY <1>8 DEF BackoffElapses
<1>9. ASSUME NEW j \in Job, LeaseExpires(j) PROVE Leased'
  BY <1>9 DEF LeaseExpires
<1>10. ASSUME NEW j \in Job, Retry(j) PROVE Leased'
  BY <1>10 DEF Retry
<1>11. CASE UNCHANGED tallyVars
  BY <1>11 DEF tallyVars
<1> QED
  BY <1>1, <1>2, <1>3, <1>4, <1>5, <1>6, <1>7, <1>8, <1>9, <1>10, <1>11 DEF TallyNext

\* While leases outlast passes, a job is claimed by one pass at most and in
\* progress for it, over every interleaving of passes, crashes and retries.
THEOREM ClaimsAreExclusiveHolds == TallySpec => []ClaimsAreExclusive
<1>1. TallyInit => Typed /\ Leased
  BY InitTyped, InitLeased
<1>2. Typed /\ Leased /\ [TallyNext]_tallyVars => (Typed /\ Leased)'
  BY NextTyped, NextLeased
<1>3. Leased => ClaimsAreExclusive
  BY DEF Leased, ClaimsAreExclusive
<1> QED
  BY <1>1, <1>2, <1>3, PTL DEF TallySpec

\* While leases outlast passes, no step takes a SYNCED job back: a record only
\* touches a job that is in progress for its pass, a claim never a SYNCED one.
THEOREM SyncedIsFinalHolds == TallySpec => SyncedIsFinal
<1>1. TallyInit => Typed /\ Leased
  BY InitTyped, InitLeased
<1>2. Typed /\ Leased /\ [TallyNext]_tallyVars => (Typed /\ Leased)'
  BY NextTyped, NextLeased
<1> DEFINE Final == \A j \in Job : (~PassOutlivesLease /\ status[j] = "SYNCED") => status'[j] = "SYNCED"
<1>3. Typed /\ Leased /\ [TallyNext]_tallyVars => [Final]_tallyVars
  <2> SUFFICES ASSUME Typed, Leased, [TallyNext]_tallyVars, ~PassOutlivesLease,
                      NEW j \in Job, status[j] = "SYNCED"
               PROVE  status'[j] = "SYNCED"
    OBVIOUS
  <2>1. ASSUME NEW w \in Pass, Claim(w) PROVE status'[j] = "SYNCED"
    <3>1. j \notin Oldest({i \in Job : Claimable(i)})
      BY DEF Oldest, Claimable
    <3> QED
      BY <2>1, <3>1 DEF Claim
  <2>2. ASSUME NEW w \in Pass, RecordAttempt(w) PROVE status'[j] = "SYNCED"
    <3>1. j \notin pushing[w]
      BY DEF Leased
    <3> QED
      BY <2>2, <3>1 DEF RecordAttempt
  <2>3. ASSUME NEW w \in Pass, \/ StartPush(w) \/ PushAccepted(w)
                               \/ PushFailed(w) \/ Crash(w)
        PROVE  status'[j] = "SYNCED"
    BY <2>3 DEF StartPush, PushAccepted, PushFailed, Crash, jobRow
  <2>4. ASSUME NEW i \in Job, \/ Enqueue(i) \/ BackoffElapses(i) \/ LeaseExpires(i) \/ Retry(i)
        PROVE  status'[j] = "SYNCED"
    BY <2>4 DEF Enqueue, BackoffElapses, LeaseExpires, Retry, Typed
  <2>5. CASE UNCHANGED tallyVars
    BY <2>5 DEF tallyVars
  <2> QED
    BY <2>1, <2>2, <2>3, <2>4, <2>5 DEF TallyNext
<1> QED
  BY <1>1, <1>2, <1>3, PTL DEF TallySpec, SyncedIsFinal

-----------------------------------------------------------------------------
(***************************************************************************)
(* Answered is inductive.                                                  *)
(***************************************************************************)

\* No pass holds an answer and no job is SYNCED at first.
LEMMA InitAnswered == TallyInit => Answered
BY DEF TallyInit, Answered, SyncedIsInTally

\* An answer stays with the voucher it is about, and a SYNCED job with its
\* imported voucher, through every action.
LEMMA NextAnswered == Typed /\ Answered /\ [TallyNext]_tallyVars => Answered'
<1> SUFFICES ASSUME Typed, Answered, [TallyNext]_tallyVars PROVE Answered'
  OBVIOUS
<1> USE DEF Typed, Answered, SyncedIsInTally
<1>1. ASSUME NEW w \in Pass, Claim(w) PROVE Answered'
  <2>1. \A j \in Job : status'[j] = "SYNCED" => status[j] = "SYNCED"
    <3> DEFINE batch == Oldest({j \in Job : Claimable(j)})
    <3>1. status' = [j \in Job |-> IF j \in batch THEN "IN_PROGRESS" ELSE status[j]]
      BY <1>1 DEF Claim
    <3> HIDE DEF batch
    <3> QED
      BY <3>1
  <2>2. UNCHANGED <<pushing, result, accepted>>
    BY <1>1 DEF Claim
  <2> QED
    BY <2>1, <2>2
<1>2. ASSUME NEW w \in Pass, StartPush(w) PROVE Answered'
  <2>1. pushing[w] = {} /\ result[w] # "ok"
    BY <1>2 DEF StartPush
  <2>2. \A x \in Pass \ {w} : pushing'[x] = pushing[x]
    BY <1>2 DEF StartPush
  <2>3. UNCHANGED <<status, result, accepted>>
    BY <1>2 DEF StartPush, jobRow
  <2> QED
    BY <2>1, <2>2, <2>3
<1>3. ASSUME NEW w \in Pass, PushAccepted(w) PROVE Answered'
  <2>1. \A j \in Job : accepted'[j] = (accepted[j] \/ j \in pushing[w])
    BY <1>3 DEF PushAccepted
  <2>2. \A x \in Pass \ {w} : result'[x] = result[x]
    BY <1>3 DEF PushAccepted
  <2>3. UNCHANGED <<status, pushing>> /\ pushing[w] # {}
    BY <1>3 DEF PushAccepted, jobRow
  <2>4. \A x \in Pass : result'[x] = "ok" => pushing'[x] # {}
    BY <2>2, <2>3
  <2>5. ASSUME NEW x \in Pass, NEW j \in pushing'[x], result'[x] = "ok" PROVE accepted'[j]
    <3>1. j \in Job /\ j \in pushing[x]
      BY <2>3
    <3>2. CASE x = w
      BY <2>1, <3>1, <3>2
    <3>3. CASE x # w
      <4>1. accepted[j]
        BY <2>2, <2>5, <3>1, <3>3
      <4> QED
        BY <2>1, <3>1, <4>1
    <3> QED
      BY <3>2, <3>3
  <2>6. ASSUME NEW j \in Job, status'[j] = "SYNCED" PROVE accepted'[j]
    <3>1. accepted[j]
      BY <2>3, <2>6
    <3> QED
      BY <2>1, <3>1
  <2> QED
    BY <2>4, <2>5, <2>6
<1>4. ASSUME NEW w \in Pass, PushFailed(w) PROVE Answered'
  <2>1. \A x \in Pass : result'[x] = "ok" => result[x] = "ok"
    BY <1>4 DEF PushFailed, ParseImportResponse, Refusals
  <2> QED
    BY <1>4, <2>1 DEF PushFailed, jobRow
<1>5. ASSUME NEW w \in Pass, RecordAttempt(w) PROVE Answered'
  <2>1. \A x \in Pass : /\ pushing'[x] = IF x = w THEN {} ELSE pushing[x]
                        /\ result'[x] = IF x = w THEN "none" ELSE result[x]
    BY <1>5 DEF RecordAttempt
  <2>2. accepted' = accepted
    BY <1>5 DEF RecordAttempt
  <2>3. ASSUME NEW j \in Job, status'[j] = "SYNCED" PROVE accepted[j]
    <3>1. status'[j] = IF j \in pushing[w] THEN Outcome(w) ELSE status[j]
      BY <1>5 DEF RecordAttempt
    <3>2. CASE j \in pushing[w]
      <4>1. result[w] = "ok"
        BY <2>3, <3>1, <3>2 DEF Outcome
      <4> QED
        BY <3>2, <4>1
    <3>3. CASE j \notin pushing[w]
      BY <2>3, <3>1, <3>3
    <3> QED
      BY <3>2, <3>3
  <2>4. \A x \in Pass : result'[x] = "ok" => x # w
    BY <2>1
  <2> QED
    BY <2>1, <2>2, <2>3, <2>4
<1>6. ASSUME NEW w \in Pass, Crash(w) PROVE Answered'
  <2>1. \A x \in Pass : /\ pushing'[x] = IF x = w THEN {} ELSE pushing[x]
                        /\ result'[x] = IF x = w THEN "none" ELSE result[x]
    BY <1>6 DEF Crash
  <2>2. UNCHANGED <<status, accepted>>
    BY <1>6 DEF Crash, jobRow
  <2>3. \A x \in Pass : result'[x] = "ok" => x # w
    BY <2>1
  <2> QED
    BY <2>1, <2>2, <2>3
<1>7. ASSUME NEW j \in Job, Enqueue(j) PROVE Answered'
  BY <1>7 DEF Enqueue
<1>8. ASSUME NEW j \in Job, \/ BackoffElapses(j) \/ LeaseExpires(j) \/ Retry(j)
      PROVE  Answered'
  BY <1>8 DEF BackoffElapses, LeaseExpires, Retry
<1>9. CASE UNCHANGED tallyVars
  BY <1>9 DEF tallyVars
<1> QED
  BY <1>1, <1>2, <1>3, <1>4, <1>5, <1>6, <1>7, <1>8, <1>9 DEF TallyNext

\* A job is SYNCED only if Tally has imported its voucher, whether or not passes
\* outlive their leases: this one needs no assumption about time.
THEOREM SyncedIsInTallyHolds == TallySpec => []SyncedIsInTally
<1>1. TallyInit => Typed /\ Answered
  BY InitTyped, InitAnswered
<1>2. Typed /\ Answered /\ [TallyNext]_tallyVars => (Typed /\ Answered)'
  BY NextTyped, NextAnswered
<1>3. Answered => SyncedIsInTally
  BY DEF Answered
<1> QED
  BY <1>1, <1>2, <1>3, PTL DEF TallySpec

-----------------------------------------------------------------------------
(***************************************************************************)
(* TallyTypeOK bounds what a pass claims.  The bound holds because rank in *)
(* the queue is given out once: of the jobs with fewer than Limit older    *)
(* ones the youngest has all others among its older ones.                  *)
(***************************************************************************)

InQueue == {j \in Job : status[j] # "ABSENT"}

\* Created_at ranks the jobs of the queue.
QueueRanked ==
    /\ created \in [Job -> Nat]
    /\ IsFiniteSet(InQueue)
    /\ \A j \in InQueue : created[j] <= Cardinality(InQueue)
    /\ \A i, j \in InQueue : created[i] = created[j] => i = j

BatchesSmall ==
    \A w \in Pass : /\ pushing[w] \subseteq claimed[w]
                    /\ claimed[w] \subseteq InQueue
                    /\ Cardinality(claimed[w]) <= Limit

Counted == crashes \in 0..MaxCrashes /\ retries \in 0..MaxRetries

TallyInv == Typed /\ QueueRanked /\ BatchesSmall /\ Counted

LEMMA OldestAreFew ==
    ASSUME QueueRanked, NEW jobs \in SUBSET InQueue
    PROVE  Cardinality(Oldest(jobs)) <= Limit
<1> DEFINE batch == Oldest(jobs)
           Older(j) == {i \in jobs : created[i] < created[j]}
<1>1. IsFiniteSet(jobs) /\ batch \subseteq jobs /\ IsFiniteSet(batch)
  <2>1. batch \subseteq jobs
    BY DEF Oldest
  <2>2. QED
    BY <2>1, FS_Subset DEF QueueRanked
<1>2. \A j \in jobs : created[j] \in Int /\ IsFiniteSet(Older(j))
  BY <1>1, FS_Subset DEF QueueRanked, InQueue
<1>3. \A j \in batch : Cardinality(Older(j)) < Limit
  BY DEF Oldest
<1> HIDE DEF batch
<1>4. CASE batch = {}
  BY <1>4, FS_EmptySet, TallyAssumption DEF batch
<1>5. CASE batch # {}
  <2>1. PICK m \in batch : \A j \in batch : created[j] <= created[m]
    BY <1>1, <1>2, <1>5, Largest
  <2>2. ASSUME NEW j \in batch, j # m PROVE j \in jobs /\ created[j] < created[m]
    <3>1. created[j] # created[m]
      BY <1>1, <2>1, <2>2 DEF QueueRanked
    <3>2. created[j] \in Int /\ created[m] \in Int /\ created[j] <= created[m] /\ j \in jobs
      BY <1>1, <1>2, <2>1
    <3>3. QED
      BY <3>1, <3>2
  <2>3. Cardinality(batch \ {m}) <= Cardinality(Older(m))
    <3>1. batch \ {m} \in SUBSET Older(m)
      BY <2>2
    <3>2. IsFiniteSet(Older(m))
      BY <1>1, <1>2, <2>1
    <3> HIDE DEF Older
    <3>3. QED
      BY <3>1, <3>2, FS_Subset
  <2>4. Cardinality(batch \ {m}) = Cardinality(batch) - 1
    BY <1>1, <2>1, FS_RemoveElement
  <2>5. Cardinality(batch) \in Nat /\ Cardinality(Older(m)) \in Nat
    BY <1>1, <1>2, <2>1, FS_CardinalityType
  <2>6. QED
    BY <1>3, <2>1, <2>3, <2>4, <2>5, TallyAssumption DEF batch
<1>6. QED
  BY <1>4, <1>5

LEMMA SameQueue ==
    ASSUME QueueRanked, InQueue' = InQueue, created' = created
    PROVE  QueueRanked'
BY DEF QueueRanked

\* A step that leaves the queue as it is and lets no pass claim more.
LEMMA FewerClaims ==
    ASSUME BatchesSmall, InQueue' = InQueue, QueueRanked,
           \A w \in Pass : pushing'[w] \subseteq claimed'[w] /\ claimed'[w] \subseteq claimed[w]
    PROVE  BatchesSmall'
<1> SUFFICES ASSUME NEW w \in Pass
             PROVE  /\ pushing'[w] \subseteq claimed'[w]
                    /\ claimed'[w] \subseteq InQueue
                    /\ Cardinality(claimed'[w]) <= Limit
  BY DEF BatchesSmall
<1>1. claimed[w] \subseteq InQueue /\ Cardinality(claimed[w]) <= Limit /\ IsFiniteSet(claimed[w])
  BY FS_Subset DEF BatchesSmall, QueueRanked
<1>2. IsFiniteSet(claimed'[w]) /\ Cardinality(claimed'[w]) <= Cardinality(claimed[w])
  BY <1>1, FS_Subset
<1>3. Cardinality(claimed'[w]) \in Nat /\ Cardinality(claimed[w]) \in Nat
  BY <1>1, <1>2, FS_CardinalityType
<1>4. QED
  BY <1>1, <1>2, <1>3, TallyAssumption

LEMMA EnqueueRanks ==
    ASSUME TallyInv, NEW j \in Job, Enqueue(j)
    PROVE  QueueRanked' /\ BatchesSmall'
<1>1. status[j] = "ABSENT" /\ status' = [status EXCEPT ![j] = "PENDING"] /\ status \in [Job -> JobStatus]
  BY DEF TallyInv, Typed, Enqueue
<1>2. InQueue' = InQueue \cup {j} /\ j \notin InQueue
  BY <1>1 DEF InQueue
<1>3. /\ IsFiniteSet(InQueue) /\ Cardinality(InQueue) \in Nat
      /\ IsFiniteSet(InQueue') /\ Cardinality(InQueue') = 1 + Cardinality(InQueue)
  <2>1. IsFiniteSet(InQueue)
    BY DEF TallyInv, QueueRanked
  <2>2. Cardinality(InQueue) \in Nat
    BY <2>1, FS_CardinalityType
  <2>3. /\ IsFiniteSet(InQueue \cup {j})
        /\ Cardinality(InQueue \cup {j}) = Cardinality(InQueue) + 1
    BY <1>2, <2>1, FS_AddElement
  <2>4. QED
    BY <1>2, <2>1, <2>2, <2>3
<1>4. created' = [created EXCEPT ![j] = 1 + Cardinality(InQueue)] /\ created \in [Job -> Nat]
  BY DEF TallyInv, QueueRanked, Enqueue, InQueue
<1>5. /\ \A i \in InQueue : i \in Job /\ i # j /\ created'[i] = created[i] /\ created[i] <= Cardinality(InQueue)
      /\ created'[j] = 1 + Cardinality(InQueue) /\ created' \in [Job -> Nat]
  BY <1>2, <1>3, <1>4 DEF TallyInv, QueueRanked, InQueue
<1>6. \A i \in InQueue : created[i] \in Nat
  BY <1>4, <1>5
<1>7. \A i \in InQueue' : created'[i] <= Cardinality(InQueue')
  BY <1>2, <1>3, <1>5, <1>6
<1>8. ASSUME NEW i \in InQueue', NEW k \in InQueue', created'[i] = created'[k] PROVE i = k
  BY <1>2, <1>3, <1>5, <1>6, <1>8 DEF TallyInv, QueueRanked
<1>9. QueueRanked'
  BY <1>3, <1>5, <1>7, <1>8 DEF QueueRanked
<1>10. BatchesSmall'
  BY <1>2 DEF TallyInv, BatchesSmall, Enqueue
<1>11. QED
  BY <1>9, <1>10

LEMMA ClaimRanks ==
    ASSUME TallyInv, NEW w \in Pass, Claim(w)
    PROVE  QueueRanked' /\ BatchesSmall'
<1> DEFINE batch == Oldest({j \in Job : Claimable(j)})
<1>1. {j \in Job : Claimable(j)} \subseteq InQueue
  BY DEF Claimable, InQueue
<1>2. batch \subseteq InQueue /\ Cardinality(batch) <= Limit
  <2>1. batch \subseteq {j \in Job : Claimable(j)}
    BY DEF Oldest
  <2>2. QED
    BY <1>1, <2>1, OldestAreFew DEF TallyInv
<1>3. /\ status' = [j \in Job |-> IF j \in batch THEN "IN_PROGRESS" ELSE status[j]]
      /\ claimed' = [claimed EXCEPT ![w] = batch]
      /\ claimed[w] = {}
      /\ created' = created /\ pushing' = pushing
  BY DEF Claim
<1> HIDE DEF batch
<1>4. InQueue' = InQueue
  BY <1>2, <1>3 DEF InQueue
<1>5. QueueRanked'
  BY <1>3, <1>4, SameQueue DEF TallyInv
<1>6. BatchesSmall'
  BY <1>2, <1>3, <1>4 DEF TallyInv, Typed, BatchesSmall
<1>7. QED
  BY <1>5, <1>6

LEMMA RecordRanks ==
    ASSUME TallyInv, NEW w \in Pass, RecordAttempt(w)
    PROVE  QueueRanked' /\ BatchesSmall'
<1>1. /\ status' = [j \in Job |-> IF j \in pushing[w] THEN Outcome(w) ELSE status[j]]
      /\ claimed' = [claimed EXCEPT ![w] = @ \ pushing[w]]
      /\ pushing' = [pushing EXCEPT ![w] = {}]
      /\ created' = created
  BY DEF RecordAttempt
<1>2. Outcome(w) # "ABSENT"
  BY DEF Outcome
<1>3. pushing[w] \subseteq InQueue
  BY DEF TallyInv, BatchesSmall
<1>4. InQueue' = InQueue
  BY <1>1, <1>2, <1>3 DEF InQueue
<1>5. \A x \in Pass : pushing'[x] \subseteq claimed'[x] /\ claimed'[x] \subseteq claimed[x]
  BY <1>1 DEF TallyInv, Typed, BatchesSmall
<1>6. QED
  BY <1>1, <1>4, <1>5, SameQueue, FewerClaims DEF TallyInv

\* What the other steps of a pass, time and the accountant leave alone.
LEMMA OthersKeepRanks ==
    ASSUME TallyInv,
           \/ \E w \in Pass : StartPush(w) \/ PushAccepted(w) \/ PushFailed(w) \/ Crash(w)
           \/ \E j \in Job : BackoffElapses(j) \/ LeaseExpires(j) \/ Retry(j)
           \/ UNCHANGED tallyVars
    PROVE  QueueRanked' /\ BatchesSmall'
<1>1. InQueue' = InQueue /\ created' = created
  <2>1. ASSUME NEW j \in Job, Retry(j) PROVE InQueue' = InQueue /\ created' = created
    BY <2>1 DEF Retry, InQueue, TallyInv, Typed
  <2>2. ASSUME UNCHANGED <<status, created>> PROVE InQueue' = InQueue /\ created' = created
    BY <2>2 DEF InQueue
  <2>3. QED
    BY <2>1, <2>2 DEF StartPush, PushAccepted, PushFailed, Crash, BackoffElapses, LeaseExpires,
      jobRow, tallyVars
<1>2. \A w \in Pass : pushing'[w] \subseteq claimed'[w] /\ claimed'[w] \subseteq claimed[w]
  <2>1. ASSUME NEW w \in Pass, StartPush(w)
        PROVE  \A x \in Pass : pushing'[x] \subseteq claimed'[x] /\ claimed'[x] \subseteq claimed[x]
    BY <2>1 DEF StartPush, TallyInv, Typed, BatchesSmall
  <2>2. ASSUME NEW w \in Pass, Crash(w)
        PROVE  \A x \in Pass : pushing'[x] \subseteq claimed'[x] /\ claimed'[x] \subseteq claimed[x]
    BY <2>2 DEF Crash, TallyInv, Typed, BatchesSmall
  <2>3. ASSUME UNCHANGED <<claimed, pushing>>
        PROVE  \A x \in Pass : pushing'[x] \subseteq claimed'[x] /\ claimed'[x] \subseteq claimed[x]
    BY <2>3 DEF TallyInv, BatchesSmall
  <2>4. QED
    BY <2>1, <2>2, <2>3 DEF PushAccepted, PushFailed, BackoffElapses, LeaseExpires, Retry, tallyVars
<1>3. QED
  BY <1>1, <1>2, SameQueue, FewerClaims DEF TallyInv

LEMMA TallyInvInit == TallyInit => TallyInv
<1> SUFFICES ASSUME TallyInit PROVE TallyInv
  OBVIOUS
<1>1. InQueue = {} /\ Cardinality({}) = 0 /\ IsFiniteSet({})
  BY FS_EmptySet DEF TallyInit, InQueue
<1>2. QueueRanked
  BY <1>1 DEF QueueRanked, TallyInit, NotQueued
<1>3. BatchesSmall /\ Counted
  BY <1>1, TallyAssumption DEF BatchesSmall, Counted, TallyInit
<1>4. QED
  BY <1>2, <1>3, InitTyped DEF TallyInv

LEMMA TallyInvNext == TallyInv /\ [TallyNext]_tallyVars => TallyInv'
<1> SUFFICES ASSUME TallyInv, [TallyNext]_tallyVars PROVE TallyInv'
  OBVIOUS
<1>1. Typed'
  BY NextTyped DEF TallyInv
<1>2. QueueRanked' /\ BatchesSmall'
  BY EnqueueRanks, ClaimRanks, RecordRanks, OthersKeepRanks DEF TallyNext
<1>3. Counted'
  <2>1. ASSUME NEW w \in Pass, Crash(w) PROVE Counted'
    BY <2>1, TallyAssumption DEF Crash, TallyInv, Counted
  <2>2. ASSUME NEW j \in Job, Retry(j) PROVE Counted'
    BY <2>2, TallyAssumption DEF Retry, TallyInv, Counted
  <2>3. ASSUME UNCHANGED <<crashes, retries>> PROVE Counted'
    BY <2>3 DEF TallyInv, Counted
  <2>4. QED
    BY <2>1, <2>2, <2>3 DEF TallyNext, tallyVars, bounds, Claim, StartPush, PushAccepted, PushFailed,
      RecordAttempt, Enqueue, BackoffElapses, LeaseExpires
<1>4. QED
  BY <1>1, <1>2, <1>3 DEF TallyInv

\* The state of the queue has its types, and no pass ever holds more jobs than the
\* LIMIT of claimDueJobs, however passes, crashes and retries interleave.
THEOREM TallyTypeCorrect == TallySpec => []TallyTypeOK
<1>1. TallyInv => TallyTypeOK
  BY DEF TallyInv, Typed, QueueRanked, BatchesSmall, Counted, TallyTypeOK
<1>2. QED
  BY <1>1, TallyInvInit, TallyInvNext, PTL DEF TallySpec
==============================================================================
