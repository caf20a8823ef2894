-------------------------- MODULE StockPostingProofs -------------------------
(***************************************************************************)
(* Proofs about StockPosting for every set of sessions, keys, documents    *)
(* and rules: the committed stock is always explained by the ledger, an    *)
(* entry is reversed at most once, every circle of waits for stock passes  *)
(* through an import, alerts follow the stock, and the engine implements   *)
(* StockLedger.                                                            *)
(***************************************************************************)
EXTENDS StockPosting, SequenceTheorems, SumTheorems

-----------------------------------------------------------------------------
(***************************************************************************)
(* The shape of the state: types, entries being reversed are committed,    *)
(* indexes point into plan, and only the holder of a stock row has         *)
(* uncommitted entries of its key.                                         *)
(***************************************************************************)

TargetsCommitted ==
    \A s \in Session :
        /\ \A n \in DOMAIN targets[s] : targets[s][n][2] \in 1..durable[targets[s][n][1]]
        /\ pc[s] \in {"lock", "check"} => targets[s] # <<>>

TodoInPlan == \A s \in Session : todo[s] \subseteq DOMAIN plan[s]

TailIsHeld ==
    \A k \in Key :
        /\ durable[k] <= Len(ledger[k])
        /\ stock[k].holder = NoSession => durable[k] = Len(ledger[k])

Shape == TypeOK /\ TargetsCommitted /\ TodoInPlan /\ TailIsHeld

\* Rows keep their type through every operation on them.
LEMMA RowTypes ==
    ASSUME NEW V, NEW I, NEW table \in [I -> Row(V)], NEW s \in Session
    PROVE  /\ \A v \in V : Stored(v) \in Row(V)
           /\ Committed(table, s) \in [I -> Row(V)]
           /\ RolledBack(table, s) \in [I -> Row(V)]
           /\ \A i \in I : View(table[i], s) \in V
           /\ \A i \in I, v \in V : Written(table[i], s, v) \in Row(V)
  BY DEF Row, Stored, Committed, RolledBack, View, Written

LEMMA ShapeInit == Init => Shape
  <1> SUFFICES ASSUME Init PROVE Shape
    OBVIOUS
  <1>1. TypeOK
    BY PostingAssumption DEF Init, TypeOK, Row, Stored, Level, NoRule, Step
  <1>2. TargetsCommitted /\ TodoInPlan /\ TailIsHeld
    BY DEF Init, TargetsCommitted, TodoInPlan, TailIsHeld, Stored
  <1>3. QED
    BY <1>1, <1>2 DEF Shape

LEMMA ShapeBeginPosting ==
    ASSUME Shape, NEW s \in Session, NEW d \in Doc, BeginPosting(s, d)
    PROVE  Shape'
  <1> USE DEF Shape, BeginPosting, tables
  <1> DEFINE Line == [key : Key, type : MovementType \ {"REVERSAL"}, quantity : Int]
  <1>1. Movements(d) \in Seq(Movement) /\ DOMAIN Movements(d) = DOMAIN Lines[d]
    <2>1. Lines[d] \in Seq(Line)
      BY PostingAssumption
    <2>2. /\ DOMAIN Lines[d] = 1..Len(Lines[d])
          /\ Len(Lines[d]) \in Nat
      BY <2>1, LenProperties
    <2>3. ASSUME NEW i \in 1..Len(Lines[d])
          PROVE  Movements(d)[i] \in Movement
      <3>1. Lines[d][i] \in Line
        BY <2>1, ElementOfSeq
      <3>2. QED
        BY <2>2, <3>1 DEF Movements, Movement, NoEntry
    <2>4. DOMAIN Movements(d) = 1..Len(Lines[d])
      BY <2>2 DEF Movements
    <2>5. Movements(d) = [i \in 1..Len(Lines[d]) |-> Movements(d)[i]]
      BY <2>2 DEF Movements
    <2>6. QED
      BY <2>2, <2>3, <2>4, <2>5
  <1>2. DOMAIN Lines[d] \subseteq Nat
    BY PostingAssumption
  <1>3. TypeOK'
    BY <1>1, <1>2 DEF TypeOK, Step
  <1>4. TargetsCommitted'
    BY DEF TargetsCommitted, TypeOK
  <1>5. TodoInPlan'
    BY <1>1 DEF TodoInPlan, TypeOK
  <1>6. TailIsHeld'
    BY DEF TailIsHeld
  <1>7. QED
    BY <1>3, <1>4, <1>5, <1>6

LEMMA ShapeBeginReversal ==
    ASSUME Shape, NEW s \in Session, NEW id \in CommittedId, BeginReversal(s, id)
    PROVE  Shape'
  <1> USE DEF Shape, tables
  <1>1. PICK ids \in EntriesToReverse(id) : targets' = [targets EXCEPT ![s] = ids]
    BY DEF BeginReversal
  <1>2. \A x \in CommittedId : x \in Key \X Nat /\ x[2] \in 1..durable[x[1]]
    BY DEF CommittedId, TypeOK
  <1>3. /\ ids \in Seq(Key \X Nat)
        /\ ids # <<>>
        /\ \A n \in DOMAIN ids : ids[n][2] \in 1..durable[ids[n][1]]
    <2>1. CASE EntryAt(id).type \in {"TRANSFER_OUT", "TRANSFER_IN"}
      <3>1. ids \in CommittedId \X CommittedId
        BY <2>1 DEF EntriesToReverse
      <3>2. PICK a \in CommittedId, b \in CommittedId : ids = <<a, b>>
        BY <3>1
      <3>3. QED
        BY <1>2, <3>2
    <2>2. CASE ~(EntryAt(id).type \in {"TRANSFER_OUT", "TRANSFER_IN"})
      <3>1. ids = <<id>>
        BY <2>2 DEF EntriesToReverse
      <3>2. QED
        BY <1>2, <3>1
    <2>3. QED
      BY <2>1, <2>2
  <1>4. TypeOK'
    BY <1>1, <1>3 DEF BeginReversal, TypeOK, Step
  <1>5. TargetsCommitted'
    BY <1>1, <1>3 DEF BeginReversal, TargetsCommitted, TypeOK
  <1>6. TodoInPlan' /\ TailIsHeld'
    BY DEF BeginReversal, TodoInPlan, TailIsHeld
  <1>7. QED
    BY <1>4, <1>5, <1>6

LEMMA ShapeSaveRule ==
    ASSUME Shape, NEW s \in Session, NEW p \in Pair, NEW lvl \in Level,
           SaveRule(s, p, lvl)
    PROVE  Shape'
  <1> USE DEF Shape
  <1>1. rule[p] \in Row(Level)
    BY DEF TypeOK
  <1>2. Written(rule[p], s, lvl) \in Row(Level)
    BY <1>1 DEF Row, Written
  <1>3. TypeOK'
    BY <1>2 DEF SaveRule, TypeOK, Step
  <1>4. TargetsCommitted' /\ TodoInPlan' /\ TailIsHeld'
    BY DEF SaveRule, TargetsCommitted, TodoInPlan, TailIsHeld, TypeOK
  <1>5. QED
    BY <1>3, <1>4

\* While loading, the head of targets is a committed entry.
LEMMA HeadCommitted ==
    ASSUME Shape, NEW s \in Session, pc[s] \in {"lock", "check"}
    PROVE  /\ Head(targets[s]) = targets[s][1]
           /\ Head(targets[s]) \in Key \X Nat
           /\ Head(targets[s])[2] \in 1..durable[Head(targets[s])[1]]
           /\ EntryAt(Head(targets[s])) \in Entry
  <1> DEFINE id == Head(targets[s])
  <1>1. targets[s] \in Seq(Key \X Nat) /\ targets[s] # <<>>
    BY DEF Shape, TypeOK, TargetsCommitted
  <1>2. id = targets[s][1] /\ id \in Key \X Nat /\ 1 \in DOMAIN targets[s]
    BY <1>1
  <1>3. id[2] \in 1..durable[id[1]]
    BY <1>2 DEF Shape, TargetsCommitted
  <1>4. id[2] \in 1..Len(ledger[id[1]]) /\ ledger[id[1]] \in Seq(Entry)
    BY <1>2, <1>3 DEF Shape, TypeOK, TailIsHeld
  <1>5. EntryAt(id) \in Entry
    BY <1>4, ElementOfSeq DEF EntryAt
  <1>6. QED
    BY <1>2, <1>3, <1>5

LEMMA ShapeLockEntry ==
    ASSUME Shape, NEW s \in Session, LockEntry(s)
    PROVE  Shape'
  <1> USE DEF Shape, tables
  <1>1. Head(targets[s]) \in Key \X Nat
    BY HeadCommitted DEF LockEntry
  <1>2. TypeOK'
    BY <1>1 DEF LockEntry, TypeOK, Step
  <1>3. TargetsCommitted' /\ TodoInPlan' /\ TailIsHeld'
    BY DEF LockEntry, TargetsCommitted, TodoInPlan, TailIsHeld, TypeOK
  <1>4. QED
    BY <1>2, <1>3

LEMMA ShapeLoadReversible ==
    ASSUME Shape, NEW s \in Session, LoadReversible(s)
    PROVE  Shape'
  <1> DEFINE id == Head(targets[s])
             loaded == Append(plan[s], CounterMovement(id))
  <1> USE DEF tables
  <1>1. /\ id \in Key \X Nat
        /\ EntryAt(id) \in Entry
    BY HeadCommitted DEF LoadReversible
  <1>2. CounterMovement(id) \in Movement
    BY <1>1 DEF CounterMovement, Movement, Entry, MovementType
  <1>3. /\ loaded \in Seq(Movement)
        /\ DOMAIN plan[s] \subseteq DOMAIN loaded
        /\ DOMAIN loaded \subseteq Nat
    BY <1>2 DEF Shape, TypeOK
  <1>4. /\ targets[s] \in Seq(Key \X Nat)
        /\ targets[s] # <<>>
        /\ Tail(targets[s]) \in Seq(Key \X Nat)
        /\ Len(targets[s]) # 1 => Tail(targets[s]) # <<>>
        /\ \A n \in DOMAIN Tail(targets[s]) :
              n + 1 \in DOMAIN targets[s] /\ Tail(targets[s])[n] = targets[s][n + 1]
    <2>1. targets[s] \in Seq(Key \X Nat) /\ targets[s] # <<>>
      BY DEF LoadReversible, Shape, TypeOK, TargetsCommitted
    <2>2. /\ Tail(targets[s]) \in Seq(Key \X Nat)
          /\ Len(Tail(targets[s])) = Len(targets[s]) - 1
          /\ \A n \in 1..Len(Tail(targets[s])) : Tail(targets[s])[n] = targets[s][n + 1]
      BY <2>1, HeadTailProperties
    <2>3. /\ DOMAIN targets[s] = 1..Len(targets[s])
          /\ DOMAIN Tail(targets[s]) = 1..Len(Tail(targets[s]))
          /\ Len(targets[s]) \in Nat
      BY <2>1, <2>2, LenProperties
    <2>4. Len(targets[s]) # 0 /\ (Len(targets[s]) # 1 => Tail(targets[s]) # <<>>)
      <3>1. Len(targets[s]) # 0
        BY <2>1, EmptySeq
      <3>2. Tail(targets[s]) = <<>> => Len(Tail(targets[s])) = 0
        BY EmptySeq, Zenon
      <3>3. QED
        BY <2>2, <2>3, <3>1, <3>2
    <2>5. \A n \in DOMAIN Tail(targets[s]) : n + 1 \in DOMAIN targets[s]
      BY SMTT(60), <2>2, <2>3, <2>4
    <2>6. QED
      BY <2>1, <2>2, <2>3, <2>4, <2>5
  <1>5. TypeOK'
    BY <1>3, <1>4 DEF LoadReversible, Shape, TypeOK, Step
  <1>6. TargetsCommitted'
    <2>1. ASSUME NEW t \in Session
          PROVE  /\ \A n \in DOMAIN targets'[t] :
                       targets'[t][n][2] \in 1..durable'[targets'[t][n][1]]
                 /\ pc'[t] \in {"lock", "check"} => targets'[t] # <<>>
      <3>1. CASE t = s
        BY ZenonT(60), <1>4, <3>1 DEF LoadReversible, Shape, TypeOK, TargetsCommitted
      <3>2. CASE t # s
        BY <3>2 DEF LoadReversible, Shape, TypeOK, TargetsCommitted
      <3>3. QED
        BY <3>1, <3>2
    <2>2. QED
      BY <2>1 DEF TargetsCommitted
  <1>7. TodoInPlan'
    BY <1>3 DEF LoadReversible, Shape, TypeOK, TodoInPlan
  <1>8. TailIsHeld'
    BY DEF LoadReversible, Shape, TailIsHeld
  <1>9. QED
    BY <1>5, <1>6, <1>7, <1>8 DEF Shape

\* What InsertEntry writes.
LEMMA InsertedEntry ==
    ASSUME Shape, NEW s \in Session, NEW i \in todo[s], Accepted(s, plan[s][i])
    PROVE  LET m == plan[s][i]
               after == View(stock[m.key], s) + m.quantity
           IN  /\ m \in Movement
               /\ after \in Nat
               /\ EntryFor(m, after) \in Entry
               /\ Written(stock[m.key], s, after) \in Row(Nat)
  <1> DEFINE m == plan[s][i]
             after == View(stock[m.key], s) + m.quantity
  <1>1. m \in Movement
    BY ElementOfSeq, LenProperties DEF Shape, TypeOK, TodoInPlan
  <1>2. stock[m.key] \in Row(Nat) /\ View(stock[m.key], s) \in Nat
    BY <1>1 DEF Shape, TypeOK, Movement, Row, View
  <1>3. after \in Nat
    BY <1>1, <1>2 DEF Accepted, EnoughStock, Movement
  <1>4. EntryFor(m, after) \in Entry
    BY <1>1, <1>3 DEF EntryFor, Movement, Entry
  <1>5. Written(stock[m.key], s, after) \in Row(Nat)
    BY <1>2, <1>3 DEF Written, Row
  <1>6. QED
    BY <1>1, <1>3, <1>4, <1>5

LEMMA ShapeInsertEntry ==
    ASSUME Shape, NEW s \in Session, InsertEntry(s)
    PROVE  Shape'
  <1>1. PICK i \in todo[s] :
          LET m == plan[s][i]
              after == View(stock[m.key], s) + m.quantity
          IN  /\ Accepted(s, m)
              /\ stock' = [stock EXCEPT ![m.key] = Written(@, s, after)]
              /\ ledger' = [ledger EXCEPT ![m.key] = Append(@, EntryFor(m, after))]
              /\ todo' = [todo EXCEPT ![s] = @ \ {i}]
              /\ IF EndsCall(s, i)
                 THEN /\ due' = [due EXCEPT ![s] = PairsOfCall(s, i)]
                      /\ pc' = [pc EXCEPT ![s] = "rule"]
                 ELSE UNCHANGED <<due, pc>>
              /\ UNCHANGED <<durable, rule, alert, plan, targets, locked, level, low>>
    BY DEF InsertEntry
  <1> DEFINE m == plan[s][i]
             after == View(stock[m.key], s) + m.quantity
             entry == EntryFor(m, after)
  <1>2. /\ m \in Movement
        /\ m.key \in Key
        /\ entry \in Entry
        /\ Written(stock[m.key], s, after) \in Row(Nat)
    <2>1. /\ m \in Movement
          /\ EntryFor(m, after) \in Entry
          /\ Written(stock[m.key], s, after) \in Row(Nat)
      BY <1>1, InsertedEntry
    <2>2. QED
      BY <2>1 DEF Movement
  <1>3. /\ ledger[m.key] \in Seq(Entry)
        /\ Append(ledger[m.key], entry) \in Seq(Entry)
        /\ Len(Append(ledger[m.key], entry)) = Len(ledger[m.key]) + 1
    BY <1>2 DEF Shape, TypeOK
  <1>4. PairsOfCall(s, i) \subseteq Pair
    <2>1. \A j \in DOMAIN plan[s] : plan[s][j] \in Movement
      BY ElementOfSeq, LenProperties DEF Shape, TypeOK
    <2>2. QED
      BY <2>1, PostingAssumption DEF Movement, PairsOfCall
  <1>5. TypeOK'
    <2>1. stock' \in [Key -> Row(Nat)]
      BY <1>1, <1>2 DEF Shape, TypeOK
    <2>2. ledger' \in [Key -> Seq(Entry)]
      BY <1>1, <1>2, <1>3 DEF Shape, TypeOK
    <2>3. due' \in [Session -> SUBSET Pair] /\ pc' \in [Session -> Step]
      BY ZenonT(60), <1>1, <1>4 DEF Shape, TypeOK, Step
    <2>4. todo' \in [Session -> SUBSET Nat]
      BY <1>1 DEF Shape, TypeOK
    <2>5. QED
      BY <1>1, <2>1, <2>2, <2>3, <2>4 DEF Shape, TypeOK
  <1>6. TargetsCommitted'
    BY <1>1 DEF Shape, TypeOK, TargetsCommitted
  <1>7. TodoInPlan'
    BY <1>1 DEF Shape, TypeOK, TodoInPlan
  <1>8. TailIsHeld'
    <2>1. ASSUME NEW k \in Key
          PROVE  /\ durable'[k] <= Len(ledger'[k])
                 /\ stock'[k].holder = NoSession => durable'[k] = Len(ledger'[k])
      <3>1. CASE k = m.key
        <4>1. stock'[k].holder = s
          BY <1>1, <1>2, <3>1 DEF Shape, TypeOK, Row, Written
        <4>2. Len(ledger'[k]) = Len(ledger[k]) + 1
          BY <1>1, <1>2, <1>3, <3>1 DEF Shape, TypeOK
        <4>3. QED
          <5>1. durable'[k] = durable[k] /\ durable[k] \in Nat /\ durable[k] <= Len(ledger[k])
            BY <1>1 DEF Shape, TypeOK, TailIsHeld
          <5>2. Len(ledger[k]) \in Nat
            BY <1>3, <3>1, LenProperties
          <5>3. durable'[k] <= Len(ledger'[k])
            BY <4>2, <5>1, <5>2
          <5>4. QED
            BY <4>1, <5>3, NoSessionIsNotASession
      <3>2. CASE k # m.key
        BY <1>1, <3>2 DEF Shape, TypeOK, TailIsHeld
      <3>3. QED
        BY <3>1, <3>2
    <2>2. QED
      BY <2>1 DEF TailIsHeld
  <1>9. QED
    BY <1>5, <1>6, <1>7, <1>8 DEF Shape

LEMMA ShapeAlertSteps ==
    ASSUME Shape, NEW s \in Session, NEW p \in Pair,
           ReadRule(s, p) \/ ReadStock(s, p) \/ RaiseAlert(s, p) \/ ResolveAlert(s, p)
    PROVE  Shape'
  <1>1. rule[p] \in Row(Level) /\ alert[p] \in Row(BOOLEAN)
    BY DEF Shape, TypeOK
  <1>2. /\ View(rule[p], s) \in Level
        /\ \A b \in BOOLEAN : Written(alert[p], s, b) \in Row(BOOLEAN)
        /\ NoRule \in Level
    BY <1>1 DEF Row, View, Written, Level
  <1>3. TypeOK'
    <2>1. CASE ReadRule(s, p)
      <3>1. /\ due' \in [Session -> SUBSET Pair]
            /\ level' \in [Session -> Level]
        <4>1. CASE View(rule[p], s) = NoRule
          <5>1. Evaluated(s, p)
            BY <2>1, <4>1 DEF ReadRule
          <5>2. QED
            BY <5>1, <1>2 DEF Evaluated, Shape, TypeOK
        <4>2. CASE View(rule[p], s) # NoRule
          <5>1. UNCHANGED due /\ level' = [level EXCEPT ![s] = View(rule[p], s)]
            BY <2>1, <4>2 DEF ReadRule
          <5>2. QED
            BY <1>2, <5>1 DEF Shape, TypeOK
        <4>3. QED
          BY <4>1, <4>2
      <3>2. /\ pc' \in [Session -> Step]
            /\ low' \in [Session -> BOOLEAN]
        BY <2>1 DEF ReadRule, Evaluated, Shape, TypeOK, Step
      <3>3. UNCHANGED <<tables, plan, todo, targets, locked>>
        BY <2>1 DEF ReadRule
      <3>4. QED
        BY <3>1, <3>2, <3>3 DEF tables, Shape, TypeOK
    <2>2. CASE ReadStock(s, p)
      <3>1. (GodownStock(s, p) < level[s]) \in BOOLEAN
        OBVIOUS
      <3>2. PICK b \in BOOLEAN : low' = [low EXCEPT ![s] = b]
        BY <2>2, <3>1, Zenon DEF ReadStock
      <3>3. /\ pc' = [pc EXCEPT ![s] = "alert"]
            /\ UNCHANGED <<stock, ledger, durable, rule, alert>>
            /\ UNCHANGED <<plan, todo, targets, locked, due, level>>
        BY <2>2, Zenon DEF ReadStock, tables
      <3>4. QED
        BY <3>2, <3>3 DEF Shape, TypeOK, Step
    <2>3. CASE RaiseAlert(s, p)
      BY <2>3, <1>2 DEF RaiseAlert, Evaluated, Shape, TypeOK, Step
    <2>4. CASE ResolveAlert(s, p)
      BY <2>4, <1>2 DEF ResolveAlert, Evaluated, Shape, TypeOK, Step
    <2>5. QED
      BY <2>1, <2>2, <2>3, <2>4
  <1>4. UNCHANGED <<stock, ledger, durable, plan, todo, targets>>
    BY DEF ReadRule, ReadStock, RaiseAlert, ResolveAlert, tables
  <1>5. \A t \in Session : pc'[t] \in {"lock", "check"} => pc[t] \in {"lock", "check"}
    BY DEF ReadRule, ReadStock, RaiseAlert, ResolveAlert, Evaluated, Shape, TypeOK
  <1>6. TargetsCommitted' /\ TodoInPlan' /\ TailIsHeld'
    BY <1>4, <1>5 DEF Shape, TargetsCommitted, TodoInPlan, TailIsHeld
  <1>7. QED
    BY <1>3, <1>6 DEF Shape

\* Rows of a table stay rows when s ends its transaction.
LEMMA EndedRows ==
    ASSUME Shape, NEW s \in Session
    PROVE  /\ Committed(stock, s) \in [Key -> Row(Nat)]
           /\ Committed(rule, s) \in [Pair -> Row(Level)]
           /\ Committed(alert, s) \in [Pair -> Row(BOOLEAN)]
           /\ RolledBack(stock, s) \in [Key -> Row(Nat)]
           /\ RolledBack(rule, s) \in [Pair -> Row(Level)]
           /\ RolledBack(alert, s) \in [Pair -> Row(BOOLEAN)]
  <1>1. /\ stock \in [Key -> Row(Nat)]
        /\ rule \in [Pair -> Row(Level)]
        /\ alert \in [Pair -> Row(BOOLEAN)]
    BY DEF Shape, TypeOK
  <1>2. /\ Committed(stock, s) \in [Key -> Row(Nat)]
        /\ RolledBack(stock, s) \in [Key -> Row(Nat)]
    BY <1>1 DEF Row, Stored, Committed, RolledBack
  <1>3. /\ Committed(rule, s) \in [Pair -> Row(Level)]
        /\ RolledBack(rule, s) \in [Pair -> Row(Level)]
    BY <1>1 DEF Row, Stored, Committed, RolledBack
  <1>4. /\ Committed(alert, s) \in [Pair -> Row(BOOLEAN)]
        /\ RolledBack(alert, s) \in [Pair -> Row(BOOLEAN)]
    BY <1>1 DEF Row, Stored, Committed, RolledBack
  <1>5. QED
    BY <1>2, <1>3, <1>4

\* What ending a transaction leaves of the session's own state.
LEMMA ReleasedShape ==
    ASSUME Shape, NEW s \in Session, Release(s)
    PROVE  /\ pc' \in [Session -> Step]
           /\ plan' \in [Session -> Seq(Movement)]
           /\ todo' \in [Session -> SUBSET Nat]
           /\ targets' \in [Session -> Seq(Key \X Nat)]
           /\ locked' \in [Session -> SUBSET (Key \X Nat)]
           /\ due' \in [Session -> SUBSET Pair]
           /\ level' \in [Session -> Level]
           /\ low' \in [Session -> BOOLEAN]
           /\ TodoInPlan'
           /\ targets'[s] = <<>> /\ pc'[s] = "idle"
           /\ \A t \in Session \ {s} : targets'[t] = targets[t] /\ pc'[t] = pc[t]
  <1>1. NoRule \in Level
    BY DEF Level
  <1>2. QED
    BY <1>1 DEF Release, Shape, TypeOK, TodoInPlan, Step

LEMMA ShapeCommit ==
    ASSUME Shape, NEW s \in Session, Commit(s)
    PROVE  Shape'
  <1>1. Release(s) /\ UNCHANGED ledger
    BY DEF Commit
  <1>2. \A k \in Key : durable'[k] = IF stock[k].holder = s THEN Len(ledger[k]) ELSE durable[k]
    BY DEF Commit
  <1>3. \A k \in Key : /\ Len(ledger[k]) \in Nat
                       /\ durable[k] \in Nat
                       /\ durable[k] <= Len(ledger[k])
    BY DEF Shape, TypeOK, TailIsHeld
  <1>4. durable' \in [Key -> Nat]
    BY <1>3 DEF Commit
  <1>5. TypeOK'
    BY <1>1, <1>4, EndedRows, ReleasedShape DEF Commit, Shape, TypeOK
  <1>6. TargetsCommitted'
    <2>1. \A k \in Key : 1..durable[k] \subseteq 1..durable'[k]
      BY <1>2, <1>3
    <2>2. ASSUME NEW t \in Session
          PROVE  /\ \A n \in DOMAIN targets'[t] :
                       targets'[t][n][2] \in 1..durable'[targets'[t][n][1]]
                 /\ pc'[t] \in {"lock", "check"} => targets'[t] # <<>>
      <3>1. CASE t = s
        BY <1>1, <3>1, ReleasedShape
      <3>2. CASE t # s
        <4>1. targets'[t] = targets[t] /\ pc'[t] = pc[t]
          BY <1>1, <3>2, ReleasedShape
        <4>2. \A n \in DOMAIN targets[t] : targets[t][n] \in Key \X Nat
          BY ElementOfSeq, LenProperties DEF Shape, TypeOK
        <4>3. QED
          BY <2>1, <4>1, <4>2 DEF Shape, TargetsCommitted
      <3>3. QED
        BY <3>1, <3>2
    <2>3. QED
      BY <2>2 DEF TargetsCommitted
  <1>7. TailIsHeld'
    BY <1>1, <1>2, <1>3 DEF Commit, Committed, Stored, Shape, TypeOK, TailIsHeld
  <1>8. QED
    BY <1>1, <1>5, <1>6, <1>7, ReleasedShape DEF Shape

\* A rollback cuts the entries of the session off again.
LEMMA RolledBackLedger ==
    ASSUME Shape, NEW k \in Key
    PROVE  /\ SubSeq(ledger[k], 1, durable[k]) \in Seq(Entry)
           /\ Len(SubSeq(ledger[k], 1, durable[k])) = durable[k]
           /\ \A i \in 1..durable[k] : SubSeq(ledger[k], 1, durable[k])[i] = ledger[k][i]
  <1>1. /\ ledger[k] \in Seq(Entry)
        /\ durable[k] \in Nat
        /\ durable[k] <= Len(ledger[k])
    BY DEF Shape, TypeOK, TailIsHeld
  <1>2. QED
    BY <1>1, SubSeqProperties

LEMMA ShapeRollback ==
    ASSUME Shape, NEW s \in Session, Rollback(s)
    PROVE  Shape'
  <1>1. Release(s) /\ UNCHANGED durable
    BY DEF Rollback
  <1>2. ledger' = [k \in Key |->
                    IF stock[k].holder = s THEN SubSeq(ledger[k], 1, durable[k])
                    ELSE ledger[k]]
    BY DEF Rollback
  <1>3. ledger' \in [Key -> Seq(Entry)]
    BY <1>2, RolledBackLedger DEF Shape, TypeOK
  <1>4. TypeOK'
    BY <1>1, <1>3, EndedRows, ReleasedShape DEF Rollback, Shape, TypeOK
  <1>5. TargetsCommitted'
    <2>1. ASSUME NEW t \in Session
          PROVE  /\ \A n \in DOMAIN targets'[t] :
                       targets'[t][n][2] \in 1..durable'[targets'[t][n][1]]
                 /\ pc'[t] \in {"lock", "check"} => targets'[t] # <<>>
      <3>1. CASE t = s
        BY <1>1, <3>1, ReleasedShape
      <3>2. CASE t # s
        <4>1. targets'[t] = targets[t] /\ pc'[t] = pc[t]
          BY <1>1, <3>2, ReleasedShape
        <4>2. durable' = durable
          BY <1>1
        <4>3. QED
          BY <4>1, <4>2 DEF Shape, TargetsCommitted
      <3>3. QED
        BY <3>1, <3>2
    <2>2. QED
      BY <2>1 DEF TargetsCommitted
  <1>6. TailIsHeld'
    <2>1. ASSUME NEW k \in Key
          PROVE  /\ durable'[k] <= Len(ledger'[k])
                 /\ stock'[k].holder = NoSession => durable'[k] = Len(ledger'[k])
      <3>1. durable[k] \in Nat /\ stock'[k] = IF stock[k].holder = s
                                            THEN Stored(stock[k].saved) ELSE stock[k]
        BY DEF Rollback, RolledBack, Shape, TypeOK
      <3>2. CASE stock[k].holder = s
        BY <1>1, <1>2, <3>1, <3>2, RolledBackLedger
      <3>3. CASE stock[k].holder # s
        BY <1>1, <1>2, <3>1, <3>3 DEF Shape, TailIsHeld
      <3>4. QED
        BY <3>2, <3>3
    <2>2. QED
      BY <2>1 DEF TailIsHeld
  <1>7. QED
    BY <1>1, <1>4, <1>5, <1>6, ReleasedShape DEF Shape

LEMMA ShapeNext == Shape /\ [Next]_vars => Shape'
  <1> SUFFICES ASSUME Shape, [Next]_vars PROVE Shape'
    OBVIOUS
  <1>1. CASE UNCHANGED vars
    BY <1>1 DEF vars, tables, request, Shape, TypeOK, TargetsCommitted, TodoInPlan, TailIsHeld
  <1>2. CASE Next
    <2>1. PICK s \in Session :
            \/ \E d \in Doc : BeginPosting(s, d)
            \/ \E id \in CommittedId : BeginReversal(s, id)
            \/ \E change \in RuleChange : SaveRule(s, change[1], change[2])
            \/ LockEntry(s)
            \/ LoadReversible(s)
            \/ InsertEntry(s)
            \/ \E p \in Pair : ReadRule(s, p) \/ ReadStock(s, p) \/ RaiseAlert(s, p) \/ ResolveAlert(s, p)
            \/ Commit(s)
            \/ RefuseReversal(s)
            \/ RefuseMovement(s)
            \/ Abort(s)
      BY <1>2 DEF Next
    <2>2. CASE \E d \in Doc : BeginPosting(s, d)
      BY <2>2, ShapeBeginPosting
    <2>3. CASE \E id \in CommittedId : BeginReversal(s, id)
      BY <2>3, ShapeBeginReversal
    <2>4. CASE \E change \in RuleChange : SaveRule(s, change[1], change[2])
      <3>1. PICK change \in RuleChange : SaveRule(s, change[1], change[2])
        BY <2>4
      <3>2. change[1] \in Pair /\ change[2] \in Level
        BY <3>1, PostingAssumption
      <3>3. QED
        BY <3>1, <3>2, ShapeSaveRule
    <2>5. CASE LockEntry(s)
      BY <2>5, ShapeLockEntry
    <2>6. CASE LoadReversible(s)
      BY <2>6, ShapeLoadReversible
    <2>7. CASE InsertEntry(s)
      BY <2>7, ShapeInsertEntry
    <2>8. CASE \E p \in Pair : ReadRule(s, p) \/ ReadStock(s, p) \/ RaiseAlert(s, p) \/ ResolveAlert(s, p)
      BY <2>8, ShapeAlertSteps
    <2>9. CASE Commit(s)
      BY <2>9, ShapeCommit
    <2>10. CASE RefuseReversal(s) \/ RefuseMovement(s) \/ Abort(s)
      BY <2>10, ShapeRollback DEF RefuseReversal, RefuseMovement, Abort
    <2>11. QED
      BY <2>1, <2>2, <2>3, <2>4, <2>5, <2>6, <2>7, <2>8, <2>9, <2>10
  <1>3. QED
    BY <1>1, <1>2

LEMMA ShapeAlways == Spec => []Shape
  BY ShapeInit, ShapeNext, PTL DEF Spec

\* Every table and every session keeps its type, for all sessions and stock
\* keys: in particular no committed or uncommitted balance is ever negative.
THEOREM TypeCorrect == Spec => []TypeOK
  <1>1. Shape => TypeOK
    BY DEF Shape
  <1>2. QED
    BY <1>1, ShapeAlways, PTL

-----------------------------------------------------------------------------
(***************************************************************************)
(* The running balance.  RunningBalance speaks of committed entries only;  *)
(* it is preserved because the chain also holds over the uncommitted tail  *)
(* and because the value the holder of a row sees is the end of that tail. *)
(***************************************************************************)

Balanced(k) ==
    /\ stock[k].saved = BalanceAfter(k, durable[k])
    /\ stock[k].holder # NoSession => stock[k].new = BalanceAfter(k, Len(ledger[k]))
    /\ \A i \in 1..Len(ledger[k]) :
          ledger[k][i].balanceAfter = BalanceAfter(k, i - 1) + ledger[k][i].quantity

AllBalanced == \A k \in Key : Balanced(k)

LEMMA BalancedInit == Init => AllBalanced
  BY DEF Init, AllBalanced, Balanced, BalanceAfter, Stored

\* The row that InsertEntry reads is the balance of the last entry.
LEMMA ViewIsLastBalance ==
    ASSUME Shape, AllBalanced, NEW s \in Session, NEW k \in Key, Free(stock[k], s)
    PROVE  View(stock[k], s) = BalanceAfter(k, Len(ledger[k]))
  BY NoSessionIsNotASession DEF Shape, TailIsHeld, AllBalanced, Balanced, Free, View

LEMMA BalancedInsertEntry ==
    ASSUME Shape, AllBalanced, NEW s \in Session, InsertEntry(s)
    PROVE  AllBalanced'
  <1>1. PICK i \in todo[s] :
          LET m == plan[s][i]
              after == View(stock[m.key], s) + m.quantity
          IN  /\ Accepted(s, m)
              /\ Free(stock[m.key], s)
              /\ stock' = [stock EXCEPT ![m.key] = Written(@, s, after)]
              /\ ledger' = [ledger EXCEPT ![m.key] = Append(@, EntryFor(m, after))]
              /\ durable' = durable
    BY DEF InsertEntry
  <1> DEFINE m == plan[s][i]
             after == View(stock[m.key], s) + m.quantity
             entry == EntryFor(m, after)
  <1>2. m \in Movement /\ m.key \in Key /\ entry \in Entry /\ after \in Nat
    <2>1. m \in Movement /\ EntryFor(m, after) \in Entry /\ after \in Nat
      BY <1>1, InsertedEntry
    <2>2. QED
      BY <2>1 DEF Movement
  <1>3. after = BalanceAfter(m.key, Len(ledger[m.key])) + m.quantity
    BY <1>1, <1>2, ViewIsLastBalance
  <1>4. entry.balanceAfter = after /\ entry.quantity = m.quantity
    BY DEF EntryFor
  <1>5. /\ stock' = [stock EXCEPT ![m.key] = Written(@, s, after)]
        /\ ledger' = [ledger EXCEPT ![m.key] = Append(@, entry)]
        /\ durable' = durable
    BY <1>1
  <1> HIDE DEF m, after, entry
  <1>6. ASSUME NEW k \in Key
        PROVE  Balanced(k)'
    <2>1. ledger[k] \in Seq(Entry) /\ durable[k] \in Nat /\ durable[k] <= Len(ledger[k])
      BY DEF Shape, TypeOK, TailIsHeld
    <2>2. CASE k # m.key
      <3>1. stock'[k] = stock[k] /\ ledger'[k] = ledger[k] /\ durable'[k] = durable[k]
        BY <1>5, <2>2 DEF Shape, TypeOK
      <3>2. QED
        BY <3>1 DEF AllBalanced, Balanced, BalanceAfter
    <2>3. CASE k = m.key
      <3>1. /\ stock'[k].saved = stock[k].saved
            /\ stock'[k].new = after
            /\ ledger'[k] = Append(ledger[k], entry)
        BY <1>2, <1>5, <2>3 DEF Shape, TypeOK, Row, Written
      <3>2. /\ Len(ledger'[k]) = Len(ledger[k]) + 1
            /\ Len(ledger[k]) \in Nat
            /\ ledger'[k][Len(ledger[k]) + 1] = entry
            /\ \A j \in 1..Len(ledger[k]) : ledger'[k][j] = ledger[k][j]
        BY <1>2, <2>1, <3>1, AppendProperties
      <3>3. \A j \in 0..Len(ledger[k]) : BalanceAfter(k, j)' = BalanceAfter(k, j)
        BY <3>2 DEF BalanceAfter
      <3>4. stock'[k].saved = BalanceAfter(k, durable[k])'
        <4>1. durable[k] \in 0..Len(ledger[k]) /\ durable'[k] = durable[k]
          BY <1>5, <2>1, <3>2
        <4>2. BalanceAfter(k, durable[k])' = BalanceAfter(k, durable[k])
          BY <3>3, <4>1 DEF BalanceAfter
        <4>3. QED
          BY <3>1, <4>2 DEF AllBalanced, Balanced
      <3>5. stock'[k].new = BalanceAfter(k, Len(ledger[k]))'
        BY <1>4, <3>1, <3>2 DEF BalanceAfter
      <3>6. ASSUME NEW j \in 1..Len(ledger'[k])
            PROVE  ledger'[k][j].balanceAfter = BalanceAfter(k, j - 1)' + ledger'[k][j].quantity
        <4>1. j - 1 \in 0..Len(ledger[k])
          BY <3>2
        <4>2. BalanceAfter(k, j - 1)' = BalanceAfter(k, j - 1)
          BY <3>3, <4>1
        <4>3. CASE j = Len(ledger[k]) + 1
          <5>1. ledger'[k][j] = entry /\ j - 1 = Len(ledger[k])
            BY <3>2, <4>3
          <5>2. QED
            BY <1>3, <1>4, <2>3, <4>2, <5>1
        <4>4. CASE j # Len(ledger[k]) + 1
          <5>1. j \in 1..Len(ledger[k]) /\ ledger'[k][j] = ledger[k][j]
            BY <3>2, <4>4
          <5>2. QED
            BY <4>2, <5>1 DEF AllBalanced, Balanced
        <4>5. QED
          BY <4>3, <4>4
      <3>7. QED
        BY <3>4, <3>5, <3>6 DEF Balanced
    <2>4. QED
      BY <2>2, <2>3
  <1>7. QED
    BY <1>6 DEF AllBalanced

LEMMA BalancedCommit ==
    ASSUME Shape, AllBalanced, NEW s \in Session, Commit(s)
    PROVE  AllBalanced'
  <1>1. ASSUME NEW k \in Key
        PROVE  Balanced(k)'
    <2>1. /\ ledger' = ledger
          /\ durable'[k] = IF stock[k].holder = s THEN Len(ledger[k]) ELSE durable[k]
          /\ stock'[k] = IF stock[k].holder = s THEN Stored(stock[k].new) ELSE stock[k]
      BY DEF Commit, Committed, Shape, TypeOK
    <2>2. \A i : BalanceAfter(k, i)' = BalanceAfter(k, i)
      BY <2>1 DEF BalanceAfter
    <2>3. CASE stock[k].holder = s
      BY <2>1, <2>2, <2>3, NoSessionIsNotASession DEF AllBalanced, Balanced, Stored, BalanceAfter
    <2>4. CASE stock[k].holder # s
      BY <2>1, <2>2, <2>4 DEF AllBalanced, Balanced, BalanceAfter
    <2>5. QED
      BY <2>3, <2>4
  <1>2. QED
    BY <1>1 DEF AllBalanced

LEMMA BalancedRollback ==
    ASSUME Shape, AllBalanced, NEW s \in Session, Rollback(s)
    PROVE  AllBalanced'
  <1>1. ASSUME NEW k \in Key
        PROVE  Balanced(k)'
    <2>1. /\ durable' = durable
          /\ stock'[k] = IF stock[k].holder = s THEN Stored(stock[k].saved) ELSE stock[k]
          /\ ledger'[k] = IF stock[k].holder = s
                          THEN SubSeq(ledger[k], 1, durable[k]) ELSE ledger[k]
      BY DEF Rollback, RolledBack, Shape, TypeOK
    <2>2. durable[k] \in Nat /\ Len(ledger[k]) \in Nat /\ durable[k] <= Len(ledger[k])
      BY DEF Shape, TypeOK, TailIsHeld
    <2>3. CASE stock[k].holder = s
      <3>1. /\ Len(ledger'[k]) = durable[k]
            /\ \A i \in 1..durable[k] : ledger'[k][i] = ledger[k][i]
        BY <2>1, <2>3, RolledBackLedger
      <3>2. \A i \in 0..durable[k] : BalanceAfter(k, i)' = BalanceAfter(k, i)
        BY <2>2, <3>1 DEF BalanceAfter
      <3>3. stock'[k].saved = stock[k].saved /\ stock'[k].holder = NoSession
        BY <2>1, <2>3 DEF Stored
      <3>4. stock'[k].saved = BalanceAfter(k, durable[k])'
        BY <2>1, <2>2, <3>2, <3>3 DEF AllBalanced, Balanced
      <3>5. \A i \in 1..Len(ledger'[k]) :
               ledger'[k][i].balanceAfter = BalanceAfter(k, i - 1)' + ledger'[k][i].quantity
        BY <2>2, <3>1, <3>2 DEF AllBalanced, Balanced
      <3>6. QED
        BY <3>3, <3>4, <3>5 DEF Balanced
    <2>4. CASE stock[k].holder # s
      BY <2>1, <2>4 DEF AllBalanced, Balanced, BalanceAfter
    <2>5. QED
      BY <2>3, <2>4
  <1>2. QED
    BY <1>1 DEF AllBalanced

\* The steps that write no ledger entry and end no transaction.
LEMMA TablesKept ==
    ASSUME [Next]_vars,
           \A s \in Session : ~InsertEntry(s) /\ ~Commit(s) /\ ~Rollback(s)
    PROVE  UNCHANGED <<stock, ledger, durable>>
  BY ZenonT(60) DEF Next, vars, tables, BeginPosting, BeginReversal, SaveRule, LockEntry, LoadReversible,
         ReadRule, ReadStock, RaiseAlert, ResolveAlert, RefuseReversal, RefuseMovement, Abort

LEMMA BalancedNext == Shape /\ AllBalanced /\ [Next]_vars => AllBalanced'
  <1> SUFFICES ASSUME Shape, AllBalanced, [Next]_vars PROVE AllBalanced'
    OBVIOUS
  <1>1. CASE \E s \in Session : InsertEntry(s)
    BY <1>1, BalancedInsertEntry
  <1>2. CASE \E s \in Session : Commit(s)
    BY <1>2, BalancedCommit
  <1>3. CASE \E s \in Session : Rollback(s)
    BY <1>3, BalancedRollback
  <1>4. CASE \A s \in Session : ~InsertEntry(s) /\ ~Commit(s) /\ ~Rollback(s)
    BY <1>4, TablesKept DEF AllBalanced, Balanced, BalanceAfter
  <1>5. QED
    BY <1>1, <1>2, <1>3, <1>4

\* However many sessions post, reverse, fail and roll back, the committed stock
\* of a key is the balance of its last committed ledger entry, and each entry's
\* balance is the previous one plus its quantity: v_stock_balance_drift is
\* empty (ledger.service.ts, stock-balance.ts).
THEOREM RunningBalanceHolds == Spec => []RunningBalance
  <1>1. Shape /\ AllBalanced => RunningBalance
    <2> SUFFICES ASSUME Shape, AllBalanced, NEW k \in Key
                 PROVE  /\ durable[k] <= Len(ledger[k])
                        /\ stock[k].saved = BalanceAfter(k, durable[k])
                        /\ \A i \in 1..durable[k] :
                              ledger[k][i].balanceAfter = BalanceAfter(k, i - 1) + ledger[k][i].quantity
      BY DEF RunningBalance
    <2>1. durable[k] \in Nat /\ Len(ledger[k]) \in Nat /\ durable[k] <= Len(ledger[k])
      BY DEF Shape, TypeOK, TailIsHeld
    <2>2. QED
      BY <2>1 DEF AllBalanced, Balanced
  <1>2. QED
    BY <1>1, ShapeAlways, BalancedInit, BalancedNext, PTL DEF Spec

-----------------------------------------------------------------------------
(***************************************************************************)
(* Reversals.  A loaded counter-movement mirrors a committed entry, which  *)
(* no longer changes; the test on reverses_entry_id sees the whole ledger  *)
(* of the key once the stock row is free for the inserting session.        *)
(***************************************************************************)

\* A movement or entry r of key k is a reversal exactly if it points at an
\* entry, which lies within the first bound ones and which it mirrors.
Mirrors(k, r, bound) ==
    /\ (r.type = "REVERSAL") = (r.reverses # NoEntry)
    /\ r.type = "REVERSAL" =>
          /\ r.reverses \in 1..bound
          /\ ledger[k][r.reverses].type # "REVERSAL"
          /\ r.quantity = -ledger[k][r.reverses].quantity

PlansMirror ==
    \A s \in Session : \A i \in DOMAIN plan[s] :
        Mirrors(plan[s][i].key, plan[s][i], durable[plan[s][i].key])

LedgerMirrors ==
    \A k \in Key : \A i \in 1..Len(ledger[k]) :
        /\ Mirrors(k, ledger[k][i], i - 1)
        /\ ledger[k][i].type = "REVERSAL" =>
              \A j \in 1..(i - 1) : ledger[k][j].reverses # ledger[k][i].reverses

Reversals == PlansMirror /\ LedgerMirrors

LEMMA ReversalsInit == Init => Reversals
  BY DEF Init, Reversals, PlansMirror, LedgerMirrors

\* A mirror of a committed entry stays one while the committed entries stay.
LEMMA MirrorsKept ==
    ASSUME NEW k \in Key, NEW r, NEW b \in Nat, NEW c \in Nat, b <= c, Mirrors(k, r, b),
           \A i \in 1..b : ledger'[k][i] = ledger[k][i]
    PROVE  /\ (r.type = "REVERSAL") = (r.reverses # NoEntry)
           /\ r.type = "REVERSAL" =>
                 /\ r.reverses \in 1..c
                 /\ ledger'[k][r.reverses].type # "REVERSAL"
                 /\ r.quantity = -ledger'[k][r.reverses].quantity
  BY DEF Mirrors

\* Plans stay good in every step that keeps the committed entries and, for a
\* session that changes its plan, adds only movements that mirror.
LEMMA PlansMirrorKept ==
    ASSUME Shape, Shape', Reversals,
           \A k \in Key : /\ durable[k] <= durable'[k]
                          /\ \A i \in 1..durable[k] : ledger'[k][i] = ledger[k][i],
           \A t \in Session : \A i \in DOMAIN plan'[t] :
              \/ i \in DOMAIN plan[t] /\ plan'[t][i] = plan[t][i]
              \/ Mirrors(plan'[t][i].key, plan'[t][i], durable[plan'[t][i].key])
    PROVE  PlansMirror'
  <1>1. ASSUME NEW t \in Session, NEW i \in DOMAIN plan'[t]
        PROVE  Mirrors(plan[t][i].key, plan[t][i], durable[plan[t][i].key])'
    <2> DEFINE m == plan'[t][i]
               k == m.key
    <2>1. m \in Movement
      BY ElementOfSeq, LenProperties DEF Shape, TypeOK
    <2>2. k \in Key
      BY <2>1 DEF Movement
    <2>3. Mirrors(k, m, durable[k])
      BY DEF Reversals, PlansMirror
    <2>4. durable[k] \in Nat /\ durable'[k] \in Nat
      BY <2>2 DEF Shape, TypeOK
    <2>5. durable[k] <= durable'[k] /\ \A j \in 1..durable[k] : ledger'[k][j] = ledger[k][j]
      BY <2>2
    <2> HIDE DEF m
    <2>6. /\ (m.type = "REVERSAL") = (m.reverses # NoEntry)
          /\ m.type = "REVERSAL" =>
                /\ m.reverses \in 1..durable'[k]
                /\ ledger'[k][m.reverses].type # "REVERSAL"
                /\ m.quantity = -ledger'[k][m.reverses].quantity
      BY <2>2, <2>3, <2>4, <2>5, MirrorsKept
    <2>7. QED
      BY <2>6 DEF m, Mirrors
  <1>2. QED
    BY <1>1 DEF PlansMirror

LEMMA PostingMirrors ==
    ASSUME Shape, Shape', Reversals, NEW s \in Session, NEW d \in Doc, BeginPosting(s, d)
    PROVE  Reversals'
  <1>1. /\ plan' = [plan EXCEPT ![s] = Movements(d)]
        /\ UNCHANGED <<ledger, durable>>
    BY DEF BeginPosting, tables
  <1>2. ASSUME NEW i \in DOMAIN Movements(d)
        PROVE  Mirrors(Movements(d)[i].key, Movements(d)[i], durable[Movements(d)[i].key])
    <2>1. i \in DOMAIN Lines[d]
      BY DEF Movements
    <2>2. Lines[d][i].type # "REVERSAL"
      <3> DEFINE Line == [key : Key, type : MovementType \ {"REVERSAL"}, quantity : Int]
      <3>1. Lines[d] \in Seq(Line)
        BY PostingAssumption
      <3>2. /\ i \in 1..Len(Lines[d])
            /\ Lines[d][i] \in Line
        <4> HIDE DEF Line
        <4>1. i \in 1..Len(Lines[d])
          BY <2>1, <3>1, LenProperties
        <4>2. QED
          BY <3>1, <4>1, ElementOfSeq
      <3>3. QED
        BY <3>2
    <2>3. Movements(d)[i].type = Lines[d][i].type /\ Movements(d)[i].reverses = NoEntry
      BY <2>1 DEF Movements
    <2>4. QED
      BY <2>2, <2>3 DEF Mirrors
  <1>3. \A t \in Session : \A i \in DOMAIN plan'[t] :
           \/ i \in DOMAIN plan[t] /\ plan'[t][i] = plan[t][i]
           \/ Mirrors(plan'[t][i].key, plan'[t][i], durable[plan'[t][i].key])
    BY <1>1, <1>2 DEF Shape, TypeOK
  <1>4. \A k \in Key : /\ durable[k] <= durable'[k]
                       /\ \A i \in 1..durable[k] : ledger'[k][i] = ledger[k][i]
    BY <1>1 DEF Shape, TypeOK
  <1>5. PlansMirror'
    BY <1>3, <1>4, PlansMirrorKept
  <1>6. LedgerMirrors'
    BY <1>1 DEF Reversals, LedgerMirrors, Mirrors
  <1>7. QED
    BY <1>5, <1>6 DEF Reversals

LEMMA LoadedMirrors ==
    ASSUME Shape, Shape', Reversals, NEW s \in Session, LoadReversible(s)
    PROVE  Reversals'
  <1> DEFINE id == Head(targets[s])
             m == CounterMovement(id)
  <1>1. /\ plan' = [plan EXCEPT ![s] = Append(plan[s], m)]
        /\ UNCHANGED <<ledger, durable>>
        /\ EntryAt(id).type # "REVERSAL"
        /\ pc[s] = "check"
    BY DEF LoadReversible, Reversible, tables
  <1>2. /\ id \in Key \X Nat
        /\ id[2] \in 1..durable[id[1]]
        /\ EntryAt(id) \in Entry
    BY <1>1, HeadCommitted
  <1>3. Mirrors(m.key, m, durable[m.key])
    <2>1. /\ m.key = id[1] /\ m.type = "REVERSAL" /\ m.reverses = id[2]
          /\ m.quantity = -EntryAt(id).quantity
      BY DEF CounterMovement
    <2>2. EntryAt(id) = ledger[m.key][m.reverses] /\ m.reverses \in 1..durable[m.key]
      BY <1>2, <2>1 DEF EntryAt
    <2>3. m.reverses # NoEntry
      BY <2>2 DEF NoEntry
    <2> HIDE DEF m, id
    <2>4. QED
      BY <1>1, <2>1, <2>2, <2>3 DEF Mirrors
  <1> HIDE DEF m
  <1>4. \A i \in DOMAIN Append(plan[s], m) :
           \/ i \in DOMAIN plan[s] /\ Append(plan[s], m)[i] = plan[s][i]
           \/ Append(plan[s], m)[i] = m
    <2>1. plan[s] \in Seq(Movement)
      BY DEF Shape, TypeOK
    <2>2. DOMAIN plan[s] = 1..Len(plan[s]) /\ Len(plan[s]) \in Nat
      BY <2>1, LenProperties
    <2>3. QED
      BY <2>1, <2>2
  <1>5. \A t \in Session : \A i \in DOMAIN plan'[t] :
           \/ i \in DOMAIN plan[t] /\ plan'[t][i] = plan[t][i]
           \/ Mirrors(plan'[t][i].key, plan'[t][i], durable[plan'[t][i].key])
    <2> SUFFICES ASSUME NEW t \in Session, NEW i \in DOMAIN plan'[t]
                 PROVE  \/ i \in DOMAIN plan[t] /\ plan'[t][i] = plan[t][i]
                        \/ Mirrors(plan'[t][i].key, plan'[t][i], durable[plan'[t][i].key])
      OBVIOUS
    <2>1. CASE t = s
      <3>1. plan'[t] = Append(plan[s], m)
        BY <1>1, <2>1 DEF Shape, TypeOK
      <3>2. QED
        BY <1>3, <1>4, <2>1, <3>1
    <2>2. CASE t # s
      BY <1>1, <2>2 DEF Shape, TypeOK
    <2>3. QED
      BY <2>1, <2>2
  <1>6. \A k \in Key : /\ durable[k] <= durable'[k]
                       /\ \A i \in 1..durable[k] : ledger'[k][i] = ledger[k][i]
    BY <1>1 DEF Shape, TypeOK
  <1>7. PlansMirror'
    BY <1>5, <1>6, PlansMirrorKept
  <1>8. LedgerMirrors'
    BY <1>1 DEF Reversals, LedgerMirrors, Mirrors
  <1>9. QED
    BY <1>7, <1>8 DEF Reversals

\* The unique index makes the inserted reversal the only one of its entry.
LEMMA InsertedMirrors ==
    ASSUME Shape, Shape', Reversals, NEW s \in Session, InsertEntry(s)
    PROVE  Reversals'
  <1>1. PICK i \in todo[s] :
          LET m == plan[s][i]
              after == View(stock[m.key], s) + m.quantity
          IN  /\ Accepted(s, m)
              /\ Free(stock[m.key], s)
              /\ ledger' = [ledger EXCEPT ![m.key] = Append(@, EntryFor(m, after))]
              /\ UNCHANGED <<durable, plan>>
    BY DEF InsertEntry
  <1> DEFINE m == plan[s][i]
             entry == EntryFor(m, View(stock[m.key], s) + m.quantity)
             n == Len(ledger[m.key])
  <1>2. m \in Movement /\ m.key \in Key /\ entry \in Entry
    <2>1. m \in Movement /\ entry \in Entry
      BY <1>1, InsertedEntry
    <2>2. QED
      BY <2>1 DEF Movement
  <1>3. entry.type = m.type /\ entry.quantity = m.quantity /\ entry.reverses = m.reverses
    BY DEF EntryFor
  <1>4. Mirrors(m.key, m, durable[m.key])
    BY DEF Shape, TodoInPlan, Reversals, PlansMirror
  <1>5. m.reverses # NoEntry => \A j \in 1..n : ledger[m.key][j].reverses # m.reverses
    <2>1. Visible(s, m.key) = 1..n
      BY <1>1, <1>2 DEF Free, Visible, Shape, TailIsHeld
    <2>2. QED
      BY <1>1, <2>1 DEF Accepted, NotYetReversed, HasReversal
  <1>6. /\ ledger' = [ledger EXCEPT ![m.key] = Append(@, entry)]
        /\ UNCHANGED <<durable, plan>>
    BY <1>1
  <1> HIDE DEF m, entry
  <1>7. \A k \in Key : /\ durable[k] \in Nat /\ Len(ledger[k]) \in Nat
                       /\ durable[k] <= Len(ledger[k])
                       /\ \A j \in 1..Len(ledger[k]) : ledger'[k][j] = ledger[k][j]
    BY <1>2, <1>6, AppendProperties DEF Shape, TypeOK, TailIsHeld
  <1>8. /\ Len(ledger'[m.key]) = n + 1
        /\ ledger'[m.key][n + 1] = entry
    BY <1>2, <1>6, AppendProperties DEF Shape, TypeOK
  <1>9. PlansMirror'
    <2>1. \A k \in Key : /\ durable[k] <= durable'[k]
                         /\ \A j \in 1..durable[k] : ledger'[k][j] = ledger[k][j]
      BY <1>6, <1>7
    <2>2. QED
      BY <1>6, <2>1, PlansMirrorKept
  <1>10. ASSUME NEW k \in Key, NEW j \in 1..Len(ledger'[k])
         PROVE  /\ Mirrors(k, ledger[k][j], j - 1)'
                /\ ledger'[k][j].type = "REVERSAL" =>
                      \A h \in 1..(j - 1) : ledger'[k][h].reverses # ledger'[k][j].reverses
    <2>1. CASE j \in 1..Len(ledger[k])
      <3>1. /\ Mirrors(k, ledger[k][j], j - 1)
            /\ ledger[k][j].type = "REVERSAL" =>
                  \A h \in 1..(j - 1) : ledger[k][h].reverses # ledger[k][j].reverses
        BY <2>1 DEF Reversals, LedgerMirrors
      <3>2. \A h \in 1..(j - 1) : ledger'[k][h] = ledger[k][h]
        BY <1>7, <2>1
      <3>3. ledger'[k][j] = ledger[k][j] /\ j - 1 \in Nat
        BY <1>7, <2>1
      <3>4. QED
        BY <3>1, <3>2, <3>3 DEF Mirrors
    <2>2. CASE j \notin 1..Len(ledger[k])
      <3>1. k = m.key
        BY <1>6, <2>2 DEF Shape, TypeOK
      <3>2. j = n + 1 /\ ledger'[k][j] = entry
        BY <1>7, <1>8, <2>2, <3>1
      <3>3. \A h \in 1..n : ledger'[k][h] = ledger[k][h]
        BY <1>7, <3>1
      <3>4. entry.type = "REVERSAL" =>
               /\ entry.reverses \in 1..n
               /\ ledger'[k][entry.reverses].type # "REVERSAL"
               /\ entry.quantity = -ledger'[k][entry.reverses].quantity
        BY SMTT(60), <1>2, <1>3, <1>4, <1>7, <3>1, <3>3 DEF Mirrors
      <3>5. (entry.type = "REVERSAL") = (entry.reverses # NoEntry)
        BY <1>3, <1>4 DEF Mirrors
      <3>6. entry.type = "REVERSAL" => \A h \in 1..n : ledger'[k][h].reverses # entry.reverses
        BY <1>3, <1>5, <3>1, <3>3, <3>5
      <3>7. j - 1 = n
        BY <1>2, <1>7, <3>2
      <3>8. QED
        BY <3>2, <3>4, <3>5, <3>6, <3>7 DEF Mirrors
    <2>3. QED
      BY <2>1, <2>2
  <1>11. LedgerMirrors'
    BY <1>10 DEF LedgerMirrors
  <1>12. QED
    BY <1>9, <1>11 DEF Reversals

LEMMA CommittedMirrors ==
    ASSUME Shape, Shape', Reversals, NEW s \in Session, Commit(s)
    PROVE  Reversals'
  <1>1. ledger' = ledger /\ plan' = [plan EXCEPT ![s] = <<>>]
    BY DEF Commit, Release
  <1>2. \A k \in Key : durable[k] <= durable'[k]
    BY DEF Commit, Shape, TypeOK, TailIsHeld
  <1>3. \A t \in Session : \A i \in DOMAIN plan'[t] :
           i \in DOMAIN plan[t] /\ plan'[t][i] = plan[t][i]
    BY <1>1 DEF Shape, TypeOK
  <1>4. PlansMirror'
    BY <1>1, <1>2, <1>3, PlansMirrorKept
  <1>5. LedgerMirrors'
    BY <1>1 DEF Reversals, LedgerMirrors, Mirrors
  <1>6. QED
    BY <1>4, <1>5 DEF Reversals

LEMMA RolledBackMirrors ==
    ASSUME Shape, Shape', Reversals, NEW s \in Session, Rollback(s)
    PROVE  Reversals'
  <1>1. durable' = durable /\ plan' = [plan EXCEPT ![s] = <<>>]
    BY DEF Rollback, Release
  <1>2. ASSUME NEW k \in Key
        PROVE  /\ durable[k] \in Nat
               /\ Len(ledger'[k]) \in Nat
               /\ durable[k] <= Len(ledger'[k]) /\ Len(ledger'[k]) <= Len(ledger[k])
               /\ \A i \in 1..Len(ledger'[k]) : ledger'[k][i] = ledger[k][i]
    <2>1. durable[k] \in Nat /\ Len(ledger[k]) \in Nat /\ durable[k] <= Len(ledger[k])
      BY DEF Shape, TypeOK, TailIsHeld
    <2>2. ledger'[k] = IF stock[k].holder = s
                       THEN SubSeq(ledger[k], 1, durable[k]) ELSE ledger[k]
      BY DEF Rollback
    <2>3. CASE stock[k].holder = s
      BY <2>1, <2>2, <2>3, RolledBackLedger
    <2>4. CASE stock[k].holder # s
      BY <2>1, <2>2, <2>4
    <2>5. QED
      BY <2>3, <2>4
  <1>3. \A t \in Session : \A i \in DOMAIN plan'[t] :
           i \in DOMAIN plan[t] /\ plan'[t][i] = plan[t][i]
    BY <1>1 DEF Shape, TypeOK
  <1>4. \A k \in Key : /\ durable[k] <= durable'[k]
                       /\ \A i \in 1..durable[k] : ledger'[k][i] = ledger[k][i]
    BY <1>1, <1>2
  <1>5. PlansMirror'
    BY <1>3, <1>4, PlansMirrorKept
  <1>6. ASSUME NEW k \in Key, NEW j \in 1..Len(ledger'[k])
        PROVE  /\ Mirrors(k, ledger[k][j], j - 1)'
               /\ ledger'[k][j].type = "REVERSAL" =>
                     \A h \in 1..(j - 1) : ledger'[k][h].reverses # ledger'[k][j].reverses
    <2>1. j \in 1..Len(ledger[k]) /\ ledger'[k][j] = ledger[k][j]
      BY <1>2
    <2>2. \A h \in 1..(j - 1) : ledger'[k][h] = ledger[k][h]
      BY <1>2
    <2>3. /\ Mirrors(k, ledger[k][j], j - 1)
          /\ ledger[k][j].type = "REVERSAL" =>
                \A h \in 1..(j - 1) : ledger[k][h].reverses # ledger[k][j].reverses
      BY <2>1 DEF Reversals, LedgerMirrors
    <2>4. QED
      BY <2>1, <2>2, <2>3 DEF Mirrors
  <1>7. LedgerMirrors'
    BY <1>6 DEF LedgerMirrors
  <1>8. QED
    BY <1>5, <1>7 DEF Reversals

\* The steps that change neither a plan nor the ledger.
LEMMA PlansKept ==
    ASSUME [Next]_vars,
           \A s \in Session : /\ \A d \in Doc : ~BeginPosting(s, d)
                              /\ ~LoadReversible(s)
                              /\ ~InsertEntry(s)
                              /\ ~Commit(s)
                              /\ ~Rollback(s)
    PROVE  UNCHANGED <<ledger, durable, plan>>
  BY ZenonT(60) DEF Next, vars, tables, request, BeginReversal, SaveRule, LockEntry,
         ReadRule, ReadStock, RaiseAlert, ResolveAlert, RefuseReversal, RefuseMovement, Abort

LEMMA ReversalsNext == Shape /\ Reversals /\ [Next]_vars => Reversals'
  <1> SUFFICES ASSUME Shape, Reversals, [Next]_vars PROVE Reversals'
    OBVIOUS
  <1>1. Shape'
    BY ShapeNext
  <1>2. CASE \E s \in Session : \E d \in Doc : BeginPosting(s, d)
    BY <1>1, <1>2, PostingMirrors
  <1>3. CASE \E s \in Session : LoadReversible(s)
    BY <1>1, <1>3, LoadedMirrors
  <1>4. CASE \E s \in Session : InsertEntry(s)
    BY <1>1, <1>4, InsertedMirrors
  <1>5. CASE \E s \in Session : Commit(s)
    BY <1>1, <1>5, CommittedMirrors
  <1>6. CASE \E s \in Session : Rollback(s)
    BY <1>1, <1>6, RolledBackMirrors
  <1>7. CASE \A s \in Session : /\ \A d \in Doc : ~BeginPosting(s, d)
                                /\ ~LoadReversible(s)
                                /\ ~InsertEntry(s)
                                /\ ~Commit(s)
                                /\ ~Rollback(s)
    <2>1. UNCHANGED <<ledger, durable, plan>>
      BY <1>7, PlansKept
    <2>2. PlansMirror' = PlansMirror
      BY <2>1 DEF PlansMirror, Mirrors
    <2>3. LedgerMirrors' = LedgerMirrors
      BY <2>1 DEF LedgerMirrors, Mirrors
    <2>4. QED
      BY <2>2, <2>3 DEF Reversals
  <1>8. QED
    BY <1>2, <1>3, <1>4, <1>5, <1>6, <1>7

\* However many sessions reverse the same entry, one REVERSAL of it commits at
\* most, it mirrors the entry exactly, and no reversal is ever reversed.
THEOREM ReversedOnceHolds == Spec => []ReversedOnce
  <1>1. Shape /\ Reversals => ReversedOnce
    <2> SUFFICES ASSUME Shape, Reversals, NEW k \in Key, NEW i \in 1..durable[k]
                 PROVE  /\ (ledger[k][i].type = "REVERSAL") = (ledger[k][i].reverses # NoEntry)
                        /\ ledger[k][i].type = "REVERSAL" =>
                              /\ ledger[k][i].reverses \in 1..(i - 1)
                              /\ ledger[k][ledger[k][i].reverses].type # "REVERSAL"
                              /\ ledger[k][i].quantity = -ledger[k][ledger[k][i].reverses].quantity
                              /\ \A j \in 1..(i - 1) : ledger[k][j].reverses # ledger[k][i].reverses
      BY DEF ReversedOnce
    <2>1. i \in 1..Len(ledger[k])
      BY DEF Shape, TypeOK, TailIsHeld
    <2>2. QED
      BY <2>1 DEF Reversals, LedgerMirrors, Mirrors
  <1>2. QED
    BY <1>1, ShapeAlways, ReversalsInit, ReversalsNext, PTL DEF Spec

-----------------------------------------------------------------------------
(***************************************************************************)
(* Lock order.  A session locks ledger entries while it holds no stock     *)
(* row, the TRANSFER_OUT leg before the TRANSFER_IN leg, and takes stock   *)
(* rows in ascending key order within a call of postMovements.  So who     *)
(* waits for a stock row of a session that is in its first call waits for  *)
(* one that at most waits for a later row: no circle closes among those.   *)
(***************************************************************************)

IsOut(id) == EntryAt(id).type = "TRANSFER_OUT"
IsIn(id) == EntryAt(id).type = "TRANSFER_IN"

EntriesBeforeStock(s) ==
    /\ pc[s] \in {"idle", "lock", "check"} => \A k \in Key : stock[k].holder # s
    /\ pc[s] = "idle" => locked[s] = {}
    /\ \A x \in locked[s] : x[2] \in 1..durable[x[1]]

OutLegFirst(s) ==
    /\ pc[s] = "lock" /\ locked[s] # {} =>
          IsIn(Head(targets[s])) /\ \A x \in locked[s] : IsOut(x)
    /\ pc[s] \in {"lock", "check"} /\ Len(targets[s]) # 1 =>
          /\ Len(targets[s]) = 2
          /\ IsOut(targets[s][1]) /\ IsIn(targets[s][2])
          /\ locked[s] = IF pc[s] = "lock" THEN {} ELSE {targets[s][1]}

StockInKeyOrder(s) ==
    pc[s] = "move" /\ ~BetweenCalls(s) =>
        \A k \in Key : stock[k].holder = s =>
            \A i \in todo[s] : NextInKeyOrder(s, i) => k <= plan[s][i].key

\* Alerts are evaluated when a call of postMovements has nothing left to insert.
CallDone(s) ==
    /\ pc[s] = "idle" => todo[s] = {}
    /\ pc[s] \in {"rule", "sum", "alert"} => todo[s] = {} \/ BetweenCalls(s)

Ordered(s) ==
    EntriesBeforeStock(s) /\ OutLegFirst(s) /\ StockInKeyOrder(s) /\ CallDone(s)

AllOrdered == \A s \in Session : Ordered(s)

\* What is committed stays as it is.
CommittedStays ==
    \A k \in Key : /\ durable[k] <= durable'[k]
                   /\ \A i \in 1..durable[k] : ledger'[k][i] = ledger[k][i]

LEMMA CommittedKept == Shape /\ [Next]_vars => CommittedStays
  <1> SUFFICES ASSUME Shape, [Next]_vars, NEW k \in Key
               PROVE  /\ durable[k] <= durable'[k]
                      /\ \A i \in 1..durable[k] : ledger'[k][i] = ledger[k][i]
    BY DEF CommittedStays
  <1>1. /\ ledger[k] \in Seq(Entry) /\ Len(ledger[k]) \in Nat
        /\ durable[k] \in Nat /\ durable[k] <= Len(ledger[k])
    BY DEF Shape, TypeOK, TailIsHeld
  <1>2. CASE \E s \in Session : InsertEntry(s)
    <2>1. PICK s \in Session : InsertEntry(s)
      BY <1>2
    <2>2. PICK i \in todo[s] :
             LET m == plan[s][i]
                 after == View(stock[m.key], s) + m.quantity
             IN  /\ Accepted(s, m)
                 /\ ledger' = [ledger EXCEPT ![m.key] = Append(@, EntryFor(m, after))]
                 /\ durable' = durable
      BY <2>1 DEF InsertEntry
    <2> DEFINE m == plan[s][i]
               e == EntryFor(m, View(stock[m.key], s) + m.quantity)
    <2>3. e \in Entry /\ m.key \in Key
      <3>1. e \in Entry /\ m \in Movement
        BY <2>2, InsertedEntry
      <3>2. QED
        BY <3>1 DEF Movement
    <2>4. /\ ledger' = [ledger EXCEPT ![m.key] = Append(@, e)]
          /\ durable' = durable
      BY <2>2
    <2> HIDE DEF m, e
    <2>5. CASE k = m.key
      <3>1. ledger'[k] = Append(ledger[k], e)
        BY <2>3, <2>4, <2>5 DEF Shape, TypeOK
      <3>2. QED
        BY <1>1, <2>3, <2>4, <3>1, AppendProperties
    <2>6. CASE k # m.key
      BY <1>1, <2>4, <2>6 DEF Shape, TypeOK
    <2>7. QED
      BY <2>5, <2>6
  <1>3. CASE \E s \in Session : Commit(s)
    BY <1>1, <1>3 DEF Commit
  <1>4. CASE \E s \in Session : Rollback(s)
    <2>1. PICK s \in Session : Rollback(s)
      BY <1>4
    <2>2. /\ durable' = durable
          /\ ledger'[k] = IF stock[k].holder = s
                          THEN SubSeq(ledger[k], 1, durable[k]) ELSE ledger[k]
      BY <2>1 DEF Rollback
    <2>3. QED
      BY <1>1, <2>2, RolledBackLedger
  <1>5. CASE \A s \in Session : ~InsertEntry(s) /\ ~Commit(s) /\ ~Rollback(s)
    BY <1>1, <1>5, TablesKept
  <1>6. QED
    BY <1>2, <1>3, <1>4, <1>5

\* A session that does nothing stays in order.
LEMMA OthersOrdered ==
    ASSUME Shape, Shape', CommittedStays, NEW t \in Session, Ordered(t),
           pc'[t] = pc[t], plan'[t] = plan[t], todo'[t] = todo[t],
           targets'[t] = targets[t], locked'[t] = locked[t],
           \A k \in Key : stock'[k].holder = t => stock[k].holder = t
    PROVE  Ordered(t)'
  <1>1. \A x \in Key \X Nat : x[2] \in 1..durable[x[1]] =>
           EntryAt(x)' = EntryAt(x) /\ x[2] \in 1..durable'[x[1]]
    <2> SUFFICES ASSUME NEW x \in Key \X Nat, x[2] \in 1..durable[x[1]]
                 PROVE  EntryAt(x)' = EntryAt(x) /\ x[2] \in 1..durable'[x[1]]
      OBVIOUS
    <2>1. x[1] \in Key /\ durable[x[1]] \in Nat /\ durable'[x[1]] \in Nat
      BY DEF Shape, TypeOK
    <2>2. durable[x[1]] <= durable'[x[1]] /\ ledger'[x[1]][x[2]] = ledger[x[1]][x[2]]
      BY <2>1 DEF CommittedStays
    <2>3. QED
      BY <2>1, <2>2 DEF EntryAt
  <1>2. \A x \in locked[t] : x \in Key \X Nat
    BY DEF Shape, TypeOK
  <1>3. EntriesBeforeStock(t)'
    BY <1>1, <1>2 DEF Ordered, EntriesBeforeStock
  <1>4. StockInKeyOrder(t)' /\ CallDone(t)'
    <2>1. /\ BetweenCalls(t)' = BetweenCalls(t)
          /\ \A i : NextInKeyOrder(t, i)' = NextInKeyOrder(t, i)
      BY DEF BetweenCalls, NextInKeyOrder, CallOf
    <2>2. QED
      BY <2>1 DEF Ordered, StockInKeyOrder, CallDone
  <1>5. OutLegFirst(t)'
    <2>1. \A x \in locked[t] : IsOut(x)' = IsOut(x)
      BY <1>1, <1>2 DEF Ordered, EntriesBeforeStock, IsOut
    <2>2. \A n \in DOMAIN targets[t] : /\ IsOut(targets[t][n])' = IsOut(targets[t][n])
                                       /\ IsIn(targets[t][n])' = IsIn(targets[t][n])
      <3>1. ASSUME NEW n \in DOMAIN targets[t]
            PROVE  EntryAt(targets[t][n])' = EntryAt(targets[t][n])
        <4>1. targets[t][n] \in Key \X Nat
          BY ElementOfSeq, LenProperties DEF Shape, TypeOK
        <4>2. targets[t][n][2] \in 1..durable[targets[t][n][1]]
          BY DEF Shape, TargetsCommitted
        <4>3. EntryAt(targets[t][n])' = ledger'[targets[t][n][1]][targets[t][n][2]]
          BY DEF EntryAt
        <4>4. QED
          BY <1>1, <4>1, <4>2, <4>3 DEF EntryAt
      <3>2. QED
        BY <3>1 DEF IsOut, IsIn
    <2>3. pc[t] \in {"lock", "check"} =>
             Head(targets[t]) = targets[t][1] /\ 1 \in DOMAIN targets[t]
      <3> SUFFICES ASSUME pc[t] \in {"lock", "check"}
                   PROVE  Head(targets[t]) = targets[t][1] /\ 1 \in DOMAIN targets[t]
        OBVIOUS
      <3>1. targets[t] \in Seq(Key \X Nat) /\ targets[t] # <<>>
        BY DEF Shape, TypeOK, TargetsCommitted
      <3>2. QED
        BY <3>1
    <2>4. pc[t] = "lock" /\ locked[t] # {} =>
             IsIn(Head(targets[t]))' /\ \A x \in locked[t] : IsOut(x)'
      <3> SUFFICES ASSUME pc[t] = "lock", locked[t] # {}
                   PROVE  IsIn(Head(targets[t]))' /\ \A x \in locked[t] : IsOut(x)'
        OBVIOUS
      <3>1. IsIn(targets[t][1]) /\ \A x \in locked[t] : IsOut(x)
        BY <2>3 DEF Ordered, OutLegFirst
      <3>2. Head(targets'[t]) = targets'[t][1]
        BY <2>3
      <3>3. QED
        BY <2>1, <2>2, <2>3, <3>1, <3>2 DEF IsIn, EntryAt
    <2>5. pc[t] \in {"lock", "check"} /\ Len(targets[t]) # 1 =>
             /\ Len(targets[t]) = 2
             /\ IsOut(targets[t][1])' /\ IsIn(targets[t][2])'
             /\ locked[t] = IF pc[t] = "lock" THEN {} ELSE {targets[t][1]}
      <3> SUFFICES ASSUME pc[t] \in {"lock", "check"}, Len(targets[t]) # 1
                   PROVE  /\ Len(targets[t]) = 2
                          /\ IsOut(targets[t][1])' /\ IsIn(targets[t][2])'
                          /\ locked[t] = IF pc[t] = "lock" THEN {} ELSE {targets[t][1]}
        OBVIOUS
      <3>1. /\ Len(targets[t]) = 2
            /\ IsOut(targets[t][1]) /\ IsIn(targets[t][2])
            /\ locked[t] = IF pc[t] = "lock" THEN {} ELSE {targets[t][1]}
        BY DEF Ordered, OutLegFirst
      <3>2. DOMAIN targets[t] = 1..2
        <4>1. targets[t] \in Seq(Key \X Nat)
          BY DEF Shape, TypeOK
        <4>2. QED
          BY <3>1, <4>1, LenProperties
      <3>3. QED
        BY <2>2, <3>1, <3>2
    <2>6. QED
      BY <2>4, <2>5 DEF OutLegFirst
  <1>6. QED
    BY <1>3, <1>4, <1>5 DEF Ordered

\* A step of s leaves the other sessions, and the rows they hold, alone.
ActsAlone(s) ==
    \A t \in Session \ {s} :
        /\ pc'[t] = pc[t] /\ plan'[t] = plan[t] /\ todo'[t] = todo[t]
        /\ targets'[t] = targets[t] /\ locked'[t] = locked[t]
        /\ \A k \in Key : stock'[k].holder = t => stock[k].holder = t

LEMMA OrderedAfter ==
    ASSUME Shape, Shape', CommittedStays, AllOrdered, NEW s \in Session,
           ActsAlone(s), Ordered(s)'
    PROVE  AllOrdered'
  <1>1. ASSUME NEW t \in Session PROVE Ordered(t)'
    <2>1. CASE t = s
      BY <2>1
    <2>2. CASE t # s
      BY <2>2, OthersOrdered DEF AllOrdered, ActsAlone
    <2>3. QED
      BY <2>1, <2>2
  <1>2. QED
    BY <1>1 DEF AllOrdered

LEMMA OrderedInit == Init => AllOrdered
  BY NoSessionIsNotASession
     DEF Init, AllOrdered, Ordered, EntriesBeforeStock, OutLegFirst, StockInKeyOrder,
         CallDone, Stored

LEMMA OrderedBeginPosting ==
    ASSUME Shape, AllOrdered, NEW s \in Session, NEW d \in Doc, BeginPosting(s, d)
    PROVE  ActsAlone(s) /\ Ordered(s)'
  <1>1. ActsAlone(s)
    BY DEF BeginPosting, ActsAlone, tables, Shape, TypeOK
  <1>2. /\ pc[s] = "idle" /\ pc'[s] = "move"
        /\ UNCHANGED <<stock, locked>>
    BY DEF BeginPosting, tables, Shape, TypeOK
  <1>3. locked[s] = {} /\ \A k \in Key : stock[k].holder # s
    BY <1>2 DEF AllOrdered, Ordered, EntriesBeforeStock
  <1>4. Ordered(s)'
    BY <1>2, <1>3 DEF Ordered, EntriesBeforeStock, OutLegFirst, StockInKeyOrder, CallDone
  <1>5. QED
    BY <1>1, <1>4

LEMMA OrderedBeginReversal ==
    ASSUME Shape, AllOrdered, NEW s \in Session, NEW id \in CommittedId, BeginReversal(s, id)
    PROVE  ActsAlone(s) /\ Ordered(s)'
  <1>1. PICK ids \in EntriesToReverse(id) : targets' = [targets EXCEPT ![s] = ids]
    BY DEF BeginReversal
  <1>2. /\ pc[s] = "idle" /\ pc' = [pc EXCEPT ![s] = "lock"]
        /\ UNCHANGED <<stock, ledger, plan, todo, locked>>
    BY DEF BeginReversal, tables
  <1>3. ActsAlone(s)
    BY <1>1, <1>2 DEF ActsAlone, Shape, TypeOK
  <1>4. /\ pc'[s] = "lock" /\ locked'[s] = {} /\ targets'[s] = ids
        /\ \A k \in Key : stock'[k].holder # s
    BY <1>1, <1>2 DEF AllOrdered, Ordered, EntriesBeforeStock, Shape, TypeOK
  <1>5. Len(ids) # 1 => Len(ids) = 2 /\ IsOut(ids[1]) /\ IsIn(ids[2])
    <2>1. CASE EntryAt(id).type \in {"TRANSFER_OUT", "TRANSFER_IN"}
      <3>1. /\ ids \in CommittedId \X CommittedId
            /\ AreLegs(ids[1], ids[2])
        BY <2>1 DEF EntriesToReverse
      <3>2. Len(ids) = 2
        BY <3>1
      <3>3. QED
        BY <3>1, <3>2 DEF AreLegs, IsOut, IsIn
    <2>2. CASE ~(EntryAt(id).type \in {"TRANSFER_OUT", "TRANSFER_IN"})
      BY <2>2 DEF EntriesToReverse
    <2>3. QED
      BY <2>1, <2>2
  <1>6. \A x : IsOut(x)' = IsOut(x) /\ IsIn(x)' = IsIn(x)
    BY <1>2 DEF IsOut, IsIn, EntryAt
  <1>7. Ordered(s)'
    BY <1>4, <1>5, <1>6 DEF Ordered, EntriesBeforeStock, OutLegFirst, StockInKeyOrder,
                            CallDone, IsOut, IsIn, EntryAt
  <1>8. QED
    BY <1>3, <1>7

LEMMA OrderedSaveRule ==
    ASSUME Shape, AllOrdered, NEW s \in Session, NEW p \in Pair, NEW lvl \in Level,
           SaveRule(s, p, lvl)
    PROVE  ActsAlone(s) /\ Ordered(s)'
  <1>1. ActsAlone(s)
    BY DEF SaveRule, ActsAlone, Shape, TypeOK
  <1>2. /\ pc[s] = "idle" /\ pc'[s] \in {"alert", "sum"}
        /\ UNCHANGED <<stock, todo, locked>>
    BY DEF SaveRule, Shape, TypeOK
  <1>3. locked[s] = {} /\ todo[s] = {} /\ \A k \in Key : stock[k].holder # s
    BY <1>2 DEF AllOrdered, Ordered, EntriesBeforeStock, CallDone
  <1>4. Ordered(s)'
    BY <1>2, <1>3 DEF Ordered, EntriesBeforeStock, OutLegFirst, StockInKeyOrder, CallDone
  <1>5. QED
    BY <1>1, <1>4

LEMMA OrderedLockEntry ==
    ASSUME Shape, AllOrdered, NEW s \in Session, LockEntry(s)
    PROVE  ActsAlone(s) /\ Ordered(s)'
  <1>1. /\ pc[s] = "lock"
        /\ locked' = [locked EXCEPT ![s] = @ \cup {Head(targets[s])}]
        /\ pc' = [pc EXCEPT ![s] = "check"]
        /\ UNCHANGED <<stock, ledger, durable, plan, todo, targets>>
    BY DEF LockEntry, tables
  <1>2. ActsAlone(s)
    BY <1>1 DEF ActsAlone, Shape, TypeOK
  <1>3. /\ Head(targets[s]) = targets[s][1]
        /\ Head(targets[s])[2] \in 1..durable[Head(targets[s])[1]]
    BY <1>1, HeadCommitted
  <1>4. pc'[s] = "check" /\ locked'[s] = locked[s] \cup {targets[s][1]}
    BY <1>1, <1>3 DEF Shape, TypeOK
  <1>5. Ordered(s)
    BY DEF AllOrdered
  <1>6. EntriesBeforeStock(s)'
    BY <1>1, <1>3, <1>4, <1>5 DEF Ordered, EntriesBeforeStock
  <1>7. Len(targets[s]) # 1 =>
          /\ Len(targets[s]) = 2
          /\ IsOut(targets[s][1]) /\ IsIn(targets[s][2])
          /\ locked[s] = {}
    BY <1>1, <1>5 DEF Ordered, OutLegFirst
  <1>8. OutLegFirst(s)'
    BY <1>1, <1>4, <1>7 DEF OutLegFirst, IsOut, IsIn, EntryAt
  <1>9. StockInKeyOrder(s)' /\ CallDone(s)'
    BY <1>4 DEF StockInKeyOrder, CallDone
  <1>10. QED
    BY <1>2, <1>6, <1>8, <1>9 DEF Ordered

LEMMA OrderedLoadReversible ==
    ASSUME Shape, AllOrdered, NEW s \in Session, LoadReversible(s)
    PROVE  ActsAlone(s) /\ Ordered(s)'
  <1>1. /\ pc[s] = "check"
        /\ targets' = [targets EXCEPT ![s] = Tail(@)]
        /\ pc' = [pc EXCEPT ![s] = IF Len(targets[s]) = 1 THEN "move" ELSE "lock"]
        /\ UNCHANGED <<stock, ledger, durable, locked>>
    BY DEF LoadReversible, tables
  <1>2. ActsAlone(s)
    BY DEF LoadReversible, ActsAlone, tables, Shape, TypeOK
  <1>3. /\ pc'[s] = IF Len(targets[s]) = 1 THEN "move" ELSE "lock"
        /\ targets'[s] = Tail(targets[s])
    BY <1>1 DEF Shape, TypeOK
  <1>4. Ordered(s)
    BY DEF AllOrdered
  <1>5. /\ \A k \in Key : stock[k].holder # s
        /\ \A x \in locked[s] : x[2] \in 1..durable[x[1]]
    BY <1>1, <1>4 DEF Ordered, EntriesBeforeStock
  <1>6. EntriesBeforeStock(s)' /\ StockInKeyOrder(s)' /\ CallDone(s)'
    BY <1>1, <1>3, <1>5 DEF EntriesBeforeStock, StockInKeyOrder, CallDone
  <1>7. OutLegFirst(s)'
    <2>1. CASE Len(targets[s]) = 1
      BY <1>3, <2>1 DEF OutLegFirst
    <2>2. CASE Len(targets[s]) # 1
      <3>1. /\ Len(targets[s]) = 2
            /\ IsOut(targets[s][1]) /\ IsIn(targets[s][2])
            /\ locked[s] = {targets[s][1]}
        BY <1>1, <1>4, <2>2 DEF Ordered, OutLegFirst
      <3>2. targets[s] \in Seq(Key \X Nat)
        BY DEF Shape, TypeOK
      <3>3. /\ targets'[s] \in Seq(Key \X Nat)
            /\ Len(targets'[s]) = 1
            /\ targets'[s][1] = targets[s][2]
        <4>1. targets[s] # <<>>
          BY <3>1
        <4>2. /\ Tail(targets[s]) \in Seq(Key \X Nat)
              /\ Len(Tail(targets[s])) = Len(targets[s]) - 1
              /\ \A n \in 1..Len(Tail(targets[s])) : Tail(targets[s])[n] = targets[s][n + 1]
          BY <3>2, <4>1, HeadTailProperties
        <4>3. QED
          BY <1>3, <3>1, <4>2
      <3>4. Len(targets'[s]) = 1 /\ Head(targets'[s]) = targets[s][2]
        BY <3>3
      <3>5. IsIn(Head(targets[s]))' /\ \A x \in locked'[s] : IsOut(x)'
        BY <1>1, <3>1, <3>4 DEF IsIn, IsOut, EntryAt
      <3>6. QED
        BY <3>4, <3>5 DEF OutLegFirst
    <2>3. QED
      BY <2>1, <2>2
  <1>8. QED
    BY <1>2, <1>6, <1>7 DEF Ordered

LEMMA CallsAreNumbers ==
    ASSUME Shape, NEW s \in Session, NEW i \in DOMAIN plan[s]
    PROVE  CallOf(s, i) \in Nat
  <1>1. plan[s][i] \in Movement
    BY ElementOfSeq, LenProperties DEF Shape, TypeOK
  <1> DEFINE d == plan[s][i].ref
             n == plan[s][i].line
  <1>2. d \in Doc /\ n \in DOMAIN Lines[d]
    BY <1>1 DEF Movement
  <1> HIDE DEF d, n
  <1>3. Call[d] \in Seq(Nat) /\ n \in DOMAIN Call[d]
    BY <1>2, PostingAssumption
  <1>4. Call[d][n] \in Nat
    BY <1>3, ElementOfSeq, LenProperties
  <1>5. QED
    BY <1>4 DEF CallOf, d, n

\* While a call has movements left, the next one belongs to it.
LEMMA NextOfCall ==
    ASSUME Shape, NEW s \in Session, NEW i \in todo[s], NextInKeyOrder(s, i),
           ~EndsCall(s, i), plan'[s] = plan[s], todo'[s] = todo[s] \ {i},
           NEW j \in todo'[s], NextInKeyOrder(s, j)'
    PROVE  CallOf(s, i) = CallOf(s, j)
  <1>1. PICK x \in todo'[s] : CallOf(s, x) = CallOf(s, i)
    BY DEF EndsCall
  <1>2. CallOf(s, j) < CallOf(s, x) \/ CallOf(s, j) = CallOf(s, x)
    BY DEF NextInKeyOrder, CallOf
  <1>3. CallOf(s, i) < CallOf(s, j) \/ CallOf(s, i) = CallOf(s, j)
    BY DEF NextInKeyOrder
  <1>4. CallOf(s, i) \in Nat /\ CallOf(s, j) \in Nat /\ CallOf(s, x) \in Nat
    BY CallsAreNumbers DEF Shape, TodoInPlan
  <1>5. QED
    BY <1>1, <1>2, <1>3, <1>4

LEMMA OrderedInsertEntry ==
    ASSUME Shape, AllOrdered, NEW s \in Session, InsertEntry(s)
    PROVE  ActsAlone(s) /\ (CommittedStays => Ordered(s)')
  <1>1. PICK i \in todo[s] :
          LET m == plan[s][i]
              after == View(stock[m.key], s) + m.quantity
          IN  /\ pc[s] = "move"
              /\ NextInKeyOrder(s, i)
              /\ Accepted(s, m)
              /\ stock' = [stock EXCEPT ![m.key] = Written(@, s, after)]
              /\ todo' = [todo EXCEPT ![s] = @ \ {i}]
              /\ IF EndsCall(s, i) THEN pc' = [pc EXCEPT ![s] = "rule"] ELSE UNCHANGED pc
              /\ UNCHANGED <<durable, plan, targets, locked>>
    BY DEF InsertEntry
  <1> DEFINE m == plan[s][i]
             after == View(stock[m.key], s) + m.quantity
  <1>2. m.key \in Key
    <2>1. m \in Movement
      BY <1>1, InsertedEntry
    <2>2. QED
      BY <2>1 DEF Movement
  <1>3. \A k \in Key : stock'[k].holder = IF k = m.key THEN s ELSE stock[k].holder
    <2>1. stock' = [stock EXCEPT ![m.key] = Written(@, s, after)]
      BY <1>1
    <2>2. stock \in [Key -> Row(Nat)]
      BY DEF Shape, TypeOK
    <2> HIDE DEF after, m
    <2>3. QED
      BY <1>2, <2>1, <2>2 DEF Row, Written
  <1>4. /\ pc'[s] \in {"move", "rule"}
        /\ \A t \in Session \ {s} : pc'[t] = pc[t] /\ todo'[t] = todo[t]
        /\ todo'[s] \subseteq todo[s]
    BY <1>1 DEF Shape, TypeOK
  <1>5. ActsAlone(s)
    BY <1>1, <1>3, <1>4 DEF ActsAlone
  <1>6. Ordered(s)
    BY DEF AllOrdered
  <1>7. EntriesBeforeStock(s)' /\ OutLegFirst(s)'
    BY <1>1, <1>4, <1>6 DEF Ordered, EntriesBeforeStock, OutLegFirst
  <1>8. StockInKeyOrder(s)'
    <2> SUFFICES ASSUME pc'[s] = "move", ~BetweenCalls(s)',
                        NEW k \in Key, stock'[k].holder = s,
                        NEW j \in todo'[s], NextInKeyOrder(s, j)'
                 PROVE  k <= plan'[s][j].key
      BY DEF StockInKeyOrder
    <2>1. j \in todo[s] /\ plan'[s] = plan[s] /\ todo'[s] = todo[s] \ {i} /\ ~EndsCall(s, i)
      BY <1>1 DEF Shape, TypeOK
    <2>2. plan[s][i].key < plan[s][j].key \/ plan[s][i].key = plan[s][j].key
      <3>1. CallOf(s, i) = CallOf(s, j)
        BY <1>1, <2>1, NextOfCall
      <3>2. CallOf(s, i) \in Nat
        BY CallsAreNumbers DEF Shape, TodoInPlan
      <3>3. QED
        BY <1>1, <2>1, <3>1, <3>2 DEF NextInKeyOrder
    <2>3. plan[s][j].key \in Int /\ m.key \in Int /\ k \in Int
      <3>1. plan[s][j] \in Movement
        BY <2>1, ElementOfSeq, LenProperties DEF Shape, TypeOK, TodoInPlan
      <3>2. QED
        BY <3>1, <1>2, PostingAssumption DEF Movement
    <2>4. k <= m.key
      <3>1. CASE k = m.key
        BY <2>3, <3>1
      <3>2. CASE k # m.key
        <4>1. ~BetweenCalls(s)
          BY <1>4, <2>1 DEF BetweenCalls, CallOf
        <4>2. stock[k].holder = s
          BY <1>3, <3>2
        <4>3. QED
          BY <1>1, <1>6, <4>1, <4>2 DEF Ordered, StockInKeyOrder
      <3>3. QED
        BY <3>1, <3>2
    <2>5. QED
      BY <2>1, <2>2, <2>3, <2>4
  <1>9. CallDone(s)'
    <2> SUFFICES ASSUME pc'[s] = "rule" PROVE BetweenCalls(s)'
      BY <1>4 DEF CallDone
    <2>1. /\ EndsCall(s, i) /\ todo'[s] = todo[s] \ {i} /\ plan'[s] = plan[s]
          /\ i \in DOMAIN plan[s]
      BY <1>1 DEF Shape, TypeOK, TodoInPlan
    <2>2. \A j \in todo'[s] : CallOf(s, i) < CallOf(s, j)
      BY <1>1, <2>1 DEF EndsCall, NextInKeyOrder
    <2>3. QED
      BY <2>1, <2>2 DEF BetweenCalls, CallOf
  <1>10. QED
    BY <1>5, <1>7, <1>8, <1>9 DEF Ordered

LEMMA OrderedAlertSteps ==
    ASSUME Shape, AllOrdered, NEW s \in Session, NEW p \in Pair,
           ReadRule(s, p) \/ ReadStock(s, p) \/ RaiseAlert(s, p) \/ ResolveAlert(s, p)
    PROVE  ActsAlone(s) /\ Ordered(s)'
  <1>1. UNCHANGED <<stock, ledger, durable, plan, todo, targets, locked>>
    BY DEF ReadRule, ReadStock, RaiseAlert, ResolveAlert, tables
  <1>2. /\ pc[s] \in {"rule", "sum", "alert"}
        /\ pc'[s] \in {"rule", "sum", "alert", "move", "commit"}
        /\ pc'[s] = "move" => todo[s] # {}
        /\ \A t \in Session \ {s} : pc'[t] = pc[t]
    BY DEF ReadRule, ReadStock, RaiseAlert, ResolveAlert, Evaluated, Shape, TypeOK
  <1>3. ActsAlone(s)
    BY <1>1, <1>2 DEF ActsAlone
  <1>4. Ordered(s)
    BY DEF AllOrdered
  <1>5. todo[s] = {} \/ BetweenCalls(s)
    BY <1>2, <1>4 DEF Ordered, CallDone
  <1>6. BetweenCalls(s)' = BetweenCalls(s)
    BY <1>1 DEF BetweenCalls, CallOf
  <1>7. StockInKeyOrder(s)' /\ CallDone(s)'
    BY <1>1, <1>2, <1>5, <1>6 DEF StockInKeyOrder, CallDone
  <1>8. EntriesBeforeStock(s)' /\ OutLegFirst(s)'
    BY <1>1, <1>2, <1>4 DEF Ordered, EntriesBeforeStock, OutLegFirst
  <1>9. QED
    BY <1>3, <1>7, <1>8 DEF Ordered

LEMMA OrderedEnd ==
    ASSUME Shape, AllOrdered, NEW s \in Session, Commit(s) \/ Rollback(s)
    PROVE  ActsAlone(s) /\ Ordered(s)'
  <1>1. Release(s)
    BY DEF Commit, Rollback
  <1>2. \A k \in Key : stock'[k].holder = IF stock[k].holder = s
                                          THEN NoSession ELSE stock[k].holder
    BY DEF Commit, Rollback, Committed, RolledBack, Stored, Shape, TypeOK
  <1>3. pc'[s] = "idle" /\ locked'[s] = {} /\ todo'[s] = {}
    BY <1>1 DEF Release, Shape, TypeOK
  <1>4. ActsAlone(s)
    BY <1>1, <1>2, NoSessionIsNotASession DEF ActsAlone, Release, Shape, TypeOK
  <1>5. Ordered(s)'
    BY <1>2, <1>3, NoSessionIsNotASession
       DEF Ordered, EntriesBeforeStock, OutLegFirst, StockInKeyOrder, CallDone
  <1>6. QED
    BY <1>4, <1>5

LEMMA OrderedNext == Shape /\ AllOrdered /\ [Next]_vars => AllOrdered'
  <1> SUFFICES ASSUME Shape, AllOrdered, [Next]_vars PROVE AllOrdered'
    OBVIOUS
  <1>1. Shape' /\ CommittedStays
    BY ShapeNext, CommittedKept
  <1>2. CASE UNCHANGED vars
    <2>1. /\ UNCHANGED <<stock, ledger, durable, pc, plan, todo, targets, locked>>
      BY <1>2 DEF vars, tables, request
    <2>2. ASSUME NEW s \in Session PROVE Ordered(s)'
      BY <1>1, <2>1, OthersOrdered DEF AllOrdered
    <2>3. QED
      BY <2>2 DEF AllOrdered
  <1>3. CASE Next
    <2>1. PICK s \in Session :
            \/ \E d \in Doc : BeginPosting(s, d)
            \/ \E id \in CommittedId : BeginReversal(s, id)
            \/ \E change \in RuleChange : SaveRule(s, change[1], change[2])
            \/ LockEntry(s)
            \/ LoadReversible(s)
            \/ InsertEntry(s)
            \/ \E p \in Pair : ReadRule(s, p) \/ ReadStock(s, p) \/ RaiseAlert(s, p) \/ ResolveAlert(s, p)
            \/ Commit(s) \/ Rollback(s)
      BY <1>3 DEF Next, RefuseReversal, RefuseMovement, Abort
    <2>2. CASE \E d \in Doc : BeginPosting(s, d)
      BY <1>1, <2>2, OrderedBeginPosting, OrderedAfter
    <2>3. CASE \E id \in CommittedId : BeginReversal(s, id)
      BY <1>1, <2>3, OrderedBeginReversal, OrderedAfter
    <2>4. CASE \E change \in RuleChange : SaveRule(s, change[1], change[2])
      <3>1. PICK change \in RuleChange : SaveRule(s, change[1], change[2])
        BY <2>4
      <3>2. change[1] \in Pair /\ change[2] \in Level
        BY <3>1, PostingAssumption
      <3>3. ActsAlone(s) /\ Ordered(s)'
        BY <3>1, <3>2, OrderedSaveRule
      <3>4. QED
        BY <1>1, <3>3, OrderedAfter
    <2>5. CASE LockEntry(s)
      BY <1>1, <2>5, OrderedLockEntry, OrderedAfter
    <2>6. CASE LoadReversible(s)
      BY <1>1, <2>6, OrderedLoadReversible, OrderedAfter
    <2>7. CASE InsertEntry(s)
      BY <1>1, <2>7, OrderedInsertEntry, OrderedAfter
    <2>8. CASE \E p \in Pair : ReadRule(s, p) \/ ReadStock(s, p) \/ RaiseAlert(s, p) \/ ResolveAlert(s, p)
      BY <1>1, <2>8, OrderedAlertSteps, OrderedAfter
    <2>9. CASE Commit(s) \/ Rollback(s)
      BY <1>1, <2>9, OrderedEnd, OrderedAfter
    <2>10. QED
      BY <2>1, <2>2, <2>3, <2>4, <2>5, <2>6, <2>7, <2>8, <2>9
  <1>4. QED
    BY <1>2, <1>3

\* Session s waits in key order for stock row k.
Wants(s, k) == pc[s] = "move" /\ \E i \in todo[s] : NextInKeyOrder(s, i) /\ k = plan[s][i].key

LEMMA WantsAKey ==
    ASSUME Shape, NEW s \in Session, NEW k, Wants(s, k)
    PROVE  k \in Key /\ k \in Int
  <1>1. PICK i \in todo[s] : k = plan[s][i].key
    BY DEF Wants
  <1>2. plan[s][i] \in Movement
    BY <1>1, ElementOfSeq, LenProperties DEF Shape, TypeOK, TodoInPlan
  <1>3. QED
    BY <1>1, <1>2, PostingAssumption DEF Movement

\* Who waits for a stock row waits for a session that, if it waits too in its
\* first call of postMovements, wants a later row.
LEMMA WaitsUpwards ==
    ASSUME Shape, AllOrdered,
           NEW s \in Session, NEW t \in Session, NEW u \in Session, t # u,
           pc[s] = "move", ~PostsAnother(t), WaitsForStock(s, t), WaitsForStock(t, u)
    PROVE  /\ pc[t] = "move"
           /\ \A k, l : /\ Wants(s, k) /\ stock[k].holder = t
                        /\ Wants(t, l) /\ stock[l].holder = u
                        => k < l
  <1>1. PICK i \in todo[s] : NextInKeyOrder(s, i) /\ stock[plan[s][i].key].holder = t
    BY DEF WaitsForStock
  <1>2. plan[s][i].key \in Key
    BY <1>1, WantsAKey DEF Wants
  <1>3. Ordered(t)
    BY DEF AllOrdered
  <1>4. pc[t] # "lock"
    BY <1>1, <1>2, <1>3 DEF Ordered, EntriesBeforeStock
  <1>5. pc[t] = "move"
    BY <1>4 DEF WaitsForStock
  <1>6. ASSUME NEW k, NEW l, Wants(s, k), stock[k].holder = t, Wants(t, l), stock[l].holder = u
        PROVE  k < l
    <2>1. k \in Key /\ k \in Int /\ l \in Key /\ l \in Int
      BY <1>6, WantsAKey
    <2>2. k <= l
      BY <1>3, <1>5, <1>6, <2>1 DEF Ordered, StockInKeyOrder, Wants, PostsAnother
    <2>3. k # l
      BY <1>6
    <2>4. QED
      BY <2>1, <2>2, <2>3
  <1>7. QED
    BY <1>5, <1>6

\* In a circle some session waits for a stock row: of three that would wait for
\* an entry in turn, the second holds an OUT leg and wants an IN leg, which the
\* third, wanting an IN leg as well, does not hold.
LEMMA SomeoneMoves ==
    ASSUME AllOrdered,
           NEW s \in Session, NEW t \in Session, NEW u \in Session, NEW v \in Session,
           WaitsForStock(s, t), WaitsForStock(t, u), WaitsForStock(u, v)
    PROVE  pc[s] = "move" \/ pc[t] = "move" \/ pc[u] = "move"
  <1> SUFFICES ASSUME pc[s] # "move", pc[t] # "move", pc[u] # "move" PROVE FALSE
    OBVIOUS
  <1>1. /\ pc[t] = "lock" /\ pc[u] = "lock"
        /\ Head(targets[s]) \in locked[t] /\ Head(targets[t]) \in locked[u]
    BY DEF WaitsForStock
  <1>2. OutLegFirst(t) /\ OutLegFirst(u)
    BY DEF AllOrdered, Ordered
  <1>3. IsIn(Head(targets[t])) /\ IsOut(Head(targets[t]))
    BY <1>1, <1>2 DEF OutLegFirst
  <1>4. QED
    BY <1>3 DEF IsIn, IsOut

LEMMA OrderedSessionsDoNotCycle == Shape /\ AllOrdered => NoDeadlockOnStock
  <1> SUFFICES ASSUME Shape, AllOrdered,
                      NEW group \in SUBSET Session, IsFiniteSet(group), group # {},
                      \A s \in group : /\ ~PostsAnother(s)
                                       /\ \E t \in group \ {s} : WaitsForStock(s, t)
               PROVE  FALSE
    BY DEF NoDeadlockOnStock
  <1> DEFINE movers == {s \in group : pc[s] = "move"}
             Blocked(s, k) == Wants(s, k) /\ \E t \in group \ {s} : stock[k].holder = t
             wanted == [s \in movers |-> CHOOSE k : Blocked(s, k)]
  <1>1. movers # {}
    <2>1. PICK s \in group : TRUE
      OBVIOUS
    <2>2. PICK t \in group : WaitsForStock(s, t)
      BY <2>1
    <2>3. PICK u \in group : WaitsForStock(t, u)
      BY <2>2
    <2>4. PICK v \in group : WaitsForStock(u, v)
      BY <2>3
    <2>5. pc[s] = "move" \/ pc[t] = "move" \/ pc[u] = "move"
      BY <2>1, <2>2, <2>3, <2>4, SomeoneMoves
    <2>6. QED
      BY <2>1, <2>2, <2>3, <2>5
  <1>2. \A s \in movers : Blocked(s, wanted[s])
    <2>1. ASSUME NEW s \in movers PROVE \E k : Blocked(s, k)
      <3>1. PICK t \in group \ {s} : WaitsForStock(s, t)
        OBVIOUS
      <3>2. PICK i \in todo[s] : NextInKeyOrder(s, i) /\ stock[plan[s][i].key].holder = t
        BY <3>1 DEF WaitsForStock
      <3>3. Blocked(s, plan[s][i].key)
        BY <3>1, <3>2 DEF Wants
      <3>4. QED
        BY <3>3
    <2> HIDE DEF Blocked
    <2>2. QED
      BY <2>1
  <1>3. \A s \in movers : wanted[s] \in Int
    BY <1>2, WantsAKey
  <1>4. IsFiniteSet(movers)
    BY FS_Subset
  <1> HIDE DEF wanted
  <1>5. PICK s \in movers : \A t \in movers : wanted[t] <= wanted[s]
    BY <1>1, <1>3, <1>4, Largest
  <1>6. PICK t \in group \ {s} : stock[wanted[s]].holder = t /\ Wants(s, wanted[s])
    BY <1>2
  <1>7. WaitsForStock(s, t)
    BY <1>6 DEF WaitsForStock, Wants
  <1>8. PICK v \in group \ {t} : WaitsForStock(t, v)
    OBVIOUS
  <1>9. t \in movers
    BY <1>7, <1>8, WaitsUpwards
  <1>10. PICK u \in group \ {t} : stock[wanted[t]].holder = u /\ Wants(t, wanted[t])
    BY <1>2, <1>9
  <1>11. WaitsForStock(t, u)
    BY <1>10 DEF WaitsForStock, Wants
  <1>12. wanted[s] < wanted[t]
    BY <1>6, <1>7, <1>10, <1>11, WaitsUpwards
  <1>13. QED
    BY <1>3, <1>5, <1>9, <1>12

\* Whatever documents, imports and reversals run together, every circle of
\* sessions that wait for ledger entries and stock rows, however long, passes
\* through an import that has begun its second opening balance: the key order
\* in which one call of postMovements takes the rows is enough for all others
\* (ledger.service.ts, locks.ts, importOpeningStock).
THEOREM NoDeadlockHolds == Spec => []NoDeadlockOnStock
  BY OrderedSessionsDoNotCycle, ShapeAlways, OrderedInit, OrderedNext, PTL DEF Spec

-----------------------------------------------------------------------------
(***************************************************************************)
(* The engine implements the abstract ledger.  At any time a session posts *)
(* one document or reverses one entry, both legs of a transfer together;   *)
(* the open tail of a key it holds is the part of that it has inserted, in *)
(* input order; and documents are not shared between sessions.  The        *)
(* movements of one stock row all belong to one call of postMovements.     *)
(***************************************************************************)

\* s reverses one entry, or the legs of a transfer: the movements of plan are
\* loaded, the entries of targets are not.
ReversesOne(s, a) ==
    \/ plan[s] = <<>> /\ targets[s] = <<a>>
    \/ plan[s] = <<CounterMovement(a)>> /\ targets[s] = <<>>

ReversesLegs(s, a, b) ==
    \/ plan[s] = <<>> /\ targets[s] = <<a, b>>
    \/ plan[s] = <<CounterMovement(a)>> /\ targets[s] = <<b>>
    \/ plan[s] = <<CounterMovement(a), CounterMovement(b)>> /\ targets[s] = <<>>

IsLeg(a) == EntryAt(a).type \in {"TRANSFER_OUT", "TRANSFER_IN"}

Task(s) ==
    \/ plan[s] = <<>> /\ targets[s] = <<>>
    \/ \E d \in Doc : plan[s] = Movements(d) /\ targets[s] = <<>>
    \/ \E a \in CommittedId : ~IsLeg(a) /\ ReversesOne(s, a)
    \/ \E a, b \in CommittedId : AreLegs(a, b) /\ ReversesLegs(s, a, b)

Working(s) ==
    /\ pc[s] = "idle" => plan[s] = <<>>
    /\ pc[s] \notin {"lock", "check"} => targets[s] = <<>>
    /\ pc[s] \notin {"move", "rule", "sum", "alert"} => todo[s] = {}
    /\ Task(s)

\* The movements of s that are in the ledger of k.
Inserted(s, k) ==
    {i \in DOMAIN plan[s] : /\ pc[s] \notin {"lock", "check"}
                            /\ i \notin todo[s] /\ plan[s][i].key = k}

Upto(S, i) == {j \in S : j <= i}

Records(e, m) ==
    /\ e.type = m.type /\ e.quantity = m.quantity
    /\ e.ref = m.ref /\ e.line = m.line /\ e.reverses = m.reverses

\* The n-th entry of the open tail of k records the n-th of these movements.
NthInserted(s, k, n) ==
    \E i \in Inserted(s, k) : /\ Cardinality(Upto(Inserted(s, k), i)) = n
                              /\ Records(ledger[k][durable[k] + n], plan[s][i])

OpenTail(s, k) ==
    /\ stock[k].holder = s <=> Inserted(s, k) # {}
    /\ \A i \in Inserted(s, k), j \in todo[s] : plan[s][j].key = k => i < j
    /\ stock[k].holder = s =>
          /\ Len(ledger[k]) = durable[k] + Cardinality(Inserted(s, k))
          /\ \A n \in 1..Cardinality(Inserted(s, k)) : NthInserted(s, k, n)

\* No two sessions work on one document, and none posts what is posted.
Exclusive ==
    \A s, t \in Session : s # t => \A doc : ~(WorksOn(s, doc) /\ WorksOn(t, doc))

FreshAt(s) ==
    \A i \in DOMAIN plan[s] : plan[s][i].type # "REVERSAL" => ~IsPosted(plan[s][i].ref)

\* A committed entry that is no reversal is one line of its document, and the
\* only entry of that line.
IsLine(id) ==
    /\ EntryAt(id).line \in DOMAIN Lines[EntryAt(id).ref]
    /\ Lines[EntryAt(id).ref][EntryAt(id).line].key = id[1]
    /\ Lines[EntryAt(id).ref][EntryAt(id).line].type = EntryAt(id).type

SameLine(a, b) ==
    /\ EntryAt(b).type # "REVERSAL"
    /\ EntryAt(b).ref = EntryAt(a).ref
    /\ EntryAt(b).line = EntryAt(a).line

Registered ==
    \A a \in CommittedId : EntryAt(a).type # "REVERSAL" =>
        IsLine(a) /\ \A b \in CommittedId : SameLine(a, b) => a = b

InOrder(s) == Working(s) /\ FreshAt(s) /\ \A k \in Key : OpenTail(s, k)

Faithful == (\A s \in Session : InOrder(s)) /\ Exclusive /\ Registered

LEMMA CommittedIds ==
    /\ \A x \in CommittedId : x[1] \in Key /\ x[2] \in 1..durable[x[1]] /\ x = <<x[1], x[2]>>
    /\ \A k \in Key : \A i \in 1..durable[k] : <<k, i>> \in CommittedId
BY DEF CommittedId

\* Committed entries stay where and what they are.
LEMMA EntriesStay ==
    ASSUME Shape, Shape', CommittedStays, NEW x \in CommittedId
    PROVE  /\ x \in CommittedId' /\ EntryAt(x)' = EntryAt(x)
           /\ EntryAt(x) \in Entry
           /\ CounterMovement(x)' = CounterMovement(x)
           /\ IsLeg(x)' = IsLeg(x)
<1>1. x[1] \in Key /\ x[2] \in 1..durable[x[1]] /\ x = <<x[1], x[2]>>
  BY CommittedIds
<1>2. /\ durable[x[1]] \in Nat /\ durable'[x[1]] \in Nat /\ durable[x[1]] <= durable'[x[1]]
      /\ durable[x[1]] <= Len(ledger[x[1]]) /\ ledger[x[1]] \in Seq(Entry)
      /\ ledger'[x[1]][x[2]] = ledger[x[1]][x[2]]
  BY <1>1 DEF Shape, TypeOK, TailIsHeld, CommittedStays
<1>3. x[2] \in 1..durable'[x[1]]
  BY <1>1, <1>2
<1>4. x \in CommittedId'
  BY <1>1, <1>3 DEF CommittedId
<1>5. EntryAt(x)' = EntryAt(x)
  BY <1>2 DEF EntryAt
<1>6. EntryAt(x) \in Entry
  <2>1. x[2] \in 1..Len(ledger[x[1]])
    BY <1>1, <1>2
  <2>2. QED
    BY <1>2, <2>1, ElementOfSeq DEF EntryAt
<1>7. CounterMovement(x)' = CounterMovement(x)
  BY <1>5 DEF CounterMovement
<1>8. IsLeg(x)' = IsLeg(x)
  BY <1>5 DEF IsLeg
<1>9. QED
  BY <1>4, <1>5, <1>6, <1>7, <1>8

\* What a session does not touch of its own.
Still(t) == pc'[t] = pc[t] /\ plan'[t] = plan[t] /\ todo'[t] = todo[t] /\ targets'[t] = targets[t]

\* The rows t holds, and their tails, are left alone.
Leaves(t) ==
    \A k \in Key : /\ stock'[k].holder = t <=> stock[k].holder = t
                   /\ stock[k].holder = t => ledger'[k] = ledger[k] /\ durable'[k] = durable[k]

LEMMA TaskKept ==
    ASSUME Shape, Shape', CommittedStays, NEW t \in Session, Task(t),
           plan'[t] = plan[t], targets'[t] = targets[t]
    PROVE  Task(t)'
<1>1. CASE plan[t] = <<>> /\ targets[t] = <<>>
  BY <1>1 DEF Task
<1>2. CASE \E d \in Doc : plan[t] = Movements(d) /\ targets[t] = <<>>
  BY <1>2 DEF Task, Movements
<1>3. CASE \E a \in CommittedId : ~IsLeg(a) /\ ReversesOne(t, a)
  <2>1. PICK a \in CommittedId : ~IsLeg(a) /\ ReversesOne(t, a)
    BY <1>3
  <2>2. a \in CommittedId' /\ ~IsLeg(a)' /\ CounterMovement(a)' = CounterMovement(a)
    BY <2>1, EntriesStay
  <2>3. ReversesOne(t, a)'
    BY <2>1, <2>2 DEF ReversesOne
  <2>4. QED
    BY <2>2, <2>3 DEF Task
<1>4. CASE \E a, b \in CommittedId : AreLegs(a, b) /\ ReversesLegs(t, a, b)
  <2>1. PICK a \in CommittedId, b \in CommittedId : AreLegs(a, b) /\ ReversesLegs(t, a, b)
    BY <1>4
  <2>2. a \in CommittedId' /\ CounterMovement(a)' = CounterMovement(a) /\ EntryAt(a)' = EntryAt(a)
    BY EntriesStay
  <2>3. b \in CommittedId' /\ CounterMovement(b)' = CounterMovement(b) /\ EntryAt(b)' = EntryAt(b)
    BY EntriesStay
  <2>4. AreLegs(a, b)'
    BY <2>1, <2>2, <2>3 DEF AreLegs
  <2>5. ReversesLegs(t, a, b)'
    BY <2>1, <2>2, <2>3 DEF ReversesLegs
  <2>6. QED
    BY <2>2, <2>3, <2>4, <2>5 DEF Task
<1>5. QED
  BY <1>1, <1>2, <1>3, <1>4 DEF Task

LEMMA TailKept ==
    ASSUME NEW t, NEW k, OpenTail(t, k), Inserted(t, k)' = Inserted(t, k),
           plan'[t] = plan[t], todo'[t] \subseteq todo[t],
           stock'[k].holder = t <=> stock[k].holder = t,
           stock[k].holder = t => ledger'[k] = ledger[k] /\ durable'[k] = durable[k]
    PROVE  OpenTail(t, k)'
<1>1. PICK mine : mine = Inserted(t, k) /\ mine = Inserted(t, k)'
  OBVIOUS
<1>2. stock'[k].holder = t <=> mine # {}
  BY <1>1 DEF OpenTail
<1>3. \A i \in mine, j \in todo'[t] : plan'[t][j].key = k => i < j
  BY <1>1 DEF OpenTail
<1>4. ASSUME stock'[k].holder = t
      PROVE  /\ Len(ledger'[k]) = durable'[k] + Cardinality(mine)
             /\ \A n \in 1..Cardinality(mine) : NthInserted(t, k, n)'
  <2>1. /\ Len(ledger[k]) = durable[k] + Cardinality(mine)
        /\ \A n \in 1..Cardinality(mine) : NthInserted(t, k, n)
    BY <1>1, <1>4 DEF OpenTail
  <2>2. ledger'[k] = ledger[k] /\ durable'[k] = durable[k]
    BY <1>4
  <2>3. \A n : NthInserted(t, k, n) => NthInserted(t, k, n)'
    BY <1>1, <2>2 DEF NthInserted, Upto, Records
  <2>4. QED
    BY <2>1, <2>2, <2>3
<1>5. QED
  BY <1>1, <1>2, <1>3, <1>4 DEF OpenTail

LEMMA IsPostedKept ==
    ASSUME Shape, CommittedStays, durable' = durable
    PROVE  /\ \A d : IsPosted(d)' <=> IsPosted(d)
           /\ CommittedId' = CommittedId
<1>1. \A k \in Key : \A i \in 1..durable[k] : ledger'[k][i] = ledger[k][i]
  BY DEF CommittedStays
<1>2. QED
  BY <1>1 DEF IsPosted, CommittedId

LEMMA OthersInOrder ==
    ASSUME Shape, Shape', CommittedStays, NEW t \in Session, Still(t), Leaves(t),
           Working(t), \A k \in Key : OpenTail(t, k)
    PROVE  Working(t)' /\ \A k \in Key : OpenTail(t, k)'
<1>1. Working(t)'
  BY TaskKept DEF Working, Still
<1>2. ASSUME NEW k \in Key PROVE OpenTail(t, k)'
  <2>1. Inserted(t, k)' = Inserted(t, k)
    BY DEF Inserted, Still
  <2>2. QED
    BY <2>1, TailKept DEF Still, Leaves
<1>3. QED
  BY <1>1, <1>2

\* A session works on the documents it worked on.
LEMMA WorksOnKept ==
    ASSUME Shape, Shape', CommittedStays, NEW t \in Session,
           plan'[t] = plan[t], targets'[t] = targets[t], NEW doc
    PROVE  WorksOn(t, doc)' <=> WorksOn(t, doc)
<1>1. \A i \in DOMAIN targets[t] : EntryAt(targets[t][i])' = EntryAt(targets[t][i])
  <2> SUFFICES ASSUME NEW i \in DOMAIN targets[t]
               PROVE  EntryAt(targets[t][i])' = EntryAt(targets[t][i])
    OBVIOUS
  <2>1. targets[t][i] \in Key \X Nat /\ targets[t][i][2] \in 1..durable[targets[t][i][1]]
    BY ElementOfSeq, LenProperties DEF Shape, TypeOK, TargetsCommitted
  <2>2. PICK x \in Key \X Nat : x = targets[t][i] /\ x[2] \in 1..durable[x[1]]
    BY <2>1
  <2>3. EntryAt(x)' = EntryAt(x)
    BY <2>2 DEF EntryAt, CommittedStays
  <2>4. QED
    BY <2>2, <2>3 DEF EntryAt
<1>2. QED
  BY <1>1 DEF WorksOn, DocumentOf, EntryAt

\* A step of s that commits nothing keeps everything in order, if s itself is in
\* order after it and takes up no document that is posted or taken.
Claims(s) ==
    \A doc : WorksOn(s, doc)' => WorksOn(s, doc) \/ \A t \in Session \ {s} : ~WorksOn(t, doc)

Renews(s) ==
    \A i \in DOMAIN plan'[s] :
        \/ i \in DOMAIN plan[s] /\ plan'[s][i] = plan[s][i]
        \/ plan'[s][i].type = "REVERSAL"
        \/ ~IsPosted(plan'[s][i].ref)

Apart(s) == \A t \in Session \ {s} : Still(t) /\ Leaves(t)

LEMMA FaithfulAfter ==
    ASSUME Shape, Shape', CommittedStays, Faithful, NEW s \in Session,
           Apart(s), durable' = durable,
           Working(s)', \A k \in Key : OpenTail(s, k)', Claims(s), Renews(s)
    PROVE  Faithful'
<1>1. ASSUME NEW t \in Session PROVE InOrder(t)'
  <2>1. Working(t)' /\ \A k \in Key : OpenTail(t, k)'
    <3>1. CASE t = s
      BY <3>1
    <3>2. CASE t # s
      BY <3>2, OthersInOrder DEF Faithful, InOrder, Apart
    <3>3. QED
      BY <3>1, <3>2
  <2>2. FreshAt(t)'
    <3>1. FreshAt(t)
      BY DEF Faithful, InOrder
    <3>2. CASE t = s
      BY <3>1, <3>2, IsPostedKept DEF FreshAt, Renews
    <3>3. CASE t # s
      BY <3>1, <3>3, IsPostedKept DEF FreshAt, Apart, Still
    <3>4. QED
      BY <3>2, <3>3
  <2>3. QED
    BY <2>1, <2>2 DEF InOrder
<1>2. Exclusive'
  <2>1. \A t \in Session \ {s} : \A doc : WorksOn(t, doc)' <=> WorksOn(t, doc)
    BY WorksOnKept DEF Apart, Still
  <2>2. \A doc : \A t \in Session \ {s} : ~(WorksOn(s, doc)' /\ WorksOn(t, doc)')
    BY <2>1 DEF Claims, Faithful, Exclusive
  <2>3. \A t, u \in Session \ {s} : t # u => \A doc : ~(WorksOn(t, doc)' /\ WorksOn(u, doc)')
    BY <2>1 DEF Faithful, Exclusive
  <2>4. QED
    BY <2>2, <2>3 DEF Exclusive
<1>3. Registered'
  <2>1. \A a \in CommittedId : EntryAt(a)' = EntryAt(a)
    BY EntriesStay
  <2>2. CommittedId' = CommittedId
    BY IsPostedKept
  <2>3. \A a \in CommittedId : EntryAt(a).type # "REVERSAL" =>
           IsLine(a) /\ \A b \in CommittedId : SameLine(a, b) => a = b
    BY DEF Faithful, Registered
  <2>4. \A a \in CommittedId : IsLine(a)' <=> IsLine(a)
    BY <2>1 DEF IsLine
  <2>5. \A a, b \in CommittedId : SameLine(a, b)' <=> SameLine(a, b)
    BY <2>1 DEF SameLine
  <2>6. QED
    BY <2>1, <2>2, <2>3, <2>4, <2>5 DEF Registered
<1>4. QED
  BY <1>1, <1>2, <1>3 DEF Faithful

LEMMA FaithfulInit == Init => Faithful
<1> SUFFICES ASSUME Init PROVE Faithful
  OBVIOUS
<1>1. CommittedId = {}
  BY DEF Init, CommittedId
<1>2. \A s \in Session : Working(s) /\ FreshAt(s)
  BY DEF Init, Working, Task, FreshAt
<1>3. \A s \in Session : \A k \in Key : Inserted(s, k) = {} /\ stock[k].holder # s
  BY NoSessionIsNotASession DEF Init, Inserted, Stored
<1>4. \A s \in Session : \A k \in Key : OpenTail(s, k)
  BY <1>3 DEF OpenTail
<1>5. Exclusive
  BY DEF Init, Exclusive, WorksOn
<1>6. Registered
  BY <1>1 DEF Registered
<1>7. QED
  BY <1>2, <1>4, <1>5, <1>6 DEF Faithful, InOrder

\* An idle session has nothing in hand.
LEMMA IdleHolds ==
    ASSUME Shape, AllOrdered, Faithful, NEW s \in Session, pc[s] = "idle"
    PROVE  /\ plan[s] = <<>> /\ targets[s] = <<>> /\ todo[s] = {}
           /\ \A k \in Key : stock[k].holder # s
<1>1. Working(s)
  BY DEF Faithful, InOrder
<1>2. \A k \in Key : stock[k].holder # s
  BY DEF AllOrdered, Ordered, EntriesBeforeStock
<1>3. QED
  BY <1>1, <1>2 DEF Working

LEMMA NothingInserted ==
    ASSUME NEW s \in Session, \A k \in Key : Inserted(s, k)' = {} /\ stock'[k].holder # s
    PROVE  \A k \in Key : OpenTail(s, k)'
BY DEF OpenTail

LEMMA MovementsOf ==
    ASSUME NEW d \in Doc
    PROVE  /\ DOMAIN Movements(d) = DOMAIN Lines[d]
           /\ \A i \in DOMAIN Lines[d] :
                 /\ Movements(d)[i].key = Lines[d][i].key /\ Movements(d)[i].type = Lines[d][i].type
                 /\ Movements(d)[i].quantity = Lines[d][i].quantity
                 /\ Movements(d)[i].ref = d /\ Movements(d)[i].line = i
                 /\ Movements(d)[i].reverses = NoEntry
                 /\ Lines[d][i].type # "REVERSAL" /\ Lines[d][i].key \in Key /\ i \in Nat
<1> DEFINE Line == [key : Key, type : MovementType \ {"REVERSAL"}, quantity : Int]
<1>1. Lines[d] \in Seq(Line)
  BY PostingAssumption
<1> HIDE DEF Line
<1>2. \A i \in DOMAIN Lines[d] : Lines[d][i] \in Line /\ i \in Nat
  BY <1>1, LinesFinite
<1>3. \A i \in DOMAIN Lines[d] : Lines[d][i].type # "REVERSAL" /\ Lines[d][i].key \in Key
  BY <1>2 DEF Line
<1>4. QED
  BY <1>2, <1>3 DEF Movements

LEMMA FaithfulBeginPosting ==
    ASSUME Shape, Shape', CommittedStays, AllOrdered, Faithful,
           NEW s \in Session, NEW d \in Doc, BeginPosting(s, d)
    PROVE  Faithful'
<1>1. /\ pc[s] = "idle" /\ ~IsPosted(d)
      /\ \A i \in DOMAIN Lines[d] : DocumentFree(<<d, Call[d][i]>>)
      /\ plan' = [plan EXCEPT ![s] = Movements(d)]
      /\ todo' = [todo EXCEPT ![s] = DOMAIN Lines[d]]
      /\ pc' = [pc EXCEPT ![s] = "move"]
      /\ UNCHANGED <<stock, ledger, durable, targets>>
  BY DEF BeginPosting, tables
<1>2. /\ plan'[s] = Movements(d) /\ todo'[s] = DOMAIN Lines[d] /\ pc'[s] = "move"
      /\ targets'[s] = <<>> /\ \A k \in Key : stock'[k].holder # s
  <2>1. targets[s] = <<>> /\ \A k \in Key : stock[k].holder # s
    BY <1>1, IdleHolds
  <2>2. plan'[s] = Movements(d) /\ todo'[s] = DOMAIN Lines[d] /\ pc'[s] = "move"
    BY <1>1 DEF Shape, TypeOK
  <2>3. QED
    BY <1>1, <2>1, <2>2
<1>3. Apart(s)
  BY <1>1 DEF Apart, Still, Leaves, Shape, TypeOK
<1>4. Working(s)'
  <2>1. plan'[s] = Movements(d)' /\ targets'[s] = <<>>
    BY <1>2 DEF Movements
  <2>2. Task(s)'
    BY <2>1 DEF Task
  <2>3. QED
    BY <1>2, <2>2 DEF Working
<1>5. \A k \in Key : OpenTail(s, k)'
  <2>1. \A k \in Key : Inserted(s, k)' = {}
    BY <1>2, MovementsOf DEF Inserted
  <2>2. QED
    BY <1>2, <2>1, NothingInserted
<1>6. Claims(s)
  <2>1. ASSUME NEW doc, WorksOn(s, doc)'
        PROVE  \E i \in DOMAIN Lines[d] : doc = <<d, Call[d][i]>>
    BY <1>2, <2>1, MovementsOf DEF WorksOn, DocumentOf
  <2>2. QED
    BY <1>1, <2>1 DEF Claims, DocumentFree
<1>7. Renews(s)
  BY <1>1, <1>2, MovementsOf DEF Renews
<1>8. QED
  BY <1>1, <1>3, <1>4, <1>5, <1>6, <1>7, FaithfulAfter

\* The legs of a transfer are of one document, and of different stock rows.
LEMMA LegsOfOneDocument ==
    ASSUME Shape, Registered, NEW a \in CommittedId, NEW b \in CommittedId, AreLegs(a, b)
    PROVE  DocumentOf(EntryAt(a)) = DocumentOf(EntryAt(b)) /\ a[1] # b[1]
<1>1. /\ EntryAt(a).type = "TRANSFER_OUT" /\ EntryAt(b).type = "TRANSFER_IN"
      /\ EntryAt(b).ref = EntryAt(a).ref /\ EntryAt(b).line = EntryAt(a).line + 1
  BY DEF AreLegs
<1>2. IsLine(a) /\ IsLine(b)
  BY <1>1 DEF Registered
<1>3. EntryAt(a) \in Entry
  <2>1. a[1] \in Key /\ a[2] \in 1..durable[a[1]]
    BY CommittedIds
  <2>2. /\ ledger[a[1]] \in Seq(Entry) /\ durable[a[1]] <= Len(ledger[a[1]])
        /\ durable[a[1]] \in Nat /\ Len(ledger[a[1]]) \in Nat
    BY <2>1, LenProperties DEF Shape, TypeOK, TailIsHeld
  <2>3. a[2] \in 1..Len(ledger[a[1]])
    BY <2>1, <2>2
  <2>4. QED
    BY <2>2, <2>3, ElementOfSeq DEF EntryAt
<1>4. PICK d, i : d = EntryAt(a).ref /\ i = EntryAt(a).line /\ d \in Doc
  BY <1>3 DEF Entry
<1>5. /\ i \in DOMAIN Lines[d] /\ i + 1 \in DOMAIN Lines[d]
      /\ Lines[d][i].type = "TRANSFER_OUT" /\ Lines[d][i + 1].type = "TRANSFER_IN"
      /\ Lines[d][i].key = a[1] /\ Lines[d][i + 1].key = b[1]
  BY <1>1, <1>2, <1>4 DEF IsLine
<1>6. Call[d][i] = Call[d][i + 1] /\ Lines[d][i].key # Lines[d][i + 1].key
  BY <1>4, <1>5, PostingAssumption
<1>7. QED
  BY <1>1, <1>4, <1>5, <1>6 DEF DocumentOf

LEMMA ChosenEntries ==
    ASSUME Shape, Registered, NEW id \in CommittedId, NEW ids \in EntriesToReverse(id)
    PROVE  \/ ids = <<id>> /\ ~IsLeg(id)
           \/ \E a, b \in CommittedId : /\ ids = <<a, b>> /\ AreLegs(a, b)
                                        /\ DocumentOf(EntryAt(a)) = DocumentOf(EntryAt(id))
                                        /\ DocumentOf(EntryAt(b)) = DocumentOf(EntryAt(id))
<1>1. CASE IsLeg(id)
  <2>1. ids \in CommittedId \X CommittedId /\ AreLegs(ids[1], ids[2]) /\ id \in {ids[1], ids[2]}
    BY <1>1 DEF IsLeg, EntriesToReverse
  <2>2. PICK a \in CommittedId, b \in CommittedId : ids = <<a, b>>
    BY <2>1
  <2>3. AreLegs(a, b) /\ (id = a \/ id = b)
    BY <2>1, <2>2
  <2>4. QED
    BY <2>2, <2>3, LegsOfOneDocument
<1>2. CASE ~IsLeg(id)
  BY <1>2 DEF IsLeg, EntriesToReverse
<1>3. QED
  BY <1>1, <1>2

LEMMA FaithfulBeginReversal ==
    ASSUME Shape, Shape', CommittedStays, AllOrdered, Faithful,
           NEW s \in Session, NEW id \in CommittedId, BeginReversal(s, id)
    PROVE  Faithful'
<1>1. /\ pc[s] = "idle" /\ DocumentFree(DocumentOf(EntryAt(id)))
      /\ pc' = [pc EXCEPT ![s] = "lock"]
      /\ UNCHANGED <<stock, ledger, durable, plan, todo>>
  BY DEF BeginReversal, tables
<1>2. PICK ids \in EntriesToReverse(id) : targets' = [targets EXCEPT ![s] = ids]
  BY DEF BeginReversal
<1>3. /\ plan'[s] = <<>> /\ todo'[s] = {} /\ pc'[s] = "lock" /\ targets'[s] = ids
      /\ \A k \in Key : stock'[k].holder # s
  BY <1>1, <1>2, IdleHolds DEF Shape, TypeOK
<1>4. Apart(s)
  BY <1>1, <1>2 DEF Apart, Still, Leaves, Shape, TypeOK
<1>5. \A x \in CommittedId : x \in CommittedId' /\ EntryAt(x)' = EntryAt(x) /\ IsLeg(x)' = IsLeg(x)
  BY EntriesStay
<1>6. Task(s)'
  <2>1. CASE ids = <<id>> /\ ~IsLeg(id)
    BY <1>3, <1>5, <2>1 DEF Task, ReversesOne
  <2>2. CASE \E a, b \in CommittedId : ids = <<a, b>> /\ AreLegs(a, b)
    BY <1>3, <1>5, <2>2 DEF Task, ReversesLegs, AreLegs
  <2>3. QED
    BY <2>1, <2>2, ChosenEntries DEF Faithful
<1>7. Working(s)'
  BY <1>3, <1>6 DEF Working
<1>8. \A k \in Key : OpenTail(s, k)'
  BY <1>3, NothingInserted DEF Inserted
<1>9. Claims(s)
  <2>1. \A x \in CommittedId : DocumentOf(EntryAt(x)') = DocumentOf(EntryAt(x))
    BY <1>5
  <2>2. ASSUME NEW doc, WorksOn(s, doc)' PROVE doc = DocumentOf(EntryAt(id))
    <3>1. PICK i \in DOMAIN ids : DocumentOf(EntryAt(ids[i])') = doc
      BY <1>3, <2>2 DEF WorksOn, DocumentOf
    <3>2. CASE ids = <<id>>
      BY <2>1, <3>1, <3>2
    <3>3. CASE \E a, b \in CommittedId : /\ ids = <<a, b>>
                                         /\ DocumentOf(EntryAt(a)) = DocumentOf(EntryAt(id))
                                         /\ DocumentOf(EntryAt(b)) = DocumentOf(EntryAt(id))
      <4>1. PICK a \in CommittedId, b \in CommittedId :
                /\ ids = <<a, b>>
                /\ DocumentOf(EntryAt(a)) = DocumentOf(EntryAt(id))
                /\ DocumentOf(EntryAt(b)) = DocumentOf(EntryAt(id))
        BY <3>3
      <4>2. ids[i] = a \/ ids[i] = b
        BY <4>1
      <4>3. CASE ids[i] = a
        BY <2>1, <3>1, <4>1, <4>3 DEF EntryAt
      <4>4. CASE ids[i] = b
        BY <2>1, <3>1, <4>1, <4>4 DEF EntryAt
      <4>5. QED
        BY <4>2, <4>3, <4>4
    <3>4. QED
      BY <3>2, <3>3, ChosenEntries DEF Faithful
  <2>3. QED
    BY <1>1, <2>2 DEF Claims, DocumentFree
<1>10. Renews(s)
  BY <1>1 DEF Renews
<1>11. QED
  BY <1>1, <1>4, <1>7, <1>8, <1>9, <1>10, FaithfulAfter

LEMMA AppendToOne ==
    ASSUME NEW x, NEW y
    PROVE  Append(<<x>>, y) = <<x, y>>
<1>1. <<x>> \in Seq({x, y}) /\ Len(<<x>>) = 1 /\ <<x>>[1] = x
  OBVIOUS
<1>2. /\ Append(<<x>>, y) \in Seq({x, y}) /\ Len(Append(<<x>>, y)) = 2
      /\ Append(<<x>>, y)[1] = x /\ Append(<<x>>, y)[2] = y
  BY <1>1, AppendProperties
<1>3. /\ <<x, y>> \in Seq({x, y}) /\ Len(<<x, y>>) = 2
      /\ <<x, y>>[1] = x /\ <<x, y>>[2] = y
  OBVIOUS
<1>4. PICK p : p = Append(<<x>>, y)
  OBVIOUS
<1>5. PICK q : q = <<x, y>>
  OBVIOUS
<1>6. PICK S : S = {x, y}
  OBVIOUS
<1>7. p \in Seq(S) /\ Len(p) = 2 /\ p[1] = x /\ p[2] = y
  BY <1>2, <1>4, <1>6
<1>8. q \in Seq(S) /\ Len(q) = 2 /\ q[1] = x /\ q[2] = y
  BY <1>3, <1>5, <1>6
<1>9. p = q
  <2>1. \A i \in 1..Len(p) : p[i] = q[i]
    BY <1>7, <1>8
  <2>2. QED
    BY <1>7, <1>8, <2>1, SeqEqual
<1>10. QED
  BY <1>4, <1>5, <1>9

\* The steps that leave the tables of stock and the session's own task alone.
LEMMA FaithfulQuiet ==
    ASSUME Shape, Shape', CommittedStays, Faithful, NEW s \in Session,
           UNCHANGED <<stock, ledger, durable, plan, todo, targets>>,
           \A t \in Session \ {s} : pc'[t] = pc[t],
           pc'[s] # "idle",
           pc[s] \in {"move", "rule", "sum", "alert"} /\ pc'[s] \notin {"move", "rule", "sum", "alert"}
               => todo[s] = {},
           pc'[s] \in {"lock", "check"} <=> pc[s] \in {"lock", "check"}
    PROVE  Faithful'
<1>1. Apart(s)
  BY DEF Apart, Still, Leaves
<1>2. Task(s)'
  BY TaskKept DEF Faithful, InOrder, Working
<1>3. Working(s)'
  BY <1>2 DEF Working, Faithful, InOrder
<1>4. ASSUME NEW k \in Key PROVE OpenTail(s, k)'
  <2>1. Inserted(s, k)' = Inserted(s, k)
    BY DEF Inserted
  <2>2. OpenTail(s, k)
    BY DEF Faithful, InOrder
  <2>3. QED
    BY <2>1, <2>2, TailKept
<1>5. Claims(s)
  BY WorksOnKept DEF Claims
<1>6. Renews(s)
  BY DEF Renews
<1>7. QED
  BY <1>1, <1>3, <1>4, <1>5, <1>6, FaithfulAfter

LEMMA FaithfulSaveRule ==
    ASSUME Shape, Shape', CommittedStays, AllOrdered, Faithful,
           NEW s \in Session, NEW p \in Pair, NEW lvl \in Level, SaveRule(s, p, lvl)
    PROVE  Faithful'
<1>1. /\ pc[s] = "idle" /\ pc'[s] \in {"sum", "alert"}
      /\ \A t \in Session \ {s} : pc'[t] = pc[t]
      /\ UNCHANGED <<stock, ledger, durable, plan, todo, targets>>
  BY DEF SaveRule, Shape, TypeOK
<1>2. QED
  BY <1>1, FaithfulQuiet

LEMMA FaithfulLockEntry ==
    ASSUME Shape, Shape', CommittedStays, Faithful, NEW s \in Session, LockEntry(s)
    PROVE  Faithful'
<1>1. /\ pc[s] = "lock" /\ pc'[s] = "check"
      /\ \A t \in Session \ {s} : pc'[t] = pc[t]
      /\ UNCHANGED <<stock, ledger, durable, plan, todo, targets>>
  BY DEF LockEntry, tables, Shape, TypeOK
<1>2. QED
  BY <1>1, FaithfulQuiet

LEMMA FaithfulAlertSteps ==
    ASSUME Shape, Shape', CommittedStays, Faithful, NEW s \in Session, NEW p \in Pair,
           ReadRule(s, p) \/ ReadStock(s, p) \/ RaiseAlert(s, p) \/ ResolveAlert(s, p)
    PROVE  Faithful'
<1>1. /\ pc[s] \in {"rule", "sum", "alert"}
      /\ pc'[s] \in {"move", "rule", "sum", "alert", "commit"}
      /\ pc'[s] = "commit" => todo[s] = {}
      /\ \A t \in Session \ {s} : pc'[t] = pc[t]
  BY DEF ReadRule, ReadStock, RaiseAlert, ResolveAlert, Evaluated, Shape, TypeOK
<1>2. UNCHANGED <<stock, ledger, durable, plan, todo, targets>>
  BY DEF ReadRule, ReadStock, RaiseAlert, ResolveAlert, tables
<1>3. QED
  BY <1>1, <1>2, FaithfulQuiet

\* Ending a transaction leaves nothing in hand.
LEMMA Released ==
    ASSUME Shape, NEW s \in Session, Release(s)
    PROVE  /\ pc'[s] = "idle" /\ plan'[s] = <<>> /\ todo'[s] = {} /\ targets'[s] = <<>>
           /\ \A t \in Session \ {s} : Still(t)
           /\ Working(s)'
           /\ \A doc : ~WorksOn(s, doc)'
           /\ \A k \in Key : Inserted(s, k)' = {}
           /\ \A i \in DOMAIN plan'[s] : FALSE
<1>1. /\ pc'[s] = "idle" /\ plan'[s] = <<>> /\ todo'[s] = {} /\ targets'[s] = <<>>
  BY DEF Release, Shape, TypeOK
<1>2. \A t \in Session \ {s} : Still(t)
  BY DEF Release, Still, Shape, TypeOK
<1>3. QED
  BY <1>1, <1>2 DEF Working, Task, WorksOn, Inserted

LEMMA FaithfulRollback ==
    ASSUME Shape, Shape', CommittedStays, Faithful, NEW s \in Session, Rollback(s)
    PROVE  Faithful'
<1>1. /\ UNCHANGED durable /\ Release(s)
      /\ \A k \in Key : /\ stock'[k] = IF stock[k].holder = s THEN Stored(stock[k].saved) ELSE stock[k]
                        /\ stock[k].holder # s => ledger'[k] = ledger[k]
  BY DEF Rollback, RolledBack, Shape, TypeOK
<1>2. ASSUME NEW k \in Key
      PROVE  /\ stock'[k].holder # s
             /\ \A t \in Session \ {s} : stock'[k].holder = t <=> stock[k].holder = t
  <2>1. CASE stock[k].holder = s
    <3>1. stock'[k] = Stored(stock[k].saved)
      BY <1>1, <2>1
    <3>2. stock'[k].holder = NoSession
      BY <3>1 DEF Stored
    <3>3. QED
      BY <2>1, <3>2, NoSessionIsNotASession
  <2>2. CASE stock[k].holder # s
    BY <1>1, <2>2
  <2>3. QED
    BY <2>1, <2>2
<1>3. Apart(s)
  <2>1. ASSUME NEW t \in Session \ {s} PROVE Leaves(t)
    BY <1>1, <1>2 DEF Leaves
  <2>2. QED
    BY <1>1, <2>1, Released DEF Apart
<1>4. \A k \in Key : OpenTail(s, k)'
  BY <1>1, <1>2, Released, NothingInserted
<1>5. Working(s)' /\ Claims(s) /\ Renews(s)
  BY <1>1, Released DEF Claims, Renews
<1>6. QED
  BY <1>1, <1>3, <1>4, <1>5, FaithfulAfter

LEMMA FaithfulLoadReversible ==
    ASSUME Shape, Shape', CommittedStays, AllOrdered, Faithful, NEW s \in Session, LoadReversible(s)
    PROVE  Faithful'
<1> DEFINE m == CounterMovement(Head(targets[s]))
<1>1. /\ pc[s] = "check" /\ pc'[s] \in {"lock", "move"}
      /\ pc'[s] = "lock" <=> Len(targets[s]) # 1
      /\ plan'[s] = Append(plan[s], m) /\ targets'[s] = Tail(targets[s])
      /\ pc'[s] = "lock" => todo'[s] = todo[s]
      /\ pc'[s] = "move" => todo'[s] = DOMAIN Append(plan[s], m)
      /\ UNCHANGED <<stock, ledger, durable>>
  BY DEF LoadReversible, tables, Shape, TypeOK
<1>2. Apart(s)
  BY DEF LoadReversible, tables, Shape, TypeOK, Apart, Still, Leaves
<1>3. targets[s] # <<>> /\ todo[s] = {} /\ Task(s)
  BY <1>1 DEF Shape, TargetsCommitted, Faithful, InOrder, Working
<1>4. \A x \in CommittedId : /\ x \in CommittedId' /\ EntryAt(x)' = EntryAt(x)
                             /\ CounterMovement(x)' = CounterMovement(x) /\ IsLeg(x)' = IsLeg(x)
  BY EntriesStay
<1> HIDE DEF m
<1>5. /\ Task(s)'
      /\ pc'[s] \notin {"lock", "check"} => targets'[s] = <<>>
      /\ \A doc : WorksOn(s, doc)' => WorksOn(s, doc)
  <2>1. CASE \E a \in CommittedId : ~IsLeg(a) /\ ReversesOne(s, a)
    <3>1. PICK a \in CommittedId : ~IsLeg(a) /\ ReversesOne(s, a)
      BY <2>1
    <3>2. plan[s] = <<>> /\ targets[s] = <<a>>
      BY <1>3, <3>1 DEF ReversesOne
    <3>3. m = CounterMovement(a) /\ Tail(targets[s]) = <<>> /\ Append(plan[s], m) = <<m>>
      BY <3>2 DEF m
    <3>4. plan'[s] = <<CounterMovement(a)'>> /\ targets'[s] = <<>>
      BY <1>1, <1>4, <3>3
    <3>5. Task(s)'
      BY <1>4, <3>1, <3>4 DEF Task, ReversesOne
    <3>6. ASSUME NEW doc, WorksOn(s, doc)' PROVE WorksOn(s, doc)
      <4>1. DocumentOf(CounterMovement(a)') = doc
        BY <3>4, <3>6 DEF WorksOn, DocumentOf
      <4>2. DocumentOf(EntryAt(a)) = doc
        BY <1>4, <4>1 DEF CounterMovement, DocumentOf
      <4>3. QED
        BY <3>2, <4>2 DEF WorksOn
    <3>7. QED
      BY <3>4, <3>5, <3>6
  <2>2. CASE \E a, b \in CommittedId : AreLegs(a, b) /\ ReversesLegs(s, a, b)
    <3>1. PICK a \in CommittedId, b \in CommittedId : AreLegs(a, b) /\ ReversesLegs(s, a, b)
      BY <2>2
    <3>2. AreLegs(a, b)'
      BY <1>4, <3>1 DEF AreLegs
    <3>3. DocumentOf(EntryAt(a)) = DocumentOf(EntryAt(b))
      BY <3>1, LegsOfOneDocument DEF Faithful
    <3>4. CASE plan[s] = <<>> /\ targets[s] = <<a, b>>
      <4>1. m = CounterMovement(a) /\ Tail(targets[s]) = <<b>> /\ Append(plan[s], m) = <<m>>
            /\ Len(targets[s]) # 1
        BY <3>4 DEF m
      <4>2. plan'[s] = <<CounterMovement(a)'>> /\ targets'[s] = <<b>> /\ pc'[s] = "lock"
        BY <1>1, <1>4, <4>1
      <4>3. Task(s)'
        BY <1>4, <3>2, <4>2 DEF Task, ReversesLegs
      <4>4. ASSUME NEW doc, WorksOn(s, doc)' PROVE WorksOn(s, doc)
        <5>1. DocumentOf(CounterMovement(a)') = doc \/ DocumentOf(EntryAt(b)') = doc
          <6>1. /\ DOMAIN plan'[s] = {1} /\ plan'[s][1] = CounterMovement(a)'
                /\ DOMAIN targets'[s] = {1} /\ targets'[s][1] = b
            BY <4>2
          <6>2. DocumentOf(plan[s][1])' = doc \/ DocumentOf(EntryAt(targets[s][1]))' = doc
            BY <4>4, <6>1 DEF WorksOn
          <6>3. /\ DocumentOf(plan[s][1])' = DocumentOf(CounterMovement(a)')
                /\ DocumentOf(EntryAt(targets[s][1]))' = DocumentOf(EntryAt(b)')
            BY <6>1 DEF DocumentOf, EntryAt
          <6>4. QED
            BY <6>2, <6>3
        <5>2. DocumentOf(EntryAt(a)) = doc
          BY <1>4, <3>3, <5>1 DEF CounterMovement, DocumentOf
        <5>3. QED
          BY <3>4, <5>2 DEF WorksOn
      <4>5. QED
        BY <4>2, <4>3, <4>4
    <3>5. CASE plan[s] = <<CounterMovement(a)>> /\ targets[s] = <<b>>
      <4>1. /\ m = CounterMovement(b) /\ Tail(targets[s]) = <<>>
            /\ Append(plan[s], m) = <<CounterMovement(a), m>>
        <5>1. m = CounterMovement(b) /\ Tail(targets[s]) = <<>>
          BY <3>5 DEF m
        <5>2. Append(<<CounterMovement(a)>>, m) = <<CounterMovement(a), m>>
          BY AppendToOne
        <5>3. QED
          BY <3>5, <5>1, <5>2
      <4>2. plan'[s] = <<CounterMovement(a)', CounterMovement(b)'>> /\ targets'[s] = <<>>
        BY <1>1, <1>4, <4>1
      <4>3. Task(s)'
        BY <1>4, <3>2, <4>2 DEF Task, ReversesLegs
      <4>4. ASSUME NEW doc, WorksOn(s, doc)' PROVE WorksOn(s, doc)
        <5>1. DocumentOf(CounterMovement(a)') = doc \/ DocumentOf(CounterMovement(b)') = doc
          BY <4>2, <4>4 DEF WorksOn, DocumentOf
        <5>2. DocumentOf(EntryAt(b)) = doc
          BY <1>4, <3>3, <5>1 DEF CounterMovement, DocumentOf
        <5>3. QED
          BY <3>5, <5>2 DEF WorksOn
      <4>5. QED
        BY <4>2, <4>3, <4>4
    <3>6. QED
      BY <1>3, <3>1, <3>4, <3>5 DEF ReversesLegs
  <2>3. QED
    BY <1>3, <2>1, <2>2 DEF Task
<1>6. Working(s)'
  BY <1>1, <1>3, <1>5 DEF Working
<1>7. \A k \in Key : stock'[k].holder # s
  BY <1>1 DEF AllOrdered, Ordered, EntriesBeforeStock
<1>8. \A k \in Key : Inserted(s, k)' = {}
  BY <1>1 DEF Inserted
<1>9. Renews(s)
  <2>1. m.type = "REVERSAL"
    BY DEF m, CounterMovement
  <2>2. plan[s] \in Seq(Movement)
    BY DEF Shape, TypeOK
  <2>3. \A i \in DOMAIN plan'[s] :
          (i \in DOMAIN plan[s] /\ plan'[s][i] = plan[s][i]) \/ plan'[s][i] = m
    BY <1>1, <2>2
  <2>4. QED
    BY <2>1, <2>3 DEF Renews
<1>10. QED
  BY <1>1, <1>2, <1>5, <1>6, <1>7, <1>8, <1>9, NothingInserted, FaithfulAfter DEF Claims

\* One more movement is in the ledger: it comes after those that were.
LEMMA TailGrows ==
    ASSUME NEW s, NEW k, OpenTail(s, k),
           NEW mine, mine = Inserted(s, k), IsFiniteSet(mine), mine \subseteq Nat,
           NEW i \in Nat, i \notin mine, Inserted(s, k)' = mine \cup {i},
           \A x \in mine : x < i, plan'[s] = plan[s], stock'[k].holder = s,
           \A j \in todo'[s] : j \in todo[s] /\ (plan[s][j].key = k => i < j),
           durable'[k] = durable[k], durable[k] \in Nat,
           Len(ledger[k]) = durable[k] + Cardinality(mine),
           \A n \in 1..Cardinality(mine) : NthInserted(s, k, n),
           Len(ledger'[k]) = Len(ledger[k]) + 1,
           \A n \in 1..Len(ledger[k]) : ledger'[k][n] = ledger[k][n],
           Records(ledger'[k][Len(ledger[k]) + 1], plan[s][i])
    PROVE  OpenTail(s, k)'
<1>1. Cardinality(mine) \in Nat /\ Cardinality(mine \cup {i}) = Cardinality(mine) + 1
  BY FS_CardinalityType, FS_AddElement
<1>2. PICK c \in Nat : c = Cardinality(mine)
  BY <1>1
<1>3. PICK all : all = mine \cup {i}
  OBVIOUS
<1>4. Inserted(s, k)' = all /\ Cardinality(all) = c + 1
  BY <1>1, <1>2, <1>3
<1>5. \A x \in all, j \in todo'[s] : plan'[s][j].key = k => x < j
  BY <1>3 DEF OpenTail
<1>6. Len(ledger'[k]) = durable'[k] + Cardinality(all)
  BY <1>2, <1>4
<1>7. ASSUME NEW n \in 1..(c + 1) PROVE NthInserted(s, k, n)'
  <2>1. CASE n = c + 1
    <3>1. Upto(all, i) = all
      BY <1>3 DEF Upto
    <3>2. durable'[k] + n = Len(ledger[k]) + 1
      <4>1. PICK b, l : b \in Nat /\ b = durable[k] /\ l = Len(ledger[k])
        OBVIOUS
      <4>2. l = b + c
        BY <1>2, <4>1
      <4>3. b + n = l + 1
        BY <2>1, <4>1, <4>2
      <4>4. QED
        BY <4>1, <4>3
    <3>3. i \in all /\ Cardinality(Upto(all, i)) = n
      BY <1>3, <1>4, <2>1, <3>1
    <3>4. Records(ledger'[k][durable'[k] + n], plan'[s][i])
      BY <3>2
    <3>5. QED
      BY <1>4, <3>3, <3>4 DEF NthInserted, Records, Upto
  <2>2. CASE n # c + 1
    <3>1. n \in 1..c
      BY <2>2
    <3>2. PICK j \in mine : /\ Cardinality(Upto(mine, j)) = n
                            /\ Records(ledger[k][durable[k] + n], plan[s][j])
      BY <1>2, <3>1 DEF NthInserted
    <3>3. Upto(all, j) = Upto(mine, j)
      BY <1>3 DEF Upto
    <3>4. durable[k] + n \in 1..Len(ledger[k])
      BY <1>2, <3>1
    <3>5. ledger'[k][durable'[k] + n] = ledger[k][durable[k] + n]
      BY <3>4
    <3>6. j \in all /\ Cardinality(Upto(all, j)) = n
      BY <1>3, <3>2, <3>3
    <3>7. Records(ledger'[k][durable'[k] + n], plan'[s][j])
      BY <3>2, <3>5
    <3>8. QED
      BY <1>4, <3>6, <3>7 DEF NthInserted, Records, Upto
  <2>3. QED
    BY <2>1, <2>2
<1>8. QED
  BY <1>1, <1>4, <1>5, <1>6, <1>7, <1>3 DEF OpenTail

\* The movements a session has for one stock row are of one call.
LEMMA SameRowSameCall ==
    ASSUME Shape, Faithful, NEW s \in Session,
           NEW i \in DOMAIN plan[s], NEW j \in DOMAIN plan[s], plan[s][i].key = plan[s][j].key
    PROVE  CallOf(s, i) = CallOf(s, j)
<1>1. Task(s) /\ Registered
  BY DEF Faithful, InOrder, Working
<1>2. CASE plan[s] = <<>>
  BY <1>2
<1>3. CASE \E d \in Doc : plan[s] = Movements(d)
  <2>1. PICK d \in Doc : plan[s] = Movements(d)
    BY <1>3
  <2>2. /\ i \in DOMAIN Lines[d] /\ j \in DOMAIN Lines[d]
        /\ Lines[d][i].key = Lines[d][j].key
        /\ CallOf(s, i) = Call[d][i] /\ CallOf(s, j) = Call[d][j]
    BY <2>1, MovementsOf DEF CallOf
  <2>3. QED
    BY <2>2, PostingAssumption
<1>4. CASE \E a : plan[s] = <<CounterMovement(a)>>
  BY <1>4
<1>5. CASE \E a, b \in CommittedId :
              AreLegs(a, b) /\ plan[s] = <<CounterMovement(a), CounterMovement(b)>>
  <2>1. PICK a \in CommittedId, b \in CommittedId :
              AreLegs(a, b) /\ plan[s] = <<CounterMovement(a), CounterMovement(b)>>
    BY <1>5
  <2>2. CounterMovement(a).key # CounterMovement(b).key
    BY <1>1, <2>1, LegsOfOneDocument DEF CounterMovement
  <2>3. i = j
    <3>1. DOMAIN plan[s] = 1..2
      BY <2>1
    <3>2. plan[s][1] = CounterMovement(a) /\ plan[s][2] = CounterMovement(b)
      BY <2>1
    <3>3. i \in {1, 2} /\ j \in {1, 2}
      BY <3>1
    <3>4. QED
      BY <2>2, <3>2, <3>3
  <2>4. QED
    BY <2>3
<1>6. QED
  BY <1>1, <1>2, <1>3, <1>4, <1>5 DEF Task, ReversesOne, ReversesLegs

LEMMA FaithfulInsertEntry ==
    ASSUME Shape, Shape', CommittedStays, AllOrdered, Faithful, NEW s \in Session, InsertEntry(s)
    PROVE  Faithful'
<1>1. PICK i \in todo[s] :
        LET m == plan[s][i]
            after == View(stock[m.key], s) + m.quantity
        IN  /\ pc[s] = "move"
            /\ NextInKeyOrder(s, i)
            /\ Accepted(s, m)
            /\ Free(stock[m.key], s)
            /\ stock' = [stock EXCEPT ![m.key] = Written(@, s, after)]
            /\ ledger' = [ledger EXCEPT ![m.key] = Append(@, EntryFor(m, after))]
            /\ todo' = [todo EXCEPT ![s] = @ \ {i}]
            /\ pc' = [pc EXCEPT ![s] = IF EndsCall(s, i) THEN "rule" ELSE "move"]
            /\ UNCHANGED <<durable, plan, targets>>
  <2>1. PICK i \in todo[s] :
          LET m == plan[s][i]
              after == View(stock[m.key], s) + m.quantity
          IN  /\ pc[s] = "move"
              /\ NextInKeyOrder(s, i)
              /\ Accepted(s, m)
              /\ Free(stock[m.key], s)
              /\ stock' = [stock EXCEPT ![m.key] = Written(@, s, after)]
              /\ ledger' = [ledger EXCEPT ![m.key] = Append(@, EntryFor(m, after))]
              /\ todo' = [todo EXCEPT ![s] = @ \ {i}]
              /\ IF EndsCall(s, i) THEN pc' = [pc EXCEPT ![s] = "rule"] ELSE UNCHANGED pc
              /\ UNCHANGED <<durable, plan, targets>>
    BY DEF InsertEntry
  <2>2. pc' = [pc EXCEPT ![s] = IF EndsCall(s, i) THEN "rule" ELSE "move"]
    BY <2>1 DEF Shape, TypeOK
  <2>3. QED
    BY <2>1, <2>2
<1>2. PICK m, after : m = plan[s][i] /\ after = View(stock[m.key], s) + m.quantity
  OBVIOUS
<1>3. PICK e : e = EntryFor(m, after)
  OBVIOUS
<1>4. /\ m \in Movement /\ m.key \in Key /\ e \in Entry
  <2>1. m \in Movement /\ e \in Entry
    BY <1>1, <1>2, <1>3, InsertedEntry
  <2>2. QED
    BY <2>1 DEF Movement
<1>5. /\ pc[s] = "move" /\ NextInKeyOrder(s, i) /\ Free(stock[m.key], s)
      /\ stock'[m.key].holder = s
      /\ ledger'[m.key] = Append(ledger[m.key], e)
      /\ \A k \in Key \ {m.key} : stock'[k] = stock[k] /\ ledger'[k] = ledger[k]
      /\ todo'[s] = todo[s] \ {i}
      /\ pc'[s] \in {"rule", "move"}
      /\ \A t \in Session \ {s} : Still(t)
      /\ UNCHANGED <<durable, plan, targets>>
  <2>1. stock'[m.key] = Written(stock[m.key], s, after) /\ stock[m.key] \in Row(Nat)
    BY <1>1, <1>2, <1>4 DEF Shape, TypeOK
  <2>2. stock'[m.key].holder = s
    BY <2>1 DEF Written, Row
  <2>3. ledger'[m.key] = Append(ledger[m.key], e)
    BY <1>1, <1>2, <1>3, <1>4 DEF Shape, TypeOK
  <2>4. \A k \in Key \ {m.key} : stock'[k] = stock[k] /\ ledger'[k] = ledger[k]
    BY <1>1, <1>2 DEF Shape, TypeOK
  <2>5. todo'[s] = todo[s] \ {i} /\ pc'[s] \in {"rule", "move"}
    BY <1>1 DEF Shape, TypeOK
  <2>6. \A t \in Session \ {s} : Still(t)
    BY <1>1 DEF Shape, TypeOK, Still
  <2>7. QED
    BY <1>1, <1>2, <2>2, <2>3, <2>4, <2>5, <2>6
<1>6. i \in DOMAIN plan[s] /\ todo[s] \subseteq DOMAIN plan[s] /\ i \in Nat
      /\ \A D \in SUBSET DOMAIN plan[s] : IsFiniteSet(D) /\ D \subseteq Nat
  <2>1. plan[s] \in Seq(Movement) /\ todo[s] \subseteq DOMAIN plan[s]
    BY DEF Shape, TypeOK, TodoInPlan
  <2>2. QED
    BY <2>1, LinesFinite
<1>7. Apart(s)
  <2>1. \A t \in Session \ {s} : stock[m.key].holder # t
    BY <1>5, NoSessionIsNotASession DEF Free
  <2>2. ASSUME NEW t \in Session \ {s} PROVE Leaves(t)
    BY <1>5, <2>1 DEF Leaves
  <2>3. QED
    BY <1>5, <2>2 DEF Apart
<1>8. Working(s)'
  <2>1. Working(s)
    BY DEF Faithful, InOrder
  <2>2. Task(s)'
    BY <1>5, <2>1, TaskKept DEF Working
  <2>3. targets'[s] = <<>>
    BY <1>5, <2>1 DEF Working
  <2>4. QED
    BY <1>5, <2>2, <2>3 DEF Working
<1>9. ASSUME NEW k \in Key PROVE OpenTail(s, k)'
  <2>1. OpenTail(s, k)
    BY DEF Faithful, InOrder
  <2>2. CASE k # m.key
    <3>1. Inserted(s, k)' = Inserted(s, k)
      BY <1>2, <1>5, <2>2 DEF Inserted
    <3>2. QED
      BY <1>5, <2>1, <2>2, <3>1, TailKept
  <2>3. CASE k = m.key
    <3>1. PICK mine : mine = Inserted(s, k)
      OBVIOUS
    <3>2. IsFiniteSet(mine) /\ mine \subseteq Nat
      BY <1>6, <3>1 DEF Inserted
    <3>3. i \notin mine /\ Inserted(s, k)' = mine \cup {i}
      BY <1>2, <1>5, <1>6, <2>3, <3>1 DEF Inserted
    <3>4. \A x \in mine : x < i
      BY <1>2, <2>1, <2>3, <3>1 DEF OpenTail
    <3>5. \A j \in todo'[s] : j \in todo[s] /\ (plan[s][j].key = k => i < j)
      <4>1. ASSUME NEW j \in todo'[s], plan[s][j].key = k PROVE i < j
        <5>1. j \in todo[s] /\ j # i /\ j \in Nat
          BY <1>5, <1>6
        <5>2. ~(k < k) /\ ~(CallOf(s, i) < CallOf(s, j))
          <6>1. k \in Int
            BY <1>4, <2>3, PostingAssumption
          <6>2. CallOf(s, i) = CallOf(s, j) /\ CallOf(s, i) \in Nat
            BY <1>2, <1>6, <2>3, <4>1, <5>1, SameRowSameCall, CallsAreNumbers
          <6>3. QED
            BY <6>1, <6>2
        <5>3. i <= j
          BY <1>2, <1>5, <2>3, <4>1, <5>1, <5>2 DEF NextInKeyOrder
        <5>4. QED
          BY <1>6, <5>1, <5>3
      <4>2. QED
        BY <1>5, <4>1
    <3>6. /\ durable[k] \in Nat /\ ledger[k] \in Seq(Entry) /\ Len(ledger[k]) \in Nat
      BY DEF Shape, TypeOK
    <3>7. /\ Len(ledger[k]) = durable[k] + Cardinality(mine)
          /\ \A n \in 1..Cardinality(mine) : NthInserted(s, k, n)
      <4>1. CASE stock[k].holder = s
        BY <2>1, <3>1, <4>1 DEF OpenTail
      <4>2. CASE stock[k].holder # s
        <5>1. mine = {} /\ stock[k].holder = NoSession
          BY <1>5, <2>1, <2>3, <3>1, <4>2 DEF OpenTail, Free
        <5>2. durable[k] = Len(ledger[k]) /\ Cardinality(mine) = 0
          BY <5>1, FS_EmptySet DEF Shape, TailIsHeld
        <5>3. 1..Cardinality(mine) = {}
          BY <5>2
        <5>4. QED
          BY <3>6, <5>2, <5>3
      <4>3. QED
        BY <4>1, <4>2
    <3>8. /\ Len(ledger'[k]) = Len(ledger[k]) + 1
          /\ \A n \in 1..Len(ledger[k]) : ledger'[k][n] = ledger[k][n]
          /\ ledger'[k][Len(ledger[k]) + 1] = e
      <4>1. ledger'[k] = Append(ledger[k], e)
        BY <1>5, <2>3
      <4>2. PICK l : l = ledger[k] /\ l \in Seq(Entry)
        BY <3>6
      <4>3. /\ Len(Append(l, e)) = Len(l) + 1
            /\ \A n \in 1..Len(l) : Append(l, e)[n] = l[n]
            /\ Append(l, e)[Len(l) + 1] = e
        BY <1>4, <4>2, AppendProperties
      <4>4. QED
        BY <4>1, <4>2, <4>3
    <3>9. Records(ledger'[k][Len(ledger[k]) + 1], plan[s][i])
      BY <1>2, <1>3, <3>8 DEF Records, EntryFor
    <3>10. plan'[s] = plan[s] /\ stock'[k].holder = s /\ durable'[k] = durable[k] /\ i \in Nat
      BY <1>5, <1>6, <2>3
    <3>11. QED
      BY <2>1, <3>1, <3>2, <3>3, <3>4, <3>5, <3>6, <3>7, <3>8, <3>9, <3>10, TailGrows
  <2>4. QED
    BY <2>2, <2>3
<1>10. Claims(s)
  BY <1>5, WorksOnKept DEF Claims
<1>11. Renews(s)
  BY <1>5 DEF Renews
<1>12. QED
  BY <1>5, <1>7, <1>8, <1>9, <1>10, <1>11, FaithfulAfter

\* Entry a, committed by s, records movement i of what s set out to do.
NewEntry(s, a, i) ==
    /\ i \in Inserted(s, a[1])
    /\ a[2] = durable[a[1]] + Cardinality(Upto(Inserted(s, a[1]), i))
    /\ Records(EntryAt(a), plan[s][i])

CommitsTail(s) ==
    /\ pc[s] = "commit" /\ ledger' = ledger
    /\ \A k \in Key : /\ durable'[k] = IF stock[k].holder = s THEN Len(ledger[k]) ELSE durable[k]
                      /\ stock'[k] = IF stock[k].holder = s THEN Stored(stock[k].new) ELSE stock[k]
                      /\ stock'[k].holder # s
                      /\ \A t \in Session \ {s} : stock'[k].holder = t <=> stock[k].holder = t

LEMMA CommitTails ==
    ASSUME Shape, NEW s \in Session, Commit(s)
    PROVE  CommitsTail(s) /\ Release(s)
<1>1. /\ pc[s] = "commit" /\ ledger' = ledger /\ Release(s)
      /\ \A k \in Key : /\ stock'[k] = IF stock[k].holder = s THEN Stored(stock[k].new) ELSE stock[k]
                        /\ durable'[k] = IF stock[k].holder = s THEN Len(ledger[k]) ELSE durable[k]
  BY DEF Commit, Committed, Shape, TypeOK
<1>2. ASSUME NEW k \in Key
      PROVE  /\ stock'[k].holder # s
             /\ \A t \in Session \ {s} : stock'[k].holder = t <=> stock[k].holder = t
  <2>1. CASE stock[k].holder = s
    <3>1. stock'[k] = Stored(stock[k].new)
      BY <1>1, <2>1
    <3>2. stock'[k].holder = NoSession
      BY <3>1 DEF Stored
    <3>3. QED
      BY <2>1, <3>2, NoSessionIsNotASession
  <2>2. CASE stock[k].holder # s
    BY <1>1, <2>2
  <2>3. QED
    BY <2>1, <2>2
<1>3. QED
  BY <1>1, <1>2 DEF CommitsTail

LEMMA NewlyCommitted ==
    ASSUME Shape, Shape', Faithful, NEW s \in Session, CommitsTail(s),
           NEW a \in CommittedId', a \notin CommittedId
    PROVE  /\ a[1] \in Key /\ a[2] \in Nat /\ a = <<a[1], a[2]>>
           /\ stock[a[1]].holder = s
           /\ \E i \in DOMAIN plan[s] : NewEntry(s, a, i)
<1>1. a[1] \in Key /\ a[2] \in 1..durable'[a[1]] /\ a = <<a[1], a[2]>>
  BY DEF CommittedId
<1>2. PICK k \in Key, n \in Nat : k = a[1] /\ n = a[2] /\ n \in 1..durable'[k]
  BY <1>1 DEF Shape, TypeOK
<1>3. n \notin 1..durable[k]
  BY <1>1, <1>2 DEF CommittedId
<1>4. /\ durable[k] \in Nat /\ stock[k].holder = s /\ durable'[k] = Len(ledger[k])
      /\ Len(ledger[k]) \in Nat
  BY <1>2, <1>3 DEF CommitsTail, Shape, TypeOK
<1>5. OpenTail(s, k)
  BY DEF Faithful, InOrder
<1>6. PICK mine : mine = Inserted(s, k)
  OBVIOUS
<1>7. mine \subseteq DOMAIN plan[s] /\ IsFiniteSet(mine)
  <2>1. plan[s] \in Seq(Movement)
    BY DEF Shape, TypeOK
  <2>2. QED
    BY <1>6, <2>1, LinesFinite DEF Inserted
<1>8. /\ Len(ledger[k]) = durable[k] + Cardinality(mine) /\ Cardinality(mine) \in Nat
      /\ \A q \in 1..Cardinality(mine) : NthInserted(s, k, q)
  BY <1>4, <1>5, <1>6, <1>7, FS_CardinalityType DEF OpenTail
<1>9. PICK q \in 1..Cardinality(mine) : n = durable[k] + q
  <2>1. n - durable[k] \in 1..Cardinality(mine) /\ n = durable[k] + (n - durable[k])
    BY <1>2, <1>3, <1>4, <1>8
  <2>2. QED
    BY <2>1
<1>10. PICK i \in mine : /\ Cardinality(Upto(mine, i)) = q
                         /\ Records(ledger[k][durable[k] + q], plan[s][i])
  BY <1>6, <1>8, <1>9 DEF NthInserted
<1>11. NewEntry(s, a, i)
  BY <1>2, <1>6, <1>9, <1>10 DEF NewEntry, EntryAt
<1>12. QED
  BY <1>1, <1>2, <1>4, <1>7, <1>10, <1>11

\* A movement that is no reversal is a line of the document being posted.
LEMMA PostsLines ==
    ASSUME NEW s, Task(s), NEW i \in DOMAIN plan[s], plan[s][i].type # "REVERSAL"
    PROVE  \E d \in Doc : plan[s] = Movements(d)
<1>1. \A a : CounterMovement(a).type = "REVERSAL"
  BY DEF CounterMovement
<1>2. plan[s] # <<>>
  OBVIOUS
<1>3. CASE \E a : ReversesOne(s, a)
  <2>1. PICK a : plan[s] = <<CounterMovement(a)>>
    BY <1>2, <1>3 DEF ReversesOne
  <2>2. plan[s][i] = CounterMovement(a)
    BY <2>1
  <2>3. QED
    BY <1>1, <2>2
<1>4. CASE \E a, b : ReversesLegs(s, a, b)
  <2>1. PICK a, b : plan[s] = <<CounterMovement(a)>> \/ plan[s] = <<CounterMovement(a), CounterMovement(b)>>
    BY <1>2, <1>4 DEF ReversesLegs
  <2>2. plan[s][i] = CounterMovement(a) \/ plan[s][i] = CounterMovement(b)
    BY <2>1
  <2>3. QED
    BY <1>1, <2>2
<1>5. QED
  BY <1>2, <1>3, <1>4 DEF Task

\* A new entry that is no reversal is a line of the document s posts.
LEMMA NewLine ==
    ASSUME Faithful, NEW s \in Session, NEW a, NEW i \in DOMAIN plan[s], NewEntry(s, a, i),
           EntryAt(a).type # "REVERSAL"
    PROVE  /\ EntryAt(a).ref \in Doc /\ plan[s] = Movements(EntryAt(a).ref)
           /\ EntryAt(a).line = i /\ IsLine(a) /\ ~IsPosted(EntryAt(a).ref)
<1>1. Task(s) /\ FreshAt(s)
  BY DEF Faithful, InOrder, Working
<1>2. Records(EntryAt(a), plan[s][i]) /\ plan[s][i].key = a[1]
  BY DEF NewEntry, Inserted
<1>3. plan[s][i].type # "REVERSAL"
  BY <1>2 DEF Records
<1>4. PICK d \in Doc : plan[s] = Movements(d)
  BY <1>1, <1>3, PostsLines
<1>5. /\ i \in DOMAIN Lines[d] /\ plan[s][i].ref = d /\ plan[s][i].line = i
      /\ plan[s][i].key = Lines[d][i].key /\ plan[s][i].type = Lines[d][i].type
  BY <1>4, MovementsOf
<1>6. EntryAt(a).ref = d /\ EntryAt(a).line = i /\ EntryAt(a).type = Lines[d][i].type
  BY <1>2, <1>5 DEF Records
<1>7. IsLine(a)
  BY <1>2, <1>5, <1>6 DEF IsLine
<1>8. ~IsPosted(d)
  BY <1>1, <1>3, <1>5 DEF FreshAt
<1>9. QED
  BY <1>4, <1>6, <1>7, <1>8

LEMMA RegisteredCommit ==
    ASSUME Shape, Shape', CommittedStays, Faithful, NEW s \in Session, CommitsTail(s)
    PROVE  Registered'
<1>1. \A x : EntryAt(x)' = EntryAt(x)
  BY DEF CommitsTail, EntryAt
<1>2. \A x, y : (SameLine(x, y)' <=> SameLine(x, y)) /\ (IsLine(x)' <=> IsLine(x))
  BY <1>1 DEF SameLine, IsLine
<1>3. ASSUME NEW a \in CommittedId', EntryAt(a).type # "REVERSAL"
      PROVE  IsLine(a)
  <2>1. CASE a \in CommittedId
    BY <1>3, <2>1 DEF Faithful, Registered
  <2>2. CASE a \notin CommittedId
    BY <1>3, <2>2, NewlyCommitted, NewLine
  <2>3. QED
    BY <2>1, <2>2
<1>4. ASSUME NEW a \in CommittedId', NEW b \in CommittedId', SameLine(a, b),
             EntryAt(a).type # "REVERSAL"
      PROVE  a = b
  <2>1. EntryAt(b).type # "REVERSAL" /\ EntryAt(b).ref = EntryAt(a).ref /\ EntryAt(b).line = EntryAt(a).line
    BY <1>4 DEF SameLine
  <2>2. \A x \in CommittedId : IsPosted(EntryAt(x).ref)
    <3>1. ASSUME NEW x \in CommittedId PROVE IsPosted(EntryAt(x).ref)
      <4>1. x[1] \in Key /\ x[2] \in 1..durable[x[1]]
        BY CommittedIds
      <4>2. QED
        BY <4>1 DEF IsPosted, EntryAt
    <3>2. QED
      BY <3>1
  <2>3. CASE a \in CommittedId /\ b \in CommittedId
    BY <1>4, <2>3 DEF Faithful, Registered
  <2>4. CASE a \notin CommittedId /\ b \in CommittedId
    BY <1>4, <2>1, <2>2, <2>4, NewlyCommitted, NewLine
  <2>5. CASE a \in CommittedId /\ b \notin CommittedId
    BY <2>1, <2>2, <2>5, NewlyCommitted, NewLine
  <2>6. CASE a \notin CommittedId /\ b \notin CommittedId
    <3>1. PICK i \in DOMAIN plan[s] : NewEntry(s, a, i)
      BY <2>6, NewlyCommitted
    <3>2. PICK j \in DOMAIN plan[s] : NewEntry(s, b, j)
      BY <2>6, NewlyCommitted
    <3>3. EntryAt(a).line = i /\ EntryAt(b).line = j
      BY <1>4, <2>1, <3>1, <3>2, NewLine
    <3>4. i = j
      BY <2>1, <3>3
    <3>5. a[1] = b[1]
      BY <3>1, <3>2, <3>4 DEF NewEntry, Inserted
    <3>6. a[2] = b[2]
      BY <3>1, <3>2, <3>4, <3>5 DEF NewEntry
    <3>7. QED
      BY <2>6, <3>5, <3>6, NewlyCommitted
  <2>7. QED
    BY <2>3, <2>4, <2>5, <2>6
<1>5. QED
  BY <1>1, <1>2, <1>3, <1>4 DEF Registered

\* A session with a movement that is no reversal posts the document of it.
LEMMA PostsADocument ==
    ASSUME Faithful, NEW t \in Session, NEW i \in DOMAIN plan[t],
           plan[t][i].type # "REVERSAL"
    PROVE  plan[t] = Movements(plan[t][i].ref) /\ plan[t][i].ref \in Doc
<1>1. Task(t)
  BY DEF Faithful, InOrder, Working
<1>2. \A a : CounterMovement(a).type = "REVERSAL"
  BY DEF CounterMovement
<1>3. CASE plan[t] = <<>>
  BY <1>3
<1>4. CASE \E a : plan[t] = <<CounterMovement(a)>>
  <2>1. PICK a : plan[t] = <<CounterMovement(a)>>
    BY <1>4
  <2>2. plan[t][i] = CounterMovement(a)
    BY <2>1
  <2>3. QED
    BY <1>2, <2>2
<1>5. CASE \E a, b : plan[t] = <<CounterMovement(a), CounterMovement(b)>>
  <2>1. PICK a, b : plan[t] = <<CounterMovement(a), CounterMovement(b)>>
    BY <1>5
  <2>2. plan[t][i] = CounterMovement(a) \/ plan[t][i] = CounterMovement(b)
    BY <2>1
  <2>3. QED
    BY <1>2, <2>2
<1>6. CASE \E d \in Doc : plan[t] = Movements(d)
  BY <1>6, MovementsOf
<1>7. QED
  BY <1>1, <1>3, <1>4, <1>5, <1>6 DEF Task, ReversesOne, ReversesLegs

LEMMA FreshCommit ==
    ASSUME Shape, Shape', CommittedStays, Faithful, NEW s \in Session, CommitsTail(s),
           NEW t \in Session, t # s, plan'[t] = plan[t]
    PROVE  FreshAt(t)'
<1>1. ASSUME NEW i \in DOMAIN plan[t], plan[t][i].type # "REVERSAL", IsPosted(plan[t][i].ref)'
      PROVE  FALSE
  <2>1. PICK d : d = plan[t][i].ref
    OBVIOUS
  <2>2. ~IsPosted(d)
    BY <1>1, <2>1 DEF Faithful, InOrder, FreshAt
  <2>3. PICK k, n : k \in Key /\ n \in 1..durable'[k] /\ ledger'[k][n].ref = d
    BY <1>1, <2>1 DEF IsPosted
  <2>4. PICK a \in CommittedId' : a = <<k, n>> /\ EntryAt(a).ref = d
    <3>1. <<k, n>> \in CommittedId'
      BY <2>3 DEF CommittedId
    <3>2. EntryAt(<<k, n>>).ref = d
      BY <2>3 DEF EntryAt, CommitsTail
    <3>3. QED
      BY <3>1, <3>2
  <2>5. a \notin CommittedId
    BY <2>2, <2>4 DEF CommittedId, EntryAt, IsPosted
  <2>6. PICK j \in DOMAIN plan[s] : NewEntry(s, a, j)
    BY <2>5, NewlyCommitted
  <2>7. WorksOn(s, DocumentOf(EntryAt(a)))
    BY <2>4, <2>6 DEF NewEntry, Records, WorksOn, DocumentOf
  <2>8. WorksOn(t, DocumentOf(EntryAt(a)))
    <3>1. plan[t] = Movements(d) /\ d \in Doc
      BY <1>1, <2>1, PostsADocument
    <3>2. EntryAt(a).line \in DOMAIN Lines[d]
      <4>1. plan[s][j] \in Movement
        BY <2>6, ElementOfSeq, LenProperties DEF Shape, TypeOK
      <4>2. plan[s][j].ref = d /\ plan[s][j].line = EntryAt(a).line
        BY <2>4, <2>6 DEF NewEntry, Records
      <4>3. QED
        BY <4>1, <4>2 DEF Movement
    <3>3. DocumentOf(Movements(d)[EntryAt(a).line]) = DocumentOf(EntryAt(a))
      BY <2>4, <3>1, <3>2, MovementsOf DEF DocumentOf
    <3>4. QED
      BY <3>1, <3>2, <3>3, MovementsOf DEF WorksOn
  <2>9. QED
    BY <2>7, <2>8 DEF Faithful, Exclusive
<1>2. QED
  BY <1>1 DEF FreshAt

LEMMA FaithfulCommit ==
    ASSUME Shape, Shape', CommittedStays, Faithful, NEW s \in Session, Commit(s)
    PROVE  Faithful'
<1>1. CommitsTail(s) /\ Release(s)
  BY CommitTails
<1>2. ASSUME NEW t \in Session \ {s} PROVE Leaves(t)
  BY <1>1 DEF CommitsTail, Leaves
<1>3. \A t \in Session \ {s} : Still(t)
  BY <1>1, Released
<1>4. ASSUME NEW t \in Session PROVE InOrder(t)'
  <2>1. CASE t = s
    <3>1. Working(s)' /\ \A k \in Key : OpenTail(s, k)'
      BY <1>1, Released, NothingInserted DEF CommitsTail
    <3>2. FreshAt(s)'
      BY <1>1, Released DEF FreshAt
    <3>3. QED
      BY <2>1, <3>1, <3>2 DEF InOrder
  <2>2. CASE t # s
    <3>1. Working(t)' /\ \A k \in Key : OpenTail(t, k)'
      BY <1>2, <1>3, <2>2, OthersInOrder DEF Faithful, InOrder
    <3>2. FreshAt(t)'
      BY <1>1, <1>3, <2>2, FreshCommit DEF Still
    <3>3. QED
      BY <3>1, <3>2 DEF InOrder
  <2>3. QED
    BY <2>1, <2>2
<1>5. Exclusive'
  <2>1. \A t \in Session \ {s} : \A doc : WorksOn(t, doc)' <=> WorksOn(t, doc)
    BY <1>3, WorksOnKept DEF Still
  <2>2. \A doc : ~WorksOn(s, doc)'
    BY <1>1, Released
  <2>3. QED
    BY <2>1, <2>2 DEF Faithful, Exclusive
<1>6. QED
  BY <1>1, <1>4, <1>5, RegisteredCommit DEF Faithful

LEMMA FaithfulNext == Shape /\ AllOrdered /\ Faithful /\ [Next]_vars => Faithful'
<1> SUFFICES ASSUME Shape, AllOrdered, Faithful, [Next]_vars PROVE Faithful'
  OBVIOUS
<1>1. Shape' /\ CommittedStays
  BY ShapeNext, CommittedKept
<1>2. CASE UNCHANGED vars
  <2>1. UNCHANGED <<stock, ledger, durable, plan, todo, targets, pc>>
    BY <1>2 DEF vars, tables, request
  <2>2. /\ \A x : EntryAt(x)' = EntryAt(x)
        /\ CommittedId' = CommittedId
        /\ \A d : IsPosted(d)' <=> IsPosted(d)
    BY <2>1 DEF EntryAt, CommittedId, IsPosted
  <2>3. ASSUME NEW t \in Session PROVE InOrder(t)'
    <3>1. InOrder(t) /\ Still(t) /\ Leaves(t)
      BY <2>1 DEF Faithful, Still, Leaves
    <3>2. Working(t)' /\ \A k \in Key : OpenTail(t, k)'
      BY <1>1, <3>1, OthersInOrder DEF InOrder
    <3>3. FreshAt(t)'
      BY <2>1, <2>2, <3>1 DEF InOrder, FreshAt
    <3>4. QED
      BY <3>2, <3>3 DEF InOrder
  <2>4. Exclusive'
    BY <1>1, <2>1, WorksOnKept DEF Faithful, Exclusive
  <2>5. Registered'
    <3>1. \A x, y : (SameLine(x, y)' <=> SameLine(x, y)) /\ (IsLine(x)' <=> IsLine(x))
      BY <2>2 DEF SameLine, IsLine
    <3>2. QED
      BY <2>2, <3>1 DEF Faithful, Registered
  <2>6. QED
    BY <2>3, <2>4, <2>5 DEF Faithful
<1>3. CASE Next
  <2>1. PICK s \in Session :
          \/ \E d \in Doc : BeginPosting(s, d)
          \/ \E id \in CommittedId : BeginReversal(s, id)
          \/ \E change \in RuleChange : SaveRule(s, change[1], change[2])
          \/ LockEntry(s)
          \/ LoadReversible(s)
          \/ InsertEntry(s)
          \/ \E p \in Pair : ReadRule(s, p) \/ ReadStock(s, p) \/ RaiseAlert(s, p) \/ ResolveAlert(s, p)
          \/ Commit(s)
          \/ Rollback(s)
    BY <1>3 DEF Next, RefuseReversal, RefuseMovement, Abort
  <2>2. CASE \E d \in Doc : BeginPosting(s, d)
    BY <1>1, <2>2, FaithfulBeginPosting
  <2>3. CASE \E id \in CommittedId : BeginReversal(s, id)
    BY <1>1, <2>3, FaithfulBeginReversal
  <2>4. CASE \E change \in RuleChange : SaveRule(s, change[1], change[2])
    <3>1. PICK change \in RuleChange : SaveRule(s, change[1], change[2])
      BY <2>4
    <3>2. change[1] \in Pair /\ change[2] \in Level
      BY <3>1, PostingAssumption
    <3>3. QED
      BY <1>1, <3>1, <3>2, FaithfulSaveRule
  <2>5. CASE LockEntry(s)
    BY <1>1, <2>5, FaithfulLockEntry
  <2>6. CASE LoadReversible(s)
    BY <1>1, <2>6, FaithfulLoadReversible
  <2>7. CASE InsertEntry(s)
    BY <1>1, <2>7, FaithfulInsertEntry
  <2>8. CASE \E p \in Pair : ReadRule(s, p) \/ ReadStock(s, p) \/ RaiseAlert(s, p) \/ ResolveAlert(s, p)
    BY <1>1, <2>8, FaithfulAlertSteps
  <2>9. CASE Commit(s)
    BY <1>1, <2>9, FaithfulCommit
  <2>10. CASE Rollback(s)
    BY <1>1, <2>10, FaithfulRollback
  <2>11. QED
    BY <2>1, <2>2, <2>3, <2>4, <2>5, <2>6, <2>7, <2>8, <2>9, <2>10
<1>4. QED
  BY <1>2, <1>3

\* The sums and sizes of the abstract module are those of this one.
LEMMA SameOperators ==
    /\ \A S : Abstract!Cardinality(S) = Cardinality(S)
    /\ \A f, S : Abstract!SumFunctionOnSet(f, S) = SumFunctionOnSet(f, S)
<1>1. \A S : Abstract!Cardinality(S) = Cardinality(S)
  BY DEF Abstract!Cardinality, Cardinality
<1>2. ASSUME NEW f, NEW S PROVE Abstract!SumFunctionOnSet(f, S) = SumFunctionOnSet(f, S)
  <2>1. Abstract!SumFunctionOnSet(f, S) = (CHOOSE g : Folds(g, f, S))[S]
    BY DEF Abstract!SumFunctionOnSet, Abstract!FoldFunctionOnSet, Abstract!MapThenFoldSet, Folds, Drawn
  <2>2. QED
    BY <2>1, SumIsFold
<1>3. QED
  BY <1>1, <1>2

\* A quantity that grows by f[i] at each i is at n the sum of f up to n.
LEMMA RunningTotal ==
    ASSUME NEW n \in Nat, NEW f, \A i \in 1..n : f[i] \in Int,
           NEW total, total[0] = 0, \A i \in 1..n : total[i] = total[i - 1] + f[i]
    PROVE  SumFunctionOnSet(f, 1..n) = total[n]
<1> DEFINE Bad == {T \in SUBSET (1..n) : \E m \in 0..n : T = 1..m /\ SumFunctionOnSet(f, T) # total[m]}
<1> SUFFICES ASSUME SumFunctionOnSet(f, 1..n) # total[n] PROVE FALSE
  OBVIOUS
<1>1. IsFiniteSet(1..n)
  BY FS_Interval
<1>2. 1..n \in Bad
  OBVIOUS
<1>3. PICK T \in Bad : \A U \in Bad : U \subseteq T => U = T
  <2>1. PICK S : S = 1..n
    OBVIOUS
  <2>2. Bad \subseteq SUBSET S /\ Bad # {}
    BY <1>2, <2>1
  <2>3. IsFiniteSet(S)
    BY <1>1, <2>1
  <2> HIDE DEF Bad
  <2>4. QED
    BY <2>2, <2>3, SmallestSubset
<1>4. PICK m \in 0..n : T = 1..m /\ SumFunctionOnSet(f, 1..m) # total[m]
  BY <1>3
<1>5. m # 0
  <2>1. 1..0 = {}
    OBVIOUS
  <2>2. QED
    BY <1>4, <2>1, SumEmpty
<1>6. PICK p \in 0..n : m = p + 1
  <2>1. m - 1 \in 0..n /\ m = (m - 1) + 1
    BY <1>5
  <2>2. QED
    BY <2>1
<1>7. SumFunctionOnSet(f, 1..p) = total[p]
  <2>1. 1..p \subseteq 1..n /\ 1..p \subseteq T /\ m \in T /\ m \notin 1..p
    BY <1>4, <1>6
  <2>2. 1..p \notin Bad
    BY <1>3, <2>1
  <2>3. QED
    BY <2>1, <2>2
<1>8. SumFunctionOnSet(f, 1..m) = f[m] + SumFunctionOnSet(f, 1..p)
  <2>1. IsFiniteSet(1..p) /\ m \notin 1..p /\ (1..p) \cup {m} = 1..m
    <3>1. p \in Int /\ 1 \in Int
      OBVIOUS
    <3>2. IsFiniteSet(1..p)
      BY <3>1, FS_Interval
    <3>3. m \notin 1..p /\ (1..p) \cup {m} = 1..m
      BY <1>6
    <3>4. QED
      BY <3>2, <3>3
  <2>2. \A x \in (1..p) \cup {m} : f[x] \in Int
    BY <1>6
  <2>3. SumFunctionOnSet(f, (1..p) \cup {m}) = f[m] + SumFunctionOnSet(f, 1..p)
    BY <2>1, <2>2, SumPutIn
  <2>4. QED
    BY <2>1, <2>3
<1>9. m \in 1..n /\ total[m] = total[p] + f[m] /\ m - 1 = p
  BY <1>5, <1>6
<1>10. SumFunctionOnSet(f, 1..p) \in Int
  <2>1. p \in Int /\ 1 \in Int /\ \A x \in 1..p : f[x] \in Int
    OBVIOUS
  <2>2. IsFiniteSet(1..p)
    BY <2>1, FS_Interval
  <2>3. QED
    BY <2>1, <2>2, SumInt
<1>11. f[m] \in Int
  BY <1>9
<1>12. QED
  BY <1>4, <1>7, <1>8, <1>9, <1>10, <1>11

LEMMA HistoryOf ==
    ASSUME Shape, NEW k \in Key
    PROVE  /\ durable[k] \in Nat
           /\ DOMAIN CommittedHistory(k) = 1..durable[k]
           /\ \A i \in 1..durable[k] : /\ ledger[k][i] \in Entry
                                       /\ CommittedHistory(k)[i].quantity = ledger[k][i].quantity
<1>1. durable[k] \in Nat /\ durable[k] <= Len(ledger[k]) /\ ledger[k] \in Seq(Entry)
  BY DEF Shape, TypeOK, TailIsHeld
<1>2. \A i \in 1..durable[k] : ledger[k][i] \in Entry
  BY <1>1, ElementOfSeq
<1>3. QED
  BY <1>1, <1>2 DEF CommittedHistory

\* The committed stock of a key is the sum of its committed history.
LEMMA StockIsNet ==
    ASSUME Shape, AllBalanced, NEW k \in Key
    PROVE  /\ Abstract!NetOf(CommittedHistory(k)) = stock[k].saved
           /\ stock[k].saved >= 0
<1>1. PICK n : n = durable[k]
  OBVIOUS
<1>2. PICK f : f = [i \in DOMAIN CommittedHistory(k) |-> CommittedHistory(k)[i].quantity]
  OBVIOUS
<1>3. PICK total : total = [i \in 0..n |-> BalanceAfter(k, i)]
  OBVIOUS
<1>4. n \in Nat /\ DOMAIN CommittedHistory(k) = 1..n
      /\ \A i \in 1..n : ledger[k][i] \in Entry /\ f[i] = ledger[k][i].quantity
  BY <1>1, <1>2, HistoryOf
<1>5. \A i \in 1..n : f[i] \in Int
  BY <1>4 DEF Entry
<1>6. total[0] = 0
  BY <1>3, <1>4 DEF BalanceAfter
<1>7. ASSUME NEW i \in 1..n PROVE total[i] = total[i - 1] + f[i]
  <2>1. i \in 0..n /\ i - 1 \in 0..n /\ i # 0
    BY <1>4
  <2>2. total[i] = BalanceAfter(k, i) /\ total[i - 1] = BalanceAfter(k, i - 1)
    BY <1>3, <2>1
  <2>3. BalanceAfter(k, i) = ledger[k][i].balanceAfter
    BY <2>1 DEF BalanceAfter
  <2>4. i \in 1..Len(ledger[k])
    BY <1>1, <1>4 DEF Shape, TypeOK, TailIsHeld
  <2>5. ledger[k][i].balanceAfter = BalanceAfter(k, i - 1) + ledger[k][i].quantity
    BY <2>4 DEF AllBalanced, Balanced
  <2>6. QED
    BY <1>4, <2>2, <2>3, <2>5
<1>8. SumFunctionOnSet(f, 1..n) = total[n]
  BY <1>4, <1>5, <1>6, <1>7, RunningTotal
<1>9. total[n] = stock[k].saved
  BY <1>1, <1>3, <1>4 DEF AllBalanced, Balanced
<1>10. Abstract!NetOf(CommittedHistory(k)) = SumFunctionOnSet(f, 1..n)
  BY <1>2, <1>4, SameOperators DEF Abstract!NetOf
<1>11. stock[k].saved \in Nat
  BY DEF Shape, TypeOK, Row
<1>12. QED
  BY <1>8, <1>9, <1>10, <1>11

Net(k) == Abstract!NetOf(CommittedHistory(k))

AllNet == \A k \in Key : Net(k) = stock[k].saved /\ stock[k].saved >= 0

LEMMA BalancedIsNet == Shape /\ AllBalanced => AllNet
BY StockIsNet DEF AllNet, Net

Histories == [k \in Key |-> CommittedHistory(k)]
OnHand == [k \in Key |-> stock[k].saved]

LEMMA NextNet ==
    ASSUME NEW k, NEW h, CommittedHistory(k)' = h
    PROVE  Net(k)' = Abstract!NetOf(h)
BY DEF Net, Abstract!NetOf

\* What is on hand follows from the history.
LEMMA OnHandFollows ==
    ASSUME AllNet, AllNet', Histories' = Histories
    PROVE  OnHand' = OnHand
<1>1. ASSUME NEW k \in Key PROVE stock'[k].saved = stock[k].saved
  <2>1. CommittedHistory(k)' = CommittedHistory(k)
    BY DEF Histories
  <2>2. Net(k)' = Net(k)
    BY <2>1, NextNet DEF Net
  <2>3. QED
    BY <2>2 DEF AllNet
<1>2. QED
  BY <1>1 DEF OnHand

LEMMA NothingCommitted ==
    ASSUME Shape, CommittedStays, durable' = durable
    PROVE  Histories' = Histories
<1>1. ASSUME NEW k \in Key PROVE CommittedHistory(k)' = CommittedHistory(k)
  <2>1. \A i \in 1..durable[k] : ledger'[k][i] = ledger[k][i]
    BY DEF CommittedStays
  <2>2. QED
    BY <2>1 DEF CommittedHistory
<1>2. QED
  BY <1>1 DEF Histories

LEMMA RankUnique ==
    ASSUME NEW S, IsFiniteSet(S), S \subseteq Nat, NEW i \in S, NEW j \in S,
           Cardinality(Upto(S, i)) = Cardinality(Upto(S, j))
    PROVE  i = j
<1>1. ASSUME NEW x \in S, NEW y \in S, x < y, Cardinality(Upto(S, x)) = Cardinality(Upto(S, y))
      PROVE  FALSE
  <2>1. Upto(S, y) \in SUBSET S /\ Upto(S, x) \in SUBSET Upto(S, y)
    <3>1. x \in Nat /\ y \in Nat /\ x < y
      BY <1>1
    <3>2. \A z \in S : z \in Nat /\ (z <= x => z <= y)
      BY <3>1
    <3>3. QED
      BY <3>2 DEF Upto
  <2>2. IsFiniteSet(Upto(S, y))
    BY <2>1, FS_Subset
  <2>3. Upto(S, x) = Upto(S, y)
    BY <1>1, <2>1, <2>2, FS_Subset
  <2>4. y \in Upto(S, y) /\ y \notin Upto(S, x)
    BY <1>1 DEF Upto
  <2>5. QED
    BY <2>3, <2>4
<1>2. i \in Nat /\ j \in Nat
  OBVIOUS
<1>3. ~(i < j) /\ ~(j < i)
  BY <1>1
<1>4. QED
  BY <1>2, <1>3

LEMMA NthIs ==
    ASSUME NEW S, IsFiniteSet(S), S \subseteq Nat, NEW i \in S, NEW n,
           n = Cardinality(Upto(S, i))
    PROVE  Abstract!Nth(S, n) = i
<1>1. Abstract!Nth(S, n) = CHOOSE x \in S : Cardinality(Upto(S, x)) = n
  BY SameOperators DEF Abstract!Nth, Upto
<1>2. \A x \in S : Cardinality(Upto(S, x)) = n => x = i
  BY RankUnique
<1>3. (CHOOSE x \in S : Cardinality(Upto(S, x)) = n) = i
  BY <1>2
<1>4. QED
  BY <1>1, <1>3

\* An entry as the abstract ledger keeps it.
Shown(e) ==
    [type |-> e.type, quantity |-> e.quantity, ref |-> e.ref, line |-> e.line,
     reverses |-> e.reverses]

LEMMA RecordedIsShown ==
    ASSUME NEW e, NEW m, Records(e, m)
    PROVE  Shown(e) = Shown(m)
BY DEF Records, Shown

\* The entries s has inserted for k, in the order in which it inserted them.
NewTail(s, k) ==
    [n \in 1..Cardinality(Inserted(s, k)) |-> Shown(ledger[k][durable[k] + n])]

LEMMA InsertedAre ==
    ASSUME Shape, NEW s \in Session, NEW k
    PROVE  /\ Inserted(s, k) \subseteq Nat /\ Inserted(s, k) \subseteq DOMAIN plan[s]
           /\ IsFiniteSet(Inserted(s, k)) /\ Cardinality(Inserted(s, k)) \in Nat
<1>1. plan[s] \in Seq(Movement)
  BY DEF Shape, TypeOK
<1>2. Inserted(s, k) \in SUBSET DOMAIN plan[s]
  BY DEF Inserted
<1>3. IsFiniteSet(Inserted(s, k)) /\ \A n \in DOMAIN plan[s] : n \in Nat
  BY <1>1, <1>2, LinesFinite
<1>4. QED
  BY <1>2, <1>3, FS_CardinalityType

LEMMA HistoryGrows ==
    ASSUME Shape, Faithful, NEW s \in Session, CommitsTail(s), NEW k \in Key
    PROVE  CommittedHistory(k)' = CommittedHistory(k) \o NewTail(s, k)
<1>1. PICK c \in Nat : c = Cardinality(Inserted(s, k))
  BY InsertedAre
<1>2. PICK b \in Nat : b = durable[k]
  BY DEF Shape, TypeOK
<1>3. OpenTail(s, k)
  BY DEF Faithful, InOrder
<1>4. durable'[k] = b + c
  <2>1. CASE stock[k].holder = s
    BY <1>1, <1>2, <1>3, <2>1 DEF OpenTail, CommitsTail
  <2>2. CASE stock[k].holder # s
    <3>1. Inserted(s, k) = {} /\ durable'[k] = b
      BY <1>2, <1>3, <2>2 DEF OpenTail, CommitsTail
    <3>2. c = 0
      BY <1>1, <3>1, FS_EmptySet
    <3>3. QED
      BY <3>1, <3>2
  <2>3. QED
    BY <2>1, <2>2
<1>5. PICK l : l = ledger[k] /\ l = ledger'[k]
  BY DEF CommitsTail
<1>6. PICK h : h = [i \in 1..b |-> Shown(l[i])]
  OBVIOUS
<1>7. PICK g : g = [i \in 1..(b + c) |-> Shown(l[i])]
  OBVIOUS
<1>8. PICK q : q = [n \in 1..c |-> Shown(l[b + n])]
  OBVIOUS
<1>9. h = CommittedHistory(k) /\ q = NewTail(s, k)
  BY <1>1, <1>2, <1>5, <1>6, <1>8 DEF CommittedHistory, NewTail, Shown
<1>10. g = CommittedHistory(k)'
  BY <1>4, <1>5, <1>7 DEF CommittedHistory, Shown
<1>11. PICK V : V = {Shown(l[i]) : i \in Nat}
  OBVIOUS
<1>12. /\ h \in Seq(V) /\ Len(h) = b
       /\ g \in Seq(V) /\ Len(g) = b + c
       /\ q \in Seq(V) /\ Len(q) = c
  <2>1. (\A i \in 1..b : Shown(l[i]) \in V) /\ (\A i \in 1..(b + c) : Shown(l[i]) \in V)
        /\ (\A n \in 1..c : Shown(l[b + n]) \in V)
    BY <1>11
  <2>2. h \in Seq(V) /\ Len(h) = b
    BY <1>6, <2>1
  <2>3. g \in Seq(V) /\ Len(g) = b + c
    BY <1>7, <2>1
  <2>4. q \in Seq(V) /\ Len(q) = c
    BY <1>8, <2>1
  <2>5. QED
    BY <2>2, <2>3, <2>4
<1>13. /\ h \o q \in Seq(V) /\ Len(h \o q) = b + c
       /\ \A i \in 1..(b + c) : (h \o q)[i] = IF i <= b THEN h[i] ELSE q[i - b]
  BY <1>12, ConcatProperties
<1>14. ASSUME NEW i \in 1..(b + c) PROVE g[i] = (h \o q)[i]
  <2>1. CASE i <= b
    BY <1>6, <1>7, <1>13, <2>1
  <2>2. CASE ~(i <= b)
    <3>1. i - b \in 1..c /\ b + (i - b) = i
      BY <2>2
    <3>2. q[i - b] = Shown(l[i])
      BY <1>8, <3>1
    <3>3. QED
      BY <1>7, <1>13, <2>2, <3>2
  <2>3. QED
    BY <2>1, <2>2
<1>15. g = h \o q
  <2>1. PICK r : r = h \o q
    OBVIOUS
  <2>2. /\ g \in Seq(V) /\ r \in Seq(V) /\ Len(g) = Len(r)
        /\ \A i \in 1..Len(g) : g[i] = r[i]
    BY <1>12, <1>13, <1>14, <2>1
  <2>3. QED
    BY <2>1, <2>2, SeqEqual
<1>16. QED
  BY <1>9, <1>10, <1>15

LEMMA TailsAppended ==
    ASSUME Shape, Faithful, AllNet', NEW s \in Session, CommitsTail(s),
           NEW movements, \A k \in Key : movements[k] = NewTail(s, k)
    PROVE  Abstract!AppendAll(movements)
<1>1. Histories' = [k \in Key |-> Histories[k] \o movements[k]]
  BY HistoryGrows DEF Histories
<1>2. ASSUME NEW k \in Key PROVE OnHand'[k] = Abstract!NetOf(Histories'[k]) /\ OnHand'[k] >= 0
  <2>1. PICK h : h = CommittedHistory(k)'
    OBVIOUS
  <2>2. Net(k)' = Abstract!NetOf(h)
    BY <2>1, NextNet
  <2>3. Histories'[k] = h
    BY <2>1 DEF Histories
  <2>4. QED
    BY <2>2, <2>3 DEF AllNet, OnHand
<1>3. OnHand' = [k \in Key |-> Abstract!NetOf(Histories'[k])]
  BY <1>2 DEF OnHand
<1>4. QED
  BY <1>1, <1>2, <1>3 DEF Abstract!AppendAll, Histories, OnHand

\* What s inserted for k at its n-th place, as the abstract ledger keeps it.
LEMMA TailRecords ==
    ASSUME Shape, Faithful, NEW s \in Session, NEW k \in Key,
           NEW n \in 1..Cardinality(Inserted(s, k))
    PROVE  \E i \in Inserted(s, k) : /\ Cardinality(Upto(Inserted(s, k), i)) = n
                                     /\ Records(ledger[k][durable[k] + n], plan[s][i])
                                     /\ NewTail(s, k)[n] = Shown(plan[s][i])
<1>1. OpenTail(s, k) /\ Cardinality(Inserted(s, k)) \in Nat
  BY InsertedAre DEF Faithful, InOrder
<1>2. Inserted(s, k) # {}
  BY <1>1, FS_EmptySet
<1>3. NthInserted(s, k, n)
  BY <1>1, <1>2 DEF OpenTail
<1>4. PICK i \in Inserted(s, k) : /\ Cardinality(Upto(Inserted(s, k), i)) = n
                                  /\ Records(ledger[k][durable[k] + n], plan[s][i])
  BY <1>3 DEF NthInserted
<1>5. NewTail(s, k)[n] = Shown(ledger[k][durable[k] + n])
  BY DEF NewTail
<1>6. Shown(ledger[k][durable[k] + n]) = Shown(plan[s][i])
  BY <1>4, RecordedIsShown
<1>7. QED
  BY <1>4, <1>5, <1>6

LEMMA AllInserted ==
    ASSUME Faithful, NEW s \in Session, CommitsTail(s)
    PROVE  /\ targets[s] = <<>>
           /\ \A k : Inserted(s, k) = {i \in DOMAIN plan[s] : plan[s][i].key = k}
BY DEF Faithful, InOrder, Working, CommitsTail, Inserted

\* A whole document is posted.
LEMMA CommitPosts ==
    ASSUME Shape, Faithful, AllNet', NEW s \in Session, CommitsTail(s),
           NEW d \in Doc, plan[s] = Movements(d), plan[s] # <<>>
    PROVE  Abstract!Post(d)
<1>1. \A i \in DOMAIN plan[s] :
         /\ i \in DOMAIN Lines[d] /\ plan[s][i].key = Lines[d][i].key
         /\ Shown(plan[s][i]) = [type |-> Lines[d][i].type, quantity |-> Lines[d][i].quantity,
                                 ref |-> d, line |-> i, reverses |-> 0]
         /\ plan[s][i].type # "REVERSAL" /\ plan[s][i].ref = d
  BY MovementsOf DEF Shown, NoEntry
<1>2. DOMAIN plan[s] = DOMAIN Lines[d]
  BY MovementsOf
<1>3. ~Abstract!Posted(d)
  <2>1. PICK i : i \in DOMAIN plan[s]
    <3>1. plan[s] \in Seq(Movement)
      BY DEF Shape, TypeOK
    <3>2. plan[s][1] = plan[s][1] /\ 1 \in DOMAIN plan[s]
      BY <3>1
    <3>3. QED
      BY <3>2
  <2>2. ~IsPosted(d)
    BY <1>1, <2>1 DEF Faithful, InOrder, FreshAt
  <2>3. \A k \in Key : \A n \in DOMAIN CommittedHistory(k) : CommittedHistory(k)[n].ref # d
    BY <2>2 DEF IsPosted, CommittedHistory
  <2>4. QED
    BY <2>3 DEF Abstract!Posted
<1>4. ASSUME NEW k \in Key PROVE Abstract!LinesAt(d, k) = NewTail(s, k)
  <2>1. PICK S : S = Inserted(s, k)
    OBVIOUS
  <2>2. S = Abstract!LinesOf(d, k)
    <3>1. S = {i \in DOMAIN plan[s] : plan[s][i].key = k}
      BY <2>1, AllInserted
    <3>2. {i \in DOMAIN plan[s] : plan[s][i].key = k} = {i \in DOMAIN Lines[d] : Lines[d][i].key = k}
      BY <1>1, <1>2
    <3>3. QED
      BY <3>1, <3>2 DEF Abstract!LinesOf
  <2>3. Abstract!LinesAt(d, k) =
           [n \in 1..Cardinality(S) |->
               [type |-> Lines[d][Abstract!Nth(S, n)].type,
                quantity |-> Lines[d][Abstract!Nth(S, n)].quantity,
                ref |-> d, line |-> Abstract!Nth(S, n), reverses |-> 0]]
    BY <2>2, SameOperators DEF Abstract!LinesAt
  <2>4. ASSUME NEW n \in 1..Cardinality(S)
        PROVE  NewTail(s, k)[n] = [type |-> Lines[d][Abstract!Nth(S, n)].type,
                                   quantity |-> Lines[d][Abstract!Nth(S, n)].quantity,
                                   ref |-> d, line |-> Abstract!Nth(S, n), reverses |-> 0]
    <3>1. PICK i \in S : /\ Cardinality(Upto(S, i)) = n
                         /\ NewTail(s, k)[n] = Shown(plan[s][i])
      BY <2>1, TailRecords
    <3>2. Abstract!Nth(S, n) = i
      BY <2>1, <3>1, InsertedAre, NthIs
    <3>3. i \in DOMAIN plan[s]
      BY <2>1, <3>1, InsertedAre
    <3>4. QED
      BY <1>1, <3>1, <3>2, <3>3
  <2>5. NewTail(s, k) = [n \in 1..Cardinality(S) |-> NewTail(s, k)[n]]
    BY <2>1 DEF NewTail
  <2>6. QED
    BY <2>3, <2>4, <2>5
<1>5. PICK movements : movements = [k \in Key |-> Abstract!LinesAt(d, k)]
  OBVIOUS
<1>6. \A k \in Key : movements[k] = NewTail(s, k)
  BY <1>4, <1>5
<1>7. Abstract!AppendAll(movements)
  BY <1>6, TailsAppended
<1>8. QED
  BY <1>3, <1>5, <1>7 DEF Abstract!Post

\* The entries of the abstract ledger are the committed ones.
LEMMA AbstractEntries ==
    ASSUME Shape
    PROVE  /\ Abstract!EntryId = CommittedId
           /\ \A x \in CommittedId : Abstract!At(x) = Shown(EntryAt(x))
           /\ \A x \in CommittedId : \A j \in 1..durable[x[1]] :
                 Histories[x[1]][j].reverses = ledger[x[1]][j].reverses
<1>1. Abstract!EntryId = CommittedId
  <2>1. \A k \in Key : DOMAIN CommittedHistory(k) = 1..durable[k]
    BY HistoryOf
  <2>2. Abstract!EntryId = UNION {{k} \X DOMAIN CommittedHistory(k) : k \in Key}
    BY DEF Abstract!EntryId
  <2>3. QED
    BY <2>1, <2>2 DEF CommittedId
<1>2. ASSUME NEW x \in CommittedId
      PROVE  /\ Abstract!At(x) = Shown(EntryAt(x))
             /\ \A j \in 1..durable[x[1]] : Histories[x[1]][j].reverses = ledger[x[1]][j].reverses
  <2>1. x[1] \in Key /\ x[2] \in 1..durable[x[1]]
    BY CommittedIds
  <2>2. \A j \in 1..durable[x[1]] : CommittedHistory(x[1])[j] = Shown(ledger[x[1]][j])
    BY DEF CommittedHistory, Shown
  <2>3. Histories[x[1]] = CommittedHistory(x[1])
    BY <2>1 DEF Histories
  <2>4. Abstract!At(x) = CommittedHistory(x[1])[x[2]]
    BY <2>1 DEF Abstract!At
  <2>5. Abstract!At(x) = Shown(EntryAt(x))
    BY <2>1, <2>2, <2>4 DEF EntryAt
  <2>6. \A j \in 1..durable[x[1]] : Histories[x[1]][j].reverses = ledger[x[1]][j].reverses
    <3>1. \A e : Shown(e).reverses = e.reverses
      BY DEF Shown
    <3>2. QED
      BY <2>2, <2>3, <3>1
  <2>7. QED
    BY <2>5, <2>6
<1>3. QED
  BY <1>1, <1>2

\* What s set out to do is to reverse each of ids once, each on a key of its own.
ReversesAll(s, ids) ==
    /\ ids \subseteq CommittedId
    /\ \A x \in ids : \E i \in DOMAIN plan[s] : plan[s][i] = CounterMovement(x)
    /\ \A i \in DOMAIN plan[s] : \E x \in ids : plan[s][i] = CounterMovement(x)
    /\ \A x, y \in ids : x[1] = y[1] => x = y
    /\ \A i, j \in DOMAIN plan[s] : plan[s][i].key = plan[s][j].key => i = j

LEMMA MirrorIsShown ==
    ASSUME Shape, NEW x \in CommittedId
    PROVE  Abstract!Mirror(x) = Shown(CounterMovement(x))
<1>1. Abstract!At(x) = Shown(EntryAt(x))
  BY AbstractEntries
<1>2. PICK e : e = EntryAt(x)
  OBVIOUS
<1>3. /\ Abstract!At(x).quantity = e.quantity /\ Abstract!At(x).ref = e.ref
      /\ Abstract!At(x).line = e.line
  BY <1>1, <1>2 DEF Shown
<1>4. Shown(CounterMovement(x)) = [type |-> "REVERSAL", quantity |-> -e.quantity, ref |-> e.ref,
                                   line |-> e.line, reverses |-> x[2]]
  BY <1>2 DEF Shown, CounterMovement
<1>5. QED
  BY <1>3, <1>4 DEF Abstract!Mirror

\* Each of them is reversed by one new entry, and was not reversed before.
LEMMA ReversedOne ==
    ASSUME Shape, Faithful, Reversals, NEW s \in Session, CommitsTail(s),
           NEW ids, ReversesAll(s, ids), NEW x \in ids
    PROVE  /\ NewTail(s, x[1]) = <<Abstract!Mirror(x)>>
           /\ Abstract!Reversible(x)
<1>1. /\ x \in CommittedId /\ x[1] \in Key /\ x[2] \in 1..durable[x[1]] /\ x = <<x[1], x[2]>>
  BY CommittedIds DEF ReversesAll
<1>2. PICK k \in Key : k = x[1]
  BY <1>1
<1>3. PICK i \in DOMAIN plan[s] : plan[s][i] = CounterMovement(x)
  BY DEF ReversesAll
<1>4. plan[s][i].key = k /\ plan[s][i].type = "REVERSAL" /\ plan[s][i].reverses = x[2]
  BY <1>2, <1>3 DEF CounterMovement
<1>5. Inserted(s, k) = {i}
  BY <1>4, AllInserted DEF ReversesAll
<1>6. Cardinality(Inserted(s, k)) = 1
  BY <1>5, FS_Singleton
<1>7. /\ Records(ledger[k][durable[k] + 1], plan[s][i])
      /\ NewTail(s, k)[1] = Shown(plan[s][i])
  <2>1. 1 \in 1..Cardinality(Inserted(s, k))
    BY <1>6
  <2>2. PICK n \in 1..Cardinality(Inserted(s, k)) : n = 1
    BY <2>1
  <2>3. \E j \in Inserted(s, k) : /\ Records(ledger[k][durable[k] + n], plan[s][j])
                                  /\ NewTail(s, k)[n] = Shown(plan[s][j])
    BY TailRecords
  <2>4. QED
    BY <1>5, <2>2, <2>3
<1>8. NewTail(s, k) = <<Shown(plan[s][i])>>
  <2>1. NewTail(s, k) = [n \in 1..1 |-> NewTail(s, k)[n]]
    BY <1>6 DEF NewTail
  <2>2. PICK q, v : q = NewTail(s, k) /\ v = Shown(plan[s][i])
    OBVIOUS
  <2>3. q = [n \in 1..1 |-> v]
    BY <1>7, <2>1, <2>2
  <2>4. [n \in 1..1 |-> v] = <<v>>
    OBVIOUS
  <2>5. QED
    BY <2>2, <2>3, <2>4
<1>9. NewTail(s, x[1]) = <<Abstract!Mirror(x)>>
  BY <1>1, <1>2, <1>3, <1>8, MirrorIsShown
<1>10. EntryAt(x).type # "REVERSAL"
  <2>1. Mirrors(plan[s][i].key, plan[s][i], durable[plan[s][i].key])
    BY DEF Reversals, PlansMirror
  <2>2. ledger[k][x[2]].type # "REVERSAL"
    BY <1>4, <2>1 DEF Mirrors
  <2>3. QED
    BY <1>2, <2>2 DEF EntryAt
<1>11. \A j \in 1..durable[k] : ledger[k][j].reverses # x[2]
  <2>1. PICK n \in Nat : n = durable[k]
    BY DEF Shape, TypeOK
  <2>2. stock[k].holder = s /\ Len(ledger[k]) = n + 1
    <3>1. OpenTail(s, k)
      BY DEF Faithful, InOrder
    <3>2. stock[k].holder = s
      BY <1>5, <3>1 DEF OpenTail
    <3>3. Len(ledger[k]) = durable[k] + Cardinality(Inserted(s, k))
      BY <3>1, <3>2 DEF OpenTail
    <3>4. QED
      BY <1>6, <2>1, <3>2, <3>3
  <2>3. ledger[k][n + 1].type = "REVERSAL" /\ ledger[k][n + 1].reverses = x[2]
    BY <1>4, <1>7, <2>1 DEF Records
  <2>4. n + 1 \in 1..Len(ledger[k]) /\ \A j \in 1..n : j \in 1..((n + 1) - 1)
    BY <2>2
  <2>5. QED
    BY <2>1, <2>3, <2>4 DEF Reversals, LedgerMirrors
<1>12. Abstract!Reversible(x)
  <2>1. Abstract!At(x).type # "REVERSAL"
    BY <1>1, <1>10, AbstractEntries DEF Shown
  <2>2. \A j \in 1..durable[k] : Histories[k][j].reverses # x[2]
    BY <1>1, <1>2, <1>11, AbstractEntries
  <2>3. \A j \in DOMAIN CommittedHistory(k) : CommittedHistory(k)[j].reverses # x[2]
    BY <2>2, HistoryOf DEF Histories
  <2>4. QED
    BY <1>1, <1>2, <2>1, <2>3 DEF Abstract!Reversible
<1>13. QED
  BY <1>9, <1>12

\* An entry, or both legs of a transfer, are reversed together.
LEMMA CommitReverses ==
    ASSUME Shape, Faithful, Reversals, AllNet', NEW s \in Session, CommitsTail(s),
           NEW a \in CommittedId, ReversesAll(s, Abstract!ReversedTogether(a))
    PROVE  Abstract!Reverse(a)
<1> DEFINE ids == Abstract!ReversedTogether(a)
           movements == [k \in Key |->
              IF \E x \in ids : x[1] = k
              THEN <<Abstract!Mirror(CHOOSE x \in ids : x[1] = k)>> ELSE <<>>]
<1> HIDE DEF ids, movements
<1>2. ReversesAll(s, ids)
  BY DEF ids
<1>3. \A x \in ids : /\ NewTail(s, x[1]) = <<Abstract!Mirror(x)>>
                     /\ Abstract!Reversible(x)
  BY <1>2, ReversedOne
<1>4. movements = [k \in Key |->
          IF \E x \in ids : x[1] = k
          THEN <<Abstract!Mirror(CHOOSE x \in ids : x[1] = k)>> ELSE <<>>]
  BY DEF movements
<1>5. ASSUME NEW k \in Key PROVE movements[k] = NewTail(s, k)
  <2>1. CASE \E x \in ids : x[1] = k
    <3>1. PICK x \in ids : x[1] = k
      BY <2>1
    <3>2. \A y \in ids : y[1] = k => y = x
      BY <1>2, <3>1 DEF ReversesAll
    <3>3. (CHOOSE y \in ids : y[1] = k) = x
      BY <3>1, <3>2
    <3>4. movements[k] = <<Abstract!Mirror(x)>>
      BY <1>4, <2>1, <3>3
    <3>5. QED
      BY <1>3, <3>1, <3>4
  <2>2. CASE ~\E x \in ids : x[1] = k
    <3>1. \A x : CounterMovement(x).key = x[1]
      BY DEF CounterMovement
    <3>2. Inserted(s, k) = {}
      BY <1>2, <2>2, <3>1, AllInserted DEF ReversesAll
    <3>3. Cardinality(Inserted(s, k)) = 0
      BY <3>2, FS_EmptySet
    <3>4. NewTail(s, k) = <<>>
      BY <3>3 DEF NewTail
    <3>5. QED
      BY <1>4, <2>2, <3>4
  <2>3. QED
    BY <2>1, <2>2
<1>6. Abstract!AppendAll(movements)
  <2>1. PICK m : m = movements
    OBVIOUS
  <2>2. Abstract!AppendAll(m)
    BY <1>5, <2>1, TailsAppended
  <2>3. QED
    BY <2>1, <2>2 DEF Abstract!AppendAll
<1>7. QED
  BY <1>3, <1>6 DEF Abstract!Reverse, movements, ids

\* The legs of a transfer are on two keys, and no third entry belongs to it.
LEMMA LegsApart ==
    ASSUME Shape, Faithful, NEW a \in CommittedId, NEW b \in CommittedId, AreLegs(a, b)
    PROVE  /\ a[1] # b[1]
           /\ \A c \in CommittedId : AreLegs(a, c) => c = b
<1>1. /\ EntryAt(a).type = "TRANSFER_OUT" /\ EntryAt(b).type = "TRANSFER_IN"
      /\ EntryAt(b).ref = EntryAt(a).ref /\ EntryAt(b).line = EntryAt(a).line + 1
  BY DEF AreLegs
<1>2. IsLine(a) /\ IsLine(b)
  BY <1>1 DEF Faithful, Registered
<1>3. PICK d, i : d = EntryAt(a).ref /\ i = EntryAt(a).line
  OBVIOUS
<1>4. /\ i \in DOMAIN Lines[d] /\ Lines[d][i].type = "TRANSFER_OUT" /\ Lines[d][i].key = a[1]
      /\ i + 1 \in DOMAIN Lines[d] /\ Lines[d][i + 1].type = "TRANSFER_IN"
      /\ Lines[d][i + 1].key = b[1]
  BY <1>1, <1>2, <1>3 DEF IsLine
<1>5. d \in Doc
  <2>1. a[1] \in Key /\ a[2] \in 1..durable[a[1]]
    BY CommittedIds
  <2>2. ledger[a[1]][a[2]] \in Entry
    BY <2>1, HistoryOf
  <2>3. QED
    BY <1>3, <2>2 DEF Entry, EntryAt
<1>6. a[1] # b[1]
  BY <1>4, <1>5, PostingAssumption
<1>7. ASSUME NEW c \in CommittedId, AreLegs(a, c) PROVE c = b
  <2>1. /\ EntryAt(c).type = "TRANSFER_IN" /\ EntryAt(c).ref = EntryAt(b).ref
        /\ EntryAt(c).line = EntryAt(b).line
    BY <1>1, <1>7 DEF AreLegs
  <2>2. EntryAt(b).type # "REVERSAL" /\ SameLine(b, c)
    BY <1>1, <2>1 DEF SameLine
  <2>3. QED
    BY <2>2 DEF Faithful, Registered
<1>8. QED
  BY <1>6, <1>7

LEMMA AbstractLegs ==
    ASSUME Shape, NEW a \in CommittedId, NEW b \in CommittedId
    PROVE  Abstract!SameTransfer(a, b) <=> AreLegs(a, b) \/ AreLegs(b, a)
<1>1. /\ Abstract!At(a).type = EntryAt(a).type /\ Abstract!At(b).type = EntryAt(b).type
      /\ Abstract!At(a).ref = EntryAt(a).ref /\ Abstract!At(b).ref = EntryAt(b).ref
      /\ Abstract!At(a).line = EntryAt(a).line /\ Abstract!At(b).line = EntryAt(b).line
  BY AbstractEntries DEF Shown
<1>2. QED
  BY <1>1 DEF Abstract!SameTransfer, Abstract!Legs, AreLegs

LEMMA CommitReversesOne ==
    ASSUME Shape, Faithful, NEW s \in Session, NEW a \in CommittedId,
           ~IsLeg(a), plan[s] = <<CounterMovement(a)>>
    PROVE  ReversesAll(s, Abstract!ReversedTogether(a))
<1>1. \A b \in CommittedId : ~Abstract!SameTransfer(a, b)
  BY AbstractLegs DEF AreLegs, IsLeg
<1>2. Abstract!ReversedTogether(a) = {a}
  BY <1>1, AbstractEntries DEF Abstract!ReversedTogether
<1>3. DOMAIN plan[s] = {1} /\ plan[s][1] = CounterMovement(a)
  OBVIOUS
<1>4. ReversesAll(s, {a})
  BY <1>3 DEF ReversesAll
<1>5. QED
  BY <1>2, <1>4

LEMMA CommitReversesLegs ==
    ASSUME Shape, Faithful, NEW s \in Session, NEW a \in CommittedId, NEW b \in CommittedId,
           AreLegs(a, b), plan[s] = <<CounterMovement(a), CounterMovement(b)>>
    PROVE  ReversesAll(s, Abstract!ReversedTogether(a))
<1>1. a[1] # b[1] /\ \A c \in CommittedId : AreLegs(a, c) => c = b
  BY LegsApart
<1>2. \A c \in CommittedId : Abstract!SameTransfer(a, c) <=> c = b
  <2>1. \A c : ~AreLegs(c, a)
    BY DEF AreLegs
  <2>2. QED
    BY <1>1, <2>1, AbstractLegs
<1>3. Abstract!ReversedTogether(a) = {a, b}
  BY <1>2, AbstractEntries DEF Abstract!ReversedTogether
<1>4. /\ DOMAIN plan[s] = {1, 2} /\ plan[s][1] = CounterMovement(a)
      /\ plan[s][2] = CounterMovement(b)
  OBVIOUS
<1>5. plan[s][1].key = a[1] /\ plan[s][2].key = b[1]
  BY <1>4 DEF CounterMovement
<1>6. ReversesAll(s, {a, b})
  BY <1>1, <1>4, <1>5 DEF ReversesAll
<1>7. QED
  BY <1>3, <1>6

LEMMA CommitOfNothing ==
    ASSUME Shape, Faithful, NEW s \in Session, CommitsTail(s), plan[s] = <<>>
    PROVE  Histories' = Histories
<1>1. ASSUME NEW k \in Key PROVE durable'[k] = durable[k]
  <2>1. Inserted(s, k) = {}
    BY DEF Inserted
  <2>2. stock[k].holder # s
    BY <2>1 DEF Faithful, InOrder, OpenTail
  <2>3. QED
    BY <2>2 DEF CommitsTail
<1>2. \A k \in Key : CommittedHistory(k)' = CommittedHistory(k)
  BY <1>1 DEF CommittedHistory, CommitsTail
<1>3. QED
  BY <1>2 DEF Histories

LEMMA CommitIsAbstract ==
    ASSUME Shape, Faithful, Reversals, AllNet', NEW s \in Session, CommitsTail(s)
    PROVE  \/ Histories' = Histories
           \/ \E d \in Doc : Abstract!Post(d)
           \/ \E a \in Abstract!EntryId : Abstract!Reverse(a)
<1>1. Task(s) /\ targets[s] = <<>>
  BY AllInserted DEF Faithful, InOrder, Working
<1>2. CASE plan[s] = <<>>
  BY <1>2, CommitOfNothing
<1>3. CASE plan[s] # <<>> /\ \E d \in Doc : plan[s] = Movements(d)
  BY <1>3, CommitPosts
<1>4. CASE \E a \in CommittedId : ~IsLeg(a) /\ ReversesOne(s, a)
  <2>1. PICK a \in CommittedId : ~IsLeg(a) /\ plan[s] = <<CounterMovement(a)>>
    BY <1>1, <1>4 DEF ReversesOne
  <2>2. Abstract!Reverse(a)
    BY <2>1, CommitReversesOne, CommitReverses
  <2>3. QED
    BY <2>2, AbstractEntries
<1>5. CASE \E a, b \in CommittedId : AreLegs(a, b) /\ ReversesLegs(s, a, b)
  <2>1. PICK a \in CommittedId, b \in CommittedId :
            AreLegs(a, b) /\ plan[s] = <<CounterMovement(a), CounterMovement(b)>>
    BY <1>1, <1>5 DEF ReversesLegs
  <2>2. Abstract!Reverse(a)
    BY <2>1, CommitReversesLegs, CommitReverses
  <2>3. QED
    BY <2>2, AbstractEntries
<1>6. QED
  BY <1>1, <1>2, <1>3, <1>4, <1>5 DEF Task

LEMMA InitAbstract == Init => Abstract!Init
<1> SUFFICES ASSUME Init PROVE Abstract!Init
  OBVIOUS
<1>1. \A k \in Key : CommittedHistory(k) = <<>> /\ stock[k].saved = 0
  BY DEF Init, CommittedHistory, Stored
<1>2. QED
  BY <1>1 DEF Abstract!Init

LEMMA DurableKept ==
    ASSUME [Next]_vars, \A s \in Session : ~Commit(s)
    PROVE  durable' = durable
<1>1. CASE \E s \in Session : InsertEntry(s)
  BY <1>1 DEF InsertEntry
<1>2. CASE \E s \in Session : Rollback(s)
  BY <1>2 DEF Rollback
<1>3. CASE \A s \in Session : ~InsertEntry(s) /\ ~Rollback(s)
  BY <1>3, TablesKept
<1>4. QED
  BY <1>1, <1>2, <1>3

LEMMA NextAbstract ==
    Shape /\ Faithful /\ Reversals /\ AllNet /\ AllNet' /\ [Next]_vars
        => [Abstract!Next]_<<Histories, OnHand>>
<1> SUFFICES ASSUME Shape, Faithful, Reversals, AllNet, AllNet', [Next]_vars
             PROVE  [Abstract!Next]_<<Histories, OnHand>>
  OBVIOUS
<1>1. CASE Histories' = Histories
  BY <1>1, OnHandFollows
<1>2. CASE Histories' # Histories
  <2>1. PICK s \in Session : Commit(s)
    BY <1>2, CommittedKept, DurableKept, NothingCommitted
  <2>2. CommitsTail(s)
    BY <2>1, CommitTails
  <2>3. \/ \E d \in Doc : Abstract!Post(d)
        \/ \E a \in Abstract!EntryId : Abstract!Reverse(a)
    BY <1>2, <2>2, CommitIsAbstract
  <2>4. Abstract!Next
    BY <1>2, <2>3 DEF Abstract!Next, Histories
  <2>5. QED
    BY <2>4
<1>3. QED
  BY <1>1, <1>2

\* Whatever the interleaving, crash or refusal, every commit is one step of the
\* abstract ledger (a whole document posted, or an entry reversed with its
\* other leg) and nothing else shows: postMovements and reverseLedgerEntries
\* implement StockLedger.
THEOREM LedgerImplemented == Spec => ImplementsStockLedger
<1>1. /\ Histories = [k \in Key |-> CommittedHistory(k)]
      /\ OnHand = [k \in Key |-> stock[k].saved]
  BY DEF Histories, OnHand
<1>2. Spec => [](Shape /\ AllOrdered /\ Faithful /\ Reversals /\ AllNet)
  <2>1. Init => Shape /\ AllOrdered /\ Faithful /\ Reversals /\ AllBalanced
    BY ShapeInit, OrderedInit, FaithfulInit, ReversalsInit, BalancedInit
  <2>2. /\ Shape /\ AllOrdered /\ Faithful /\ Reversals /\ AllBalanced /\ [Next]_vars
           => (Shape /\ AllOrdered /\ Faithful /\ Reversals /\ AllBalanced)'
    BY ShapeNext, OrderedNext, FaithfulNext, ReversalsNext, BalancedNext
  <2>3. Shape /\ AllBalanced => AllNet
    BY BalancedIsNet
  <2>4. QED
    BY <2>1, <2>2, <2>3, PTL DEF Spec
<1>3. QED
  BY <1>1, <1>2, InitAbstract, NextAbstract, PTL
     DEF Spec, ImplementsStockLedger, Abstract!Spec, Abstract!vars, Histories, OnHand

-----------------------------------------------------------------------------
(***************************************************************************)
(* Alerts.  Whoever changes the only stock row of a pair holds it until    *)
(* COMMIT, and evaluates the pair's alert in between, at the end of the    *)
(* call that moves it: its rule is the one the pair started with, the      *)
(* stock it sums is the row it holds, and nobody else writes the alert     *)
(* meanwhile.                                                              *)
(***************************************************************************)

\* Pair p has one batch and its rule is not saved again.
Solitary(p, k) == KeysOf(p) = {k} /\ p \notin {c[1] : c \in RuleChange}

BelowLevel(p, quantity) == quantity < InitialLevel[p]

\* The call that moves k still has movements to insert.
Pending(s, k) ==
    \E j \in todo[s] : \E i \in DOMAIN plan[s] :
        plan[s][i].key = k /\ CallOf(s, i) = CallOf(s, j)

\* s has changed row k, in a call that has inserted all its movements.
Moved(s, k) == stock[k].holder = s /\ ~Pending(s, k)

\* What session s knows and has done about the alert of p, whose stock is row k.
Follows(s, p, k) ==
    /\ p \in due[s] => Moved(s, k) /\ pc[s] \in {"rule", "sum", "alert"}
    /\ alert[p].holder = s => Moved(s, k) /\ p \notin due[s]
    /\ Moved(s, k) /\ p \notin due[s] => View(alert[p], s) = BelowLevel(p, stock[k].new)
    /\ pc[s] = "sum" /\ NextDue(s, p) => level[s] = InitialLevel[p]
    /\ pc[s] = "alert" /\ NextDue(s, p) => low[s] = BelowLevel(p, stock[k].new)
    /\ pc[s] = "commit" => due[s] = {} /\ todo[s] = {}

\* The committed rows agree.
Agreed(p, k) ==
    /\ rule[p].saved = InitialLevel[p]
    /\ rule[p].holder = NoSession
    /\ alert[p].saved = BelowLevel(p, stock[k].saved)

AllFollow == \A p \in Pair : \A k \in Key :
    Solitary(p, k) => Agreed(p, k) /\ \A s \in Session : Follows(s, p, k)

LEMMA SolitaryKey ==
    ASSUME NEW p \in Pair, NEW k \in Key, Solitary(p, k)
    PROVE  \A j \in Key : PairOf[j] = p <=> j = k
  BY DEF Solitary, KeysOf

\* The pairs that are due come one after the other.
LEMMA OneDue ==
    ASSUME Shape, NEW s \in Session, NEW p, NEW q, NextDue(s, p), NextDue(s, q)
    PROVE  p = q
  <1> SUFFICES ASSUME p # q PROVE FALSE
    OBVIOUS
  <1>1. Earlier(s, p, q) /\ Earlier(s, q, p)
    BY DEF NextDue
  <1>2. plan[s] \in Seq(Movement)
    BY DEF Shape, TypeOK
  <1>3. \A i \in DOMAIN plan[s] : i \in Nat /\ i >= 1
    BY <1>2, LenProperties
  <1>4. PICK i \in DOMAIN plan[s] : /\ PairOf[plan[s][i].key] = p
                                    /\ \A j \in 1..i : PairOf[plan[s][j].key] # q
    BY <1>1 DEF Earlier
  <1>5. PICK j \in DOMAIN plan[s] : /\ PairOf[plan[s][j].key] = q
                                    /\ \A l \in 1..j : PairOf[plan[s][l].key] # p
    BY <1>1 DEF Earlier
  <1>6. i \in 1..j \/ j \in 1..i
    BY <1>3
  <1>7. QED
    BY <1>4, <1>5, <1>6

\* The stock of a pair with one batch is the stock of that batch.
LEMMA GodownStockOfOne ==
    ASSUME Shape, NEW s \in Session, NEW p \in Pair, NEW k \in Key, Solitary(p, k)
    PROVE  GodownStock(s, p) = View(stock[k], s)
  <1> DEFINE f == [j \in Key |-> View(stock[j], s)]
  <1>1. stock[k] \in Row(Nat)
    BY DEF Shape, TypeOK
  <1>2. f[k] = View(stock[k], s) /\ f[k] \in Int
    BY <1>1 DEF Row, View
  <1>3. GodownStock(s, p) = SumFunctionOnSet(f, {k})
    BY DEF GodownStock, Solitary
  <1> HIDE DEF f
  <1>4. SumFunctionOnSet(f, {k}) = f[k]
    BY <1>2, SumOfOne
  <1>5. QED
    BY <1>2, <1>3, <1>4

\* A step of s leaves the others alone, as far as the alert of p goes.
Undisturbed(s, p, k) ==
    \A t \in Session \ {s} :
        /\ pc'[t] = pc[t] /\ plan'[t] = plan[t] /\ todo'[t] = todo[t]
        /\ due'[t] = due[t] /\ level'[t] = level[t] /\ low'[t] = low[t]
        /\ stock'[k].holder = t <=> stock[k].holder = t
        /\ alert'[p].holder = t <=> alert[p].holder = t
        /\ stock[k].holder = t => stock'[k] = stock[k] /\ alert'[p] = alert[p]

LEMMA OthersFollow ==
    ASSUME NEW s \in Session, NEW p, NEW k, Undisturbed(s, p, k),
           NEW t \in Session \ {s}, Follows(t, p, k)
    PROVE  Follows(t, p, k)'
  <1>1. /\ pc'[t] = pc[t] /\ plan'[t] = plan[t] /\ todo'[t] = todo[t]
        /\ due'[t] = due[t] /\ level'[t] = level[t] /\ low'[t] = low[t]
        /\ stock'[k].holder = t <=> stock[k].holder = t
        /\ alert'[p].holder = t <=> alert[p].holder = t
        /\ stock[k].holder = t => stock'[k] = stock[k] /\ alert'[p] = alert[p]
    BY DEF Undisturbed
  <1>2. NextDue(t, p)' <=> NextDue(t, p)
    BY <1>1 DEF NextDue, Earlier
  <1>3. Moved(t, k)' <=> Moved(t, k)
    BY <1>1 DEF Moved, Pending, CallOf
  <1>4. p \in due[t] \/ Moved(t, k) => stock'[k] = stock[k] /\ alert'[p] = alert[p]
    BY <1>1 DEF Follows, Moved
  <1>5. Moved(t, k)' /\ p \notin due'[t] => View(alert[p], t)' = BelowLevel(p, stock[k].new)'
    BY <1>1, <1>3, <1>4 DEF Follows, BelowLevel
  <1>6. pc'[t] = "alert" /\ NextDue(t, p)' => low'[t] = BelowLevel(p, stock[k].new)'
    BY <1>1, <1>2, <1>4 DEF Follows, BelowLevel, NextDue
  <1>7. QED
    BY <1>1, <1>2, <1>3, <1>5, <1>6 DEF Follows

\* What is shown of a step of s.
KeepsAlert(s, p, k) == Undisturbed(s, p, k) /\ Agreed(p, k)' /\ Follows(s, p, k)'

LEMMA AlertKept ==
    ASSUME NEW s \in Session, NEW p, NEW k, KeepsAlert(s, p, k),
           \A t \in Session : Follows(t, p, k)
    PROVE  Agreed(p, k)' /\ \A t \in Session : Follows(t, p, k)'
  <1>1. ASSUME NEW t \in Session PROVE Follows(t, p, k)'
    <2>1. CASE t = s
      BY <2>1 DEF KeepsAlert
    <2>2. CASE t # s
      BY <2>2, OthersFollow DEF KeepsAlert
    <2>3. QED
      BY <2>1, <2>2
  <1>2. QED
    BY <1>1 DEF KeepsAlert

\* Before the first movement nothing is known of alerts.
LEMMA BeginsKeepAlert ==
    ASSUME Shape, AllOrdered, NEW s \in Session, NEW p \in Pair, NEW k \in Key,
           Agreed(p, k), Follows(s, p, k),
           \/ \E d \in Doc : BeginPosting(s, d)
           \/ \E id \in CommittedId : BeginReversal(s, id)
           \/ LockEntry(s)
           \/ LoadReversible(s)
    PROVE  KeepsAlert(s, p, k)
  <1>1. /\ pc[s] \in {"idle", "lock", "check"}
        /\ UNCHANGED <<tables, due, level, low>>
        /\ \A t \in Session \ {s} : pc'[t] = pc[t] /\ plan'[t] = plan[t] /\ todo'[t] = todo[t]
    BY DEF BeginPosting, BeginReversal, LockEntry, LoadReversible, Shape, TypeOK
  <1>2. pc'[s] \in {"lock", "check"} \/ (pc'[s] = "move" /\ todo'[s] = DOMAIN plan'[s])
    <2>1. CASE \E d \in Doc : BeginPosting(s, d)
      <3>1. PICK d \in Doc : BeginPosting(s, d)
        BY <2>1
      <3>2. pc'[s] = "move" /\ plan'[s] = Movements(d) /\ todo'[s] = DOMAIN Lines[d]
        BY <3>1 DEF BeginPosting, Shape, TypeOK
      <3>3. DOMAIN Movements(d) = DOMAIN Lines[d]
        BY DEF Movements
      <3>4. QED
        BY <3>2, <3>3
    <2>2. CASE (\E id \in CommittedId : BeginReversal(s, id)) \/ LockEntry(s)
      BY <2>2 DEF BeginReversal, LockEntry, Shape, TypeOK
    <2>3. CASE LoadReversible(s)
      BY <2>3 DEF LoadReversible, Shape, TypeOK
    <2>4. QED
      BY <2>1, <2>2, <2>3
  <1>3. stock[k].holder # s
    BY <1>1 DEF AllOrdered, Ordered, EntriesBeforeStock
  <1>4. /\ UNCHANGED <<stock, rule, alert>>
        /\ UNCHANGED <<due, level, low>>
    BY <1>1 DEF tables
  <1>5. Undisturbed(s, p, k)
    BY <1>1, <1>4 DEF Undisturbed
  <1>6. p \notin due[s] /\ alert[p].holder # s
    BY <1>1, <1>3 DEF Follows, Moved
  <1>7. Follows(s, p, k)'
    BY <1>2, <1>3, <1>4, <1>6 DEF Follows, Moved, NextDue
  <1>8. QED
    BY <1>4, <1>5, <1>7 DEF KeepsAlert, Agreed

\* The rule that is saved is another pair's.
LEMMA SaveRuleKeepsAlert ==
    ASSUME Shape, AllOrdered, NEW s \in Session, NEW p \in Pair, NEW k \in Key,
           Agreed(p, k), Follows(s, p, k), NEW q \in Pair \ {p}, NEW lvl, SaveRule(s, q, lvl)
    PROVE  KeepsAlert(s, p, k)
  <1>1. /\ pc[s] = "idle" /\ pc'[s] \in {"sum", "alert"} /\ due'[s] = {q}
        /\ rule'[p] = rule[p]
        /\ UNCHANGED <<stock, alert>>
        /\ \A t \in Session \ {s} :
              /\ pc'[t] = pc[t] /\ plan'[t] = plan[t] /\ todo'[t] = todo[t]
              /\ due'[t] = due[t] /\ level'[t] = level[t] /\ low'[t] = low[t]
    BY DEF SaveRule, Shape, TypeOK
  <1>2. stock[k].holder # s
    BY <1>1 DEF AllOrdered, Ordered, EntriesBeforeStock
  <1>3. alert[p].holder # s
    BY <1>2 DEF Follows, Moved
  <1>4. Undisturbed(s, p, k)
    BY <1>1 DEF Undisturbed
  <1>5. Follows(s, p, k)'
    BY <1>1, <1>2, <1>3 DEF Follows, Moved, NextDue
  <1>6. QED
    BY <1>1, <1>4, <1>5 DEF KeepsAlert, Agreed

\* Movement i leaves the call that moves k as it was, or is one of it.
LEMMA PendingAfterInsert ==
    ASSUME NEW s \in Session, NEW k, NEW i \in todo[s], todo[s] \subseteq DOMAIN plan[s],
           plan'[s] = plan[s], todo'[s] = todo[s] \ {i},
           EndsCall(s, i) => \A j \in DOMAIN plan[s] :
                                 plan[s][j].key = k => CallOf(s, j) # CallOf(s, i)
    PROVE  Pending(s, k)' <=> Pending(s, k)
  <1>1. Pending(s, k)' => Pending(s, k)
    BY DEF Pending, CallOf
  <1>2. ASSUME NEW j \in todo[s], NEW l \in DOMAIN plan[s],
               plan[s][l].key = k, CallOf(s, l) = CallOf(s, j)
        PROVE  Pending(s, k)'
    <2>1. CASE j # i
      BY <1>2, <2>1 DEF Pending, CallOf
    <2>2. CASE j = i
      <3>1. PICK x \in todo[s] \ {i} : CallOf(s, x) = CallOf(s, i)
        BY <1>2, <2>2 DEF EndsCall
      <3>2. QED
        BY <1>2, <2>2, <3>1 DEF Pending, CallOf
    <2>3. QED
      BY <2>1, <2>2
  <1>3. QED
    BY <1>1, <1>2 DEF Pending

\* A movement takes the stock row of its key; after the last one of a call the
\* alerts of every pair the call moves are due.
LEMMA InsertKeepsAlert ==
    ASSUME Shape, Faithful, Faithful', NEW s \in Session, NEW p \in Pair, NEW k \in Key,
           Solitary(p, k), Agreed(p, k), Follows(s, p, k), InsertEntry(s)
    PROVE  KeepsAlert(s, p, k)
  <1>1. PICK i \in todo[s] :
          LET m == plan[s][i]
              after == View(stock[m.key], s) + m.quantity
          IN  /\ pc[s] = "move"
              /\ Free(stock[m.key], s)
              /\ stock' = [stock EXCEPT ![m.key] = Written(@, s, after)]
              /\ todo' = [todo EXCEPT ![s] = @ \ {i}]
              /\ IF EndsCall(s, i)
                 THEN /\ due' = [due EXCEPT ![s] = PairsOfCall(s, i)]
                      /\ pc' = [pc EXCEPT ![s] = "rule"]
                 ELSE UNCHANGED <<due, pc>>
              /\ UNCHANGED <<rule, alert, plan, level, low>>
    BY DEF InsertEntry
  <1> DEFINE m == plan[s][i]
             after == View(stock[m.key], s) + m.quantity
  <1>2. /\ m.key \in Key /\ i \in DOMAIN plan[s]
        /\ \A j \in DOMAIN plan[s] : plan[s][j].key \in Key
    <2>1. \A j \in DOMAIN plan[s] : plan[s][j] \in Movement
      BY ElementOfSeq, LenProperties DEF Shape, TypeOK
    <2>2. i \in DOMAIN plan[s]
      BY DEF Shape, TodoInPlan
    <2>3. QED
      BY <2>1, <2>2 DEF Movement
  <1>3. /\ k # m.key => stock'[k] = stock[k]
        /\ k = m.key => stock'[k].holder = s /\ stock'[k].saved = stock[k].saved
    <2>1. stock' = [stock EXCEPT ![m.key] = Written(@, s, after)]
      BY <1>1
    <2>2. stock \in [Key -> Row(Nat)]
      BY DEF Shape, TypeOK
    <2> HIDE DEF after, m
    <2>3. QED
      BY <1>2, <2>1, <2>2 DEF Row, Written
  <1>4. k = m.key => stock[k].holder \in {NoSession, s}
    BY <1>1 DEF Free
  <1>5. /\ pc[s] = "move" /\ todo'[s] = todo[s] \ {i} /\ todo[s] \subseteq DOMAIN plan[s]
        /\ UNCHANGED <<rule, alert, plan, level, low>>
        /\ \A t \in Session \ {s} : pc'[t] = pc[t] /\ todo'[t] = todo[t] /\ due'[t] = due[t]
    BY <1>1 DEF Shape, TypeOK, TodoInPlan
  <1>6. Undisturbed(s, p, k)
    BY <1>3, <1>4, <1>5, NoSessionIsNotASession DEF Undisturbed
  <1>7. Agreed(p, k)'
    BY <1>3, <1>5 DEF Agreed
  <1>8. p \notin due[s]
    BY <1>5 DEF Follows
  <1>9. CASE EndsCall(s, i) /\ p \in PairsOfCall(s, i)
    <2>1. /\ p \in due'[s] /\ pc'[s] = "rule"
      BY <1>1, <1>9 DEF Shape, TypeOK
    <2>2. PICK j \in DOMAIN plan[s] : plan[s][j].key = k /\ CallOf(s, j) = CallOf(s, i)
      BY <1>2, <1>9, SolitaryKey DEF PairsOfCall
    <2>3. j \notin todo'[s]
      BY <1>5, <1>9, <2>2 DEF EndsCall
    <2>4. stock'[k].holder = s
      <3>1. j \in Inserted(s, k)'
        BY <1>5, <2>1, <2>2, <2>3 DEF Inserted
      <3>2. QED
        BY <3>1 DEF Faithful, InOrder, OpenTail
    <2>5. ~Pending(s, k)'
      <3> SUFFICES ASSUME NEW x \in todo'[s], NEW l \in DOMAIN plan[s],
                          plan[s][l].key = k, CallOf(s, l) = CallOf(s, x)
                   PROVE  FALSE
        BY <1>5 DEF Pending, CallOf
      <3>1. CallOf(s, l) = CallOf(s, j)
        BY <2>2, SameRowSameCall
      <3>2. QED
        BY <1>5, <1>9, <2>2, <3>1 DEF EndsCall
    <2>6. alert[p].holder # s
      <3>1. Pending(s, k)
        BY <2>2 DEF Pending
      <3>2. QED
        BY <3>1 DEF Follows, Moved
    <2>7. Follows(s, p, k)'
      BY <1>5, <2>1, <2>4, <2>5, <2>6 DEF Follows, Moved
    <2>8. QED
      BY <1>6, <1>7, <2>7 DEF KeepsAlert
  <1>10. CASE ~(EndsCall(s, i) /\ p \in PairsOfCall(s, i))
    <2>1. EndsCall(s, i) => \A j \in DOMAIN plan[s] :
                                plan[s][j].key = k => CallOf(s, j) # CallOf(s, i)
      BY <1>10, SolitaryKey DEF PairsOfCall
    <2>2. Pending(s, k)' <=> Pending(s, k)
      BY <1>5, <2>1, PendingAfterInsert
    <2>3. p \notin due'[s] /\ pc'[s] \in {"move", "rule"}
      BY <1>1, <1>5, <1>8, <1>10 DEF Shape, TypeOK
    <2>4. m.key = k => Pending(s, k)
      BY <1>2 DEF Pending
    <2>5. Moved(s, k)' => Moved(s, k) /\ stock'[k] = stock[k]
      BY <1>3, <2>2, <2>4 DEF Moved
    <2>6. alert'[p].holder = s => Moved(s, k)'
      BY <1>3, <1>5, <2>2, <2>4 DEF Follows, Moved
    <2>7. Follows(s, p, k)'
      BY <1>5, <1>8, <2>3, <2>5, <2>6 DEF Follows, NextDue
    <2>8. QED
      BY <1>6, <1>7, <2>7 DEF KeepsAlert
  <1>11. QED
    BY <1>9, <1>10

\* The step of s evaluates the alert of q.
Evaluates(s, q) == ReadRule(s, q) \/ ReadStock(s, q) \/ RaiseAlert(s, q) \/ ResolveAlert(s, q)

\* The session goes on with another pair, with another call, or commits.
PairDone(s, q) ==
    /\ due'[s] = due[s] \ {q}
    /\ pc'[s] \in {"rule", "move", "commit"}
    /\ pc'[s] # "rule" => due[s] = {q}
    /\ pc'[s] = "commit" => todo[s] = {}

LEMMA EvaluatedPair ==
    ASSUME Shape, NEW s \in Session, NEW q, Evaluated(s, q), q \in due[s]
    PROVE  /\ PairDone(s, q)
           /\ \A t \in Session \ {s} : /\ pc'[t] = pc[t] /\ due'[t] = due[t]
                                       /\ level'[t] = level[t] /\ low'[t] = low[t]
  <1>1. PairDone(s, q)
    BY DEF Evaluated, PairDone, Shape, TypeOK
  <1>2. QED
    BY <1>1 DEF Evaluated, Shape, TypeOK

LEMMA EvaluatesFrame ==
    ASSUME Shape, NEW s \in Session, NEW q \in Pair, Evaluates(s, q)
    PROVE  /\ pc[s] \in {"rule", "sum", "alert"} /\ NextDue(s, q)
           /\ UNCHANGED <<stock, rule, plan, todo>>
           /\ \A t \in Session \ {s} : /\ pc'[t] = pc[t] /\ due'[t] = due[t]
                                       /\ level'[t] = level[t] /\ low'[t] = low[t]
           /\ \A p \in Pair \ {q} : alert'[p] = alert[p]
           /\ \/ due'[s] = due[s] /\ pc'[s] \in {"sum", "alert"} /\ UNCHANGED alert
              \/ PairDone(s, q)
  <1>1. CASE ReadRule(s, q)
    <2>1. CASE View(rule[q], s) = NoRule
      <3>1. Evaluated(s, q) /\ q \in due[s]
        BY <1>1, <2>1 DEF ReadRule, NextDue
      <3>2. QED
        BY <1>1, <3>1, EvaluatedPair DEF ReadRule, tables
    <2>2. CASE View(rule[q], s) # NoRule
      BY <1>1, <2>2 DEF ReadRule, tables, Shape, TypeOK
    <2>3. QED
      BY <2>1, <2>2
  <1>2. CASE ReadStock(s, q)
    <2>0. (GodownStock(s, q) < level[s]) \in BOOLEAN
      OBVIOUS
    <2>1. PICK b \in BOOLEAN : low' = [low EXCEPT ![s] = b]
      BY <1>2, <2>0, Zenon DEF ReadStock
    <2>2. /\ pc[s] = "sum" /\ NextDue(s, q) /\ pc' = [pc EXCEPT ![s] = "alert"]
          /\ UNCHANGED <<stock, rule, alert, plan, todo, due, level>>
      BY <1>2, Zenon DEF ReadStock, tables
    <2>3. QED
      BY <2>1, <2>2 DEF Shape, TypeOK
  <1>3. CASE RaiseAlert(s, q)
    <2>1. Evaluated(s, q) /\ q \in due[s]
      BY <1>3 DEF RaiseAlert, NextDue
    <2>2. QED
      BY <1>3, <2>1, EvaluatedPair DEF RaiseAlert, Shape, TypeOK
  <1>4. CASE ResolveAlert(s, q)
    <2>1. Evaluated(s, q) /\ q \in due[s]
      BY <1>4 DEF ResolveAlert, NextDue
    <2>2. QED
      BY <1>4, <2>1, EvaluatedPair DEF ResolveAlert, Shape, TypeOK
  <1>5. QED
    BY <1>1, <1>2, <1>3, <1>4 DEF Evaluates

LEMMA OtherPairKeepsAlert ==
    ASSUME Shape, NEW s \in Session, NEW p \in Pair, NEW k \in Key,
           Agreed(p, k), Follows(s, p, k), NEW q \in Pair \ {p}, Evaluates(s, q)
    PROVE  KeepsAlert(s, p, k)
  <1>1. /\ pc[s] \in {"rule", "sum", "alert"} /\ NextDue(s, q)
        /\ UNCHANGED <<stock, rule, plan, todo>>
        /\ \A t \in Session \ {s} : /\ pc'[t] = pc[t] /\ due'[t] = due[t]
                                    /\ level'[t] = level[t] /\ low'[t] = low[t]
        /\ alert'[p] = alert[p]
    BY EvaluatesFrame
  <1>2. \/ due'[s] = due[s] /\ pc'[s] \in {"sum", "alert"}
        \/ PairDone(s, q)
    BY EvaluatesFrame
  <1>3. Undisturbed(s, p, k) /\ Agreed(p, k)'
    BY <1>1 DEF Undisturbed, Agreed
  <1>4. /\ p \in due'[s] <=> p \in due[s]
        /\ p \in due'[s] => pc'[s] \in {"rule", "sum", "alert"}
        /\ pc'[s] = "commit" => due'[s] = {} /\ todo[s] = {}
    BY <1>2 DEF PairDone
  <1>5. pc'[s] \in {"sum", "alert"} => ~NextDue(s, p)'
    <2> SUFFICES ASSUME pc'[s] \in {"sum", "alert"}, NextDue(s, p)' PROVE FALSE
      OBVIOUS
    <2>1. due'[s] = due[s]
      BY <1>2 DEF PairDone
    <2>2. NextDue(s, p)
      BY <1>1, <2>1 DEF NextDue, Earlier
    <2>3. QED
      BY <1>1, <2>2, OneDue
  <1>6. Moved(s, k)' <=> Moved(s, k)
    BY <1>1 DEF Moved, Pending, CallOf
  <1>7. Follows(s, p, k)'
    BY <1>1, <1>4, <1>5, <1>6 DEF Follows
  <1>8. QED
    BY <1>3, <1>7 DEF KeepsAlert

\* The pair itself: its rule, its stock and its alert are what the session holds.
LEMMA OwnPairKeepsAlert ==
    ASSUME Shape, NEW s \in Session, NEW p \in Pair, NEW k \in Key, Solitary(p, k),
           Agreed(p, k), Follows(s, p, k), Evaluates(s, p)
    PROVE  KeepsAlert(s, p, k)
  <1>1. /\ pc[s] \in {"rule", "sum", "alert"} /\ NextDue(s, p)
        /\ UNCHANGED <<stock, rule, plan, todo>>
        /\ \A t \in Session \ {s} : /\ pc'[t] = pc[t] /\ due'[t] = due[t]
                                    /\ level'[t] = level[t] /\ low'[t] = low[t]
        /\ \/ due'[s] = due[s] /\ pc'[s] \in {"sum", "alert"} /\ UNCHANGED alert
           \/ PairDone(s, p)
    BY EvaluatesFrame
  <1>2. /\ p \in due[s] /\ stock[k].holder = s /\ alert[p].holder # s /\ s # NoSession
        /\ Moved(s, k) /\ Moved(s, k)'
    <2>1. p \in due[s] /\ Moved(s, k) /\ alert[p].holder # s
      BY <1>1 DEF NextDue, Follows
    <2>2. Moved(s, k)'
      BY <1>1, <2>1 DEF Moved, Pending, CallOf
    <2>3. QED
      BY <2>1, <2>2, NoSessionIsNotASession DEF Moved
  <1>3. /\ stock[k] \in Row(Nat) /\ alert[p] \in Row(BOOLEAN) /\ InitialLevel[p] \in Level
        /\ stock[k].saved \in Nat /\ stock[k].new \in Nat
    BY PostingAssumption DEF Shape, TypeOK, Row
  <1>4. /\ View(rule[p], s) = InitialLevel[p]
        /\ View(stock[k], s) = stock[k].new
        /\ View(alert[p], s) = alert[p].saved
    BY <1>2, NoSessionIsNotASession DEF View, Agreed
  <1>5. NextDue(s, p)' => due'[s] = due[s]
    BY <1>1 DEF NextDue, PairDone
  <1>6. CASE ReadRule(s, p)
    <2>1. UNCHANGED alert
      BY <1>6 DEF ReadRule, tables
    <2>2. CASE InitialLevel[p] = NoRule
      <3>1. PairDone(s, p)
        BY <1>2, <1>4, <1>6, <2>2, EvaluatedPair DEF ReadRule
      <3>2. BelowLevel(p, stock[k].new) = FALSE /\ BelowLevel(p, stock[k].saved) = FALSE
        BY <1>3, <2>2 DEF BelowLevel, NoRule
      <3>3. View(alert[p], s) = BelowLevel(p, stock[k].new)
        BY <1>4, <3>2 DEF Agreed
      <3>4. Follows(s, p, k)'
        BY <1>1, <1>2, <2>1, <3>1, <3>3 DEF Follows, NextDue, PairDone
      <3>5. QED
        BY <1>1, <1>2, <2>1, <3>4 DEF KeepsAlert, Undisturbed, Agreed
    <2>3. CASE InitialLevel[p] # NoRule
      <3>1. due'[s] = due[s] /\ pc'[s] = "sum" /\ level'[s] = InitialLevel[p]
        BY <1>4, <1>6, <2>3 DEF ReadRule, Shape, TypeOK
      <3>2. Follows(s, p, k)'
        BY <1>1, <1>2, <2>1, <3>1 DEF Follows
      <3>3. QED
        BY <1>1, <1>2, <2>1, <3>2 DEF KeepsAlert, Undisturbed, Agreed
    <2>4. QED
      BY <2>2, <2>3
  <1>7. CASE ReadStock(s, p)
    <2>1. /\ pc[s] = "sum" /\ pc'[s] = "alert"
          /\ UNCHANGED <<alert, due>>
      BY <1>7, Zenon DEF ReadStock, tables, Shape, TypeOK
    <2>2. GodownStock(s, p) = stock[k].new /\ level[s] = InitialLevel[p]
      BY <1>1, <1>4, <2>1, GodownStockOfOne DEF Follows
    <2>3. low'[s] = (GodownStock(s, p) < level[s])
      BY <1>7, Zenon DEF ReadStock, Shape, TypeOK
    <2>4. low'[s] = BelowLevel(p, stock[k].new)
      BY <2>2, <2>3 DEF BelowLevel
    <2>5. Follows(s, p, k)'
      BY <1>1, <1>2, <2>1, <2>4 DEF Follows
    <2>6. QED
      BY <1>1, <1>2, <2>1, <2>5 DEF KeepsAlert, Undisturbed, Agreed
  <1>8. CASE RaiseAlert(s, p) \/ ResolveAlert(s, p)
    <2>1. pc[s] = "alert" /\ PairDone(s, p)
      BY <1>2, <1>8, EvaluatedPair DEF RaiseAlert, ResolveAlert
    <2>2. low[s] = BelowLevel(p, stock[k].new)
      BY <1>1, <2>1 DEF Follows
    <2>3. /\ alert'[p].saved = alert[p].saved
          /\ View(alert'[p], s) = BelowLevel(p, stock[k].new)
          /\ \A t \in Session \ {s} :
                \/ alert'[p].holder # t /\ alert[p].holder # t
                \/ alert'[p] = alert[p]
      <3>1. CASE RaiseAlert(s, p)
        <4>1. /\ low[s] /\ alert[p].holder \in {NoSession, s}
              /\ alert'[p] = Written(alert[p], s, TRUE)
          BY <3>1 DEF RaiseAlert, Free, Shape, TypeOK
        <4>2. /\ alert'[p].saved = alert[p].saved /\ alert'[p].new = TRUE
              /\ alert'[p].holder = s
          BY <1>3, <4>1 DEF Written, Row
        <4>3. View(alert'[p], s) = TRUE
          BY <4>2 DEF View
        <4>4. QED
          BY <2>2, <4>1, <4>2, <4>3, NoSessionIsNotASession
      <3>2. CASE ResolveAlert(s, p) /\ View(alert[p], s)
        <4>1. /\ low[s] = FALSE /\ alert[p].holder \in {NoSession, s}
              /\ alert'[p] = Written(alert[p], s, FALSE)
          BY <3>2 DEF ResolveAlert, Free, Shape, TypeOK
        <4>2. /\ alert'[p].saved = alert[p].saved /\ alert'[p].new = FALSE
              /\ alert'[p].holder = s
          BY <1>3, <4>1 DEF Written, Row
        <4>3. View(alert'[p], s) = FALSE
          BY <4>2 DEF View
        <4>4. QED
          BY <2>2, <4>1, <4>2, <4>3, NoSessionIsNotASession
      <3>3. CASE ResolveAlert(s, p) /\ ~View(alert[p], s)
        <4>1. low[s] = FALSE /\ alert'[p] = alert[p]
          BY <3>3 DEF ResolveAlert, Shape, TypeOK
        <4>2. View(alert[p], s) \in BOOLEAN
          BY <1>3, <1>4 DEF Row
        <4>3. View(alert'[p], s) = FALSE
          BY <3>3, <4>1, <4>2
        <4>4. QED
          BY <2>2, <4>1, <4>3
      <3>4. QED
        BY <1>8, <3>1, <3>2, <3>3
    <2>4. Follows(s, p, k)'
      BY <1>1, <1>2, <2>1, <2>3 DEF Follows, NextDue, PairDone
    <2>5. Undisturbed(s, p, k)
      BY <1>1, <1>2, <2>3 DEF Undisturbed
    <2>6. Agreed(p, k)'
      BY <1>1, <2>3 DEF Agreed
    <2>7. QED
      BY <2>4, <2>5, <2>6 DEF KeepsAlert
  <1>9. QED
    BY <1>6, <1>7, <1>8 DEF Evaluates

\* What the end of a transaction leaves of the rows of a pair.
LEMMA EndedPair ==
    ASSUME Shape, NEW s \in Session, NEW p \in Pair, NEW k \in Key, Agreed(p, k),
           Commit(s) \/ Rollback(s)
    PROVE  /\ rule'[p] = rule[p]
           /\ stock[k].holder # s => stock'[k] = stock[k]
           /\ alert[p].holder # s => alert'[p] = alert[p]
           /\ stock[k].holder = s => stock'[k].holder = NoSession
           /\ alert[p].holder = s => alert'[p].holder = NoSession
           /\ Commit(s) => /\ stock[k].holder = s => stock'[k].saved = stock[k].new
                           /\ alert'[p].saved = View(alert[p], s)
           /\ Rollback(s) => stock'[k].saved = stock[k].saved /\ alert'[p].saved = alert[p].saved
           /\ pc'[s] = "idle" /\ due'[s] = {}
           /\ \A t \in Session \ {s} :
                 /\ pc'[t] = pc[t] /\ plan'[t] = plan[t] /\ todo'[t] = todo[t]
                 /\ due'[t] = due[t] /\ level'[t] = level[t] /\ low'[t] = low[t]
  <1>1. DOMAIN stock = Key /\ DOMAIN alert = Pair /\ DOMAIN rule = Pair
    BY DEF Shape, TypeOK
  <1>2. rule[p].holder # s
    BY NoSessionIsNotASession DEF Agreed
  <1>3. Release(s)
    BY DEF Commit, Rollback
  <1>4. /\ pc'[s] = "idle" /\ due'[s] = {}
        /\ \A t \in Session \ {s} :
              /\ pc'[t] = pc[t] /\ plan'[t] = plan[t] /\ todo'[t] = todo[t]
              /\ due'[t] = due[t] /\ level'[t] = level[t] /\ low'[t] = low[t]
    BY <1>3 DEF Release, Shape, TypeOK
  <1>5. CASE Commit(s)
    <2>1. /\ rule'[p] = rule[p]
          /\ stock'[k] = IF stock[k].holder = s THEN Stored(stock[k].new) ELSE stock[k]
          /\ alert'[p] = IF alert[p].holder = s THEN Stored(alert[p].new) ELSE alert[p]
      BY <1>1, <1>2, <1>5 DEF Commit, Committed
    <2>2. CASE Rollback(s)
      <3>1. /\ stock'[k] = IF stock[k].holder = s THEN Stored(stock[k].saved) ELSE stock[k]
            /\ alert'[p] = IF alert[p].holder = s THEN Stored(alert[p].saved) ELSE alert[p]
        BY <1>1, <2>2 DEF Rollback, RolledBack
      <3>2. QED
        BY <1>4, <2>1, <3>1 DEF Stored, View
    <2>3. CASE ~Rollback(s)
      BY <1>4, <2>1, <2>3 DEF Stored, View
    <2>4. QED
      BY <2>2, <2>3
  <1>6. CASE ~Commit(s)
    <2>1. /\ rule'[p] = rule[p]
          /\ stock'[k] = IF stock[k].holder = s THEN Stored(stock[k].saved) ELSE stock[k]
          /\ alert'[p] = IF alert[p].holder = s THEN Stored(alert[p].saved) ELSE alert[p]
      BY <1>1, <1>2, <1>6 DEF Rollback, RolledBack
    <2>2. QED
      BY <1>4, <1>6, <2>1 DEF Stored
  <1>7. QED
    BY <1>5, <1>6

LEMMA EndKeepsAlert ==
    ASSUME Shape, NEW s \in Session, NEW p \in Pair, NEW k \in Key,
           Agreed(p, k), Follows(s, p, k), Commit(s) \/ Rollback(s)
    PROVE  KeepsAlert(s, p, k)
  <1>1. s # NoSession
    BY NoSessionIsNotASession
  <1>2. alert[p].holder = s => stock[k].holder = s
    BY DEF Follows, Moved
  <1>3. stock'[k].holder # s /\ alert'[p].holder # s /\ pc'[s] = "idle" /\ due'[s] = {}
    BY <1>1, EndedPair
  <1>4. Follows(s, p, k)'
    BY <1>3 DEF Follows, Moved
  <1>5. Undisturbed(s, p, k)
    <2> SUFFICES ASSUME NEW t \in Session \ {s}
                 PROVE  /\ pc'[t] = pc[t] /\ plan'[t] = plan[t] /\ todo'[t] = todo[t]
                        /\ due'[t] = due[t] /\ level'[t] = level[t] /\ low'[t] = low[t]
                        /\ stock'[k].holder = t <=> stock[k].holder = t
                        /\ alert'[p].holder = t <=> alert[p].holder = t
                        /\ stock[k].holder = t => stock'[k] = stock[k] /\ alert'[p] = alert[p]
      BY DEF Undisturbed
    <2>1. t # NoSession
      BY NoSessionIsNotASession
    <2>2. QED
      BY <1>2, <2>1, EndedPair
  <1>6. Agreed(p, k)'
    <2>1. rule'[p].saved = InitialLevel[p] /\ rule'[p].holder = NoSession
      BY EndedPair DEF Agreed
    <2>2. alert'[p].saved = BelowLevel(p, stock'[k].saved)
      <3>1. CASE Commit(s) /\ stock[k].holder = s
        <4>1. due[s] = {} /\ Moved(s, k)
          BY <3>1 DEF Commit, Follows, Moved, Pending
        <4>2. View(alert[p], s) = BelowLevel(p, stock[k].new)
          BY <4>1 DEF Follows
        <4>3. QED
          BY <3>1, <4>2, EndedPair
      <3>2. CASE stock[k].holder # s
        <4>1. stock'[k] = stock[k] /\ alert'[p] = alert[p]
          BY <1>2, <3>2, EndedPair
        <4>2. QED
          BY <4>1 DEF Agreed
      <3>3. CASE Rollback(s)
        <4>1. stock'[k].saved = stock[k].saved /\ alert'[p].saved = alert[p].saved
          BY <3>3, EndedPair
        <4>2. QED
          BY <4>1 DEF Agreed
      <3>4. QED
        BY <3>1, <3>2, <3>3
    <2>3. QED
      BY <2>1, <2>2 DEF Agreed
  <1>7. QED
    BY <1>4, <1>5, <1>6 DEF KeepsAlert

LEMMA FollowInit == Init => AllFollow
  <1> SUFFICES ASSUME Init, NEW p \in Pair, NEW k \in Key, Solitary(p, k)
               PROVE  Agreed(p, k) /\ \A s \in Session : Follows(s, p, k)
    BY DEF AllFollow
  <1>1. Agreed(p, k)
    BY DEF Init, Agreed, BelowLevel, Stored
  <1>2. ASSUME NEW s \in Session PROVE Follows(s, p, k)
    <2>1. /\ pc[s] = "idle" /\ due[s] = {}
          /\ stock[k].holder # s /\ alert[p].holder # s
      BY NoSessionIsNotASession DEF Init, Stored
    <2>2. QED
      BY <2>1 DEF Follows, Moved
  <1>3. QED
    BY <1>1, <1>2

LEMMA FollowNext ==
    Shape /\ AllOrdered /\ Faithful /\ Faithful' /\ AllFollow /\ [Next]_vars => AllFollow'
  <1> SUFFICES ASSUME Shape, AllOrdered, Faithful, Faithful', AllFollow, [Next]_vars,
                      NEW p \in Pair, NEW k \in Key, Solitary(p, k)
               PROVE  Agreed(p, k)' /\ \A s \in Session : Follows(s, p, k)'
    BY DEF AllFollow
  <1>1. Agreed(p, k) /\ \A s \in Session : Follows(s, p, k)
    BY DEF AllFollow
  <1>2. CASE UNCHANGED vars
    BY <1>1, <1>2 DEF vars, tables, request, Agreed, Follows, Moved, Pending, CallOf,
                         NextDue, Earlier
  <1>3. CASE Next
    <2>1. PICK s \in Session :
            \/ \E d \in Doc : BeginPosting(s, d)
            \/ \E id \in CommittedId : BeginReversal(s, id)
            \/ \E change \in RuleChange : SaveRule(s, change[1], change[2])
            \/ LockEntry(s)
            \/ LoadReversible(s)
            \/ InsertEntry(s)
            \/ \E q \in Pair : Evaluates(s, q)
            \/ Commit(s) \/ Rollback(s)
      BY <1>3 DEF Next, RefuseReversal, RefuseMovement, Abort, Evaluates
    <2>2. Follows(s, p, k)
      BY <1>1
    <2>3. CASE \/ \E d \in Doc : BeginPosting(s, d)
               \/ \E id \in CommittedId : BeginReversal(s, id)
               \/ LockEntry(s)
               \/ LoadReversible(s)
      BY <1>1, <2>2, <2>3, BeginsKeepAlert, AlertKept
    <2>4. CASE \E change \in RuleChange : SaveRule(s, change[1], change[2])
      <3>1. PICK change \in RuleChange : SaveRule(s, change[1], change[2])
        BY <2>4
      <3>2. change[1] \in Pair \ {p}
        BY <3>1, PostingAssumption DEF Solitary
      <3>3. KeepsAlert(s, p, k)
        BY <1>1, <2>2, <3>1, <3>2, SaveRuleKeepsAlert
      <3>4. QED
        BY <1>1, <3>3, AlertKept
    <2>5. CASE InsertEntry(s)
      BY <1>1, <2>2, <2>5, InsertKeepsAlert, AlertKept
    <2>6. CASE \E q \in Pair : Evaluates(s, q)
      <3>1. PICK q \in Pair : Evaluates(s, q)
        BY <2>6
      <3>2. KeepsAlert(s, p, k)
        <4>1. CASE q = p
          BY <1>1, <2>2, <3>1, <4>1, OwnPairKeepsAlert
        <4>2. CASE q # p
          BY <1>1, <2>2, <3>1, <4>2, OtherPairKeepsAlert
        <4>3. QED
          BY <4>1, <4>2
      <3>3. QED
        BY <1>1, <3>2, AlertKept
    <2>7. CASE Commit(s) \/ Rollback(s)
      BY <1>1, <2>2, <2>7, EndKeepsAlert, AlertKept
    <2>8. QED
      BY <2>1, <2>3, <2>4, <2>5, <2>6, <2>7
  <1>4. QED
    BY <1>2, <1>3

\* For a pair with one batch and a rule that nobody changes, the alert is
\* committed with the stock it is about, whatever postings, reversals, imports,
\* rule changes of other pairs and rollbacks run at the same time
\* (alerts.service.ts).  Nothing is claimed of a pair whose rule is changed.
THEOREM AlertsFollowHolds == Spec => []AlertsFollowStock
  <1>1. AllFollow => AlertsFollowStock
    <2> SUFFICES ASSUME AllFollow, NEW p \in Pair, NEW k \in Key, Solitary(p, k)
                 PROVE  alert[p].saved = (stock[k].saved < InitialLevel[p])
      BY DEF AlertsFollowStock, Solitary
    <2>1. QED
      BY DEF AllFollow, Agreed, BelowLevel
  <1>2. QED
    BY <1>1, ShapeAlways, OrderedInit, OrderedNext, FaithfulInit, FaithfulNext,
       FollowInit, FollowNext, PTL DEF Spec
==============================================================================
