---------------------------- MODULE RequestsProofs ----------------------------
(***************************************************************************)
(* Proofs about create requests, for any forms, inputs, batches, orders    *)
(* and sessions, any number of repeated submissions and attempts.          *)
(***************************************************************************)
EXTENDS Requests, SumTheorems

Transaction == {"order", "number", "insert", "batch", "alert", "commit"}

-----------------------------------------------------------------------------
(***************************************************************************)
(* Rows: what a commit and a rollback leave of a table.                    *)
(***************************************************************************)

LEMMA RowsTyped ==
    ASSUME NEW Value, NEW Key, NEW table \in [Key -> Row(Value)], NEW s \in Session
    PROVE  /\ Committed(table, s) \in [Key -> Row(Value)]
           /\ RolledBack(table, s) \in [Key -> Row(Value)]
BY DEF Committed, RolledBack, Stored, Row

LEMMA WrittenTyped ==
    ASSUME NEW Value, NEW row \in Row(Value), NEW s \in Session, NEW v \in Value
    PROVE  /\ Written(row, s, v) \in Row(Value)
           /\ View(row, s) \in Value
           /\ Written(row, s, v).saved = row.saved
           /\ Written(row, s, v).new = v
           /\ Written(row, s, v).holder = s
BY DEF Written, View, Row

LEMMA StoredRow == \A v : Stored(v).saved = v /\ Stored(v).new = v /\ Stored(v).holder = NoSession
BY DEF Stored

LEMMA EndedRow ==
    ASSUME NEW table, NEW r \in DOMAIN table, NEW s
    PROVE  /\ table[r].holder = s =>
                  /\ Committed(table, s)[r] = Stored(table[r].new)
                  /\ RolledBack(table, s)[r] = Stored(table[r].saved)
           /\ table[r].holder # s =>
                  /\ Committed(table, s)[r] = table[r]
                  /\ RolledBack(table, s)[r] = table[r]
BY DEF Committed, RolledBack

-----------------------------------------------------------------------------
(***************************************************************************)
(* Types.                                                                  *)
(***************************************************************************)

\* A request that is served has lines, its attempts are counted from its first
\* transaction on, and only a receipt locks an order.
Served(w) ==
    /\ w.line <= Len(w.input.lines)
    /\ w.attempt <= MaxAttempts
    /\ w.pc # "idle" => w.input.lines # <<>>
    /\ w.pc \in {"route", "find"} => w.attempt = 0
    /\ w.pc \in Transaction => w.line \in 1..Len(w.input.lines)
    /\ w.pc = "order" => Kind[w.form] = "GRN"

Typed ==
    /\ TypeOK
    /\ \A s \in Session : Served(work[s])

LEMMA NoWorkTyped == NoWork \in Work /\ Served(NoWork) /\ NoWork.pc = "idle" /\ ~NoWork.heard
<1>1. (CHOOSE f \in Form : TRUE) \in Form
      BY RequestsAssumption DEF RequestsAssumption
<1>2. [quantity |-> 0, lines |-> <<>>] \in Content
      BY DEF Content
<1>3. NoWork \in Work
      BY <1>1, <1>2 DEF NoWork, Work, Step
<1>4. NoWork.line = 0 /\ NoWork.attempt = 0 /\ NoWork.pc = "idle" /\ NoWork.input.lines = <<>>
      BY DEF NoWork
<1>5. ~NoWork.heard
      BY DEF NoWork
<1> QED BY <1>3, <1>4, <1>5, RequestsAssumption DEF Served, Transaction, RequestsAssumption

LEMMA InitTyped == Init => Typed
<1> SUFFICES ASSUME Init PROVE Typed
    OBVIOUS
<1>1. /\ received \in [Order -> Row(Nat)]
      /\ sequence \in [Series -> Row(Nat)]
      /\ index \in [Form -> Row(Nat)]
      /\ batch \in [Batch -> Row(Date \cup {NoDate})]
      /\ alert \in [Pair -> Row(BOOLEAN)]
      BY DEF Init, Row, Stored
<1>2. /\ work \in [Session -> Work]
      /\ \A s \in Session : Served(work[s])
      BY NoWorkTyped DEF Init
<1>3. /\ screen \in [Form -> Screen] /\ sent \in [Form -> Nat]
      /\ document \in Seq([form : Form, number : Nat, input : Content])
      BY DEF Init, Screen
<1> QED BY <1>1, <1>2, <1>3 DEF Typed, TypeOK, Served

\* A step that replaces the request of one session.
LEMMA WorkTyped ==
    ASSUME Typed, NEW s \in Session, NEW w \in Work, Served(w), work' = [work EXCEPT ![s] = w]
    PROVE  /\ work' \in [Session -> Work]
           /\ \A t \in Session : Served(work[t])'
           /\ work'[s] = w
           /\ \A t \in Session \ {s} : work'[t] = work[t]
BY DEF Typed, TypeOK, Served

LEMMA GotoTyped ==
    ASSUME Typed, NEW s \in Session, NEW pc \in Step, Goto(s, pc),
           work[s].pc # "idle",
           pc \in {"route", "find"} => work[s].attempt = 0,
           pc \in Transaction => work[s].pc \in Transaction,
           pc # "order"
    PROVE  /\ work' \in [Session -> Work]
           /\ \A t \in Session : Served(work[t])'
<1>1. /\ work[s] \in Work /\ Served(work[s])
      BY DEF Typed, TypeOK
<1>2. [work[s] EXCEPT !.pc = pc] \in Work /\ Served([work[s] EXCEPT !.pc = pc])
      BY <1>1 DEF Work, Served
<1>3. work' = [work EXCEPT ![s] = [work[s] EXCEPT !.pc = pc]]
      BY DEF Goto, Typed, TypeOK
<1> QED BY <1>2, <1>3, WorkTyped

\* The line that a transaction is at.
LEMMA LineOfTransaction ==
    ASSUME NEW w \in Work, Served(w), w.pc \in Transaction
    PROVE  /\ w.input.lines \in Seq(Line)
           /\ w.line \in 1..Len(w.input.lines)
           /\ w.input.lines[w.line] \in Line
<1>1. w.input.lines \in Seq(Line)
      BY DEF Work, Content
<1>2. w.line \in 1..Len(w.input.lines)
      BY DEF Served
<1> QED BY <1>1, <1>2

LEMMA StartedTyped ==
    ASSUME NEW w \in Work, Served(w), w.pc # "idle", w.attempt < MaxAttempts
    PROVE  /\ Started(w) \in Work /\ Served(Started(w))
           /\ Started(w).pc = FirstStep(w.form) /\ Started(w).line = 1
           /\ Started(w).form = w.form /\ Started(w).heard = w.heard
           /\ Started(w).input = w.input
<1>1. /\ FirstStep(w.form) \in Step
      /\ FirstStep(w.form) = "order" => Kind[w.form] = "GRN"
      /\ FirstStep(w.form) \notin {"route", "find"}
      BY DEF FirstStep, Step
<1>2. w.input.lines \in Seq(Line) /\ w.input.lines # <<>> /\ w.attempt \in Nat
      BY DEF Work, Content, Served
<1>3. Len(w.input.lines) \in Nat \ {0}
      BY <1>2
<1>4. Started(w) = [w EXCEPT !.pc = FirstStep(w.form), !.attempt = w.attempt + 1, !.line = 1,
                             !.number = 0]
      BY DEF Started
<1> DEFINE v(pc, n) == [w EXCEPT !.pc = pc, !.attempt = n, !.line = 1, !.number = 0]
<1>5. ASSUME NEW pc \in Step, NEW n \in Nat
      PROVE  /\ v(pc, n) \in Work
             /\ v(pc, n).pc = pc /\ v(pc, n).line = 1
             /\ v(pc, n).form = w.form /\ v(pc, n).heard = w.heard
             /\ v(pc, n).input = w.input /\ v(pc, n).attempt = n
      BY DEF Work
<1>6. Started(w) = v(FirstStep(w.form), w.attempt + 1) /\ w.attempt + 1 \in Nat
      BY <1>2, <1>4
<1> HIDE DEF v
<1>7. /\ Started(w) \in Work
      /\ Started(w).pc = FirstStep(w.form) /\ Started(w).line = 1
      /\ Started(w).form = w.form /\ Started(w).heard = w.heard
      /\ Started(w).input = w.input /\ Started(w).attempt = w.attempt + 1
      BY <1>1, <1>5, <1>6
<1>8. Served(Started(w))
  <2>1. Started(w).attempt <= MaxAttempts
        BY <1>2, <1>7, RequestsAssumption DEF RequestsAssumption
  <2> QED BY <1>1, <1>2, <1>3, <1>7, <2>1 DEF Served
<1> QED BY <1>7, <1>8

LEMMA UndoTyped ==
    ASSUME Typed, NEW s \in Session, Undo(s)
    PROVE  /\ received' \in [Order -> Row(Nat)]
           /\ sequence' \in [Series -> Row(Nat)]
           /\ index' \in [Form -> Row(Nat)]
           /\ batch' \in [Batch -> Row(Date \cup {NoDate})]
           /\ alert' \in [Pair -> Row(BOOLEAN)]
BY RowsTyped DEF Undo, Typed, TypeOK

LEMMA FailTyped ==
    ASSUME Typed, NEW s \in Session, NEW pc \in {"failed", "winner"}, Fail(s, pc),
           work[s].pc \in Transaction
    PROVE  Typed'
<1>1. work[s].pc # "idle" /\ pc \in Step /\ pc \notin Transaction /\ pc \notin {"route", "find"}
      BY DEF Transaction, Step
<1> QED BY <1>1, UndoTyped, GotoTyped DEF Fail, Typed, TypeOK, Served, Transaction

\* The next line, or the step after the last.
LEMMA AdvancedTyped ==
    ASSUME NEW w \in Work, Served(w), w.pc \in Transaction \ {"order"},
           NEW after \in Transaction \ {"order"}
    PROVE  /\ Advanced(w, after) \in Work
           /\ Served(Advanced(w, after))
<1>1. w.input.lines \in Seq(Line) /\ w.line \in 1..Len(w.input.lines)
      BY DEF Served, Work, Content
<1>2. w.line \in Nat /\ Len(w.input.lines) \in Nat /\ w.input.lines # <<>>
      BY <1>1
<1>3. CASE w.line < Len(w.input.lines)
  <2> DEFINE v == [w EXCEPT !.line = @ + 1]
  <2>1. v \in Work /\ v.line = w.line + 1 /\ v.pc = w.pc /\ v.input = w.input
        /\ v.attempt = w.attempt
        BY <1>2 DEF Work
  <2>2. v.line \in 1..Len(v.input.lines)
        BY <1>2, <1>3, <2>1
  <2>3. Served(v)
        BY <1>2, <2>1, <2>2 DEF Served, Transaction
  <2>4. Advanced(w, after) = v
        BY <1>3 DEF Advanced
  <2> QED BY <2>1, <2>3, <2>4
<1>4. CASE ~(w.line < Len(w.input.lines))
  <2> DEFINE v == [w EXCEPT !.line = 1, !.pc = after]
  <2>1. v \in Work /\ v.line = 1 /\ v.pc = after /\ v.input = w.input /\ v.attempt = w.attempt
        BY DEF Work, Transaction, Step
  <2>2. v.line \in 1..Len(v.input.lines)
        BY <1>1, <1>2, <2>1
  <2>3. Served(v)
        BY <1>2, <2>1, <2>2 DEF Served, Transaction
  <2>4. Advanced(w, after) = v
        BY <1>4 DEF Advanced
  <2> QED BY <2>1, <2>3, <2>4
<1> QED BY <1>3, <1>4

LEMMA NextLineTyped ==
    ASSUME Typed, NEW s \in Session, NEW after \in Transaction \ {"order"}, NextLine(s, after),
           work[s].pc \in Transaction \ {"order"}
    PROVE  /\ work' \in [Session -> Work]
           /\ \A t \in Session : Served(work[t])'
<1>1. Advanced(work[s], after) \in Work /\ Served(Advanced(work[s], after))
      BY AdvancedTyped DEF Typed, TypeOK
<1> QED BY <1>1, WorkTyped DEF NextLine

\* Whoever is part of a deadlock waits for a row, in its transaction.
LEMMA WaitsInTransaction ==
    ASSUME NEW s \in Session, Deadlocked(s)
    PROVE  work[s].pc \in Transaction
BY DEF Deadlocked, Blocker, Transaction

LEMMA NextTyped == Typed /\ [Next]_vars => Typed'
<1> SUFFICES ASSUME Typed, [Next]_vars PROVE Typed'
    OBVIOUS
<1> USE DEF rows
<1>0. \A s \in Session : work[s] \in Work /\ Served(work[s])
      BY DEF Typed, TypeOK
<1>1. CASE UNCHANGED vars
      BY <1>1 DEF vars, Typed, TypeOK, Served
<1>2. ASSUME NEW f \in Form, NEW s \in Session, NEW input \in Input[f], Send(f, s, input)
      PROVE  Typed'
  <2> DEFINE w == [NoWork EXCEPT !.form = f, !.pc = "route", !.heard = TRUE, !.input = input]
  <2>1. input \in Content /\ input.lines # <<>>
        BY RequestsAssumption DEF RequestsAssumption
  <2>2. w \in Work /\ w.input = input /\ w.line = 0 /\ w.attempt = 0 /\ w.pc = "route"
        BY <2>1, NoWorkTyped DEF Work, Step, NoWork
  <2>3. Served(w)
        BY <2>1, <2>2, RequestsAssumption DEF Served, Transaction, Content, RequestsAssumption
  <2>4. work' = [work EXCEPT ![s] = w]
        BY <1>2 DEF Send
  <2>5. /\ screen' \in [Form -> Screen] /\ sent' \in [Form -> Nat]
        BY <1>2 DEF Send, Typed, TypeOK, Screen
  <2> HIDE DEF w
  <2> QED BY <1>2, <2>2, <2>3, <2>4, <2>5, WorkTyped DEF Send, Typed, TypeOK, Served
<1>3. ASSUME NEW s \in Session, LoseConnection(s) PROVE Typed'
  <2>1. [work[s] EXCEPT !.heard = FALSE] \in Work /\ Served([work[s] EXCEPT !.heard = FALSE])
        BY <1>0 DEF Work, Served
  <2>2. work' = [work EXCEPT ![s] = [work[s] EXCEPT !.heard = FALSE]]
        BY <1>3 DEF LoseConnection, Typed, TypeOK
  <2>3. screen' \in [Form -> Screen]
        BY <1>3 DEF LoseConnection, Typed, TypeOK, Screen
  <2> QED BY ZenonT(60), <1>3, <2>1, <2>2, <2>3, WorkTyped DEF LoseConnection, Typed, TypeOK, Served
<1>4. ASSUME NEW s \in Session, Admit(s) PROVE Typed'
  <2>1. work[s].pc # "idle" /\ work[s].attempt = 0
        BY <1>0, <1>4 DEF Admit, Served
  <2>2. "find" \in Step /\ "find" \notin Transaction
        BY DEF Step, Transaction
  <2> QED BY <1>4, <2>1, <2>2, GotoTyped DEF Admit, Typed, TypeOK, Served
<1>5. ASSUME NEW s \in Session, NEW envelope, Deliver(s, envelope) PROVE Typed'
  <2>1. screen' \in [Form -> Screen]
    <3>1. Shown(envelope) \in Screen
          BY DEF Shown, Screen
    <3> QED BY <1>5, <3>1 DEF Deliver, Typed, TypeOK
  <2> QED BY <1>5, <2>1, NoWorkTyped, WorkTyped DEF Deliver, Typed, TypeOK, Served
<1>6. ASSUME NEW s \in Session, Find(s) PROVE Typed'
  <2> DEFINE existing == index[work[s].form].saved
             found == [work[s] EXCEPT !.pc = "posted", !.number = existing]
  <2>1. existing \in Nat
        BY <1>0 DEF Typed, TypeOK, Row, Work
  <2>2. work[s].pc = "find" /\ work[s].attempt = 0
        BY <1>0, <1>6 DEF Find, Served
  <2>3. found \in Work /\ Served(found)
        BY <1>0, <2>1, <2>2 DEF Work, Served, Step, Transaction
  <2>4. Started(work[s]) \in Work /\ Served(Started(work[s]))
        BY <1>0, <2>2, StartedTyped, RequestsAssumption DEF RequestsAssumption
  <2>5. work' = [work EXCEPT ![s] = IF existing # 0 THEN found ELSE Started(work[s])]
        BY <1>6 DEF Find
  <2> HIDE DEF found, existing
  <2>6. PICK w \in Work : Served(w) /\ work' = [work EXCEPT ![s] = w]
        BY <2>3, <2>4, <2>5
  <2> QED BY ZenonT(60), <1>6, <2>6, WorkTyped DEF Find, Typed, TypeOK, Served
<1>7. ASSUME NEW s \in Session, FindWinner(s) PROVE Typed'
  <2> DEFINE winner == index[work[s].form].saved
             pc == IF winner # 0 THEN "posted" ELSE "failed"
             w == [work[s] EXCEPT !.pc = pc, !.number = winner]
  <2>1. winner \in Nat /\ pc \in Step /\ pc \notin Transaction \cup {"route", "find", "idle"}
        BY <1>0 DEF Typed, TypeOK, Row, Work, Step, Transaction
  <2>2. work[s].pc # "idle"
        BY <1>7 DEF FindWinner
  <2>3. work' = [work EXCEPT ![s] = w]
        BY <1>7 DEF FindWinner, Typed, TypeOK
  <2> HIDE DEF winner, pc
  <2>4. w \in Work /\ Served(w)
        BY <1>0, <2>1, <2>2 DEF Work, Served, Transaction
  <2> HIDE DEF w
  <2> QED BY ZenonT(60), <1>7, <2>3, <2>4, WorkTyped DEF FindWinner, Typed, TypeOK, Served
<1>8. ASSUME NEW s \in Session, TimeOut(s) PROVE Typed'
      BY <1>8, FailTyped DEF TimeOut, InTransaction, Transaction
<1>9. ASSUME NEW s \in Session, LockOrder(s) PROVE Typed'
  <2> DEFINE o == OrderOf[work[s].form]
             got == View(received[o], s)
  <2>1. work[s].pc = "order" /\ o \in Order
        BY <1>0, <1>9, RequestsAssumption DEF LockOrder, Served, Work, RequestsAssumption
  <2>2. CASE Fail(s, "failed")
        BY <2>1, <2>2, FailTyped DEF Transaction
  <2>3. CASE /\ received' = [received EXCEPT ![o] = Written(@, s, got)]
             /\ Goto(s, "number")
             /\ UNCHANGED <<screen, sent, sequence, index, batch, alert, document>>
    <3>1. received' \in [Order -> Row(Nat)]
      <4>1. received[o] \in Row(Nat)
            BY <2>1 DEF Typed, TypeOK
      <4>2. Written(received[o], s, got) \in Row(Nat)
            BY <4>1, WrittenTyped
      <4> QED BY <2>3, <4>2 DEF Typed, TypeOK
    <3>2. "number" \in Step /\ "number" \in Transaction /\ work[s].pc \in Transaction
          BY <2>1 DEF Step, Transaction
    <3> QED BY <2>1, <2>3, <3>1, <3>2, GotoTyped DEF Typed, TypeOK, Served
  <2> QED BY <1>9, <2>2, <2>3 DEF LockOrder
<1>10. ASSUME NEW s \in Session, TakeNumber(s) PROVE Typed'
  <2> DEFINE k == Kind[work[s].form]
             number == View(sequence[k], s) + 1
             w == [work[s] EXCEPT !.number = number, !.pc = "insert"]
  <2>1. work[s].pc = "number" /\ k \in Series
        BY <1>0, <1>10, RequestsAssumption DEF TakeNumber, Work, RequestsAssumption
  <2>2. number \in Nat /\ Written(sequence[k], s, number) \in Row(Nat)
    <3>1. sequence[k] \in Row(Nat)
          BY <2>1 DEF Typed, TypeOK
    <3>2. View(sequence[k], s) \in Nat
          BY <3>1, WrittenTyped
    <3> QED BY <3>1, <3>2, WrittenTyped
  <2>3. sequence' \in [Series -> Row(Nat)]
        BY <1>10, <2>2 DEF TakeNumber, Typed, TypeOK
  <2>4. work' = [work EXCEPT ![s] = w]
        BY <1>10 DEF TakeNumber, Typed, TypeOK
  <2> HIDE DEF number, k
  <2>5. w \in Work /\ Served(w)
        BY <1>0, <2>1, <2>2 DEF Work, Served, Transaction, Step
  <2> HIDE DEF w
  <2> QED BY ZenonT(60), <1>10, <2>3, <2>4, <2>5, WorkTyped DEF TakeNumber, Typed, TypeOK, Served
<1>11. ASSUME NEW s \in Session, InsertDocument(s) PROVE Typed'
  <2> DEFINE f == work[s].form
  <2>1. work[s].pc = "insert" /\ f \in Form /\ work[s].number \in Nat
        BY <1>0, <1>11 DEF InsertDocument, Work
  <2>2. CASE Fail(s, "winner")
        BY <2>1, <2>2, FailTyped DEF Transaction
  <2>3. CASE /\ index' = [index EXCEPT ![f] = Written(@, s, work[s].number)]
             /\ Goto(s, StepAfterInsert(f))
             /\ UNCHANGED <<screen, sent, received, sequence, batch, alert, document>>
    <3>1. index' \in [Form -> Row(Nat)]
      <4>1. index[f] \in Row(Nat)
            BY <2>1 DEF Typed, TypeOK
      <4>2. Written(index[f], s, work[s].number) \in Row(Nat)
            BY <2>1, <4>1, WrittenTyped
      <4> QED BY <2>3, <4>2 DEF Typed, TypeOK
    <3>2. /\ StepAfterInsert(f) \in Step /\ StepAfterInsert(f) \in Transaction \ {"order"}
          /\ work[s].pc \in Transaction
          BY <2>1 DEF Step, Transaction, StepAfterInsert
    <3>3. StepAfterInsert(f) \notin {"route", "find"}
          BY DEF StepAfterInsert
    <3> QED BY <2>1, <2>3, <3>1, <3>2, <3>3, GotoTyped DEF Typed, TypeOK, Served
  <2> QED BY <1>11, <2>2, <2>3 DEF InsertDocument
<1>12. ASSUME NEW s \in Session, ResolveBatch(s) PROVE Typed'
  <2> DEFINE w == work[s]
             line == w.input.lines[w.line]
             date == Resolved(View(batch[line.batch], s), line.date)
  <2>1. w.pc = "batch" /\ line \in Line
        BY <1>0, <1>12, LineOfTransaction DEF ResolveBatch, Transaction
  <2>2. line.batch \in Batch /\ line.date \in Date \cup {NoDate}
        BY <2>1 DEF Line
  <2>3. batch[line.batch] \in Row(Date \cup {NoDate})
        BY <2>2 DEF Typed, TypeOK
  <2>4. date \in Date \cup {NoDate}
    <3> HIDE DEF line
    <3>1. View(batch[line.batch], s) \in Date \cup {NoDate}
          BY <2>3 DEF View, Row
    <3> QED BY <2>2, <3>1 DEF Resolved
  <2>5. CASE Fail(s, "failed")
        BY <2>1, <2>5, FailTyped DEF Transaction
  <2>6. CASE /\ batch' = [batch EXCEPT ![line.batch] = Written(@, s, date)]
             /\ NextLine(s, StepAfterBatches(w.form))
             /\ UNCHANGED <<screen, sent, received, sequence, index, alert, document>>
    <3>1. batch' \in [Batch -> Row(Date \cup {NoDate})]
      <4> HIDE DEF date, line
      <4>1. Written(batch[line.batch], s, date) \in Row(Date \cup {NoDate})
            BY <2>3, <2>4, WrittenTyped
      <4> QED BY <2>6, <4>1 DEF Typed, TypeOK
    <3>2. /\ StepAfterBatches(w.form) \in Transaction \ {"order"}
          /\ w.pc \in Transaction \ {"order"}
          BY <2>1 DEF Transaction, StepAfterBatches
    <3> QED BY <2>6, <3>1, <3>2, NextLineTyped DEF Typed, TypeOK, Served
  <2> QED BY <1>12, <2>5, <2>6 DEF ResolveBatch
<1>13. ASSUME NEW s \in Session, WriteAlert(s) PROVE Typed'
  <2> DEFINE w == work[s]
             line == w.input.lines[w.line]
             p == PairOf[line.batch]
  <2>1. w.pc = "alert" /\ line \in Line
        BY <1>0, <1>13, LineOfTransaction DEF WriteAlert, Transaction
  <2>2. p \in Pair
        BY <2>1, RequestsAssumption DEF Line, RequestsAssumption
  <2>3. alert' \in [Pair -> Row(BOOLEAN)]
    <3>1. alert[p] \in Row(BOOLEAN)
          BY <2>2 DEF Typed, TypeOK
    <3>2. Written(alert[p], s, TRUE) \in Row(BOOLEAN)
          BY <3>1, WrittenTyped
    <3> QED BY <1>13, <3>2 DEF WriteAlert, Typed, TypeOK
  <2>4. "commit" \in Transaction \ {"order"} /\ w.pc \in Transaction \ {"order"}
        BY <2>1 DEF Transaction
  <2> QED BY <1>13, <2>3, <2>4, NextLineTyped DEF WriteAlert, Typed, TypeOK, Served
<1>14. ASSUME NEW s \in Session, Commit(s) PROVE Typed'
  <2> DEFINE w == work[s]
             counted == [o \in Order |-> IF received[o].holder = s
                                         THEN [received[o] EXCEPT !.new = @ + w.input.quantity]
                                         ELSE received[o]]
  <2>1. w \in Work /\ w.pc = "commit"
        BY <1>0, <1>14 DEF Commit
  <2>2. counted \in [Order -> Row(Nat)]
    <3>1. w.input.quantity \in Nat
          BY <2>1 DEF Work, Content
    <3>2. \A row \in Row(Nat) : [row EXCEPT !.new = @ + w.input.quantity] \in Row(Nat)
          BY <3>1 DEF Row
    <3> QED BY <3>2 DEF Typed, TypeOK
  <2>3. /\ received' \in [Order -> Row(Nat)]
        /\ sequence' \in [Series -> Row(Nat)]
        /\ index' \in [Form -> Row(Nat)]
        /\ batch' \in [Batch -> Row(Date \cup {NoDate})]
        /\ alert' \in [Pair -> Row(BOOLEAN)]
        BY <1>14, <2>2, RowsTyped DEF Commit, Typed, TypeOK
  <2>4. document' \in Seq([form : Form, number : Nat, input : Content])
        BY <1>14, <2>1 DEF Commit, Work, Typed, TypeOK
  <2>5. "posted" \in Step \ Transaction /\ Goto(s, "posted") /\ w.pc # "idle"
        BY <1>14, <2>1 DEF Commit, Step, Transaction
  <2> QED BY <1>14, <2>3, <2>4, <2>5, GotoTyped DEF Commit, Typed, TypeOK, Served
<1>15. ASSUME NEW s \in Session, Victim(s) PROVE Typed'
  <2> DEFINE failed == [work[s] EXCEPT !.pc = "failed"]
  <2>1. work[s].pc # "idle"
        BY <1>15, WaitsInTransaction DEF Victim, Transaction
  <2>2. failed \in Work /\ Served(failed)
        BY <1>0, <2>1 DEF Work, Served, Step, Transaction
  <2>3. work[s].attempt < MaxAttempts =>
            Started(work[s]) \in Work /\ Served(Started(work[s]))
        BY <1>0, <2>1, StartedTyped
  <2>4. work' = [work EXCEPT ![s] = IF work[s].attempt < MaxAttempts THEN Started(work[s])
                                    ELSE failed]
        BY <1>15 DEF Victim
  <2> HIDE DEF failed
  <2>5. PICK w \in Work : Served(w) /\ work' = [work EXCEPT ![s] = w]
        BY <2>2, <2>3, <2>4
  <2> QED BY <1>15, <2>5, WorkTyped, UndoTyped DEF Victim, Typed, TypeOK, Served
<1> QED
    BY <1>1, <1>2, <1>3, <1>4, <1>5, <1>6, <1>7, <1>8, <1>9, <1>10, <1>11, <1>12, <1>13, <1>14,
       <1>15
    DEF Next, Progress, Refuse, Answer

LEMMA AlwaysTyped == Spec => []Typed
BY InitTyped, NextTyped, PTL DEF Spec

\* Every row, request and document has its type, also where transactions of a
\* deadlock are undone and started again.
THEOREM TypeCorrect == Spec => []TypeOK
<1>1. Typed => TypeOK
      BY DEF Typed
<1> QED BY <1>1, AlwaysTyped, PTL

-----------------------------------------------------------------------------
(***************************************************************************)
(* What a session holds.                                                   *)
(***************************************************************************)

\* A receipt is numbered and inserted before its batches are resolved, an
\* opening balance after.
Numbered(w) ==
    w.pc \in {"insert", "alert", "commit"} \/ (w.pc = "batch" /\ Kind[w.form] = "GRN")
Inserted(w) ==
    w.pc \in {"alert", "commit"} \/ (w.pc = "batch" /\ Kind[w.form] = "GRN")
PastBatches(w) ==
    w.pc \in {"alert", "commit"} \/ (w.pc \in {"number", "insert"} /\ Kind[w.form] # "GRN")

\* A receipt holds its order from the first statement on.
Receiving(w) == Kind[w.form] = "GRN" /\ w.pc \in Transaction \ {"order"}

\* Only transactions hold rows; those of a series, a key or an order, from the
\* statement that takes them.
Held ==
    \A s \in Session :
        /\ \A o \in Order : received[o].holder = s =>
               Receiving(work[s]) /\ OrderOf[work[s].form] = o
        /\ \A k \in Series : sequence[k].holder = s => Kind[work[s].form] = k /\ Numbered(work[s])
        /\ \A f \in Form : index[f].holder = s => work[s].form = f /\ Inserted(work[s])
        /\ \A b \in Batch : batch[b].holder = s => work[s].pc \in Transaction

\* A transaction that has not begun or was undone, or that is about to begin.
Outside(w) ==
    \/ w.pc \in {"idle", "route", "find", "winner", "posted", "failed"}
    \/ w.pc = "order" /\ w.line = 1
    \/ w.pc = "batch" /\ w.line = 1 /\ Kind[w.form] # "GRN"

Restarts(s, w) ==
    /\ work' = [work EXCEPT ![s] = w]
    /\ Outside(w)
    /\ w.pc = "posted" => index[w.form].saved # 0
    /\ received' = RolledBack(received, s)
    /\ sequence' = RolledBack(sequence, s)
    /\ index' = RolledBack(index, s)
    /\ batch' = RolledBack(batch, s)
    /\ document' = document

Locks(s) ==
    LET o == OrderOf[work[s].form]
        got == View(received[o], s)
    IN  /\ work[s].pc = "order"
        /\ Free(received[o], s) /\ WithinPending(o, got, work[s].input.quantity)
        /\ received' = [received EXCEPT ![o] = Written(@, s, got)]
        /\ Goto(s, "number")
        /\ UNCHANGED <<screen, sequence, index, batch, document>>

Inserts(s) ==
    LET f == work[s].form
    IN  /\ work[s].pc = "insert"
        /\ Free(index[f], s) /\ ~KeyTaken(f, s)
        /\ index' = [index EXCEPT ![f] = Written(@, s, work[s].number)]
        /\ Goto(s, StepAfterInsert(f))
        /\ UNCHANGED <<screen, received, sequence, batch, document>>

Resolves(s) ==
    LET w == work[s]
        line == w.input.lines[w.line]
        date == Resolved(View(batch[line.batch], s), line.date)
    IN  /\ w.pc = "batch"
        /\ Free(batch[line.batch], s) /\ ~Mismatch(date, line.date)
        /\ batch' = [batch EXCEPT ![line.batch] = Written(@, s, date)]
        /\ NextLine(s, StepAfterBatches(w.form))
        /\ UNCHANGED <<screen, received, sequence, index, document>>

Writes(s) ==
    /\ work[s].pc = "alert"
    /\ NextLine(s, "commit")
    /\ UNCHANGED <<screen, received, sequence, index, batch, document>>

\* The steps, as far as numbers, keys, dates and documents go.
Shape(s) ==
    \/ \E w \in Work : Restarts(s, w)
    \/ LoseConnection(s) \/ Locks(s) \/ TakeNumber(s) \/ Inserts(s) \/ Resolves(s) \/ Writes(s)
    \/ Commit(s)

SeriesOf(w) == Kind[w.form]
LineAt(w) == w.input.lines[w.line]

LEMMA TakeNumberRows ==
    ASSUME Typed, NEW s \in Session, TakeNumber(s)
    PROVE  /\ SeriesOf(work[s]) \in Series
           /\ sequence'[SeriesOf(work[s])].saved = sequence[SeriesOf(work[s])].saved
           /\ sequence'[SeriesOf(work[s])].new = View(sequence[SeriesOf(work[s])], s) + 1
           /\ sequence'[SeriesOf(work[s])].holder = s
           /\ \A k \in Series \ {SeriesOf(work[s])} : sequence'[k] = sequence[k]
<1> DEFINE k == SeriesOf(work[s])
           number == View(sequence[k], s) + 1
<1>1. k \in Series
      BY RequestsAssumption DEF RequestsAssumption, Typed, TypeOK, Work, SeriesOf
<1>2. sequence \in [Series -> Row(Nat)] /\ sequence[k] \in Row(Nat)
      BY <1>1 DEF Typed, TypeOK
<1>3. number \in Nat
      BY <1>2 DEF View, Row
<1>4. sequence' = [sequence EXCEPT ![k] = Written(sequence[k], s, number)]
      BY DEF TakeNumber, SeriesOf
<1>5. sequence'[k] = Written(sequence[k], s, number)
      BY <1>1, <1>2, <1>4
<1>6. /\ Written(sequence[k], s, number).saved = sequence[k].saved
      /\ Written(sequence[k], s, number).new = number
      /\ Written(sequence[k], s, number).holder = s
      BY <1>2, <1>3, WrittenTyped
<1> QED BY <1>1, <1>2, <1>4, <1>5, <1>6

LEMMA InsertsRows ==
    ASSUME Typed, NEW s \in Session, Inserts(s)
    PROVE  /\ work[s].form \in Form
           /\ index'[work[s].form].saved = index[work[s].form].saved
           /\ index'[work[s].form].new = work[s].number
           /\ index'[work[s].form].holder = s
           /\ \A f \in Form \ {work[s].form} : index'[f] = index[f]
<1> DEFINE f == work[s].form
           number == work[s].number
<1>1. f \in Form /\ number \in Nat
      BY DEF Typed, TypeOK, Work
<1>2. index \in [Form -> Row(Nat)] /\ index[f] \in Row(Nat)
      BY <1>1 DEF Typed, TypeOK
<1>3. index' = [index EXCEPT ![f] = Written(index[f], s, number)]
      BY DEF Inserts
<1>4. index'[f] = Written(index[f], s, number)
      BY <1>1, <1>2, <1>3
<1>5. /\ Written(index[f], s, number).saved = index[f].saved
      /\ Written(index[f], s, number).new = number
      /\ Written(index[f], s, number).holder = s
      BY <1>1, <1>2, WrittenTyped
<1> QED BY <1>1, <1>2, <1>3, <1>4, <1>5

LEMMA ResolvesRows ==
    ASSUME Typed, NEW s \in Session, Resolves(s)
    PROVE  /\ LineAt(work[s]) \in Line
           /\ LineAt(work[s]).batch \in Batch
           /\ batch'[LineAt(work[s]).batch].saved = batch[LineAt(work[s]).batch].saved
           /\ batch'[LineAt(work[s]).batch].new =
                  Resolved(View(batch[LineAt(work[s]).batch], s), LineAt(work[s]).date)
           /\ batch'[LineAt(work[s]).batch].holder = s
           /\ \A b \in Batch \ {LineAt(work[s]).batch} : batch'[b] = batch[b]
<1> DEFINE line == LineAt(work[s])
           b == line.batch
           date == Resolved(View(batch[b], s), line.date)
<1>1. line \in Line /\ b \in Batch /\ line.date \in Date \cup {NoDate}
      BY LineOfTransaction DEF Resolves, Transaction, Line, LineAt, Typed, TypeOK
<1>2. batch \in [Batch -> Row(Date \cup {NoDate})] /\ batch[b] \in Row(Date \cup {NoDate})
      BY <1>1 DEF Typed, TypeOK
<1>3. View(batch[b], s) \in Date \cup {NoDate}
      BY <1>2 DEF View, Row
<1>4. date \in Date \cup {NoDate}
      BY <1>1, <1>3 DEF Resolved
<1>5. batch' = [batch EXCEPT ![b] = Written(batch[b], s, date)]
      BY DEF Resolves, LineAt
<1>6. batch'[b] = Written(batch[b], s, date)
      BY <1>1, <1>2, <1>5
<1>7. /\ Written(batch[b], s, date).saved = batch[b].saved
      /\ Written(batch[b], s, date).new = date
      /\ Written(batch[b], s, date).holder = s
      BY <1>2, <1>4, WrittenTyped
<1> HIDE DEF date
<1>8. \A other \in Batch \ {b} : batch'[other] = batch[other]
      BY <1>2, <1>5
<1>9. batch'[b].saved = batch[b].saved /\ batch'[b].new = date /\ batch'[b].holder = s
      BY <1>6, <1>7
<1> QED BY <1>1, <1>8, <1>9 DEF date

LEMMA LocksRows ==
    ASSUME Typed, NEW s \in Session, Locks(s)
    PROVE  /\ work[s].form \in Form /\ Kind[work[s].form] = "GRN"
           /\ OrderOf[work[s].form] \in Order
           /\ received'[OrderOf[work[s].form]].saved = received[OrderOf[work[s].form]].saved
           /\ received'[OrderOf[work[s].form]].new = View(received[OrderOf[work[s].form]], s)
           /\ received'[OrderOf[work[s].form]].holder = s
           /\ \A o \in Order \ {OrderOf[work[s].form]} : received'[o] = received[o]
<1> DEFINE o == OrderOf[work[s].form]
           got == View(received[o], s)
<1>1. work[s].form \in Form /\ Kind[work[s].form] = "GRN"
      BY DEF Typed, TypeOK, Work, Served, Locks
<1>2. o \in Order
      BY <1>1, RequestsAssumption DEF RequestsAssumption
<1>3. received \in [Order -> Row(Nat)] /\ received[o] \in Row(Nat)
      BY <1>2 DEF Typed, TypeOK
<1>4. got \in Nat
      BY <1>3 DEF View, Row
<1>5. received' = [received EXCEPT ![o] = Written(received[o], s, got)]
      BY DEF Locks
<1>6. received'[o] = Written(received[o], s, got)
      BY <1>2, <1>3, <1>5
<1>7. /\ Written(received[o], s, got).saved = received[o].saved
      /\ Written(received[o], s, got).new = got
      /\ Written(received[o], s, got).holder = s
      BY <1>3, <1>4, WrittenTyped
<1> QED BY <1>1, <1>2, <1>3, <1>5, <1>6, <1>7

LEMMA NothingHeld ==
    ASSUME Typed, Held, NEW s \in Session, work[s].pc \notin Transaction
    PROVE  /\ received = RolledBack(received, s)
           /\ sequence = RolledBack(sequence, s)
           /\ index = RolledBack(index, s)
           /\ batch = RolledBack(batch, s)
<1>1. /\ \A o \in Order : received[o].holder # s
      /\ \A k \in Series : sequence[k].holder # s
      /\ \A f \in Form : index[f].holder # s
      /\ \A b \in Batch : batch[b].holder # s
      BY DEF Held, Receiving, Numbered, Inserted, Transaction
<1> QED BY <1>1 DEF RolledBack, Typed, TypeOK

LEMMA FailShape ==
    ASSUME Typed, NEW s \in Session, NEW pc \in {"failed", "winner"}, Fail(s, pc)
    PROVE  \E w \in Work : Restarts(s, w)
<1> DEFINE w == [work[s] EXCEPT !.pc = pc]
<1>1. w \in Work /\ w.pc = pc
      BY DEF Typed, TypeOK, Work, Step
<1>2. work' = [work EXCEPT ![s] = w]
      BY DEF Fail, Goto, Typed, TypeOK
<1>3. Restarts(s, w)
      BY <1>1, <1>2 DEF Fail, Undo, Restarts, Outside
<1> QED BY <1>1, <1>3

LEMMA StartedOutside ==
    ASSUME NEW w \in Work, Served(w), w.pc # "idle", w.attempt < MaxAttempts
    PROVE  Started(w) \in Work /\ Outside(Started(w)) /\ Started(w).pc # "posted"
BY StartedTyped DEF Outside, FirstStep

LEMMA StepShapes ==
    ASSUME Typed, Held, Next
    PROVE  \E s \in Session : Shape(s)
<1> USE DEF rows
<1>0. \A s \in Session : work[s] \in Work /\ Served(work[s])
      BY DEF Typed, TypeOK
<1>1. ASSUME NEW f \in Form, NEW s \in Session, NEW input \in Input[f], Send(f, s, input)
      PROVE  Shape(s)
  <2> DEFINE w == [NoWork EXCEPT !.form = f, !.pc = "route", !.heard = TRUE, !.input = input]
  <2>1. w \in Work /\ w.pc = "route"
        BY NoWorkTyped, RequestsAssumption DEF Work, Step, RequestsAssumption
  <2>2. work[s].pc \notin Transaction
        BY <1>1 DEF Send, Transaction
  <2>3. work' = [work EXCEPT ![s] = w]
        BY <1>1 DEF Send
  <2> HIDE DEF w
  <2>4. Restarts(s, w)
        BY <1>1, <2>1, <2>2, <2>3, NothingHeld DEF Send, Restarts, Outside
  <2> QED BY <2>1, <2>4 DEF Shape
<1>2. ASSUME NEW s \in Session, Admit(s) PROVE Shape(s)
  <2> DEFINE w == [work[s] EXCEPT !.pc = "find"]
  <2>1. w \in Work /\ w.pc = "find"
        BY <1>0 DEF Work, Step
  <2>2. work' = [work EXCEPT ![s] = w] /\ work[s].pc \notin Transaction
        BY <1>2 DEF Admit, Goto, Transaction, Typed, TypeOK
  <2> HIDE DEF w
  <2>3. Restarts(s, w)
        BY <1>2, <2>1, <2>2, NothingHeld DEF Admit, Restarts, Outside
  <2> QED BY <2>1, <2>3 DEF Shape
<1>3. ASSUME NEW s \in Session, NEW envelope, Deliver(s, envelope),
             work[s].pc \notin Transaction
      PROVE  Shape(s)
  <2>1. Restarts(s, NoWork)
        BY <1>3, NoWorkTyped, NothingHeld DEF Deliver, Restarts, Outside
  <2> QED BY <2>1, NoWorkTyped DEF Shape
<1>4. ASSUME NEW s \in Session, Refuse(s) \/ Answer(s) PROVE Shape(s)
      BY <1>3, <1>4 DEF Refuse, Answer, Transaction
<1>5. ASSUME NEW s \in Session, Find(s) PROVE Shape(s)
  <2> DEFINE existing == index[work[s].form].saved
             found == [work[s] EXCEPT !.pc = "posted", !.number = existing]
  <2>1. existing \in Nat
        BY <1>0 DEF Typed, TypeOK, Row, Work
  <2>2. work[s].pc = "find" /\ work[s].attempt = 0 /\ work[s].pc \notin Transaction
        BY <1>0, <1>5 DEF Find, Served, Transaction
  <2>3. /\ found \in Work /\ found.pc = "posted" /\ found.form = work[s].form
        BY <1>0, <2>1 DEF Work, Step
  <2>4. /\ Started(work[s]) \in Work /\ Outside(Started(work[s]))
        /\ Started(work[s]).pc # "posted"
        BY <1>0, <2>2, StartedOutside, RequestsAssumption DEF RequestsAssumption
  <2>5. work' = [work EXCEPT ![s] = IF existing # 0 THEN found ELSE Started(work[s])]
        BY <1>5 DEF Find
  <2> HIDE DEF found
  <2>6. CASE existing # 0
    <3>1. Restarts(s, found)
          BY <1>5, <2>2, <2>3, <2>5, <2>6, NothingHeld DEF Find, Restarts, Outside
    <3> QED BY <2>3, <3>1 DEF Shape
  <2>7. CASE existing = 0
    <3>1. Restarts(s, Started(work[s]))
          BY <1>5, <2>2, <2>4, <2>5, <2>7, NothingHeld DEF Find, Restarts
    <3> QED BY <2>4, <3>1 DEF Shape
  <2> QED BY <2>6, <2>7
<1>6. ASSUME NEW s \in Session, FindWinner(s) PROVE Shape(s)
  <2> DEFINE winner == index[work[s].form].saved
             pc == IF winner # 0 THEN "posted" ELSE "failed"
             w == [work[s] EXCEPT !.pc = pc, !.number = winner]
  <2>1. winner \in Nat /\ pc \in Step /\ pc \in {"posted", "failed"}
        /\ (pc = "posted" => index[work[s].form].saved # 0)
        BY <1>0 DEF Typed, TypeOK, Row, Work, Step
  <2>2. work' = [work EXCEPT ![s] = w] /\ work[s].pc \notin Transaction
        BY <1>6 DEF FindWinner, Transaction, Typed, TypeOK
  <2> HIDE DEF winner, pc
  <2>3. w \in Work /\ w.pc = pc /\ w.form = work[s].form
        BY <1>0, <2>1 DEF Work
  <2> HIDE DEF w
  <2>4. Restarts(s, w)
        BY <1>6, <2>1, <2>2, <2>3, NothingHeld DEF FindWinner, Restarts, Outside
  <2> QED BY <2>3, <2>4 DEF Shape
<1>7. ASSUME NEW s \in Session, TimeOut(s) PROVE Shape(s)
      BY <1>7, FailShape DEF TimeOut, Shape
<1>8. ASSUME NEW s \in Session, LockOrder(s) PROVE Shape(s)
      BY <1>8, FailShape DEF LockOrder, Locks, Shape
<1>9. ASSUME NEW s \in Session, InsertDocument(s) PROVE Shape(s)
      BY <1>9, FailShape DEF InsertDocument, Inserts, Shape
<1>10. ASSUME NEW s \in Session, ResolveBatch(s) PROVE Shape(s)
      BY <1>10, FailShape DEF ResolveBatch, Resolves, Shape
<1>11. ASSUME NEW s \in Session, WriteAlert(s) PROVE Shape(s)
      BY <1>11 DEF WriteAlert, Writes, Shape
<1>12. ASSUME NEW s \in Session, Victim(s) PROVE Shape(s)
  <2> DEFINE failed == [work[s] EXCEPT !.pc = "failed"]
  <2>1. work[s].pc # "idle"
        BY <1>12, WaitsInTransaction DEF Victim, Transaction
  <2>2. failed \in Work /\ failed.pc = "failed"
        BY <1>0 DEF Work, Step
  <2>3. work[s].attempt < MaxAttempts =>
            /\ Started(work[s]) \in Work /\ Outside(Started(work[s]))
            /\ Started(work[s]).pc # "posted"
        BY <1>0, <2>1, StartedOutside
  <2>4. work' = [work EXCEPT ![s] = IF work[s].attempt < MaxAttempts THEN Started(work[s])
                                    ELSE failed]
        BY <1>12 DEF Victim
  <2> HIDE DEF failed
  <2>5. PICK w \in Work :
            Outside(w) /\ w.pc # "posted" /\ work' = [work EXCEPT ![s] = w]
        BY <2>2, <2>3, <2>4 DEF Outside
  <2>6. Restarts(s, w)
        BY <1>12, <2>5 DEF Victim, Undo, Restarts
  <2> QED BY <2>6 DEF Shape
<1> QED
    BY <1>1, <1>2, <1>4, <1>5, <1>6, <1>7, <1>8, <1>9, <1>10, <1>11, <1>12
    DEF Next, Progress, Shape

\* What the steps of a transaction leave of the request they are made for.
Kin(v, w) == v.form = w.form /\ v.input = w.input

LEMMA WorkAfter ==
    ASSUME Typed, NEW s \in Session
    PROVE  /\ Shape(s) => \A t \in Session \ {s} : work'[t] = work[t]
           /\ \A w \in Work : Restarts(s, w) => work'[s] = w
           /\ LoseConnection(s) =>
                  /\ Kin(work'[s], work[s])
                  /\ work'[s].pc = work[s].pc /\ work'[s].line = work[s].line
                  /\ work'[s].number = work[s].number
           /\ Locks(s) =>
                  /\ Kin(work'[s], work[s])
                  /\ work'[s].pc = "number" /\ work'[s].line = work[s].line
           /\ TakeNumber(s) =>
                  /\ Kin(work'[s], work[s])
                  /\ work'[s].pc = "insert" /\ work'[s].line = work[s].line
                  /\ work'[s].number = View(sequence[Kind[work[s].form]], s) + 1
           /\ Inserts(s) =>
                  /\ Kin(work'[s], work[s])
                  /\ work'[s].pc = StepAfterInsert(work[s].form)
                  /\ work'[s].line = work[s].line /\ work'[s].number = work[s].number
           /\ Resolves(s) =>
                  /\ Kin(work'[s], work[s]) /\ work'[s].number = work[s].number
                  /\ \/ work[s].line < Len(work[s].input.lines) /\ work'[s].pc = "batch"
                        /\ work'[s].line = work[s].line + 1
                     \/ ~(work[s].line < Len(work[s].input.lines))
                        /\ work'[s].pc = StepAfterBatches(work[s].form)
           /\ Writes(s) =>
                  /\ Kin(work'[s], work[s]) /\ work'[s].number = work[s].number
                  /\ work'[s].pc \in {"alert", "commit"}
           /\ Commit(s) => Kin(work'[s], work[s]) /\ work'[s].pc = "posted"
<1>0. work \in [Session -> Work]
      BY DEF Typed, TypeOK
<1>1. ASSUME Shape(s), NEW t \in Session \ {s} PROVE work'[t] = work[t]
      BY <1>0, <1>1
      DEF Shape, Restarts, LoseConnection, Locks, TakeNumber, Inserts, Resolves, Writes, Commit,
          Goto, NextLine
<1>2. ASSUME NEW w \in Work, Restarts(s, w) PROVE work'[s] = w
      BY <1>0, <1>2 DEF Restarts
<1>3. ASSUME LoseConnection(s)
      PROVE  /\ Kin(work'[s], work[s])
             /\ work'[s].pc = work[s].pc /\ work'[s].line = work[s].line
             /\ work'[s].number = work[s].number
      BY <1>0, <1>3 DEF LoseConnection, Kin, Work
<1>4. ASSUME NEW pc, Goto(s, pc)
      PROVE  /\ Kin(work'[s], work[s]) /\ work'[s].pc = pc
             /\ work'[s].line = work[s].line /\ work'[s].number = work[s].number
      BY <1>0, <1>4 DEF Goto, Kin, Work
<1>5. ASSUME TakeNumber(s)
      PROVE  /\ Kin(work'[s], work[s])
             /\ work'[s].pc = "insert" /\ work'[s].line = work[s].line
             /\ work'[s].number = View(sequence[Kind[work[s].form]], s) + 1
      BY <1>0, <1>5 DEF TakeNumber, Kin, Work
<1>6. ASSUME NEW after, NextLine(s, after)
      PROVE  /\ Kin(work'[s], work[s]) /\ work'[s].number = work[s].number
             /\ work[s].line < Len(work[s].input.lines) =>
                    work'[s].pc = work[s].pc /\ work'[s].line = work[s].line + 1
             /\ ~(work[s].line < Len(work[s].input.lines)) => work'[s].pc = after
  <2>1. work'[s] = Advanced(work[s], after)
        BY <1>0, <1>6 DEF NextLine
  <2>2. \A w \in Work :
            /\ Kin(Advanced(w, after), w) /\ Advanced(w, after).number = w.number
            /\ w.line < Len(w.input.lines) =>
                   Advanced(w, after).pc = w.pc /\ Advanced(w, after).line = w.line + 1
            /\ ~(w.line < Len(w.input.lines)) => Advanced(w, after).pc = after
        BY DEF Advanced, Kin, Work
  <2> QED BY <1>0, <2>1, <2>2
<1>7. ASSUME Resolves(s)
      PROVE  /\ Kin(work'[s], work[s]) /\ work'[s].number = work[s].number
             /\ \/ work[s].line < Len(work[s].input.lines) /\ work'[s].pc = "batch"
                   /\ work'[s].line = work[s].line + 1
                \/ ~(work[s].line < Len(work[s].input.lines))
                   /\ work'[s].pc = StepAfterBatches(work[s].form)
      BY <1>6, <1>7 DEF Resolves
<1>8. ASSUME Writes(s)
      PROVE  /\ Kin(work'[s], work[s]) /\ work'[s].number = work[s].number
             /\ work'[s].pc \in {"alert", "commit"}
      BY <1>6, <1>8 DEF Writes
<1> QED BY <1>1, <1>2, <1>3, <1>4, <1>5, <1>7, <1>8 DEF Locks, Inserts, Commit

\* Rows that s does not hold keep their holder and values, whatever s does.
LEMMA NextHeld == Typed /\ Held /\ [Next]_vars => Held'
<1> SUFFICES ASSUME Typed, Held, [Next]_vars PROVE Held'
    OBVIOUS
<1>1. CASE UNCHANGED vars
      BY <1>1 DEF vars, rows, Held, Receiving, Numbered, Inserted
<1>2. CASE Next
  <2>1. PICK s \in Session : Shape(s)
        BY <1>2, StepShapes
  <2>2. s # NoSession
        BY NoSessionIsNotASession
  <2>3. \A t \in Session \ {s} : work'[t] = work[t]
        BY <2>1, WorkAfter
  <2>4. work[s] \in Work
        BY DEF Typed, TypeOK
  <2>5. /\ received \in [Order -> Row(Nat)]
        /\ sequence \in [Series -> Row(Nat)]
        /\ index \in [Form -> Row(Nat)]
        /\ batch \in [Batch -> Row(Date \cup {NoDate})]
        BY DEF Typed, TypeOK
  <2> DEFINE Mine(t) ==
          /\ \A o \in Order : received'[o].holder = t =>
                 Receiving(work'[t]) /\ OrderOf[work'[t].form] = o
          /\ \A k \in Series : sequence'[k].holder = t =>
                 Kind[work'[t].form] = k /\ Numbered(work'[t])
          /\ \A f \in Form : index'[f].holder = t => work'[t].form = f /\ Inserted(work'[t])
          /\ \A b \in Batch : batch'[b].holder = t => work'[t].pc \in Transaction
  <2>6. ASSUME NEW w \in Work, Restarts(s, w) PROVE \A t \in Session : Mine(t)
    <3>1. \A k \in Series : sequence'[k].holder # s
                            /\ \A t \in Session : sequence'[k].holder = t => sequence[k].holder = t
          BY <2>2, <2>5, <2>6, NoSessionIsNotASession DEF Restarts, RolledBack, Stored
    <3>2. \A f \in Form : index'[f].holder # s
                          /\ \A t \in Session : index'[f].holder = t => index[f].holder = t
          BY <2>2, <2>5, <2>6, NoSessionIsNotASession DEF Restarts, RolledBack, Stored
    <3>3. \A b \in Batch : batch'[b].holder # s
                           /\ \A t \in Session : batch'[b].holder = t => batch[b].holder = t
          BY <2>2, <2>5, <2>6, NoSessionIsNotASession DEF Restarts, RolledBack, Stored
    <3>4. \A o \in Order : received'[o].holder # s
                          /\ \A t \in Session : received'[o].holder = t => received[o].holder = t
          BY <2>2, <2>5, <2>6, NoSessionIsNotASession DEF Restarts, RolledBack, Stored
    <3>5. ASSUME NEW t \in Session PROVE Mine(t)
      <4>1. CASE t = s
            BY <3>1, <3>2, <3>3, <3>4, <4>1
      <4>2. CASE t # s
            BY <2>3, <3>1, <3>2, <3>3, <3>4, <4>2 DEF Held
      <4> QED BY <4>1, <4>2
    <3> QED BY <3>5
  <2>7. CASE Commit(s)
    <3>1. \A k \in Series : sequence'[k].holder # s
                            /\ \A t \in Session : sequence'[k].holder = t => sequence[k].holder = t
          BY <2>2, <2>5, <2>7, NoSessionIsNotASession DEF Commit, Committed, Stored
    <3>2. \A f \in Form : index'[f].holder # s
                          /\ \A t \in Session : index'[f].holder = t => index[f].holder = t
          BY <2>2, <2>5, <2>7, NoSessionIsNotASession DEF Commit, Committed, Stored
    <3>3. \A b \in Batch : batch'[b].holder # s
                           /\ \A t \in Session : batch'[b].holder = t => batch[b].holder = t
          BY <2>2, <2>5, <2>7, NoSessionIsNotASession DEF Commit, Committed, Stored
    <3>4. \A o \in Order : received'[o].holder # s
                          /\ \A t \in Session : received'[o].holder = t => received[o].holder = t
          BY <2>2, <2>5, <2>7, NoSessionIsNotASession DEF Commit, Committed, Stored
    <3>5. ASSUME NEW t \in Session PROVE Mine(t)
      <4>1. CASE t = s
            BY <3>1, <3>2, <3>3, <3>4, <4>1
      <4>2. CASE t # s
            BY <2>3, <3>1, <3>2, <3>3, <3>4, <4>2 DEF Held
      <4> QED BY <4>1, <4>2
    <3>6. \A t \in Session : Mine(t)
          BY <3>5
    <3> QED BY <3>6 DEF Held
  <2>8. CASE LoseConnection(s)
    <3>1. work'[s].form = work[s].form /\ work'[s].pc = work[s].pc
          BY <2>8, WorkAfter DEF Kin
    <3> QED BY <2>3, <2>8, <3>1 DEF LoseConnection, rows, Held, Receiving, Numbered, Inserted
  <2>9. CASE Locks(s)
    <3>1. work'[s].form = work[s].form /\ work'[s].pc = "number" /\ work[s].pc = "order"
          BY <2>9, WorkAfter DEF Kin, Locks
    <3>2. \A o \in Order : \/ received'[o].holder = received[o].holder
                           \/ o = OrderOf[work[s].form] /\ received'[o].holder = s
          BY <2>9, LocksRows
    <3>3. /\ Receiving(work'[s]) /\ ~Receiving(work[s]) /\ ~Numbered(work[s]) /\ ~Inserted(work[s])
          /\ work'[s].pc \in Transaction
          BY <2>9, <3>1, LocksRows DEF Receiving, Numbered, Inserted, Transaction
    <3>4. UNCHANGED <<sequence, index, batch>>
          BY <2>9 DEF Locks
    <3> QED BY <2>2, <2>3, <3>1, <3>2, <3>3, <3>4 DEF Held
  <2>10. CASE TakeNumber(s)
    <3>1. work'[s].form = work[s].form /\ work'[s].pc = "insert" /\ work[s].pc = "number"
          BY <2>10, WorkAfter DEF Kin, TakeNumber
    <3>2. \A k \in Series : \/ sequence'[k].holder = sequence[k].holder
                            \/ k = Kind[work[s].form] /\ sequence'[k].holder = s
          BY <2>10, TakeNumberRows DEF SeriesOf
    <3>3. UNCHANGED <<received, index, batch>>
          BY <2>10 DEF TakeNumber
    <3>4. /\ Numbered(work'[s]) /\ ~Inserted(work[s]) /\ work'[s].pc \in Transaction
          /\ Receiving(work[s]) => Receiving(work'[s])
          BY <3>1 DEF Numbered, Inserted, Receiving, Transaction
    <3> QED BY <2>2, <2>3, <3>1, <3>2, <3>3, <3>4 DEF Held
  <2>11. CASE Inserts(s)
    <3>1. work'[s].form = work[s].form /\ work'[s].pc = StepAfterInsert(work[s].form)
          /\ work[s].pc = "insert"
          BY <2>11, WorkAfter DEF Kin, Inserts
    <3>2. \A f \in Form : \/ index'[f].holder = index[f].holder
                          \/ f = work[s].form /\ index'[f].holder = s
          BY <2>11, InsertsRows
    <3>3. /\ Numbered(work'[s]) /\ Inserted(work'[s]) /\ work'[s].pc \in Transaction
          /\ Receiving(work[s]) => Receiving(work'[s])
          BY <3>1 DEF StepAfterInsert, Numbered, Inserted, Receiving, Transaction
    <3> QED BY <2>2, <2>3, <2>11, <3>1, <3>2, <3>3 DEF Inserts, Held
  <2>12. CASE Resolves(s)
    <3>1. /\ work'[s].form = work[s].form /\ work[s].pc = "batch"
          /\ work'[s].pc \in {"batch", StepAfterBatches(work[s].form)}
          BY <2>12, WorkAfter DEF Kin, Resolves
    <3>2. \A b \in Batch : batch'[b].holder = batch[b].holder \/ batch'[b].holder = s
          BY <2>12, ResolvesRows
    <3>3. /\ Numbered(work[s]) => Numbered(work'[s])
          /\ Inserted(work[s]) => Inserted(work'[s])
          /\ Receiving(work[s]) => Receiving(work'[s])
          /\ work'[s].pc \in Transaction
          BY <3>1 DEF StepAfterBatches, Numbered, Inserted, Receiving, Transaction
    <3>4. UNCHANGED <<received, sequence, index>>
          BY <2>12 DEF Resolves
    <3> QED BY <2>2, <2>3, <3>1, <3>2, <3>3, <3>4 DEF Held
  <2>13. CASE Writes(s)
    <3>1. work'[s].form = work[s].form /\ work[s].pc = "alert"
          /\ work'[s].pc \in {"alert", "commit"}
          BY <2>13, WorkAfter DEF Kin, Writes
    <3> QED BY <2>3, <2>13, <3>1 DEF Writes, Held, Receiving, Numbered, Inserted, Transaction
  <2>14. (\E w \in Work : Restarts(s, w)) => Held'
         BY <2>6 DEF Held
  <2> QED BY <2>1, <2>7, <2>8, <2>9, <2>10, <2>11, <2>12, <2>13, <2>14 DEF Shape
<1> QED BY <1>1, <1>2

LEMMA InitHeld == Init => Held
BY NoSessionIsNotASession DEF Init, Held, Stored

-----------------------------------------------------------------------------
(***************************************************************************)
(* Idempotency keys.  The unique index is what makes a form post once: a   *)
(* transaction that inserted its document holds its key, which is not      *)
(* committed yet, and every committed document has committed its key.      *)
(***************************************************************************)

Posted(f) == \E n \in DOMAIN document : document[n].form = f

Keys ==
    /\ \A s \in Session : Numbered(work[s]) => work[s].number # 0
    /\ \A s \in Session : Inserted(work[s]) =>
           /\ index[work[s].form].holder = s
           /\ index[work[s].form].new # 0
           /\ index[work[s].form].saved = 0
    /\ \A s \in Session : work[s].pc = "posted" => index[work[s].form].saved # 0
    /\ \A f \in Form : index[f].saved # 0 <=> Posted(f)

LEMMA InitKeys == Init => Keys
BY NoWorkTyped DEF Init, Keys, Numbered, Inserted, Posted, Stored

LEMMA OutsideIsNeither ==
    ASSUME NEW w, Outside(w)
    PROVE  ~Numbered(w) /\ ~Inserted(w) /\ ~PastBatches(w)
BY DEF Outside, Numbered, Inserted, PastBatches

LEMMA CommitDocument ==
    ASSUME Typed, NEW s \in Session, Commit(s)
    PROVE  /\ document' = Append(document, [form |-> work[s].form, number |-> work[s].number,
                                            input |-> work[s].input])
           /\ Len(document) \in Nat /\ DOMAIN document = 1..Len(document)
           /\ DOMAIN document' = 1..(Len(document) + 1)
           /\ \A n \in DOMAIN document : document'[n] = document[n]
           /\ document'[Len(document) + 1].form = work[s].form
           /\ document'[Len(document) + 1].number = work[s].number
           /\ document'[Len(document) + 1].input = work[s].input
<1> DEFINE entry == [form |-> work[s].form, number |-> work[s].number, input |-> work[s].input]
<1>1. document' = Append(document, entry)
      BY DEF Commit
<1>2. entry \in [form : Form, number : Nat, input : Content]
      BY DEF Typed, TypeOK, Work
<1>3. document \in Seq([form : Form, number : Nat, input : Content])
      BY DEF Typed, TypeOK
<1>4. entry.form = work[s].form /\ entry.number = work[s].number /\ entry.input = work[s].input
      OBVIOUS
<1> HIDE DEF entry
<1>5. /\ Len(document) \in Nat /\ DOMAIN document = 1..Len(document)
      /\ DOMAIN document' = 1..(Len(document) + 1)
      /\ \A n \in DOMAIN document : document'[n] = document[n]
      /\ document'[Len(document) + 1] = entry
      BY <1>1, <1>2, <1>3
<1> QED BY <1>1, <1>4, <1>5 DEF entry

LEMMA NextKeys == Typed /\ Held /\ Keys /\ [Next]_vars => Keys'
<1> SUFFICES ASSUME Typed, Held, Keys, [Next]_vars PROVE Keys'
    OBVIOUS
<1>1. CASE UNCHANGED vars
      BY <1>1 DEF vars, rows, Keys, Numbered, Inserted, Posted
<1>2. CASE Next
  <2>1. PICK s \in Session : Shape(s)
        BY <1>2, StepShapes
  <2>2. \A t \in Session \ {s} : work'[t] = work[t]
        BY <2>1, WorkAfter
  <2>3. /\ index \in [Form -> Row(Nat)]
        /\ \A t \in Session : work[t].form \in Form
        BY DEF Typed, TypeOK, Work
  <2>4. ASSUME UNCHANGED <<index, document>>,
               Numbered(work'[s]) => work'[s].number # 0,
               Inserted(work'[s]) => Inserted(work[s]) /\ work'[s].form = work[s].form,
               work'[s].pc # "posted" \/ (work[s].pc = "posted" /\ work'[s].form = work[s].form)
        PROVE  Keys'
        BY <2>2, <2>4 DEF Keys, Posted
  <2>5. ASSUME NEW w \in Work, Restarts(s, w) PROVE Keys'
    <3>1. work'[s] = w /\ ~Numbered(w) /\ ~Inserted(w)
          BY <2>5, WorkAfter, OutsideIsNeither DEF Restarts
    <3>2. \A f \in Form :
              /\ index'[f].saved = index[f].saved
              /\ index[f].holder # s => index'[f] = index[f]
          BY <2>3, <2>5 DEF Restarts, RolledBack, Stored
    <3>3. w.form \in Form
          BY DEF Work
    <3>4. \A t \in Session \ {s} : Inserted(work[t]) => index'[work[t].form] = index[work[t].form]
          BY <2>3, <3>2 DEF Keys
    <3>5. w.pc = "posted" => index'[w.form].saved # 0
          BY <2>5, <3>2, <3>3 DEF Restarts
    <3>6. \A f \in Form : Posted(f)' <=> Posted(f)
          BY <2>5 DEF Restarts, Posted
    <3> QED BY <2>2, <2>3, <3>1, <3>2, <3>4, <3>5, <3>6 DEF Keys
  <2>6. CASE LoseConnection(s)
    <3>1. /\ work'[s].form = work[s].form /\ work'[s].pc = work[s].pc
          /\ work'[s].number = work[s].number
          BY <2>6, WorkAfter DEF Kin
    <3> QED BY <2>4, <2>6, <3>1 DEF LoseConnection, rows, Keys, Numbered, Inserted
  <2>7. CASE Locks(s)
    <3>1. work'[s].form = work[s].form /\ work'[s].pc = "number" /\ work[s].pc = "order"
          BY <2>7, WorkAfter DEF Kin, Locks
    <3> QED BY <2>4, <2>7, <3>1 DEF Locks, Numbered, Inserted
  <2>8. CASE TakeNumber(s)
    <3>1. /\ work'[s].form = work[s].form /\ work'[s].pc = "insert" /\ work[s].pc = "number"
          /\ work'[s].number = View(sequence[SeriesOf(work[s])], s) + 1
          BY <2>8, WorkAfter DEF Kin, TakeNumber, SeriesOf
    <3>2. sequence[SeriesOf(work[s])] \in Row(Nat)
          BY <2>8, TakeNumberRows DEF Typed, TypeOK
    <3>3. View(sequence[SeriesOf(work[s])], s) \in Nat
          BY <3>2 DEF View, Row
    <3>4. work'[s].number # 0
          BY <3>1, <3>3
    <3> QED BY <2>4, <2>8, <3>1, <3>4 DEF TakeNumber, Inserted
  <2>9. CASE Inserts(s)
    <3> DEFINE f == work[s].form
    <3>1. /\ work'[s].form = f /\ work'[s].pc = StepAfterInsert(f)
          /\ work[s].pc = "insert" /\ work'[s].number = work[s].number
          BY <2>9, WorkAfter DEF Kin, Inserts
    <3>2. work[s].number # 0
          BY <3>1 DEF Keys, Numbered
    <3>3. index[f].holder # s /\ index[f].holder \in {NoSession, s}
          BY <2>3, <2>9, <3>1 DEF Inserts, Free, Held, Inserted
    <3>4. index[f].saved = 0
          BY <2>9, <3>3 DEF Inserts, KeyTaken, View
    <3>5. \A t \in Session \ {s} : Inserted(work[t]) => work[t].form # f
          BY <3>3, NoSessionIsNotASession DEF Keys
    <3>6. /\ index'[f].saved = 0 /\ index'[f].new # 0 /\ index'[f].holder = s
          /\ \A g \in Form \ {f} : index'[g] = index[g]
          BY <2>9, <3>2, <3>4, InsertsRows
    <3>7. work'[s].pc # "posted"
          BY <3>1 DEF StepAfterInsert
    <3>8. UNCHANGED document
          BY <2>9 DEF Inserts
    <3> QED BY <2>2, <2>3, <3>1, <3>2, <3>4, <3>5, <3>6, <3>7, <3>8 DEF Keys, Posted
  <2>10. CASE Resolves(s)
    <3>1. /\ work'[s].form = work[s].form /\ work[s].pc = "batch"
          /\ work'[s].number = work[s].number
          /\ work'[s].pc \in {"batch", StepAfterBatches(work[s].form)}
          BY <2>10, WorkAfter DEF Kin, Resolves
    <3>2. /\ Numbered(work'[s]) => Numbered(work[s])
          /\ Inserted(work'[s]) => Inserted(work[s])
          /\ work'[s].pc # "posted"
          BY <3>1 DEF StepAfterBatches, Numbered, Inserted
    <3>3. UNCHANGED <<index, document>>
          BY <2>10 DEF Resolves
    <3> QED BY <2>4, <3>1, <3>2, <3>3 DEF Keys
  <2>11. CASE Writes(s)
    <3>1. work'[s].form = work[s].form /\ work[s].pc = "alert" /\ work'[s].number = work[s].number
          /\ work'[s].pc \in {"alert", "commit"}
          BY <2>11, WorkAfter DEF Kin, Writes
    <3> QED BY <2>4, <2>11, <3>1 DEF Writes, Keys, Numbered, Inserted
  <2>12. CASE Commit(s)
    <3> DEFINE f == work[s].form
    <3>1. /\ work'[s].form = f /\ work[s].pc = "commit" /\ work'[s].pc = "posted"
          BY <2>12, WorkAfter DEF Kin, Commit
    <3>2. index[f].holder = s /\ index[f].new # 0
          BY <3>1 DEF Keys, Inserted
    <3>3. \A g \in Form \ {f} : index[g].holder # s
          BY DEF Held
    <3>4. /\ \A g \in Form \ {f} : index'[g] = index[g]
          /\ index'[f].saved # 0
          BY <2>3, <2>12, <3>2, <3>3 DEF Commit, Committed, Stored
    <3>5. \A t \in Session \ {s} : Inserted(work[t]) => work[t].form # f
          BY <3>2 DEF Keys
    <3>6. \A g \in Form : Posted(g)' <=> Posted(g) \/ g = f
      <4>1. /\ Len(document) \in Nat /\ DOMAIN document = 1..Len(document)
            /\ DOMAIN document' = 1..(Len(document) + 1)
            /\ \A n \in DOMAIN document : document'[n] = document[n]
            /\ document'[Len(document) + 1].form = f
            BY <2>12, CommitDocument
      <4>2. ASSUME NEW g \in Form, Posted(g)' PROVE Posted(g) \/ g = f
        <5>1. PICK n \in DOMAIN document' : document'[n].form = g
              BY <4>2 DEF Posted
        <5>2. n \in DOMAIN document \/ n = Len(document) + 1
              BY <4>1, <5>1
        <5> QED BY <4>1, <5>1, <5>2 DEF Posted
      <4>3. ASSUME NEW g \in Form, Posted(g) \/ g = f PROVE Posted(g)'
        <5>1. CASE Posted(g)
          <6>1. PICK n \in DOMAIN document : document[n].form = g
                BY <5>1 DEF Posted
          <6>2. n \in DOMAIN document' /\ document'[n].form = g
                BY <4>1, <6>1
          <6> QED BY <6>2 DEF Posted
        <5>2. CASE g = f
          <6>1. Len(document) + 1 \in DOMAIN document'
                BY <4>1
          <6> QED BY <4>1, <5>2, <6>1 DEF Posted
        <5> QED BY <4>3, <5>1, <5>2
      <4> QED BY <4>2, <4>3
    <3>7. ~Numbered(work'[s]) /\ ~Inserted(work'[s])
          BY <3>1 DEF Numbered, Inserted
    <3> QED BY <2>2, <2>3, <3>1, <3>4, <3>5, <3>6, <3>7 DEF Keys
  <2> QED BY <2>1, <2>5, <2>6, <2>7, <2>8, <2>9, <2>10, <2>11, <2>12 DEF Shape
<1> QED BY <1>1, <1>2

\* Documents are never removed.
LEMMA PostedStays ==
    ASSUME Typed, Held, Keys, [Next]_vars, NEW f \in Form, Posted(f)
    PROVE  Posted(f)'
<1>1. PICK n \in DOMAIN document : document[n].form = f
      BY DEF Posted
<1>2. CASE UNCHANGED document
      BY <1>1, <1>2 DEF Posted
<1>3. ASSUME NEW s \in Session, Commit(s) PROVE Posted(f)'
  <2>1. /\ Len(document) \in Nat /\ DOMAIN document = 1..Len(document)
        /\ DOMAIN document' = 1..(Len(document) + 1)
        /\ \A m \in DOMAIN document : document'[m] = document[m]
        BY <1>3, CommitDocument
  <2>2. n \in DOMAIN document' /\ document'[n].form = f
        BY <1>1, <2>1
  <2> QED BY <2>2 DEF Posted
<1>4. CASE UNCHANGED vars
      BY <1>2, <1>4 DEF vars
<1>5. CASE Next
  <2>1. PICK s \in Session : Shape(s)
        BY <1>5, StepShapes
  <2>2. Commit(s) \/ UNCHANGED document
        BY <2>1
        DEF Shape, Restarts, LoseConnection, Locks, TakeNumber, Inserts, Resolves, Writes
  <2> QED BY <1>2, <1>3, <2>2
<1> QED BY <1>4, <1>5

-----------------------------------------------------------------------------
(***************************************************************************)
(* The screens: a form waits for one request at most.                      *)
(***************************************************************************)

Screens ==
    /\ \A s \in Session : work[s].heard => screen[work[s].form] = "PENDING"
    /\ \A s, t \in Session : work[s].heard /\ work[t].heard /\ work[s].form = work[t].form => s = t
    /\ \A f \in Form : screen[f] = "POSTED" => Posted(f)

\* The steps of the server that answer nobody.
Quiet(s) ==
    \/ Admit(s) \/ Find(s) \/ LockOrder(s) \/ TakeNumber(s) \/ InsertDocument(s)
    \/ ResolveBatch(s) \/ WriteAlert(s) \/ Commit(s) \/ FindWinner(s) \/ Victim(s) \/ TimeOut(s)

LEMMA QuietKeeps ==
    ASSUME Typed, NEW s \in Session, Quiet(s)
    PROVE  /\ UNCHANGED screen
           /\ \A t \in Session : work'[t].form = work[t].form /\ work'[t].heard = work[t].heard
<1> DEFINE Kept == \A t \in Session :
                       work'[t].form = work[t].form /\ work'[t].heard = work[t].heard
<1>0. work \in [Session -> Work] /\ work[s] \in Work
      BY DEF Typed, TypeOK
<1>1. ASSUME NEW w, w.form = work[s].form, w.heard = work[s].heard,
             work' = [work EXCEPT ![s] = w]
      PROVE  Kept
      BY <1>0, <1>1
<1>2. ASSUME NEW pc, Goto(s, pc) PROVE Kept
      BY <1>0, <1>2 DEF Goto, Work
<1>3. ASSUME NEW pc, Fail(s, pc) PROVE UNCHANGED screen /\ Kept
      BY <1>2, <1>3 DEF Fail
<1>4. ASSUME NEW after, NextLine(s, after) PROVE Kept
  <2>1. \A w \in Work : Advanced(w, after).form = w.form /\ Advanced(w, after).heard = w.heard
        BY DEF Advanced, Work
  <2> QED BY <1>0, <1>1, <1>4, <2>1 DEF NextLine
<1>5. \A w \in Work : Started(w).form = w.form /\ Started(w).heard = w.heard
      BY DEF Started, Work
<1>6. CASE Admit(s) \/ Commit(s)
      BY <1>2, <1>6 DEF Admit, Commit
<1>7. CASE Find(s)
  <2> DEFINE w == IF index[work[s].form].saved # 0
                  THEN [work[s] EXCEPT !.pc = "posted", !.number = index[work[s].form].saved]
                  ELSE Started(work[s])
  <2>1. w.form = work[s].form /\ w.heard = work[s].heard
        BY <1>0, <1>5 DEF Work
  <2>2. work' = [work EXCEPT ![s] = w] /\ UNCHANGED screen
        BY <1>7 DEF Find
  <2> HIDE DEF w
  <2> QED BY <1>1, <2>1, <2>2
<1>8. CASE FindWinner(s)
      BY <1>0, <1>8 DEF FindWinner, Work
<1>9. CASE TimeOut(s) \/ LockOrder(s) \/ InsertDocument(s)
      BY <1>2, <1>3, <1>9 DEF TimeOut, LockOrder, InsertDocument
<1>10. CASE ResolveBatch(s) \/ WriteAlert(s)
       BY <1>3, <1>4, <1>10 DEF ResolveBatch, WriteAlert
<1>11. CASE TakeNumber(s)
       BY <1>0, <1>11 DEF TakeNumber, Work
<1>12. CASE Victim(s)
  <2> DEFINE w == IF work[s].attempt < MaxAttempts THEN Started(work[s])
                  ELSE [work[s] EXCEPT !.pc = "failed"]
  <2>1. w.form = work[s].form /\ w.heard = work[s].heard
        BY <1>0, <1>5 DEF Work
  <2>2. work' = [work EXCEPT ![s] = w] /\ UNCHANGED screen
        BY <1>12 DEF Victim
  <2> HIDE DEF w
  <2> QED BY <1>1, <2>1, <2>2
<1> QED BY <1>6, <1>7, <1>8, <1>9, <1>10, <1>11, <1>12 DEF Quiet

LEMMA NextIsQuiet ==
    ASSUME Next
    PROVE  \/ \E s \in Session : Quiet(s) \/ LoseConnection(s) \/ Refuse(s) \/ Answer(s)
           \/ \E f \in Form, s \in Session : \E input \in Input[f] : Send(f, s, input)
BY DEF Next, Progress, Quiet

LEMMA InitScreens == Init => Screens
BY NoWorkTyped DEF Init, Screens

\* An answer: only success shows a form as posted.
LEMMA DeliverShows ==
    ASSUME Typed, Keys, Screens, NEW s \in Session, Refuse(s) \/ Answer(s)
    PROVE  /\ work' = [work EXCEPT ![s] = NoWork]
           /\ UNCHANGED <<rows, document>>
           /\ \/ UNCHANGED screen /\ ~work[s].heard
              \/ /\ work[s].heard
                 /\ \E shown \in Screen :
                       /\ screen' = [screen EXCEPT ![work[s].form] = shown]
                       /\ shown = "POSTED" => Posted(work[s].form)
<1>1. ASSUME NEW code PROVE Shown(Failure(code)) \in Screen \ {"POSTED"}
      BY DEF Shown, Failure, Unwrapped, Screen
<1>2. Shown(Success) \in Screen
      BY DEF Shown, Screen
<1>3. work[s].pc = "posted" => Posted(work[s].form)
      BY DEF Keys, Typed, TypeOK, Work
<1>4. PICK envelope :
          /\ Deliver(s, envelope)
          /\ \/ work[s].pc = "posted" /\ envelope = Success
             \/ \E code : envelope = Failure(code)
      BY DEF Refuse, Answer
<1>5. Shown(envelope) \in Screen /\ (Shown(envelope) = "POSTED" => Posted(work[s].form))
      BY <1>1, <1>2, <1>3, <1>4
<1> QED BY <1>4, <1>5 DEF Deliver

LEMMA NextScreens == Typed /\ Held /\ Keys /\ Screens /\ [Next]_vars => Screens'
<1> SUFFICES ASSUME Typed, Held, Keys, Screens, [Next]_vars PROVE Screens'
    OBVIOUS
<1>0. /\ \A f \in Form : Posted(f) => Posted(f)'
      /\ work \in [Session -> Work] /\ screen \in [Form -> Screen]
      /\ \A s \in Session : work[s].form \in Form
      BY PostedStays DEF Typed, TypeOK, Work
<1>1. CASE UNCHANGED vars
      BY <1>1 DEF vars, Screens, Posted
<1>2. ASSUME NEW s \in Session, Quiet(s) PROVE Screens'
      BY <1>0, <1>2, QuietKeeps DEF Screens
<1>3. ASSUME NEW s \in Session, LoseConnection(s) PROVE Screens'
  <2>1. /\ work'[s].form = work[s].form /\ ~work'[s].heard
        /\ \A t \in Session \ {s} : work'[t] = work[t]
        BY <1>0, <1>3 DEF LoseConnection, Work
  <2>2. /\ screen'[work[s].form] = "EDITING" /\ work[s].heard
        /\ \A f \in Form \ {work[s].form} : screen'[f] = screen[f]
        BY <1>0, <1>3 DEF LoseConnection
  <2> QED BY <1>0, <2>1, <2>2 DEF Screens
<1>4. ASSUME NEW s \in Session, Refuse(s) \/ Answer(s) PROVE Screens'
  <2>1. work' = [work EXCEPT ![s] = NoWork] /\ ~NoWork.heard
        BY <1>4, DeliverShows, NoWorkTyped
  <2>2. ~work'[s].heard /\ \A t \in Session \ {s} : work'[t] = work[t]
        BY <1>0, <2>1
  <2>3. CASE UNCHANGED screen
        BY <1>0, <2>2, <2>3 DEF Screens
  <2>4. ASSUME work[s].heard, NEW shown \in Screen,
               screen' = [screen EXCEPT ![work[s].form] = shown],
               shown = "POSTED" => Posted(work[s].form)
        PROVE  Screens'
        BY <1>0, <2>2, <2>4 DEF Screens
  <2> QED BY <1>4, <2>3, <2>4, DeliverShows
<1>5. ASSUME NEW f \in Form, NEW s \in Session, NEW input \in Input[f], Send(f, s, input)
      PROVE  Screens'
  <2>1. work'[s].form = f /\ \A t \in Session \ {s} : work'[t] = work[t]
        BY <1>0, <1>5, NoWorkTyped DEF Send, Work
  <2>2. /\ screen[f] = "EDITING" /\ screen'[f] = "PENDING"
        /\ \A g \in Form \ {f} : screen'[g] = screen[g]
        BY <1>0, <1>5 DEF Send
  <2>3. \A t \in Session \ {s} : work[t].heard => work[t].form # f
        BY <2>2 DEF Screens
  <2> QED BY <1>0, <2>1, <2>2, <2>3 DEF Screens
<1> QED BY <1>1, <1>2, <1>3, <1>4, <1>5, NextIsQuiet

LEMMA AlwaysOnScreen == Spec => [](Typed /\ Held /\ Keys /\ Screens)
BY InitTyped, InitHeld, InitKeys, InitScreens, NextTyped, NextHeld, NextKeys, NextScreens, PTL
   DEF Spec

-----------------------------------------------------------------------------
(***************************************************************************)
(* The refinement: committing posts, an answer of success confirms, and    *)
(* nothing else shows at the abstract level.                               *)
(***************************************************************************)

PostedForms == [n \in DOMAIN document |-> document[n].form]
ConfirmedForms == {f \in Form : screen[f] = "POSTED"}

LEMMA DoneIsPosted == \A f : f \in Once!Done <=> Posted(f)
BY DEF Once!Done, Posted

LEMMA InitOnce == Init => Once!Init
BY DEF Init, Once!Init

LEMMA ElementTyped ==
    ASSUME NEW S, NEW q \in Seq(S)
    PROVE  DOMAIN q = 1..Len(q) /\ \A n \in DOMAIN q : q[n] \in S
OBVIOUS

LEMMA CommitPosts ==
    ASSUME Typed, Held, Keys, NEW s \in Session, Commit(s), NEW f \in Form, f = work[s].form
    PROVE  Once!Post(f)
<1>1. work[s].pc = "commit"
      BY DEF Commit
<1>2. ~Posted(f)
      BY <1>1 DEF Keys, Inserted
<1>3. /\ Len(document) \in Nat /\ DOMAIN document = 1..Len(document)
      /\ DOMAIN document' = 1..(Len(document) + 1)
      /\ \A m \in DOMAIN document : document'[m] = document[m]
      /\ document'[Len(document) + 1].form = f
      BY CommitDocument
<1>4. PostedForms \in Seq(Form) /\ Len(PostedForms) = Len(document)
  <2>1. \A n \in 1..Len(document) : document[n].form \in Form
    <3>1. document \in Seq([form : Form, number : Nat, input : Content])
          BY DEF Typed, TypeOK
    <3>2. \A n \in 1..Len(document) : document[n] \in [form : Form, number : Nat, input : Content]
          BY <3>1, ElementTyped
    <3> QED BY <3>2
  <2>2. PostedForms = [n \in 1..Len(document) |-> document[n].form]
        BY <1>3 DEF PostedForms
  <2> QED BY <1>3, <2>1, <2>2
<1>5. PostedForms' = [n \in 1..(Len(document) + 1) |-> document'[n].form]
      BY <1>3 DEF PostedForms
<1>6. PostedForms' = Append(PostedForms, f)
      BY <1>1, <1>3, <1>4, <1>5 DEF PostedForms
<1>7. ConfirmedForms' = ConfirmedForms
      BY DEF Commit, ConfirmedForms
<1> QED BY <1>2, <1>6, <1>7, DoneIsPosted DEF Once!Post, PostedForms, ConfirmedForms

LEMMA NextOnce ==
    Typed /\ Held /\ Keys /\ Screens /\ [Next]_vars
        => [Once!Next]_<<PostedForms, ConfirmedForms>>
<1> SUFFICES ASSUME Typed, Held, Keys, Screens, [Next]_vars
             PROVE  [Once!Next]_<<PostedForms, ConfirmedForms>>
    OBVIOUS
<1>0. screen \in [Form -> Screen] /\ \A s \in Session : work[s].form \in Form
      BY DEF Typed, TypeOK, Work
<1>1. UNCHANGED <<screen, document>> => UNCHANGED <<PostedForms, ConfirmedForms>>
      BY DEF PostedForms, ConfirmedForms
<1>2. CASE UNCHANGED vars
      BY <1>1, <1>2 DEF vars
<1>3. ASSUME NEW s \in Session, Quiet(s)
      PROVE  [Once!Next]_<<PostedForms, ConfirmedForms>>
  <2>1. CASE Commit(s)
    <3>1. PICK f \in Form : f = work[s].form
          BY <1>0
    <3>2. Once!Post(f)
          BY <2>1, <3>1, CommitPosts
    <3> QED BY <3>2 DEF Once!Next
  <2>2. CASE ~Commit(s)
    <3>1. UNCHANGED document
          BY <1>3, <2>2
          DEF Quiet, Admit, Find, LockOrder, TakeNumber, InsertDocument, ResolveBatch, WriteAlert,
              FindWinner, Victim, TimeOut, Fail
    <3> QED BY <1>1, <1>3, <3>1, QuietKeeps
  <2> QED BY <2>1, <2>2
<1>4. ASSUME NEW f \in Form, screen[f] = "PENDING", screen' = [screen EXCEPT ![f] = "EDITING"],
             UNCHANGED document
      PROVE  UNCHANGED <<PostedForms, ConfirmedForms>>
      BY <1>0, <1>4 DEF PostedForms, ConfirmedForms
<1>5. ASSUME NEW s \in Session, LoseConnection(s)
      PROVE  [Once!Next]_<<PostedForms, ConfirmedForms>>
      BY <1>0, <1>4, <1>5 DEF LoseConnection, Screens
<1>6. ASSUME NEW f \in Form, NEW s \in Session, NEW input \in Input[f], Send(f, s, input)
      PROVE  [Once!Next]_<<PostedForms, ConfirmedForms>>
      BY <1>0, <1>6 DEF Send, PostedForms, ConfirmedForms
<1>7. ASSUME NEW s \in Session, Refuse(s) \/ Answer(s)
      PROVE  [Once!Next]_<<PostedForms, ConfirmedForms>>
  <2>1. PICK f \in Form : f = work[s].form
        BY <1>0
  <2>2. CASE UNCHANGED screen
        BY <1>1, <1>7, <2>2, DeliverShows
  <2>3. ASSUME work[s].heard, NEW shown \in Screen, screen' = [screen EXCEPT ![f] = shown],
               shown = "POSTED" => Posted(f)
        PROVE  [Once!Next]_<<PostedForms, ConfirmedForms>>
    <3>1. screen[f] = "PENDING" /\ f \in Form
          BY <2>1, <2>3 DEF Screens
    <3>2. PostedForms' = PostedForms
          BY <1>7, DeliverShows DEF PostedForms
    <3>3. CASE shown = "POSTED"
      <4>1. ConfirmedForms' = ConfirmedForms \cup {f}
            BY <1>0, <2>3, <3>1, <3>3 DEF ConfirmedForms
      <4>2. Once!Confirm(f)
            BY <2>3, <3>2, <3>3, <4>1, DoneIsPosted DEF Once!Confirm, PostedForms, ConfirmedForms
      <4> QED BY <3>1, <4>2 DEF Once!Next
    <3>4. CASE shown # "POSTED"
          BY <1>0, <2>3, <3>1, <3>2, <3>4 DEF ConfirmedForms
    <3> QED BY <3>3, <3>4
  <2> QED BY <1>7, <2>1, <2>2, <2>3, DeliverShows
<1> QED BY <1>2, <1>3, <1>5, <1>6, <1>7, NextIsQuiet

\* However often a form is sent, however its answers are lost and its
\* transactions undone, it posts one document, and only what is posted is
\* confirmed: every behaviour is one of ExactlyOnce.
THEOREM ExactlyOnceHolds == Spec => ImplementsExactlyOnce
<1>1. PostedForms = [n \in DOMAIN document |-> document[n].form]
      /\ ConfirmedForms = {f \in Form : screen[f] = "POSTED"}
      BY DEF PostedForms, ConfirmedForms
<1> QED BY InitOnce, NextOnce, AlwaysOnScreen, PTL
        DEF Spec, ImplementsExactlyOnce, Once!Spec, PostedForms, ConfirmedForms

-----------------------------------------------------------------------------
(***************************************************************************)
(* Numbers.  The row of a series is locked until the end, so that the      *)
(* number of a transaction is the next one until it commits.               *)
(***************************************************************************)

\* The documents of a series.
OfSeries(d, k) == {m \in DOMAIN d : Kind[d[m].form] = k}
Counted(d, k) == Cardinality(OfSeries(d, k))

Numbers ==
    /\ \A s \in Session : Numbered(work[s]) =>
           /\ sequence[SeriesOf(work[s])].holder = s
           /\ sequence[SeriesOf(work[s])].new = work[s].number
           /\ work[s].number = sequence[SeriesOf(work[s])].saved + 1
    /\ \A k \in Series : sequence[k].saved = Counted(document, k)
    /\ NumbersFollowCommits

LEMMA InitNumbers == Init => Numbers
<1> SUFFICES ASSUME Init PROVE Numbers
    OBVIOUS
<1>1. \A s \in Session : ~Numbered(work[s])
      BY NoWorkTyped DEF Init, Numbered
<1>2. document = <<>> /\ \A k : OfSeries(document, k) = {}
      BY DEF Init, OfSeries
<1>3. \A k \in Series : sequence[k].saved = 0
      BY DEF Init, Stored
<1>4. \A k : Counted(document, k) = 0
      BY <1>2, FS_EmptySet DEF Counted
<1>5. NumbersFollowCommits
  <2>1. DOMAIN document = {}
        BY <1>2
  <2> QED BY <2>1 DEF NumbersFollowCommits
<1> QED BY <1>1, <1>2, <1>3, <1>4, <1>5 DEF Numbers

\* A commit appends one document to its series.
LEMMA CommitCounts ==
    ASSUME Typed, NEW s \in Session, Commit(s), NEW k
    PROVE  /\ Counted(document, k) \in Nat
           /\ k = SeriesOf(work[s]) => Counted(document', k) = Counted(document, k) + 1
           /\ k # SeriesOf(work[s]) => Counted(document', k) = Counted(document, k)
<1> DEFINE last == Len(document) + 1
           before == OfSeries(document, k)
           after == OfSeries(document', k)
<1>1. /\ Len(document) \in Nat /\ DOMAIN document = 1..Len(document)
      /\ DOMAIN document' = 1..last
      /\ \A n \in DOMAIN document : document'[n] = document[n]
      /\ document'[last].form = work[s].form
      BY CommitDocument
<1>2. last \notin DOMAIN document /\ DOMAIN document' = DOMAIN document \cup {last}
      BY <1>1
<1>3. IsFiniteSet(before) /\ Cardinality(before) \in Nat
  <2>1. IsFiniteSet(1..Len(document))
        BY <1>1, FS_Interval
  <2>2. before \subseteq 1..Len(document)
        BY <1>1 DEF OfSeries
  <2> QED BY <2>1, <2>2, FS_Subset, FS_CardinalityType
<1>4. k = SeriesOf(work[s]) => after = before \cup {last}
      BY <1>1, <1>2 DEF OfSeries, SeriesOf
<1>5. k # SeriesOf(work[s]) => after = before
      BY <1>1, <1>2 DEF OfSeries, SeriesOf
<1>6. last \notin before
      BY <1>2 DEF OfSeries
<1> HIDE DEF last, before, after
<1>7. Cardinality(before \cup {last}) = Cardinality(before) + 1
      BY <1>3, <1>6, FS_AddElement
<1>8. /\ Cardinality(before) \in Nat
      /\ k = SeriesOf(work[s]) => Cardinality(after) = Cardinality(before) + 1
      /\ k # SeriesOf(work[s]) => Cardinality(after) = Cardinality(before)
      BY <1>3, <1>4, <1>5, <1>7
<1> QED BY <1>8 DEF Counted, before, after

LEMMA NextNumbers == Typed /\ Held /\ Numbers /\ [Next]_vars => Numbers'
<1> SUFFICES ASSUME Typed, Held, Numbers, [Next]_vars PROVE Numbers'
    OBVIOUS
<1>0. /\ sequence \in [Series -> Row(Nat)]
      /\ \A t \in Session : SeriesOf(work[t]) \in Series
      BY RequestsAssumption DEF RequestsAssumption, Typed, TypeOK, Work, SeriesOf
<1>1. UNCHANGED document => NumbersFollowCommits'
      BY DEF Numbers, NumbersFollowCommits
<1>2. CASE UNCHANGED vars
      BY <1>1, <1>2 DEF vars, rows, Numbers, Numbered, SeriesOf
<1>3. CASE Next
  <2>1. PICK s \in Session : Shape(s)
        BY <1>3, StepShapes
  <2>2. \A t \in Session \ {s} : work'[t] = work[t]
        BY <2>1, WorkAfter
  <2>3. ASSUME UNCHANGED <<sequence, document>>,
               Numbered(work'[s]) => /\ Numbered(work[s])
                                     /\ work'[s].form = work[s].form
                                     /\ work'[s].number = work[s].number
        PROVE  Numbers'
        BY <1>1, <2>2, <2>3 DEF Numbers, SeriesOf
  <2>4. ASSUME NEW w \in Work, Restarts(s, w) PROVE Numbers'
    <3>1. work'[s] = w /\ ~Numbered(w)
          BY <2>4, WorkAfter, OutsideIsNeither DEF Restarts
    <3>2. \A k \in Series :
              /\ sequence'[k].saved = sequence[k].saved
              /\ sequence[k].holder # s => sequence'[k] = sequence[k]
          BY <1>0, <2>4 DEF Restarts, RolledBack, Stored
    <3>3. \A t \in Session \ {s} :
              Numbered(work[t]) => sequence'[SeriesOf(work[t])] = sequence[SeriesOf(work[t])]
          BY <1>0, <3>2 DEF Numbers
    <3>4. UNCHANGED document
          BY <2>4 DEF Restarts
    <3> QED BY <1>0, <1>1, <2>2, <3>1, <3>2, <3>3, <3>4 DEF Numbers
  <2>5. CASE LoseConnection(s)
    <3>1. /\ work'[s].form = work[s].form /\ work'[s].pc = work[s].pc
          /\ work'[s].number = work[s].number
          BY <2>5, WorkAfter DEF Kin
    <3> QED BY <2>3, <2>5, <3>1 DEF LoseConnection, rows, Numbered
  <2>6. CASE Locks(s)
    <3>1. work'[s].pc = "number"
          BY <2>6, WorkAfter
    <3> QED BY <2>3, <2>6, <3>1 DEF Locks, Numbered
  <2>7. CASE TakeNumber(s)
    <3> DEFINE k == SeriesOf(work[s])
    <3>1. /\ work'[s].form = work[s].form /\ work[s].pc = "number"
          /\ work'[s].number = View(sequence[k], s) + 1
          BY <2>7, WorkAfter DEF Kin, TakeNumber, SeriesOf
    <3>2. k \in Series /\ sequence[k].holder # s /\ sequence[k].holder \in {NoSession, s}
          BY <1>0, <2>7, <3>1 DEF TakeNumber, Free, SeriesOf, Held, Numbered
    <3>3. View(sequence[k], s) = sequence[k].saved
          BY <3>2 DEF View
    <3>4. /\ sequence'[k].saved = sequence[k].saved /\ sequence'[k].holder = s
          /\ sequence'[k].new = View(sequence[k], s) + 1
          /\ \A j \in Series \ {k} : sequence'[j] = sequence[j]
          BY <2>7, TakeNumberRows
    <3>5. \A t \in Session \ {s} : Numbered(work[t]) => SeriesOf(work[t]) # k
          BY <3>2, NoSessionIsNotASession DEF Numbers
    <3>6. SeriesOf(work'[s]) = k
          BY <3>1 DEF SeriesOf
    <3>7. UNCHANGED document
          BY <2>7 DEF TakeNumber
    <3> HIDE DEF k
    <3>8. ASSUME NEW t \in Session, Numbered(work'[t])
          PROVE  /\ sequence'[SeriesOf(work'[t])].holder = t
                 /\ sequence'[SeriesOf(work'[t])].new = work'[t].number
                 /\ work'[t].number = sequence'[SeriesOf(work'[t])].saved + 1
      <4>1. CASE t = s
            BY <3>1, <3>3, <3>4, <3>6, <4>1
      <4>2. CASE t # s
        <5>1. work'[t] = work[t] /\ SeriesOf(work[t]) \in Series \ {k}
              BY <1>0, <2>2, <3>5, <3>8, <4>2
        <5> QED BY <3>4, <3>8, <5>1 DEF Numbers
      <4> QED BY <4>1, <4>2
    <3>9. \A j \in Series : sequence'[j].saved = Counted(document', j)
          BY <3>4, <3>7 DEF Numbers
    <3> QED BY <1>1, <3>7, <3>8, <3>9 DEF Numbers
  <2>8. CASE Inserts(s)
    <3>1. work'[s].form = work[s].form /\ work'[s].number = work[s].number /\ work[s].pc = "insert"
          BY <2>8, WorkAfter DEF Kin, Inserts
    <3> QED BY <2>3, <2>8, <3>1 DEF Inserts, Numbered
  <2>9. CASE Resolves(s)
    <3>1. /\ work'[s].form = work[s].form /\ work[s].pc = "batch"
          /\ work'[s].number = work[s].number
          /\ work'[s].pc \in {"batch", StepAfterBatches(work[s].form)}
          BY <2>9, WorkAfter DEF Kin, Resolves
    <3>2. Numbered(work'[s]) => Numbered(work[s])
          BY <3>1 DEF StepAfterBatches, Numbered
    <3>3. UNCHANGED <<sequence, document>>
          BY <2>9 DEF Resolves
    <3> QED BY <2>3, <3>1, <3>2, <3>3
  <2>10. CASE Writes(s)
    <3>1. work'[s].form = work[s].form /\ work[s].pc = "alert" /\ work'[s].number = work[s].number
          BY <2>10, WorkAfter DEF Kin, Writes
    <3> QED BY <2>3, <2>10, <3>1 DEF Writes, Numbered
  <2>11. CASE Commit(s)
    <3> DEFINE k == SeriesOf(work[s])
    <3>1. work[s].pc = "commit" /\ work'[s].pc = "posted" /\ k \in Series
          BY <1>0, <2>11, WorkAfter DEF Commit
    <3>2. /\ sequence[k].holder = s /\ sequence[k].new = work[s].number
          /\ work[s].number = sequence[k].saved + 1
          BY <3>1 DEF Numbers, Numbered
    <3>3. \A j \in Series \ {k} : sequence[j].holder # s
          BY DEF Held, SeriesOf
    <3>4. /\ sequence'[k].saved = work[s].number
          /\ \A j \in Series \ {k} : sequence'[j] = sequence[j]
          BY <1>0, <2>11, <3>1, <3>2, <3>3 DEF Commit, Committed, Stored
    <3>5. \A t \in Session \ {s} : Numbered(work[t]) => SeriesOf(work[t]) # k
          BY <3>2 DEF Numbers
    <3>6. ~Numbered(work'[s])
          BY <3>1 DEF Numbered
    <3>7. \A j \in Series : sequence'[j].saved = Counted(document', j)
      <4>1. Counted(document', k) = Counted(document, k) + 1
            BY <2>11, CommitCounts
      <4>2. ASSUME NEW j \in Series \ {k} PROVE Counted(document', j) = Counted(document, j)
            BY <2>11, <4>2, CommitCounts
      <4> QED BY <3>1, <3>2, <3>4, <4>1, <4>2 DEF Numbers
    <3>8. NumbersFollowCommits'
      <4> DEFINE L == Len(document)
                 Upto(n) == {m \in 1..n : Kind[document'[m].form] = Kind[document'[n].form]}
      <4>1. /\ L \in Nat /\ DOMAIN document = 1..L /\ DOMAIN document' = 1..(L + 1)
            /\ \A n \in DOMAIN document : document'[n] = document[n]
            /\ document'[L + 1].form = work[s].form
            /\ document'[L + 1].number = work[s].number
            BY <2>11, CommitDocument
      <4>2. ASSUME NEW n \in 1..L PROVE document'[n].number = Cardinality(Upto(n))
        <5>1. Upto(n) = {m \in 1..n : Kind[document[m].form] = Kind[document[n].form]}
              BY <4>1
        <5>2. document'[n].number = document[n].number /\ n \in DOMAIN document
              BY <4>1
        <5> QED BY <5>1, <5>2 DEF Numbers, NumbersFollowCommits
      <4>3. document'[L + 1].number = Cardinality(Upto(L + 1))
        <5>1. Upto(L + 1) = OfSeries(document', k)
              BY <4>1 DEF OfSeries, SeriesOf
        <5>2. Cardinality(Upto(L + 1)) = Counted(document', k)
              BY <5>1 DEF Counted
        <5> HIDE DEF Upto
        <5> QED BY <3>1, <3>4, <3>7, <4>1, <5>2
      <4>4. \A n \in DOMAIN document' : n \in 1..L \/ n = L + 1
            BY <4>1
      <4>5. \A n \in DOMAIN document' : document'[n].number = Cardinality(Upto(n))
            BY <4>2, <4>3, <4>4
      <4> QED BY <4>5 DEF NumbersFollowCommits
    <3> QED BY <1>0, <2>2, <3>4, <3>5, <3>6, <3>7, <3>8 DEF Numbers
  <2> QED BY <2>1, <2>4, <2>5, <2>6, <2>7, <2>8, <2>9, <2>10, <2>11 DEF Shape
<1> QED BY <1>2, <1>3

\* The documents of a series are numbered 1, 2, 3 in commit order, whatever is
\* rolled back, retried or sent again in between.
THEOREM NumbersHold == Spec => []NumbersFollowCommits
<1>1. Numbers => NumbersFollowCommits
      BY DEF Numbers
<1> QED BY <1>1, InitTyped, InitHeld, InitNumbers, NextTyped, NextHeld, NextNumbers, PTL DEF Spec

-----------------------------------------------------------------------------
(***************************************************************************)
(* Dates.  A batch row stays locked from the line that settles its date    *)
(* until the end, and a date that is committed is never replaced.          *)
(***************************************************************************)

\* Line l of a request has been resolved by its transaction.
Settled(w, l) == PastBatches(w) \/ (w.pc = "batch" /\ l < w.line)

\* The dates a session has quoted so far are what it will commit.
Quoted(s) ==
    \A l \in DOMAIN work[s].input.lines :
        LET line == work[s].input.lines[l]
        IN  Settled(work[s], l) /\ line.date # NoDate
                => batch[line.batch].holder = s /\ batch[line.batch].new = line.date

Dates ==
    /\ \A b \in Batch : batch[b].holder # NoSession /\ batch[b].saved # NoDate
                          => batch[b].new = batch[b].saved
    /\ \A s \in Session : Quoted(s)
    /\ \A s \in Session :
           Kind[work[s].form] = "GRN" /\ work[s].pc \in {"order", "number", "insert"}
               => work[s].line = 1
    /\ QuotedDatesStand

LEMMA InitDates == Init => Dates
<1> SUFFICES ASSUME Init PROVE Dates
    OBVIOUS
<1>1. \A b \in Batch : batch[b].holder = NoSession
      BY DEF Init, Stored
<1>2. \A s \in Session : work[s].pc = "idle"
      BY NoWorkTyped DEF Init
<1>3. \A s \in Session : Quoted(s)
      BY <1>2 DEF Quoted, Settled, PastBatches
<1>4. DOMAIN document = {}
      BY DEF Init
<1> QED BY <1>1, <1>2, <1>3, <1>4 DEF Dates, QuotedDatesStand

LEMMA DocumentLines ==
    ASSUME Typed
    PROVE  \A n \in DOMAIN document : \A l \in DOMAIN document[n].input.lines :
               document[n].input.lines[l] \in Line /\ document[n].input.lines[l].batch \in Batch
<1> SUFFICES ASSUME NEW n \in DOMAIN document, NEW l \in DOMAIN document[n].input.lines
             PROVE  document[n].input.lines[l] \in Line
    BY DEF Line
<1>1. document \in Seq([form : Form, number : Nat, input : Content])
      BY DEF Typed, TypeOK
<1>2. document[n] \in [form : Form, number : Nat, input : Content]
      BY <1>1, ElementTyped
<1>3. document[n].input.lines \in Seq(Line)
      BY <1>2 DEF Content
<1> QED BY <1>3, ElementTyped

\* The dates of the rows a session does not hold are not its business.
LEMMA OthersQuoted ==
    ASSUME Dates, NEW t \in Session, work'[t] = work[t],
           \A b \in Batch : batch[b].holder = t => batch'[b] = batch[b],
           Typed
    PROVE  Quoted(t)'
<1>1. \A l \in DOMAIN work[t].input.lines : work[t].input.lines[l].batch \in Batch
  <2>1. work[t].input.lines \in Seq(Line)
        BY DEF Typed, TypeOK, Work, Content
  <2>2. \A l \in DOMAIN work[t].input.lines : work[t].input.lines[l] \in Line
        BY <2>1
  <2> QED BY <2>2 DEF Line
<1>2. Quoted(t)
      BY DEF Dates
<1> QED BY <1>1, <1>2 DEF Quoted

LEMMA QuotedStay ==
    ASSUME Typed, QuotedDatesStand, UNCHANGED document,
           \A b \in Batch : batch'[b].saved = batch[b].saved
    PROVE  QuotedDatesStand'
<1>1. \A n \in DOMAIN document : \A l \in DOMAIN document[n].input.lines :
          document[n].input.lines[l].batch \in Batch
      BY DocumentLines
<1> QED BY <1>1 DEF QuotedDatesStand

\* The step that settles a line.
LEMMA ResolvesDates ==
    ASSUME Typed, Held, Dates, NEW s \in Session, Resolves(s)
    PROVE  Dates'
<1> DEFINE w == work[s]
           line == LineAt(w)
           b == line.batch
<1>1. /\ line \in Line /\ b \in Batch
      /\ batch'[b].saved = batch[b].saved
      /\ batch'[b].new = Resolved(View(batch[b], s), line.date)
      /\ batch'[b].holder = s
      /\ \A other \in Batch \ {b} : batch'[other] = batch[other]
      BY ResolvesRows
<1>2. batch[b].holder \in {NoSession, s} /\ ~Mismatch(batch'[b].new, line.date)
      BY <1>1 DEF Resolves, Free, LineAt
<1>3. batch[b].saved # NoDate => View(batch[b], s) = batch[b].saved
      BY <1>1, <1>2, NoSessionIsNotASession DEF Dates, View
<1>4. View(batch[b], s) # NoDate => batch'[b].new = View(batch[b], s)
      BY <1>1 DEF Resolved
<1>5. line.date # NoDate => batch'[b].new = line.date
      BY <1>1, <1>2 DEF Resolved, Mismatch
<1>6. /\ Kin(work'[s], w) /\ w.pc = "batch"
      /\ \/ w.line < Len(w.input.lines) /\ work'[s].pc = "batch" /\ work'[s].line = w.line + 1
         \/ ~(w.line < Len(w.input.lines)) /\ work'[s].pc = StepAfterBatches(w.form)
      BY WorkAfter DEF Resolves
<1>7. /\ w.input.lines \in Seq(Line) /\ w.line \in Nat
      /\ DOMAIN w.input.lines = 1..Len(w.input.lines) /\ Len(w.input.lines) \in Nat
      /\ \A l \in DOMAIN w.input.lines : w.input.lines[l] \in Line
  <2>1. w.input.lines \in Seq(Line) /\ w.line \in Nat
        BY DEF Typed, TypeOK, Work, Content
  <2> QED BY <2>1, ElementTyped
<1>8. \A l \in DOMAIN w.input.lines : Settled(work'[s], l) => Settled(w, l) \/ l = w.line
  <2> SUFFICES ASSUME NEW l \in 1..Len(w.input.lines) PROVE l < w.line \/ l = w.line
                                                            \/ ~Settled(work'[s], l)
      BY <1>6, <1>7 DEF Settled
  <2>1. CASE w.line < Len(w.input.lines)
        BY <1>6, <1>7, <2>1 DEF Settled, PastBatches
  <2>2. CASE ~(w.line < Len(w.input.lines))
        BY <1>7, <2>2
  <2> QED BY <2>1, <2>2
<1>9. Quoted(s)'
  <2> SUFFICES ASSUME NEW l \in DOMAIN w.input.lines, Settled(work'[s], l),
                      w.input.lines[l].date # NoDate
               PROVE  /\ batch'[w.input.lines[l].batch].holder = s
                      /\ batch'[w.input.lines[l].batch].new = w.input.lines[l].date
      BY <1>6 DEF Kin, Quoted
  <2>1. w.input.lines[l].batch \in Batch
        BY <1>7 DEF Line
  <2>2. CASE l = w.line
        BY <1>1, <1>5, <2>2 DEF LineAt
  <2>3. CASE l # w.line
    <3>1. /\ batch[w.input.lines[l].batch].holder = s
          /\ batch[w.input.lines[l].batch].new = w.input.lines[l].date
          BY <1>8, <2>3 DEF Dates, Quoted
    <3>2. CASE w.input.lines[l].batch = b
          BY <1>1, <1>4, <3>1, <3>2 DEF View
    <3>3. CASE w.input.lines[l].batch # b
          BY <1>1, <2>1, <3>1, <3>3
    <3> QED BY <3>2, <3>3
  <2> QED BY <2>2, <2>3
<1>10. \A t \in Session \ {s} : work'[t] = work[t]
       BY WorkAfter DEF Shape
<1>11. ASSUME NEW t \in Session \ {s} PROVE Quoted(t)'
  <2>1. \A other \in Batch : batch[other].holder = t => batch'[other] = batch[other]
        BY <1>1, <1>2, NoSessionIsNotASession
  <2> QED BY <1>10, <2>1, OthersQuoted
<1>12. \A t \in Session : Kind[work'[t].form] = "GRN" /\ work'[t].pc \in {"order", "number", "insert"}
                               => work'[t].line = 1
       BY <1>6, <1>10 DEF Dates, Kin, StepAfterBatches
<1>13. \A other \in Batch : batch'[other].holder # NoSession /\ batch'[other].saved # NoDate
                                => batch'[other].new = batch'[other].saved
       BY <1>1, <1>3, <1>4 DEF Dates
<1>14. QuotedDatesStand'
  <2>1. \A other \in Batch : batch'[other].saved = batch[other].saved
        BY <1>1
  <2>2. UNCHANGED document
        BY DEF Resolves
  <2> QED BY <2>1, <2>2, QuotedStay DEF Dates
<1> QED BY <1>9, <1>11, <1>12, <1>13, <1>14 DEF Dates

LEMMA CommitDates ==
    ASSUME Typed, Held, Dates, NEW s \in Session, Commit(s)
    PROVE  Dates'
<1>1. /\ Kin(work'[s], work[s]) /\ work[s].pc = "commit" /\ work'[s].pc = "posted"
      /\ \A t \in Session \ {s} : work'[t] = work[t]
      BY WorkAfter DEF Commit, Shape
<1>2. batch \in [Batch -> Row(Date \cup {NoDate})] /\ s # NoSession
      BY NoSessionIsNotASession DEF Typed, TypeOK
<1>3. \A b \in Batch :
          /\ batch[b].holder # s => batch'[b] = batch[b]
          /\ batch[b].holder = s => batch'[b] = Stored(batch[b].new)
  <2>1. batch' = Committed(batch, s) /\ DOMAIN batch = Batch
        BY <1>2 DEF Commit
  <2> QED BY <2>1, EndedRow
<1>4. \A b \in Batch : batch[b].saved # NoDate => batch'[b].saved = batch[b].saved
      BY <1>2, <1>3, StoredRow DEF Dates
<1>5. ASSUME NEW t \in Session PROVE Quoted(t)'
  <2>1. CASE t = s
        BY <1>1, <2>1 DEF Quoted, Settled, PastBatches
  <2>2. CASE t # s
    <3>1. \A b \in Batch : batch[b].holder = t => batch'[b] = batch[b]
          BY <1>3, <2>2
    <3> QED BY <1>1, <2>2, <3>1, OthersQuoted
  <2> QED BY <2>1, <2>2
<1>6. \A t \in Session : Kind[work'[t].form] = "GRN" /\ work'[t].pc \in {"order", "number", "insert"}
                               => work'[t].line = 1
      BY <1>1 DEF Dates
<1>7. \A b \in Batch : batch'[b].holder # NoSession /\ batch'[b].saved # NoDate
                          => batch'[b].new = batch'[b].saved
      BY <1>3, StoredRow DEF Dates
<1>8. QuotedDatesStand'
  <2>1. /\ Len(document) \in Nat /\ DOMAIN document = 1..Len(document)
        /\ DOMAIN document' = 1..(Len(document) + 1)
        /\ \A n \in DOMAIN document : document'[n] = document[n]
        /\ document'[Len(document) + 1].input = work[s].input
        BY CommitDocument
  <2>2. ASSUME NEW n \in DOMAIN document, NEW l \in DOMAIN document[n].input.lines,
               document[n].input.lines[l].date # NoDate
        PROVE  batch'[document[n].input.lines[l].batch].saved = document[n].input.lines[l].date
    <3>1. document[n].input.lines[l].batch \in Batch
          BY DocumentLines
    <3>2. batch[document[n].input.lines[l].batch].saved = document[n].input.lines[l].date
          BY <2>2 DEF Dates, QuotedDatesStand
    <3> QED BY <1>4, <2>2, <3>1, <3>2
  <2>3. ASSUME NEW l \in DOMAIN work[s].input.lines, work[s].input.lines[l].date # NoDate
        PROVE  batch'[work[s].input.lines[l].batch].saved = work[s].input.lines[l].date
    <3>1. work[s].input.lines \in Seq(Line)
          BY DEF Typed, TypeOK, Work, Content
    <3>2. work[s].input.lines[l] \in Line
          BY <3>1, ElementTyped
    <3>3. work[s].input.lines[l].batch \in Batch
          BY <3>2 DEF Line
    <3>4. Settled(work[s], l)
          BY <1>1 DEF Settled, PastBatches
    <3>5. /\ batch[work[s].input.lines[l].batch].holder = s
          /\ batch[work[s].input.lines[l].batch].new = work[s].input.lines[l].date
          BY <2>3, <3>4 DEF Dates, Quoted
    <3> QED BY <1>3, <3>3, <3>5, StoredRow
  <2>4. ASSUME NEW n \in DOMAIN document', NEW l \in DOMAIN document'[n].input.lines,
               document'[n].input.lines[l].date # NoDate
        PROVE  batch'[document'[n].input.lines[l].batch].saved = document'[n].input.lines[l].date
    <3>1. CASE n \in DOMAIN document
      <4>1. document'[n] = document[n]
            BY <2>1, <3>1
      <4> QED BY <2>2, <2>4, <3>1, <4>1
    <3>2. CASE n = Len(document) + 1
      <4>1. document'[n].input = work[s].input
            BY <2>1, <3>2
      <4> QED BY <2>3, <2>4, <4>1
    <3> QED BY <2>1, <3>1, <3>2
  <2> QED BY <2>4 DEF QuotedDatesStand
<1> QED BY <1>5, <1>6, <1>7, <1>8 DEF Dates

\* The steps that leave the batch rows alone settle no line either.
LEMMA QuietDates ==
    ASSUME Typed, Dates, NEW s \in Session, UNCHANGED <<batch, document>>,
           \A t \in Session \ {s} : work'[t] = work[t],
           Kin(work'[s], work[s]),
           \A l \in DOMAIN work[s].input.lines : Settled(work'[s], l) => Settled(work[s], l),
           Kind[work[s].form] = "GRN" /\ work'[s].pc \in {"order", "number", "insert"}
               => work'[s].line = 1
    PROVE  Dates'
<1>1. ASSUME NEW t \in Session PROVE Quoted(t)'
  <2>1. CASE t = s
    <3>1. /\ batch' = batch /\ work'[t].input = work[t].input
          /\ \A l \in DOMAIN work[t].input.lines : Settled(work'[t], l) => Settled(work[t], l)
          BY <2>1 DEF Kin
    <3>2. Quoted(t)
          BY DEF Dates
    <3> QED BY <3>1, <3>2 DEF Quoted
  <2>2. CASE t # s
        BY <2>2, OthersQuoted
  <2> QED BY <2>1, <2>2
<1>2. QuotedDatesStand'
      BY QuotedStay DEF Dates
<1> QED BY <1>1, <1>2 DEF Dates, Kin

LEMMA NextDates == Typed /\ Held /\ Dates /\ [Next]_vars => Dates'
<1> SUFFICES ASSUME Typed, Held, Dates, [Next]_vars PROVE Dates'
    OBVIOUS
<1>1. CASE UNCHANGED vars
      BY <1>1 DEF vars, rows, Dates, Quoted, QuotedDatesStand
<1>2. CASE Next
  <2>1. PICK s \in Session : Shape(s)
        BY <1>2, StepShapes
  <2>2. \A t \in Session \ {s} : work'[t] = work[t]
        BY <2>1, WorkAfter
  <2>3. ASSUME NEW w \in Work, Restarts(s, w) PROVE Dates'
    <3>1. work'[s] = w /\ ~PastBatches(w) /\ Outside(w)
          BY <2>3, WorkAfter, OutsideIsNeither DEF Restarts
    <3>2. batch \in [Batch -> Row(Date \cup {NoDate})]
          BY DEF Typed, TypeOK
    <3>3. \A b \in Batch :
              /\ batch[b].holder # s => batch'[b] = batch[b]
              /\ batch[b].holder = s => batch'[b] = Stored(batch[b].saved)
      <4>1. batch' = RolledBack(batch, s) /\ DOMAIN batch = Batch
            BY <2>3, <3>2 DEF Restarts
      <4> QED BY <4>1, EndedRow
    <3>4. ASSUME NEW t \in Session PROVE Quoted(t)'
      <4>1. CASE t = s
        <5>1. w.input.lines \in Seq(Line) /\ DOMAIN w.input.lines = 1..Len(w.input.lines)
              /\ Len(w.input.lines) \in Nat
              BY DEF Work, Content
        <5>2. \A l \in DOMAIN w.input.lines : ~Settled(w, l)
              BY <3>1, <5>1 DEF Outside, Settled
        <5> QED BY <3>1, <4>1, <5>2 DEF Quoted
      <4>2. CASE t # s
        <5>1. \A b \in Batch : batch[b].holder = t => batch'[b] = batch[b]
              BY <3>3, <4>2
        <5> QED BY <2>2, <4>2, <5>1, OthersQuoted
      <4> QED BY <4>1, <4>2
    <3>5. \A t \in Session :
              Kind[work'[t].form] = "GRN" /\ work'[t].pc \in {"order", "number", "insert"}
                  => work'[t].line = 1
          BY <2>2, <3>1 DEF Dates, Outside
    <3>6. \A b \in Batch : /\ batch'[b].saved = batch[b].saved
                           /\ batch'[b].holder # NoSession => batch'[b] = batch[b]
          BY <3>3, StoredRow
    <3>7. QuotedDatesStand'
          BY <2>3, <3>6, QuotedStay DEF Dates, Restarts
    <3> QED BY <3>4, <3>5, <3>6, <3>7 DEF Dates
  <2>4. CASE LoseConnection(s)
    <3>1. /\ Kin(work'[s], work[s]) /\ work'[s].pc = work[s].pc /\ work'[s].line = work[s].line
          BY <2>4, WorkAfter
    <3>2. UNCHANGED <<batch, document>>
          BY <2>4 DEF LoseConnection, rows
    <3>3. \A l : Settled(work'[s], l) => Settled(work[s], l)
          BY <3>1 DEF Kin, Settled, PastBatches
    <3>4. Kind[work[s].form] = "GRN" /\ work'[s].pc \in {"order", "number", "insert"}
              => work'[s].line = 1
          BY <3>1 DEF Dates
    <3> QED BY <2>2, <3>1, <3>2, <3>3, <3>4, QuietDates
  <2>5. CASE Locks(s)
    <3>1. /\ Kin(work'[s], work[s]) /\ work'[s].pc = "number" /\ work'[s].line = work[s].line
          /\ work[s].pc = "order" /\ Kind[work[s].form] = "GRN"
          BY <2>5, WorkAfter DEF Locks, Typed, Served
    <3>2. UNCHANGED <<batch, document>>
          BY <2>5 DEF Locks
    <3>3. \A l : ~Settled(work'[s], l)
          BY <3>1 DEF Kin, Settled, PastBatches
    <3>4. work'[s].line = 1
          BY <3>1 DEF Dates
    <3> QED BY <2>2, <3>1, <3>2, <3>3, <3>4, QuietDates
  <2>6. CASE TakeNumber(s)
    <3>1. /\ Kin(work'[s], work[s]) /\ work'[s].pc = "insert" /\ work'[s].line = work[s].line
          /\ work[s].pc = "number"
          BY <2>6, WorkAfter DEF TakeNumber
    <3>2. UNCHANGED <<batch, document>>
          BY <2>6 DEF TakeNumber
    <3>3. \A l : Settled(work'[s], l) => Settled(work[s], l)
          BY <3>1 DEF Kin, Settled, PastBatches
    <3>4. Kind[work[s].form] = "GRN" => work'[s].line = 1
          BY <3>1 DEF Dates
    <3> QED BY <2>2, <3>1, <3>2, <3>3, <3>4, QuietDates
  <2>7. CASE Inserts(s)
    <3>1. /\ Kin(work'[s], work[s]) /\ work'[s].pc = StepAfterInsert(work[s].form)
          /\ work'[s].line = work[s].line /\ work[s].pc = "insert"
          BY <2>7, WorkAfter DEF Inserts
    <3>2. UNCHANGED <<batch, document>>
          BY <2>7 DEF Inserts
    <3>3. Kind[work[s].form] = "GRN" => work'[s].line = 1 /\ work'[s].pc = "batch"
          BY <3>1 DEF Dates, StepAfterInsert
    <3>4. work[s].input.lines \in Seq(Line)
          BY DEF Typed, TypeOK, Work, Content
    <3>5. ASSUME NEW l \in DOMAIN work[s].input.lines, Settled(work'[s], l)
          PROVE  Settled(work[s], l)
      <4>1. l \in Nat \ {0}
            BY <3>4
      <4>2. CASE Kind[work[s].form] = "GRN"
            BY <3>3, <3>5, <4>1, <4>2 DEF Settled, PastBatches
      <4>3. CASE Kind[work[s].form] # "GRN"
            BY <3>1, <4>3 DEF Settled, PastBatches
      <4> QED BY <4>2, <4>3
    <3>6. work'[s].pc \notin {"order", "number", "insert"}
          BY <3>1 DEF StepAfterInsert
    <3> QED BY <2>2, <3>1, <3>2, <3>5, <3>6, QuietDates
  <2>8. CASE Writes(s)
    <3>1. /\ Kin(work'[s], work[s]) /\ work'[s].pc \in {"alert", "commit"}
          /\ work[s].pc = "alert"
          BY <2>8, WorkAfter DEF Writes
    <3>2. UNCHANGED <<batch, document>>
          BY <2>8 DEF Writes
    <3>3. \A l : Settled(work[s], l)
          BY <3>1 DEF Settled, PastBatches
    <3> QED BY <2>2, <3>1, <3>2, <3>3, QuietDates
  <2>9. CASE Resolves(s)
        BY <2>9, ResolvesDates
  <2>10. CASE Commit(s)
         BY <2>10, CommitDates
  <2> QED BY <2>1, <2>3, <2>4, <2>5, <2>6, <2>7, <2>8, <2>9, <2>10 DEF Shape
<1> QED BY <1>1, <1>2

\* A date that a committed document quoted stays the date of its batch, however
\* receipts and opening balances interleave lock by lock.
THEOREM QuotedDatesHold == Spec => []QuotedDatesStand
<1>1. Dates => QuotedDatesStand
      BY DEF Dates
<1> QED BY <1>1, InitTyped, InitHeld, InitDates, NextTyped, NextHeld, NextDates, PTL DEF Spec

-----------------------------------------------------------------------------
(***************************************************************************)
(* What a purchase order received: the sum over its committed receipts,    *)
(* which the session that holds the order is about to add to.              *)
(***************************************************************************)

Entry == [form : Form, number : Nat, input : Content]
ReceiptOf(entry, o) == Kind[entry.form] = "GRN" /\ OrderOf[entry.form] = o
Quantities(d) == [n \in DOMAIN d |-> d[n].input.quantity]
ReceiptsOf(d, o) == {n \in DOMAIN d : ReceiptOf(d[n], o)}
Total(d, o) == SumFunctionOnSet(Quantities(d), ReceiptsOf(d, o))

\* A receipt that locked its order still sees what it checked, to the commit.
Promised(s) ==
    Receiving(work[s]) =>
        LET o == OrderOf[work[s].form]
        IN  /\ received[o].holder = s
            /\ received[o].new = received[o].saved
            /\ received[o].saved + work[s].input.quantity <= Ordered[o]

Orders ==
    /\ \A s \in Session : Promised(s)
    /\ \A o \in Order : received[o].saved = Total(document, o) /\ received[o].saved <= Ordered[o]

LEMMA OrdersAre == Orders => OrderFollowsReceipts
BY DEF Orders, OrderFollowsReceipts, Total, Quantities, ReceiptsOf, ReceiptOf

LEMMA TotalAppended ==
    ASSUME NEW d \in Seq(Entry), NEW entry \in Entry, NEW o
    PROVE  /\ Total(d, o) \in Int
           /\ ReceiptOf(entry, o) =>
                  Total(Append(d, entry), o) = Total(d, o) + entry.input.quantity
           /\ ~ReceiptOf(entry, o) => Total(Append(d, entry), o) = Total(d, o)
<1> DEFINE e == Append(d, entry)
           a == Len(d) + 1
           S == ReceiptsOf(d, o)
<1>1. /\ DOMAIN d = 1..Len(d) /\ Len(d) \in Nat
      /\ DOMAIN e = 1..a /\ e[a] = entry /\ \A n \in DOMAIN d : e[n] = d[n] /\ d[n] \in Entry
      OBVIOUS
<1>2. a \notin DOMAIN d /\ DOMAIN e = DOMAIN d \cup {a} /\ a \in DOMAIN e
      BY <1>1
<1>3. \A n \in DOMAIN d : d[n].input.quantity \in Nat
      BY <1>1 DEF Entry, Content
<1>4. entry.input.quantity \in Nat
      BY DEF Entry, Content
<1> HIDE DEF e, a
<1>5. IsFiniteSet(S) /\ S \subseteq DOMAIN d
      BY LinesFinite DEF ReceiptsOf
<1>6. /\ \A n \in S : Quantities(d)[n] = d[n].input.quantity /\ Quantities(d)[n] \in Int
      /\ \A n \in S : Quantities(e)[n] = Quantities(d)[n]
      /\ Quantities(e)[a] = entry.input.quantity /\ Quantities(e)[a] \in Int
      BY <1>1, <1>2, <1>3, <1>4, <1>5 DEF Quantities
<1>7. SumFunctionOnSet(Quantities(d), S) = SumFunctionOnSet(Quantities(e), S)
      BY <1>5, <1>6, SumEqual
<1>8. Total(d, o) \in Int
      BY <1>5, <1>6, SumInt DEF Total
<1>9. ASSUME ReceiptOf(entry, o)
      PROVE  Total(e, o) = Total(d, o) + entry.input.quantity
  <2>1. ReceiptsOf(e, o) = S \cup {a} /\ a \notin S
        BY <1>1, <1>2, <1>5, <1>9 DEF ReceiptsOf
  <2>2. SumFunctionOnSet(Quantities(e), S \cup {a})
            = Quantities(e)[a] + SumFunctionOnSet(Quantities(e), S)
        BY <1>5, <1>6, <2>1, SumPutIn
  <2>3. Total(e, o) = entry.input.quantity + Total(d, o)
        BY <1>6, <1>7, <2>1, <2>2 DEF Total
  <2> QED BY <1>4, <1>8, <2>3
<1>10. ASSUME ~ReceiptOf(entry, o) PROVE Total(e, o) = Total(d, o)
  <2>1. ReceiptsOf(e, o) = S
        BY <1>1, <1>2, <1>10 DEF ReceiptsOf
  <2> QED BY <1>7, <2>1 DEF Total
<1> QED BY <1>8, <1>9, <1>10 DEF e

LEMMA InitOrders == Init => Orders
<1> SUFFICES ASSUME Init PROVE Orders
    OBVIOUS
<1>1. \A s \in Session : ~Receiving(work[s])
      BY NoWorkTyped DEF Init, Receiving, Transaction
<1>2. \A o \in Order : received[o].saved = 0 /\ 0 <= Ordered[o]
      BY RequestsAssumption DEF Init, Stored, RequestsAssumption
<1>3. ASSUME NEW o \in Order PROVE Total(document, o) = 0
  <2>1. ReceiptsOf(document, o) = {}
        BY DEF Init, ReceiptsOf
  <2> QED BY <2>1, SumEmpty DEF Total
<1> QED BY <1>1, <1>2, <1>3 DEF Orders, Promised

LEMMA OrderOfReceipt ==
    ASSUME Typed, NEW s \in Session, Receiving(work[s])
    PROVE  OrderOf[work[s].form] \in Order
BY RequestsAssumption DEF Typed, TypeOK, Work, Receiving, RequestsAssumption

LEMMA OthersPromised ==
    ASSUME Typed, Orders, NEW t \in Session, work'[t] = work[t],
           \A o \in Order : received[o].holder = t => received'[o] = received[o]
    PROVE  Promised(t)'
<1> SUFFICES ASSUME Receiving(work[t]) PROVE Promised(t)'
    BY DEF Promised
<1>1. OrderOf[work[t].form] \in Order
      BY OrderOfReceipt
<1> QED BY <1>1 DEF Orders, Promised

\* The steps that leave the orders and the documents alone.
LEMMA QuietOrders ==
    ASSUME Typed, Orders, NEW s \in Session, UNCHANGED <<received, document>>,
           \A t \in Session \ {s} : work'[t] = work[t],
           Kin(work'[s], work[s]), Receiving(work'[s]) => Receiving(work[s])
    PROVE  Orders'
<1>1. ASSUME NEW t \in Session PROVE Promised(t)'
  <2>1. CASE t = s
        BY <2>1 DEF Orders, Promised, Kin
  <2>2. CASE t # s
        BY <2>2, OthersPromised
  <2> QED BY <2>1, <2>2
<1> QED BY <1>1 DEF Orders

\* What a commit leaves of the orders.
LEMMA CommitReceived ==
    ASSUME Typed, NEW s \in Session, Commit(s), NEW o \in Order
    PROVE  /\ received[o].holder # s => received'[o] = received[o]
           /\ received[o].holder = s =>
                  received'[o] = Stored(received[o].new + work[s].input.quantity)
<1> DEFINE table == [p \in Order |-> IF received[p].holder = s
                                     THEN [received[p] EXCEPT !.new = @ + work[s].input.quantity]
                                     ELSE received[p]]
<1>1. received \in [Order -> Row(Nat)]
      BY DEF Typed, TypeOK
<1>2. received' = Committed(table, s)
      BY DEF Commit
<1>3. received[o] \in Row(Nat)
      BY <1>1
<1>4. received[o].holder = s =>
          /\ table[o].holder = s
          /\ table[o].new = received[o].new + work[s].input.quantity
      BY <1>3 DEF Row
<1>5. received[o].holder # s => table[o] = received[o]
      OBVIOUS
<1>6. o \in DOMAIN table
      OBVIOUS
<1> HIDE DEF table
<1> QED BY <1>2, <1>4, <1>5, <1>6, EndedRow

\* The receipt of o that commits adds its quantity to o; no other document does.
LEMMA CommitOrders ==
    ASSUME Typed, Held, Orders, NEW s \in Session, Commit(s)
    PROVE  Orders'
<1>1. work'[s].pc = "posted" /\ \A t \in Session \ {s} : work'[t] = work[t]
      BY WorkAfter DEF Shape
<1>2. ASSUME NEW t \in Session PROVE Promised(t)'
  <2>1. CASE t = s
        BY <1>1, <2>1 DEF Promised, Receiving, Transaction
  <2>2. CASE t # s
    <3>1. \A o \in Order : received[o].holder = t => received'[o] = received[o]
          BY <2>2, CommitReceived
    <3> QED BY <1>1, <2>2, <3>1, OthersPromised
  <2> QED BY <2>1, <2>2
<1> DEFINE entry == [form |-> work[s].form, number |-> work[s].number, input |-> work[s].input]
<1>3. /\ entry \in Entry /\ document \in Seq(Entry)
      /\ entry.form = work[s].form /\ entry.input.quantity = work[s].input.quantity
      /\ entry.input.quantity \in Nat
      BY DEF Entry, Typed, TypeOK, Work, Content
<1>4. document' = Append(document, entry)
      BY CommitDocument
<1> HIDE DEF entry
<1>5. PICK d \in Seq(Entry), e \in Entry : d = document /\ e = entry
      BY <1>3
<1>6. ASSUME NEW o \in Order
      PROVE  received'[o].saved = Total(document', o) /\ received'[o].saved <= Ordered[o]
  <2>1. /\ Total(d, o) \in Int
        /\ ReceiptOf(e, o) => Total(Append(d, e), o) = Total(d, o) + e.input.quantity
        /\ ~ReceiptOf(e, o) => Total(Append(d, e), o) = Total(d, o)
        BY <1>5, TotalAppended
  <2>2. received[o].saved = Total(d, o) /\ received[o].saved <= Ordered[o]
        BY <1>5 DEF Orders
  <2>3. Total(document', o) = Total(Append(d, e), o)
        BY <1>4, <1>5
  <2>4. received[o].holder = s <=> ReceiptOf(e, o)
    <3>1. ReceiptOf(e, o) => Receiving(work[s])
          BY <1>3, <1>5 DEF Commit, ReceiptOf, Receiving, Transaction
    <3>2. ReceiptOf(e, o) => received[o].holder = s
          BY <1>3, <1>5, <3>1 DEF Orders, Promised, ReceiptOf
    <3>3. received[o].holder = s => ReceiptOf(e, o)
          BY <1>3, <1>5 DEF Held, Receiving, ReceiptOf
    <3> QED BY <3>2, <3>3
  <2>5. CASE ReceiptOf(e, o)
    <3>1. Receiving(work[s]) /\ OrderOf[work[s].form] = o
          BY <2>4, <2>5 DEF Held
    <3>2. /\ received[o].new = received[o].saved
          /\ received[o].saved + work[s].input.quantity <= Ordered[o]
          BY <3>1 DEF Orders, Promised
    <3>3. received'[o].saved = received[o].saved + work[s].input.quantity
          BY <2>4, <2>5, <3>2, CommitReceived, StoredRow
    <3> QED BY <1>3, <1>5, <2>1, <2>2, <2>3, <2>5, <3>2, <3>3
  <2>6. CASE ~ReceiptOf(e, o)
    <3>1. received'[o] = received[o]
          BY <2>4, <2>6, CommitReceived
    <3> QED BY <2>1, <2>2, <2>3, <2>6, <3>1
  <2> QED BY <2>5, <2>6
<1> QED BY <1>2, <1>6 DEF Orders

\* The receipt that locks its order checks what is still pending.
LEMMA LocksOrders ==
    ASSUME Typed, Held, Orders, NEW s \in Session, Locks(s)
    PROVE  Orders'
<1> DEFINE o == OrderOf[work[s].form]
<1>1. Kin(work'[s], work[s]) /\ \A t \in Session \ {s} : work'[t] = work[t]
      BY WorkAfter DEF Shape
<1>2. received[o].holder # s
  <2>1. o \in Order /\ work[s].pc = "order"
        BY LocksRows DEF Locks
  <2>2. ~Receiving(work[s])
        BY <2>1 DEF Receiving
  <2> HIDE DEF o
  <2> QED BY <2>1, <2>2 DEF Held
<1>3. /\ received[o].holder = NoSession /\ View(received[o], s) = received[o].saved
      /\ received[o].saved + work[s].input.quantity <= Ordered[o]
      BY <1>2 DEF Locks, Free, View, WithinPending
<1>4. ASSUME NEW t \in Session PROVE Promised(t)'
  <2>1. CASE t = s
        BY <1>1, <1>3, <2>1, LocksRows DEF Promised, Kin
  <2>2. CASE t # s
    <3>1. \A p \in Order : received[p].holder = t => received'[p] = received[p]
          BY ZenonT(60), <1>3, <2>2, LocksRows, NoSessionIsNotASession
    <3> QED BY <1>1, <2>2, <3>1, OthersPromised
  <2> QED BY <2>1, <2>2
<1>5. \A p \in Order : received'[p].saved = received[p].saved
      BY LocksRows
<1>6. UNCHANGED document
      BY DEF Locks
<1> QED BY <1>4, <1>5, <1>6 DEF Orders

\* A transaction that is undone or not begun gives its order back unchanged.
LEMMA RestartsOrders ==
    ASSUME Typed, Orders, NEW s \in Session, NEW w \in Work, Restarts(s, w)
    PROVE  Orders'
<1>1. /\ ~Receiving(work'[s])
      /\ \A t \in Session \ {s} : work'[t] = work[t]
  <2>1. work'[s] = w /\ ~Receiving(w)
        BY WorkAfter DEF Restarts, Outside, Receiving, Transaction
  <2> QED BY <2>1, WorkAfter DEF Shape
<1>2. received' = RolledBack(received, s) /\ DOMAIN received = Order
      BY DEF Restarts, Typed, TypeOK
<1>3. \A o \in Order : /\ received[o].holder # s => received'[o] = received[o]
                       /\ received'[o].saved = received[o].saved
      BY <1>2, EndedRow, StoredRow
<1>4. ASSUME NEW t \in Session PROVE Promised(t)'
  <2>1. CASE t = s
        BY <1>1, <2>1 DEF Promised
  <2>2. CASE t # s
    <3>1. \A o \in Order : received[o].holder = t => received'[o] = received[o]
          BY <1>3, <2>2
    <3> QED BY <1>1, <2>2, <3>1, OthersPromised
  <2> QED BY <2>1, <2>2
<1>5. UNCHANGED document
      BY DEF Restarts
<1> QED BY <1>3, <1>4, <1>5 DEF Orders

LEMMA NextOrders == Typed /\ Held /\ Orders /\ [Next]_vars => Orders'
<1> SUFFICES ASSUME Typed, Held, Orders, [Next]_vars PROVE Orders'
    OBVIOUS
<1>1. CASE UNCHANGED vars
      BY <1>1 DEF vars, rows, Orders, Promised
<1>2. CASE Next
  <2>1. PICK s \in Session : Shape(s)
        BY <1>2, StepShapes
  <2>2. \A t \in Session \ {s} : work'[t] = work[t]
        BY <2>1, WorkAfter
  <2>3. CASE LoseConnection(s) \/ TakeNumber(s) \/ Inserts(s) \/ Resolves(s) \/ Writes(s)
    <3>1. Kin(work'[s], work[s])
          BY <2>3, WorkAfter
    <3>2. UNCHANGED <<received, document>>
          BY <2>3 DEF LoseConnection, rows, TakeNumber, Inserts, Resolves, Writes
    <3>3. work'[s].pc = work[s].pc \/ work[s].pc \in Transaction \ {"order"}
          BY <2>3, WorkAfter DEF TakeNumber, Inserts, Resolves, Writes, Transaction
    <3>4. Receiving(work'[s]) => Receiving(work[s])
          BY <3>1, <3>3 DEF Kin, Receiving
    <3> QED BY <2>2, <3>1, <3>2, <3>4, QuietOrders
  <2> QED BY <2>1, <2>3, RestartsOrders, LocksOrders, CommitOrders DEF Shape
<1> QED BY <1>1, <1>2

\* A purchase order's counter is the sum of its committed receipts and never more
\* than was ordered, however receipts, repeated requests and retries interleave
\* lock by lock.
THEOREM OrdersHold == Spec => []OrderFollowsReceipts
BY InitTyped, InitHeld, InitOrders, NextTyped, NextHeld, NextOrders, OrdersAre, PTL DEF Spec
==============================================================================
