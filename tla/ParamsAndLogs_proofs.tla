------------------------ MODULE ParamsAndLogs_proofs ------------------------
(***************************************************************************)
(* Theorems about ParamSteering, for every table, every size of message    *)
(* and every number of edits, reports and failed sends; and, from "The     *)
(* logs" on, about LogDelivery, for every size of memory, of message and   *)
(* of log, every number of failed messages and of starts.                  *)
(***************************************************************************)
EXTENDS ParamSteering, LogDelivery, SequenceTheorems, FiniteSetTheorems, TLAPS

\* Messages in the form that the sequence operators need.
Carried == UNION {[S -> Int] : S \in SUBSET Params}

TypeInv ==
  /\ app \in [Params -> Int] /\ value \in [Params -> Int] /\ edit \in [Params -> Int]
  /\ modified \in [Params -> BOOLEAN]
  /\ up \in Seq(Carried) /\ down \in Seq(Carried)
  /\ replaced \in [Params -> Int]
  /\ edits \in 0 .. MaxEdits /\ changes \in 0 .. MaxChanges
  /\ lost \in 0 .. MaxLost /\ cut \in 0 .. MaxCut

LEMMA MessageForm ==
  /\ \A S \in SUBSET Params : [S -> Int] \subseteq Carried
  /\ \A m \in Carried : IsMessage(m)
  BY DEF Carried, IsMessage

LEMMA ControlIsMessage ==
  ASSUME TypeInv
  PROVE  [p \in FirstModified |-> value[p]] \in Carried
<1>1. FirstModified \subseteq Params
  BY DEF FirstModified, Modified
<1>2. [p \in FirstModified |-> value[p]] \in [FirstModified -> Int]
  BY <1>1 DEF TypeInv
<1> QED BY <1>1, <1>2, MessageForm

LEMMA ReportIsMessage ==
  ASSUME TypeInv, NEW i \in Int
  PROVE  Report(i) \in Carried
<1> DEFINE S == {q \in Params : (q - 1) \div MaxPerMsg = i - 1}
<1>1. S \subseteq Params
  OBVIOUS
<1>2. [p \in S |-> app[p]] \in [S -> Int]
  BY DEF TypeInv
<1>3. [S -> Int] \subseteq Carried
  BY <1>1, MessageForm
<1>4. Report(i) = [p \in S |-> app[p]]
  BY DEF Report
<1> QED BY <1>2, <1>3, <1>4

\* A table updated from a message is a table.
LEMMA Updated ==
  ASSUME NEW t \in [Params -> Int], NEW m \in Carried
  PROVE  [p \in Params |-> IF p \in DOMAIN m THEN m[p] ELSE t[p]] \in [Params -> Int]
  BY MessageForm DEF IsMessage

LEMMA NumReportsNat == NumReports \in Nat
  BY ParamAssumption DEF NumReports

LEMMA TypeInit == Init => TypeInv
  BY ParamAssumption DEF Init, TypeInv

LEMMA TypeStep == TypeInv /\ [Next]_vars => TypeInv'
<1> SUFFICES ASSUME TypeInv, [Next]_vars PROVE TypeInv'
  OBVIOUS
<1> USE ParamAssumption DEF TypeInv, client
<1>1. ASSUME NEW p \in Params, NEW inRange \in BOOLEAN, Edit(p, inRange) PROVE TypeInv'
  BY <1>1 DEF Edit
<1>2. CASE EmitControl
  <2>1. Append(up, [p \in FirstModified |-> value[p]]) \in Seq(Carried)
    BY ControlIsMessage
  <2>2. modified' \in [Params -> BOOLEAN]
    BY <1>2, Zenon DEF EmitControl
  <2>3. UNCHANGED <<app, value, down, edits, changes, cut, edit, replaced>>
    BY <1>2 DEF EmitControl
  <2>4. up' \in Seq(Carried) /\ lost' \in 0 .. MaxLost
    <3>1. CASE up' = Append(up, [p \in FirstModified |-> value[p]]) /\ UNCHANGED lost
      BY <3>1, <2>1
    <3>2. CASE lost < MaxLost /\ lost' = lost + 1 /\ UNCHANGED up
      BY <3>2
    <3> QED BY <1>2, <3>1, <3>2, Zenon DEF EmitControl
  <2> QED BY <2>2, <2>3, <2>4
<1>3. CASE ReadStatus
  <2>1. Head(down) \in Carried /\ Tail(down) \in Seq(Carried)
    BY <1>3 DEF ReadStatus
  <2>2. value' \in [Params -> Int]
    <3>1. value \in [Params -> Int]
      OBVIOUS
    <3>2. [p \in Params |-> IF p \in DOMAIN Head(down) THEN Head(down)[p] ELSE value[p]]
            \in [Params -> Int]
      BY ONLY <2>1, <3>1, Updated
    <3> QED BY <1>3, <3>2 DEF ReadStatus
  <2>3. replaced' \in [Params -> Int]
    BY <1>3 DEF ReadStatus
  <2> QED BY <1>3, <2>1, <2>2, <2>3 DEF ReadStatus
<1>4. CASE Compute
  BY <1>4 DEF Compute
<1>5. CASE ReadControl
  <2>1. Head(up) \in Carried /\ Tail(up) \in Seq(Carried)
    BY <1>5 DEF ReadControl
  <2>2. app' \in [Params -> Int]
    <3>1. app \in [Params -> Int]
      OBVIOUS
    <3>2. [p \in Params |-> IF p \in DOMAIN Head(up) THEN Head(up)[p] ELSE app[p]]
            \in [Params -> Int]
      BY ONLY <2>1, <3>1, Updated
    <3> QED BY <1>5, <3>2 DEF ReadControl
  <2> QED BY <1>5, <2>1, <2>2 DEF ReadControl
<1>6. CASE EmitStatus
  <2>1. PICK n \in 0 .. NumReports :
        /\ down' = down \o [i \in 1 .. n |-> Report(i)]
        /\ IF n = NumReports THEN UNCHANGED cut ELSE cut < MaxCut /\ cut' = cut + 1
    BY <1>6 DEF EmitStatus
  <2>2. [i \in 1 .. n |-> Report(i)] \in Seq(Carried)
    BY NumReportsNat, ReportIsMessage
  <2>3. down' \in Seq(Carried) /\ cut' \in 0 .. MaxCut
    BY <2>1, <2>2
  <2> QED BY <1>6, <2>3 DEF EmitStatus
<1>7. CASE UNCHANGED vars
  BY <1>7 DEF vars
<1> QED BY <1>1, <1>2, <1>3, <1>4, <1>5, <1>6, <1>7 DEF Next

\* The variables keep their types and messages name parameters of the table,
\* whatever the client's habits.
THEOREM Typing == Spec => []TypeOK
<1>1. TypeInv => TypeOK
  BY MessageForm DEF TypeInv, TypeOK
<1> QED BY TypeInit, TypeStep, <1>1, PTL DEF Spec
-----------------------------------------------------------------------------
(* Order.  What is on its way to the application lies between what it has  *)
(* and what was edited last, and messages are in the order of the edits.   *)

Unreplaced == {p \in Steerable : replaced[p] = 0}

OrderInv == \A p \in Unreplaced :
  /\ 0 <= app[p] /\ app[p] <= edit[p] /\ edit[p] <= edits
  /\ \A i \in 1 .. Len(up) : p \in DOMAIN up[i] => app[p] <= up[i][p] /\ up[i][p] <= edit[p]
  /\ \A i, j \in 1 .. Len(up) :
       i < j /\ p \in DOMAIN up[i] /\ p \in DOMAIN up[j] => up[i][p] <= up[j][p]

\* What is marked was edited; and unless a report has replaced an edit of the parameter,
\* the value beside the mark is that of the last one.
MarkInv == \A p \in Params :
  modified[p] => edit[p] > 0 /\ (replaced[p] = 0 => value[p] = edit[p])

LEMMA MarkInit == Init => MarkInv
<1> SUFFICES ASSUME Init PROVE \A p \in Params : ~modified[p]
  BY DEF MarkInv
<1> QED BY DEF Init

LEMMA MarkStep ==
  ASSUME TypeInv, MarkInv, [Next]_vars
  PROVE  MarkInv'
<1> USE DEF MarkInv
<1>1. ASSUME NEW p \in Params, NEW inRange \in BOOLEAN, Edit(p, inRange)
      PROVE  MarkInv'
  BY <1>1 DEF Edit, TypeInv
<1>2. CASE EmitControl
  <2>1. \A p \in Params : modified'[p] => modified[p]
    BY <1>2, Zenon DEF EmitControl
  <2>2. UNCHANGED <<value, edit, replaced>>
    BY <1>2 DEF EmitControl
  <2> QED BY <2>1, <2>2
<1>3. CASE ReadStatus
  <2>1. UNCHANGED <<modified, edit>>
    BY <1>3 DEF ReadStatus
  <2> DEFINE D == DOMAIN Head(down)
  <2>2. \A p \in Params :
          /\ p \in D /\ modified[p] => replaced'[p] = edit[p]
          /\ p \notin D => value'[p] = value[p] /\ replaced'[p] = replaced[p]
    BY <1>3 DEF ReadStatus
  <2> HIDE DEF D
  <2>3. ASSUME NEW p \in Params, modified[p]
        PROVE  edit[p] > 0 /\ (replaced'[p] = 0 => value'[p] = edit[p])
    <3>1. edit[p] > 0 /\ (replaced[p] = 0 => value[p] = edit[p])
      BY <2>3
    <3>2. CASE p \in D
      <4>1. replaced'[p] > 0
        BY <2>2, <2>3, <3>1, <3>2
      <4> QED BY <3>1, <4>1
    <3>3. CASE p \notin D
      BY <2>2, <3>1, <3>3
    <3> QED BY <3>2, <3>3
  <2> QED BY <2>1, <2>3
<1>4. CASE Compute \/ ReadControl \/ EmitStatus \/ UNCHANGED vars
  BY <1>4 DEF Compute, ReadControl, EmitStatus, vars, client
<1> QED BY <1>1, <1>2, <1>3, <1>4 DEF Next

\* An edit that was replaced has a number, so a parameter whose edit is replaced stays
\* one of those to which this happened.
LEMMA UnreplacedFalls ==
  ASSUME TypeInv, MarkInv, [Next]_vars
  PROVE  Unreplaced' \subseteq Unreplaced
<1>1. CASE ReadStatus
  <2> SUFFICES ASSUME NEW p \in Steerable, replaced'[p] = 0 PROVE replaced[p] = 0
    BY DEF Unreplaced
  <2>1. p \in Params
    BY ParamAssumption
  <2>2. \/ modified[p] /\ replaced'[p] = edit[p]
        \/ replaced'[p] = replaced[p]
    BY <1>1, <2>1 DEF ReadStatus
  <2>3. modified[p] => edit[p] > 0 /\ edit[p] \in Int
    BY <2>1 DEF MarkInv, TypeInv
  <2> QED BY <2>2, <2>3
<1>2. CASE UNCHANGED replaced
  BY <1>2 DEF Unreplaced
<1>3. CASE ~ReadStatus
  BY <1>2, <1>3 DEF Next, Edit, EmitControl, Compute, ReadControl, EmitStatus, vars, client
<1> QED BY <1>1, <1>3

LEMMA OrderInit == Init => OrderInv
  BY ParamAssumption DEF Init, OrderInv, Unreplaced

LEMMA OrderStep ==
  ASSUME TypeInv, MarkInv, OrderInv, [Next]_vars
  PROVE  OrderInv' /\ \A p \in Unreplaced : app'[p] >= app[p]
<1> DEFINE Goal == OrderInv' /\ \A p \in Unreplaced : app'[p] >= app[p]
<1>u. Unreplaced' \subseteq Unreplaced
  BY UnreplacedFalls
<1>0. \A p \in Unreplaced : p \in Params /\ app[p] \in Int /\ edit[p] \in Int /\ edits \in Nat
  BY ParamAssumption DEF TypeInv, Unreplaced
<1>1. ASSUME NEW q \in Params, NEW inRange \in BOOLEAN, Edit(q, inRange) PROVE Goal
  <2>1. /\ UNCHANGED <<app, up>> /\ edits' = edits + 1
        /\ \A p \in Unreplaced : edit'[p] = edit[p] \/ edit'[p] = edits + 1
    BY <1>1, <1>0 DEF Edit, TypeInv
  <2>2. \A i \in 1 .. Len(up) : IsMessage(up[i])
    BY MessageForm DEF TypeInv
  <2>3. ASSUME NEW p \in Unreplaced
        PROVE  /\ edit[p] <= edit'[p] /\ edit'[p] <= edits'
               /\ \A i \in 1 .. Len(up) : p \in DOMAIN up[i] => up[i][p] <= edit'[p]
    <3>1. edit[p] <= edit'[p] /\ edit'[p] <= edits'
      BY <2>1, <1>0 DEF OrderInv
    <3>2. ASSUME NEW i \in 1 .. Len(up), p \in DOMAIN up[i] PROVE up[i][p] <= edit'[p]
      <4>1. up[i][p] \in Int /\ edit'[p] \in Int /\ up[i][p] <= edit[p]
        BY <2>1, <2>2, <3>2, <1>0 DEF OrderInv, IsMessage
      <4> QED BY <4>1, <3>1, <1>0
    <3> QED BY <3>1, <3>2
  <2> QED BY <2>1, <2>3, <1>0, <1>u DEF OrderInv
<1>2. CASE EmitControl
  <2> DEFINE m == [p \in FirstModified |-> value[p]]
  <2>1. UNCHANGED <<app, edits, edit>> /\ (up' = Append(up, m) \/ up' = up)
    BY <1>2, Zenon DEF EmitControl
  <2>2. \A p \in Unreplaced : p \in DOMAIN m => m[p] = edit[p]
    BY <1>0 DEF FirstModified, Modified, MarkInv, Unreplaced
  <2>3. CASE up' = up
    BY <2>1, <2>3, <1>0, <1>u DEF OrderInv
  <2>4. CASE up' = Append(up, m)
    <3> HIDE DEF m
    <3>1. /\ Len(up') = Len(up) + 1 /\ Len(up) \in Nat /\ up'[Len(up')] = m
          /\ \A i \in 1 .. Len(up) : up'[i] = up[i]
      BY <2>4 DEF TypeInv
    <3> SUFFICES ASSUME NEW p \in Unreplaced
                 PROVE  /\ 0 <= app[p] /\ app[p] <= edit[p] /\ edit[p] <= edits
                        /\ \A i \in 1 .. Len(up') : p \in DOMAIN up'[i] =>
                             app[p] <= up'[i][p] /\ up'[i][p] <= edit[p]
                        /\ \A i, j \in 1 .. Len(up') :
                             i < j /\ p \in DOMAIN up'[i] /\ p \in DOMAIN up'[j] =>
                               up'[i][p] <= up'[j][p]
      BY <2>1, <1>0, <1>u DEF OrderInv
    <3>2. 0 <= app[p] /\ app[p] <= edit[p] /\ edit[p] <= edits /\ app[p] \in Int /\ edit[p] \in Int
      BY <1>0 DEF OrderInv
    <3>3. \A i \in 1 .. Len(up) : p \in DOMAIN up[i] => app[p] <= up[i][p] /\ up[i][p] <= edit[p]
      BY DEF OrderInv
    <3>4. \A i, j \in 1 .. Len(up) :
            i < j /\ p \in DOMAIN up[i] /\ p \in DOMAIN up[j] => up[i][p] <= up[j][p]
      BY DEF OrderInv
    <3>5. p \in DOMAIN m => m[p] = edit[p]
      BY <2>2
    <3>6. ASSUME NEW i \in 1 .. Len(up'), p \in DOMAIN up'[i]
          PROVE  app[p] <= up'[i][p] /\ up'[i][p] <= edit[p]
      <4>1. CASE i = Len(up')
        BY ONLY <3>1, <3>2, <3>5, <3>6, <4>1
      <4>2. CASE i \in 1 .. Len(up)
        BY ONLY <3>1, <3>3, <3>6, <4>2
      <4> QED BY <3>1, <4>1, <4>2
    <3>7. ASSUME NEW i \in 1 .. Len(up'), NEW j \in 1 .. Len(up'), i < j,
                 p \in DOMAIN up'[i], p \in DOMAIN up'[j]
          PROVE  up'[i][p] <= up'[j][p]
      <4>1. i \in 1 .. Len(up)
        BY <3>1, <3>7
      <4>2. CASE j = Len(up')
        <5>1. up'[j][p] = edit[p]
          BY <3>1, <3>5, <3>7, <4>2
        <5> QED BY <3>6, <3>7, <5>1
      <4>3. CASE j \in 1 .. Len(up)
        <5>1. up'[i] = up[i] /\ up'[j] = up[j]
          BY ONLY <3>1, <4>1, <4>3
        <5> QED BY <3>4, <3>7, <4>1, <4>3, <5>1
      <4> QED BY <3>1, <4>2, <4>3
    <3> QED BY <3>2, <3>6, <3>7
  <2> QED BY <2>1, <2>3, <2>4
<1>3. CASE ReadControl
  <2>1. /\ Len(up') = Len(up) - 1 /\ Len(up) \in Nat \ {0}
        /\ \A i \in 1 .. Len(up') : up'[i] = up[i + 1]
        /\ UNCHANGED <<edits, edit>>
    BY <1>3 DEF ReadControl, TypeInv, client
  <2>2. \A p \in Unreplaced : app'[p] = IF p \in DOMAIN up[1] THEN up[1][p] ELSE app[p]
    BY <1>3, <1>0 DEF ReadControl, TypeInv
  <2>3. \A i \in 1 .. Len(up) : IsMessage(up[i])
    BY MessageForm DEF TypeInv
  <2>4. ASSUME NEW p \in Unreplaced
        PROVE  /\ app[p] <= app'[p] /\ app'[p] <= edit[p] /\ app'[p] \in Int
               /\ \A i \in 1 .. Len(up') : p \in DOMAIN up'[i] =>
                    app'[p] <= up'[i][p] /\ up'[i][p] <= edit[p]
               /\ \A i, j \in 1 .. Len(up') :
                    i < j /\ p \in DOMAIN up'[i] /\ p \in DOMAIN up'[j] => up'[i][p] <= up'[j][p]
    <3>1. 1 \in 1 .. Len(up) /\ \A i \in 1 .. Len(up') : i + 1 \in 1 .. Len(up) /\ 1 < i + 1
      BY <2>1
    <3>2. app[p] <= app'[p] /\ app'[p] <= edit[p] /\ app'[p] \in Int
      BY <2>2, <2>3, <3>1, <1>0 DEF OrderInv, IsMessage
    <3>3. ASSUME NEW i \in 1 .. Len(up'), p \in DOMAIN up'[i]
          PROVE  app'[p] <= up'[i][p] /\ up'[i][p] <= edit[p]
      <4>1. p \in DOMAIN up[i + 1] /\ app[p] <= up[i + 1][p] /\ up[i + 1][p] <= edit[p]
        BY <2>1, <3>1, <3>3 DEF OrderInv
      <4>2. p \in DOMAIN up[1] => up[1][p] <= up[i + 1][p]
        BY <3>1, <4>1 DEF OrderInv
      <4> QED BY <2>1, <2>2, <4>1, <4>2
    <3>4. ASSUME NEW i \in 1 .. Len(up'), NEW j \in 1 .. Len(up'),
                 i < j, p \in DOMAIN up'[i], p \in DOMAIN up'[j]
          PROVE  up'[i][p] <= up'[j][p]
      <4>1. i + 1 < j + 1 /\ up'[i] = up[i + 1] /\ up'[j] = up[j + 1]
        BY <2>1, <3>4
      <4> QED BY <3>1, <3>4, <4>1 DEF OrderInv
    <3> QED BY <3>2, <3>3, <3>4
  <2>5. \A p \in Unreplaced : 0 <= app'[p]
    BY <2>4, <1>0 DEF OrderInv
  <2> QED BY <2>1, <2>4, <2>5, <1>0, <1>u DEF OrderInv
<1>4. CASE Compute
  <2>1. \A p \in Unreplaced : app'[p] = app[p]
    BY <1>4, <1>0 DEF Compute, TypeInv, Unreplaced
  <2>2. UNCHANGED <<up, edits, edit>>
    BY <1>4 DEF Compute, client
  <2> QED BY <2>1, <2>2, <1>0, <1>u DEF OrderInv
<1>5. CASE ReadStatus \/ EmitStatus \/ UNCHANGED vars
  <2>1. UNCHANGED <<app, up, edits, edit>>
    BY <1>5 DEF ReadStatus, EmitStatus, vars, client
  <2> QED BY <2>1, <1>0, <1>u DEF OrderInv
<1> QED BY <1>1, <1>2, <1>3, <1>4, <1>5 DEF Next

\* The application never goes back to the value of an earlier edit of a parameter, unless
\* a report has replaced an edit of it before that was sent.
THEOREM Forward == Spec => NeverBack
<1>1. TypeInv /\ MarkInv /\ [Next]_vars => MarkInv'
  BY MarkStep
<1>2. TypeInv /\ MarkInv /\ OrderInv /\ [Next]_vars
        => OrderInv' /\ [\A p \in Steerable : replaced[p] = 0 => app'[p] >= app[p]]_vars
  BY OrderStep DEF Unreplaced
<1> QED BY TypeInit, TypeStep, MarkInit, OrderInit, <1>1, <1>2, PTL DEF Spec, NeverBack
-----------------------------------------------------------------------------
(* Limits.  Every value anywhere is an edit that was accepted or a value   *)
(* of the application's own.                                               *)

LimitInv ==
  /\ \A p \in Params : app[p] >= 0 /\ value[p] >= 0
  /\ \A i \in 1 .. Len(up) : \A p \in DOMAIN up[i] : up[i][p] >= 0
  /\ \A i \in 1 .. Len(down) : \A p \in DOMAIN down[i] : down[i][p] >= 0

LEMMA LimitInit == Init => LimitInv
  BY DEF Init, LimitInv

LEMMA LimitStep ==
  ASSUME TypeInv, LimitInv, [Next]_vars
  PROVE  LimitInv'
<1> USE DEF LimitInv
<1>0. \A p \in Params : app[p] \in Int /\ value[p] \in Int
  BY DEF TypeInv
<1>1. ASSUME NEW q \in Params, NEW inRange \in BOOLEAN, Edit(q, inRange) PROVE LimitInv'
  <2>1. UNCHANGED <<app, up, down>> /\ value' = [value EXCEPT ![q] = edits + 1] /\ edits \in Nat
    BY <1>1, ParamAssumption DEF Edit, TypeInv
  <2>2. \A p \in Params : value'[p] = value[p] \/ value'[p] = edits + 1
    BY <2>1 DEF TypeInv
  <2> QED BY <2>1, <2>2
<1>2. CASE EmitControl
  <2> DEFINE m == [p \in FirstModified |-> value[p]]
  <2>1. UNCHANGED <<app, value, down>> /\ (up' = Append(up, m) \/ up' = up)
    BY <1>2, Zenon DEF EmitControl
  <2>2. \A p \in DOMAIN m : m[p] >= 0
    BY DEF FirstModified, Modified
  <2> HIDE DEF m
  <2>3. CASE up' = Append(up, m)
    <3>1. /\ Len(up') = Len(up) + 1 /\ Len(up) \in Nat /\ up'[Len(up')] = m
          /\ \A i \in 1 .. Len(up) : up'[i] = up[i]
      BY <2>3 DEF TypeInv
    <3> QED BY <2>1, <2>2, <3>1
  <2> QED BY <2>1, <2>3
<1>3. CASE ReadStatus
  <2>1. /\ UNCHANGED <<app, up>> /\ Len(down) \in Nat \ {0} /\ Len(down') = Len(down) - 1
        /\ \A i \in 1 .. Len(down') : i + 1 \in 1 .. Len(down) /\ down'[i] = down[i + 1]
    BY <1>3 DEF ReadStatus, TypeInv
  <2>2. \A p \in Params : value'[p] = IF p \in DOMAIN down[1] THEN down[1][p] ELSE value[p]
    BY <1>3 DEF ReadStatus, TypeInv
  <2>3. \A p \in Params : value'[p] >= 0
    BY <2>1, <2>2
  <2> QED BY <2>1, <2>3
<1>4. CASE Compute
  <2>1. UNCHANGED <<value, up, down>> /\ \A p \in Params : app'[p] = app[p] \/ app'[p] = app[p] + 1
    BY <1>4 DEF Compute, TypeInv, client
  <2> QED BY <2>1, <1>0
<1>5. CASE ReadControl
  <2>1. /\ UNCHANGED <<value, down>> /\ Len(up) \in Nat \ {0} /\ Len(up') = Len(up) - 1
        /\ \A i \in 1 .. Len(up') : i + 1 \in 1 .. Len(up) /\ up'[i] = up[i + 1]
    BY <1>5 DEF ReadControl, TypeInv, client
  <2>2. \A p \in Params : app'[p] = IF p \in DOMAIN up[1] THEN up[1][p] ELSE app[p]
    BY <1>5 DEF ReadControl, TypeInv
  <2>3. \A p \in Params : app'[p] >= 0
    BY <2>1, <2>2
  <2> QED BY <2>1, <2>3
<1>6. CASE EmitStatus
  <2>1. PICK n \in 0 .. NumReports : down' = down \o [i \in 1 .. n |-> Report(i)]
    BY <1>6 DEF EmitStatus
  <2> DEFINE r == [i \in 1 .. n |-> Report(i)]
  <2>2. \A i \in 1 .. n : \A p \in DOMAIN r[i] : r[i][p] >= 0
    BY DEF Report
  <2>3. r \in Seq(Carried) /\ Len(r) = n /\ n \in Nat
    BY NumReportsNat, ReportIsMessage
  <2>4. UNCHANGED <<app, value, up>> /\ down' = down \o r
    BY <1>6, <2>1 DEF EmitStatus, client
  <2> HIDE DEF r
  <2>5. \A i \in 1 .. Len(down') :
          \/ i \in 1 .. Len(down) /\ down'[i] = down[i]
          \/ i - Len(down) \in 1 .. n /\ down'[i] = r[i - Len(down)]
    BY <2>3, <2>4 DEF TypeInv
  <2> QED BY <2>2, <2>4, <2>5
<1>7. CASE UNCHANGED vars
  BY <1>7 DEF vars, client
<1> QED BY <1>1, <1>2, <1>3, <1>4, <1>5, <1>6, <1>7 DEF Next

\* No value outside the limits reaches the application, which would apply it,
\* whatever order the client sends and reads in.
THEOREM Limits == Spec => []RangeKept
<1>1. TypeInv /\ LimitInv /\ [Next]_vars => LimitInv'
  BY LimitStep
<1>2. LimitInv => RangeKept
  BY ParamAssumption DEF LimitInv, RangeKept, Bad
<1> QED BY TypeInit, TypeStep, LimitInit, <1>1, <1>2, PTL DEF Spec

-----------------------------------------------------------------------------
(* Sequences.                                                              *)

LEMMA Elements ==
  ASSUME NEW T, NEW q \in Seq(T)
  PROVE  /\ Len(q) \in Nat /\ DOMAIN q = 1 .. Len(q)
         /\ \A i \in 1 .. Len(q) : q[i] \in T
  OBVIOUS

LEMMA FunctionIsSeq ==
  ASSUME NEW T, NEW n \in Nat, NEW f, f \in [1 .. n -> T]
  PROVE  f \in Seq(T) /\ Len(f) = n
<1>1. f \in UNION {[1 .. k -> T] : k \in Nat}
  BY Zenon
<1>2. f \in Seq(T)
  BY <1>1, SeqDef, Zenon
<1>3. DOMAIN f = 1 .. n
  OBVIOUS
<1> QED BY <1>2, <1>3, LenProperties

LEMMA Joined ==
  ASSUME NEW T, NEW s \in Seq(T), NEW t \in Seq(T)
  PROVE  /\ s \o t \in Seq(T) /\ Len(s \o t) = Len(s) + Len(t)
         /\ \A i \in 1 .. Len(s) : (s \o t)[i] = s[i]
         /\ \A i \in 1 .. Len(t) : (s \o t)[Len(s) + i] = t[i]
<1>1. Len(s) \in Nat /\ Len(t) \in Nat
  OBVIOUS
<1>2. \A i \in 1 .. Len(t) : Len(s) + i \in 1 .. Len(s) + Len(t) /\ Len(s) + i > Len(s)
                             /\ Len(s) + i - Len(s) = i
  BY <1>1
<1>3. \A i \in 1 .. Len(s) : i \in 1 .. Len(s) + Len(t) /\ i <= Len(s)
  BY <1>1
<1> QED BY <1>2, <1>3, ConcatProperties

\* The numbers of S rise from a on and stay below b.
Within(S, a, b) ==
  /\ S \in Seq(Nat) /\ Rising(S)
  /\ \A i \in 1 .. Len(S) : a <= S[i] /\ S[i] < b

LEMMA WithinNothing == \A a, b : Within(<< >>, a, b)
  BY DEF Within, Rising

LEMMA WithinJoin ==
  ASSUME NEW a \in Nat, NEW b \in Nat, NEW c \in Nat, a <= b, b <= c,
         NEW S, NEW T, Within(S, a, b), Within(T, b, c)
  PROVE  Within(S \o T, a, c)
<1> DEFINE J == S \o T
<1>1. S \in Seq(Nat) /\ T \in Seq(Nat) /\ Len(S) \in Nat /\ Len(T) \in Nat
  BY DEF Within
<1>2. /\ J \in Seq(Nat) /\ Len(J) = Len(S) + Len(T)
      /\ \A i \in 1 .. Len(S) : J[i] = S[i]
      /\ \A i \in 1 .. Len(T) : J[Len(S) + i] = T[i]
  BY <1>1, Joined
<1> HIDE DEF J
<1>3. /\ \A i \in 1 .. Len(S) : a <= J[i] /\ J[i] < b
      /\ \A i, j \in 1 .. Len(S) : i < j => J[i] < J[j]
  <2>1. DOMAIN S = 1 .. Len(S)
    BY <1>1, Elements
  <2> QED BY <1>2, <2>1 DEF Within, Rising
<1>4. /\ \A i \in 1 .. Len(T) : b <= J[Len(S) + i] /\ J[Len(S) + i] < c
      /\ \A i, j \in 1 .. Len(T) : i < j => J[Len(S) + i] < J[Len(S) + j]
  <2>1. DOMAIN T = 1 .. Len(T)
    BY <1>1, Elements
  <2> QED BY <1>2, <2>1 DEF Within, Rising
<1>5. \A i \in 1 .. Len(J) : J[i] \in Nat
  BY <1>2, Elements
<1>6. ASSUME NEW i \in 1 .. Len(J) PROVE i \in 1 .. Len(S) \/ \E k \in 1 .. Len(T) : i = Len(S) + k
  <2>1. CASE i <= Len(S)
    BY <1>1, <2>1
  <2>2. CASE i > Len(S)
    <3>1. i - Len(S) \in 1 .. Len(T) /\ i = Len(S) + (i - Len(S))
      BY <1>1, <1>2, <2>2
    <3> QED BY <3>1
  <2> QED BY <1>1, <2>1, <2>2
<1>7. \A i \in 1 .. Len(J) : a <= J[i] /\ J[i] < c
  BY <1>3, <1>4, <1>5, <1>6
<1>8. ASSUME NEW i \in 1 .. Len(J), NEW j \in 1 .. Len(J), i < j PROVE J[i] < J[j]
  <2>1. CASE i \in 1 .. Len(S) /\ j \in 1 .. Len(S)
    BY <1>3, <1>8, <2>1
  <2>2. CASE i \in 1 .. Len(S) /\ j \notin 1 .. Len(S)
    <3>1. J[i] < b /\ b <= J[j]
      BY <1>3, <1>4, <1>6, <2>2
    <3> QED BY <3>1, <1>5
  <2>3. CASE i \notin 1 .. Len(S)
    <3>1. j \notin 1 .. Len(S)
      BY <1>1, <1>8, <2>3
    <3>2. PICK k \in 1 .. Len(T), l \in 1 .. Len(T) : i = Len(S) + k /\ j = Len(S) + l
      BY <1>6, <2>3, <3>1
    <3>3. k < l
      BY <1>1, <1>8, <3>2
    <3> QED BY <1>4, <3>2, <3>3
  <2> QED BY <2>1, <2>2, <2>3
<1>9. DOMAIN J = 1 .. Len(J)
  BY <1>2, Elements
<1>10. Within(J, a, c)
  BY <1>2, <1>7, <1>8, <1>9 DEF Within, Rising
<1> QED BY <1>10 DEF J

LEMMA WithinMore ==
  ASSUME NEW a \in Nat, NEW b \in Nat, NEW c \in Nat, NEW d \in Nat, a <= b, c <= d,
         NEW S, Within(S, b, c)
  PROVE  Within(S, a, d)
<1>1. \A i \in 1 .. Len(S) : S[i] \in Nat
  BY Elements DEF Within
<1> QED BY <1>1 DEF Within

LEMMA WithinPart ==
  ASSUME NEW a \in Nat, NEW b \in Nat, NEW S, Within(S, a, b),
         NEW m \in Nat \ {0}, NEW n \in Nat, n <= Len(S)
  PROVE  /\ Within(SubSeq(S, m, n), a, b)
         /\ m <= n => Within(SubSeq(S, m, n), S[m], b)
         /\ m <= n /\ n < Len(S) => Within(SubSeq(S, m, n), a, S[n + 1])
         /\ Len(SubSeq(S, m, n)) = IF m <= n THEN n - m + 1 ELSE 0
<1> DEFINE P == SubSeq(S, m, n)
<1>1. S \in Seq(Nat) /\ Len(S) \in Nat /\ DOMAIN S = 1 .. Len(S)
  BY Elements DEF Within
<1>2. \A i \in m .. n : S[i] \in Nat
  BY <1>1, Elements
<1>3. /\ P \in Seq(Nat) /\ Len(P) = (IF m <= n THEN n - m + 1 ELSE 0)
      /\ \A i \in 1 .. n - m + 1 : P[i] = S[m + i - 1]
  BY <1>1, <1>2, SubSeqProperties
<1> HIDE DEF P
<1>4. CASE m > n
  <2>1. Len(P) = 0
    BY <1>3, <1>4
  <2>2. P = << >>
    BY <1>3, <2>1, EmptySeq
  <2> QED BY <1>3, <1>4, <2>2, WithinNothing DEF P
<1>5. CASE m <= n
  <2>0. DOMAIN P = 1 .. Len(P) /\ Len(P) = n - m + 1
    BY <1>3, <1>5, Elements
  <2>1. ASSUME NEW i \in 1 .. n - m + 1
        PROVE  /\ m + i - 1 \in m .. n /\ m + i - 1 \in 1 .. Len(S) /\ P[i] = S[m + i - 1]
               /\ i = 1 \/ m < m + i - 1
    <3>1. m + i - 1 \in m .. n /\ (i = 1 \/ m < m + i - 1)
      BY <1>5
    <3>2. m .. n \subseteq 1 .. Len(S)
      BY <1>1
    <3> QED BY <1>3, <3>1, <3>2
  <2>2. \A i, j \in 1 .. Len(S) : i < j => S[i] < S[j]
    BY <1>1 DEF Within, Rising
  <2>3. \A i \in 1 .. Len(S) : a <= S[i] /\ S[i] < b /\ S[i] \in Nat
    BY <1>1, Elements DEF Within
  <2>4. \A i, j \in 1 .. n - m + 1 : i < j => P[i] < P[j]
    <3>1. \A i, j \in 1 .. n - m + 1 : i < j => m + i - 1 < m + j - 1
      OBVIOUS
    <3> QED BY <2>1, <2>2, <3>1
  <2>5. \A i \in 1 .. n - m + 1 : a <= P[i] /\ P[i] < b
    BY <2>1, <2>3
  <2>6. \A i \in 1 .. n - m + 1 : S[m] <= P[i]
    <3> SUFFICES ASSUME NEW i \in 1 .. n - m + 1 PROVE S[m] <= P[i]
      OBVIOUS
    <3>1. m \in 1 .. Len(S)
      BY <1>1, <1>5
    <3>2. CASE i = 1
      BY <2>1, <2>3, <3>1, <3>2
    <3>3. CASE m < m + i - 1
      <4>1. S[m] < S[m + i - 1] /\ S[m] \in Nat /\ S[m + i - 1] \in Nat
        BY <2>1, <2>2, <2>3, <3>1, <3>3
      <4> QED BY <2>1, <4>1
    <3> QED BY <2>1, <3>2, <3>3
  <2>7. ASSUME n < Len(S) PROVE \A i \in 1 .. n - m + 1 : P[i] < S[n + 1]
    <3>1. n + 1 \in 1 .. Len(S) /\ \A k \in m .. n : k < n + 1
      BY <1>1, <2>7
    <3> QED BY <2>1, <2>2, <3>1
  <2> QED BY <1>3, <1>5, <2>0, <2>4, <2>5, <2>6, <2>7 DEF Within, Rising, P
<1> QED BY <1>1, <1>4, <1>5

LEMMA WithinSteps ==
  ASSUME NEW a \in Nat, NEW S \in Seq(Nat), \A i \in 1 .. Len(S) : S[i] = a + i - 1
  PROVE  Within(S, a, a + Len(S))
<1>1. Len(S) \in Nat /\ DOMAIN S = 1 .. Len(S)
  BY Elements
<1>2. \A i \in 1 .. Len(S) : a <= S[i] /\ S[i] < a + Len(S)
  <2> SUFFICES ASSUME NEW i \in 1 .. Len(S) PROVE a <= S[i] /\ S[i] < a + Len(S)
    OBVIOUS
  <2>1. S[i] = a + i - 1
    OBVIOUS
  <2> QED BY <1>1, <2>1
<1>3. ASSUME NEW i \in 1 .. Len(S), NEW j \in 1 .. Len(S), i < j PROVE S[i] < S[j]
  <2>1. S[i] = a + i - 1 /\ S[j] = a + j - 1
    OBVIOUS
  <2> QED BY <1>1, <1>3, <2>1
<1> QED BY <1>1, <1>2, <1>3 DEF Within, Rising

-----------------------------------------------------------------------------
(* The logs.  File and memory together hold the keys in turn.              *)

Entries == [key : Nat, sent : BOOLEAN]
Logs    == [mem : Seq(Entries), file : Seq(Nat), key : Nat]

Kept(log) ==
  /\ log \in Logs /\ log.key = Len(log.file) + Len(log.mem)
  /\ \A i \in 1 .. Len(log.file) : log.file[i] = i - 1
  /\ \A i \in 1 .. Len(log.mem) : log.mem[i].key = Len(log.file) + i - 1

AllSent(log) == \A i \in 1 .. Len(log.mem) : log.mem[i].sent

\* The first k entries in memory are marked as sent, and no others.
SentUpTo(log, k) ==
  k \in 0 .. Len(log.mem) /\ \A i \in 1 .. Len(log.mem) : log.mem[i].sent <=> i <= k

LEMMA KeysAre ==
  ASSUME NEW mem \in Seq(Entries)
  PROVE  /\ Keys(mem) \in Seq(Nat) /\ Len(Keys(mem)) = Len(mem)
         /\ \A i \in 1 .. Len(mem) : Keys(mem)[i] = mem[i].key
<1>1. DOMAIN mem = 1 .. Len(mem) /\ Len(mem) \in Nat /\ \A i \in 1 .. Len(mem) : mem[i] \in Entries
  BY Elements
<1>2. Keys(mem) = [i \in 1 .. Len(mem) |-> mem[i].key]
  BY <1>1 DEF Keys
<1>3. Keys(mem) \in [1 .. Len(mem) -> Nat]
  BY <1>1, <1>2 DEF Entries
<1> QED BY <1>1, <1>2, <1>3, FunctionIsSeq

LEMMA KeptParts ==
  ASSUME NEW log, Kept(log)
  PROVE  /\ Len(log.file) \in Nat /\ Len(log.mem) \in Nat /\ log.key \in Nat
         /\ log.mem \in Seq(Entries) /\ log.file \in Seq(Nat) /\ log \in Logs
         /\ log.key = Len(log.file) + Len(log.mem)
<1>1. /\ log.file \in Seq(Nat) /\ log.mem \in Seq(Entries) /\ log.key \in Nat
      /\ log.key = Len(log.file) + Len(log.mem) /\ log \in Logs
  BY DEF Kept, Logs
<1> QED BY <1>1, Elements

LEMMA KeptKeys ==
  ASSUME NEW log, Kept(log)
  PROVE  /\ Keys(log.mem) \in Seq(Nat) /\ Len(Keys(log.mem)) = Len(log.mem)
         /\ \A i \in 1 .. Len(log.mem) : Keys(log.mem)[i] = Len(log.file) + i - 1
<1>1. log.mem \in Seq(Entries)
  BY KeptParts
<1>2. \A i \in 1 .. Len(log.mem) : log.mem[i].key = Len(log.file) + i - 1
  BY DEF Kept
<1> QED BY <1>1, <1>2, KeysAre

LEMMA Parts ==
  ASSUME NEW log, Kept(log)
  PROVE  /\ Within(log.file, 0, Len(log.file)) /\ Within(Keys(log.mem), Len(log.file), log.key)
         /\ Len(log.file) <= log.key
<1> DEFINE F == log.file
           K == Keys(log.mem)
           n == Len(log.mem)
<1>1. Len(F) \in Nat /\ n \in Nat /\ F \in Seq(Nat) /\ log.key = Len(F) + n
  BY KeptParts
<1>2. K \in Seq(Nat) /\ Len(K) = n /\ \A i \in 1 .. Len(K) : K[i] = Len(F) + i - 1
  BY KeptKeys
<1>3. \A i \in 1 .. Len(F) : F[i] = i - 1
  BY DEF Kept
<1> HIDE DEF F, K, n
<1>4. \A i \in 1 .. Len(F) : F[i] = 0 + i - 1
  BY <1>1, <1>3
<1>5. Within(F, 0, 0 + Len(F)) /\ Within(K, Len(F), Len(F) + Len(K))
  BY <1>1, <1>2, <1>4, WithinSteps
<1>6. 0 + Len(F) = Len(F) /\ Len(F) + Len(K) = log.key /\ Len(F) <= log.key
  BY <1>1, <1>2
<1>7. Within(F, 0, Len(F)) /\ Within(K, Len(F), log.key) /\ Len(F) <= log.key
  BY <1>5, <1>6
<1> QED BY <1>7 DEF F, K

LEMMA WrittenIs ==
  ASSUME NEW log, Kept(log)
  PROVE  Written(log) = Before(log.key)
<1> DEFINE F == log.file
           K == Keys(log.mem)
           n == Len(log.mem)
           W == F \o K
<1>1. Len(F) \in Nat /\ n \in Nat /\ F \in Seq(Nat) /\ log.key = Len(F) + n
  BY KeptParts
<1>2. K \in Seq(Nat) /\ Len(K) = n /\ \A i \in 1 .. n : K[i] = Len(F) + i - 1
  BY KeptKeys
<1>3. \A i \in 1 .. Len(F) : F[i] = i - 1
  BY DEF Kept
<1> HIDE DEF F, K, n
<1>4. /\ W \in Seq(Nat) /\ Len(W) = Len(F) + n
      /\ \A i \in 1 .. Len(F) : W[i] = F[i]
      /\ \A i \in 1 .. n : W[Len(F) + i] = K[i]
  <2>1. /\ W \in Seq(Nat) /\ Len(W) = Len(F) + Len(K)
        /\ \A i \in 1 .. Len(F) : W[i] = F[i]
        /\ \A i \in 1 .. Len(K) : W[Len(F) + i] = K[i]
    <3>1. F \in Seq(Nat) /\ K \in Seq(Nat)
      BY <1>1, <1>2
    <3> QED BY <3>1, Joined
  <2> QED BY <1>2, <2>1
<1> HIDE DEF W
<1>5. ASSUME NEW i \in 1 .. log.key PROVE W[i] = i - 1
  <2>1. CASE i <= Len(F)
    <3>1. i \in 1 .. Len(F)
      BY <1>1, <2>1
    <3> QED BY <1>3, <1>4, <3>1
  <2>2. CASE i > Len(F)
    <3>1. i - Len(F) \in 1 .. n /\ i = Len(F) + (i - Len(F))
      BY <1>1, <2>2
    <3>2. W[Len(F) + (i - Len(F))] = Len(F) + (i - Len(F)) - 1
      BY <1>2, <1>4, <3>1
    <3> QED BY <1>1, <3>1, <3>2
  <2> QED BY <1>1, <2>1, <2>2
<1>6. W = [i \in DOMAIN W |-> W[i]] /\ DOMAIN W = 1 .. log.key
  BY <1>1, <1>4, Elements
<1>7. W = [i \in 1 .. log.key |-> i - 1]
  BY <1>5, <1>6
<1> QED BY <1>7 DEF Written, Before, W, F, K

LEMMA SaveKept ==
  ASSUME NEW log, Kept(log)
  PROVE  Kept(Save(log)) /\ Save(log).mem = << >> /\ Save(log).key = log.key
<1>1. /\ log.file \in Seq(Nat) /\ log.mem \in Seq(Entries) /\ log.key \in Nat
      /\ Len(log.file) \in Nat /\ Len(log.mem) \in Nat /\ log \in Logs
  BY KeptParts
<1>2. Save(log).file = log.file \o Keys(log.mem) /\ Save(log).mem = << >> /\ Save(log).key = log.key
  BY <1>1 DEF Save, Logs
<1>3. Written(log) = [i \in 1 .. log.key |-> i - 1]
  BY WrittenIs DEF Before
<1>4. Save(log).file = [i \in 1 .. log.key |-> i - 1]
  BY <1>2, <1>3 DEF Written
<1>5. [i \in 1 .. log.key |-> i - 1] \in [1 .. log.key -> Nat]
  BY <1>1
<1>6. Save(log).file \in Seq(Nat) /\ Len(Save(log).file) = log.key
  BY <1>1, <1>4, <1>5, FunctionIsSeq
<1>7. Save(log) \in Logs
  <2>1. Save(log) = [log EXCEPT !.file = log.file \o Keys(log.mem), !.mem = << >>]
    BY DEF Save
  <2>2. log.file \o Keys(log.mem) \in Seq(Nat)
    BY <1>2, <1>6
  <2>3. << >> \in Seq(Entries)
    OBVIOUS
  <2> QED BY <1>1, <2>1, <2>2, <2>3 DEF Logs
<1>8. Len(Save(log).mem) = 0
  BY <1>2
<1>9. \A i \in 1 .. log.key : Save(log).file[i] = i - 1
  BY <1>4
<1>10. \A i \in 1 .. Len(Save(log).mem) : Save(log).mem[i].key = Len(Save(log).file) + i - 1
  BY <1>8
<1>11. Save(log).key = Len(Save(log).file) + Len(Save(log).mem)
  BY <1>1, <1>2, <1>6, <1>8
<1>12. \A i \in 1 .. Len(Save(log).file) : Save(log).file[i] = i - 1
  BY <1>6, <1>9
<1>13. Kept(Save(log))
  BY <1>7, <1>10, <1>11, <1>12, Zenon DEF Kept
<1> QED BY <1>2, <1>13

LEMMA AddKept ==
  ASSUME NEW log, Kept(log), NEW sent \in BOOLEAN
  PROVE  LET new == AddEntry(log, sent) n == Len(new.mem)
         IN  /\ Kept(new) /\ new.key = log.key + 1
             /\ n \in Nat \ {0} /\ new.mem[n].sent = sent
             /\ n = 1 \/ (n = Len(log.mem) + 1 /\ new.file = log.file)
             /\ Len(log.mem) # MaxMem => n = Len(log.mem) + 1
             /\ \A i \in 1 .. n - 1 : new.mem[i] = log.mem[i]
<1> DEFINE room == MakeRoom(log)
           e == [key |-> log.key, sent |-> sent]
           new == AddEntry(log, sent)
<1>1. /\ Kept(room) /\ room.key = log.key /\ (room = log \/ room.mem = << >>)
      /\ Len(log.mem) # MaxMem => room = log
  BY SaveKept DEF MakeRoom
<1>2. /\ room \in Logs /\ room.file \in Seq(Nat) /\ room.mem \in Seq(Entries) /\ room.key \in Nat
      /\ Len(room.file) \in Nat /\ Len(room.mem) \in Nat
      /\ room.key = Len(room.file) + Len(room.mem)
  BY <1>1, KeptParts
<1>3. e \in Entries
  BY <1>1, <1>2 DEF Entries
<1>4. new = [room EXCEPT !.mem = Append(room.mem, e), !.key = room.key + 1]
  BY DEF AddEntry
<1> HIDE DEF room, e, new
<1>5. /\ Append(room.mem, e) \in Seq(Entries) /\ Len(Append(room.mem, e)) = Len(room.mem) + 1
      /\ Append(room.mem, e)[Len(room.mem) + 1] = e
      /\ \A i \in 1 .. Len(room.mem) : Append(room.mem, e)[i] = room.mem[i]
  BY <1>2, <1>3, AppendProperties
<1>6. /\ new \in Logs /\ new.mem = Append(room.mem, e) /\ new.key = room.key + 1
      /\ new.file = room.file
  <2> DEFINE M == Append(room.mem, e)
             k == room.key + 1
  <2>0. k \in Nat
    <3>1. room.key \in Nat
      BY <1>2
    <3> QED BY <3>1
  <2>1. M \in Seq(Entries) /\ k \in Nat /\ new = [room EXCEPT !.mem = M, !.key = k]
    BY <1>4, <1>5, <2>0, Zenon
  <2> HIDE DEF M, k
  <2>2. new \in Logs /\ new.mem = M /\ new.key = k /\ new.file = room.file
    BY <1>2, <2>1 DEF Logs
  <2> QED BY <2>2 DEF M, k
<1>7. e.key = Len(room.file) + Len(room.mem) /\ e.sent = sent
  BY <1>1 DEF e, Kept
<1>8. ASSUME NEW i \in 1 .. Len(new.mem) PROVE new.mem[i].key = Len(new.file) + i - 1
  <2>1. CASE i \in 1 .. Len(room.mem)
    BY <1>1, <1>5, <1>6, <2>1 DEF Kept
  <2>2. CASE i = Len(room.mem) + 1
    <3>1. new.mem[i] = e /\ Len(new.file) = Len(room.file)
      BY <1>5, <1>6, <2>2
    <3>2. Len(room.file) + Len(room.mem) = Len(room.file) + i - 1
      BY <1>2, <2>2
    <3> QED BY <1>7, <3>1, <3>2
  <2> QED BY <1>2, <1>5, <1>6, <2>1, <2>2
<1>9. Kept(new)
  <2>1. \A i \in 1 .. Len(new.file) : new.file[i] = i - 1
    BY <1>1, <1>6 DEF Kept
  <2>2. new.key = Len(new.file) + Len(new.mem)
    <3>1. Len(new.mem) = Len(room.mem) + 1 /\ Len(new.file) = Len(room.file)
      BY <1>5, <1>6
    <3>2. new.key = Len(room.file) + Len(room.mem) + 1
      BY <1>2, <1>6
    <3>3. Len(room.file) \in Nat /\ Len(room.mem) \in Nat
      BY <1>2
    <3>4. \A a, b \in Nat : a + b + 1 = a + (b + 1)
      OBVIOUS
    <3>5. Len(room.file) + Len(room.mem) + 1 = Len(room.file) + (Len(room.mem) + 1)
      BY <3>3, <3>4, Zenon
    <3> QED BY <3>1, <3>2, <3>5, Zenon
  <2> QED BY <1>6, <1>8, <2>1, <2>2, Zenon DEF Kept
<1>10. room = log \/ Len(room.mem) = 0
  BY <1>1
<1> QED BY <1>1, <1>2, <1>5, <1>6, <1>7, <1>9, <1>10 DEF new

LEMMA MarkedKept ==
  ASSUME NEW log, Kept(log)
  PROVE  /\ Kept(Marked(log)) /\ AllSent(Marked(log)) /\ Marked(log).key = log.key
         /\ Marked(log).file = log.file /\ Len(Marked(log).mem) = Len(log.mem)
<1> DEFINE mem == [i \in 1 .. Len(log.mem) |-> [log.mem[i] EXCEPT !.sent = TRUE]]
<1>1. /\ log \in Logs /\ log.mem \in Seq(Entries) /\ Len(log.mem) \in Nat
      /\ DOMAIN log.mem = 1 .. Len(log.mem) /\ \A i \in 1 .. Len(log.mem) : log.mem[i] \in Entries
  BY KeptParts, Elements
<1>2. Marked(log) = [log EXCEPT !.mem = mem]
  BY <1>1 DEF Marked
<1>3. \A i \in 1 .. Len(log.mem) : mem[i] \in Entries /\ mem[i].sent /\ mem[i].key = log.mem[i].key
  BY <1>1 DEF Entries
<1>4. mem \in [1 .. Len(log.mem) -> Entries]
  BY <1>3
<1> HIDE DEF mem
<1>5. mem \in Seq(Entries) /\ Len(mem) = Len(log.mem)
  BY <1>1, <1>4, FunctionIsSeq
<1>6. /\ Marked(log) \in Logs /\ Marked(log).mem = mem /\ Marked(log).key = log.key
      /\ Marked(log).file = log.file
  BY <1>1, <1>2, <1>5 DEF Logs
<1> QED BY <1>3, <1>5, <1>6 DEF Kept, AllSent

LEMMA UnsentIs ==
  ASSUME NEW log, Kept(log), NEW k, SentUpTo(log, k)
  PROVE  /\ Unsent(log.mem) \in Seq(Entries) /\ Len(Unsent(log.mem)) = Len(log.mem) - k
         /\ \A i \in 1 .. Len(log.mem) - k : Unsent(log.mem)[i] = log.mem[k + i]
<1> DEFINE n == Len(log.mem)
           U == {i \in DOMAIN log.mem : ~log.mem[i].sent}
           place(r) == CHOOSE i \in U : Cardinality({j \in U : j < i}) = r - 1
<1>1. /\ n \in Nat /\ k \in 0 .. n /\ DOMAIN log.mem = 1 .. n
      /\ \A i \in 1 .. n : log.mem[i] \in Entries
  BY KeptParts, Elements DEF SentUpTo
<1>2. U = k + 1 .. n
  BY <1>1 DEF SentUpTo
<1>3. Unsent(log.mem) = [r \in 1 .. Cardinality(U) |-> log.mem[place(r)]]
  BY DEF Unsent
<1> HIDE DEF U
<1>4. Cardinality(U) = n - k
  <2> HIDE DEF n
  <2>1. k + 1 \in Int /\ n \in Int
    BY <1>1
  <2>2. Cardinality(k + 1 .. n) = IF k + 1 > n THEN 0 ELSE n - (k + 1) + 1
    BY <2>1, FS_Interval, Zenon
  <2> QED BY <1>1, <1>2, <2>2
<1>5. ASSUME NEW i \in U PROVE Cardinality({j \in U : j < i}) = i - k - 1
  <2> HIDE DEF n
  <2>1. {j \in U : j < i} = k + 1 .. i - 1
    BY <1>1, <1>2
  <2>2. k + 1 \in Int /\ i - 1 \in Int /\ i >= k + 1
    BY <1>1, <1>2
  <2>3. Cardinality(k + 1 .. i - 1) = IF k + 1 > i - 1 THEN 0 ELSE i - 1 - (k + 1) + 1
    BY <2>2, FS_Interval, Zenon
  <2>4. k \in Nat /\ i \in Int
    BY <1>1, <2>2, <1>2
  <2>5. Cardinality(k + 1 .. i - 1) = i - k - 1
    BY <2>2, <2>3, <2>4
  <2> QED BY <2>1, <2>5, Zenon
<1>6. ASSUME NEW r \in 1 .. n - k PROVE place(r) = k + r
  <2>1. k + r \in U /\ Cardinality({j \in U : j < k + r}) = r - 1
    BY <1>1, <1>2, <1>5
  <2>2. place(r) \in U /\ Cardinality({j \in U : j < place(r)}) = r - 1
    BY <2>1
  <2> HIDE DEF place
  <2>3. place(r) - k - 1 = r - 1 /\ place(r) \in k + 1 .. n
    BY <1>2, <1>5, <2>2
  <2> QED BY <1>1, <2>3
<1> HIDE DEF place
<1>7. Unsent(log.mem) = [r \in 1 .. n - k |-> log.mem[k + r]]
  BY <1>3, <1>4, <1>6
<1>8. \A r \in 1 .. n - k : k + r \in 1 .. n
  BY <1>1
<1>9. Unsent(log.mem) \in [1 .. n - k -> Entries]
  BY <1>1, <1>7, <1>8
<1>10. n - k \in Nat
  BY <1>1
<1> QED BY <1>7, <1>9, <1>10, FunctionIsSeq
-----------------------------------------------------------------------------
(* Packing: what is sent comes before what is left.                        *)

LEMMA MessageStarts ==
  ASSUME NEW L \in Nat, NEW P \in Nat \ {0}, NEW j \in Nat \ {0}, j <= (L + P - 1) \div P
  PROVE  (j - 1) * P \in Nat /\ (j - 1) * P < L
<1> DEFINE M == (L + P - 1) \div P
<1>1. M \in Nat /\ M * P <= L + P - 1
  OBVIOUS
<1> HIDE DEF M
<1>2. j * P <= M * P
  BY <1>1 DEF M
<1>3. (j - 1) * P = j * P - P /\ j * P \in Nat
  OBVIOUS
<1>4. (j - 1) * P \in Nat
  <2>1. j - 1 \in Nat
    OBVIOUS
  <2> QED BY <2>1
<1>5. M * P \in Int
  BY <1>1
<1> QED BY <1>1, <1>2, <1>3, <1>4, <1>5

LEMMA LimitType == LimitAt \in Nat /\ (MaxLogMsg + 1) * PerMsg \in Nat
<1>1. MaxLogMsg + 1 \in Nat /\ PerMsg \in Nat
  BY LogAssumption
<1> QED BY <1>1 DEF LimitAt

\* What is sent ends before n, what is left begins there.
LEMMA Cut ==
  ASSUME NEW a \in Nat, NEW b \in Nat, a <= b, NEW E, Within(E, a, b),
         NEW m \in Nat, NEW n \in Nat, m < n, n <= Len(E)
  PROVE  /\ E[n] \in a .. b /\ Within(SubSeq(E, 1, m), a, E[n])
         /\ Within(SubSeq(E, n, Len(E)), E[n], b) /\ Within(<<E[n]>>, E[n], b)
<1>1. E \in Seq(Nat) /\ Len(E) \in Nat /\ DOMAIN E = 1 .. Len(E)
  BY Elements DEF Within
<1>2. \A i \in 1 .. Len(E) : E[i] \in Nat /\ a <= E[i] /\ E[i] < b
  BY <1>1, Elements DEF Within
<1>3. \A i, j \in 1 .. Len(E) : i < j => E[i] < E[j]
  BY <1>1 DEF Within, Rising
<1>4. n \in 1 .. Len(E) /\ m + 1 \in 1 .. Len(E) /\ m < Len(E) /\ m <= Len(E)
  BY <1>1
<1>5. E[n] \in Nat /\ a <= E[n] /\ E[n] < b
  BY <1>2, <1>4
<1>6. Within(SubSeq(E, 1, m), a, E[n])
  <2>1. CASE m = 0
    <3>1. Len(SubSeq(E, 1, m)) = 0 /\ Within(SubSeq(E, 1, m), a, b)
      BY <1>1, <2>1, WithinPart
    <3>2. SubSeq(E, 1, m) = << >>
      BY <3>1, EmptySeq DEF Within
    <3> QED BY <3>2, WithinNothing
  <2>2. CASE m # 0
    <3>1. 1 <= m
      BY <2>2
    <3>2. Within(SubSeq(E, 1, m), a, E[m + 1])
      BY <1>4, <3>1, WithinPart
    <3>3. E[m + 1] \in Nat /\ E[m + 1] <= E[n]
      <4>1. E[m + 1] \in Nat
        BY <1>2, <1>4
      <4>2. CASE m + 1 = n
        BY <1>5, <4>2
      <4>3. CASE m + 1 < n
        <5>1. E[m + 1] < E[n]
          BY <1>3, <1>4, <4>3
        <5> QED BY <1>5, <4>1, <5>1
      <4> QED BY <4>1, <4>2, <4>3
    <3> QED BY <1>5, <3>2, <3>3, WithinMore
  <2> QED BY <2>1, <2>2
<1>7. Within(SubSeq(E, n, Len(E)), E[n], b)
  <2>1. n \in Nat \ {0} /\ n <= Len(E) /\ Len(E) <= Len(E)
    BY <1>1, <1>4
  <2> QED BY <1>1, <2>1, WithinPart
<1>8. Within(<<E[n]>>, E[n], b)
  <2> DEFINE e == E[n]
  <2>1. e \in Nat /\ e < b
    BY <1>5
  <2> HIDE DEF e
  <2>2. Within(<<e>>, e, b)
    BY <2>1 DEF Within, Rising
  <2> QED BY <2>2 DEF e
<1>9. E[n] \in a .. b
  BY <1>5
<1> QED BY <1>6, <1>7, <1>8, <1>9

LEMMA PackSplits ==
  ASSUME NEW a \in Nat, NEW b \in Nat, a <= b, NEW E, Within(E, a, b),
         NEW r \in PackChoices(E)
  PROVE  \E c \in a .. b : Within(r.sent, a, c) /\ Within(r.rest, c, b)
<1>1. E \in Seq(Nat) /\ Len(E) \in Nat
  BY Elements DEF Within
<1>2. CASE r = Packed(E) /\ Len(E) >= LimitAt + 2
  <2> DEFINE m == LimitAt
             L == Len(E)
  <2>0. m \in Nat /\ L \in Nat /\ L >= m + 2
    BY <1>1, <1>2, LimitType
  <2>1. r.sent = Part(E, 1, m) /\ r.rest = Part(E, m + 3, L)
    BY <1>2 DEF Packed
  <2> HIDE DEF m
  <2>2. r.sent = SubSeq(E, 1, m) /\ r.rest = SubSeq(E, m + 3, L)
    <3>1. (IF m < Len(E) THEN m ELSE Len(E)) = m /\ (IF L < Len(E) THEN L ELSE Len(E)) = L
      BY <2>0
    <3> QED BY <2>1, <3>1 DEF Part
  <2>3. CASE m + 3 <= L
    <3>1. /\ E[m + 3] \in a .. b /\ Within(SubSeq(E, 1, m), a, E[m + 3])
          /\ Within(SubSeq(E, m + 3, Len(E)), E[m + 3], b)
      <4>1. m \in Nat /\ m + 3 \in Nat /\ m < m + 3 /\ m + 3 <= Len(E)
        BY <2>0, <2>3
      <4> QED BY <4>1, Cut
    <3> QED BY <2>2, <3>1
  <2>4. CASE m + 3 > L
    <3>1. /\ Within(SubSeq(E, 1, m), a, b)
      <4>1. m \in Nat /\ m <= Len(E) /\ 1 \in Nat \ {0}
        BY <2>0
      <4> QED BY <4>1, WithinPart
    <3>2. SubSeq(E, m + 3, L) = << >>
      <4>1. m + 3 \in Nat \ {0} /\ L \in Nat /\ L <= Len(E) /\ ~(m + 3 <= L)
        BY <2>0, <2>4
      <4>2. Len(SubSeq(E, m + 3, L)) = 0 /\ Within(SubSeq(E, m + 3, L), a, b)
        BY <4>1, WithinPart
      <4> QED BY <4>2, EmptySeq DEF Within
    <3>3. b \in a .. b
      OBVIOUS
    <3> QED BY <2>2, <3>1, <3>2, <3>3, WithinNothing
  <2> QED BY <2>0, <2>3, <2>4
<1>3. CASE r = Packed(E) /\ ~(Len(E) >= LimitAt + 2)
  <2>1. r.sent = E /\ r.rest = << >> /\ b \in a .. b
    BY <1>3 DEF Packed
  <2> QED BY <2>1, WithinNothing
<1>4. CASE r \in Failing(E)
  <2> DEFINE L == Len(E)
             M == (L + PerMsg - 1) \div PerMsg
  <2>0. PerMsg \in Nat \ {0} /\ L \in Nat /\ M \in Int
    BY <1>1, LogAssumption
  <2>1. PICK j \in 1 .. M : r = PackFails(E, j)
    BY <1>4 DEF Failing, Messages
  <2>2. j \in Nat \ {0} /\ j <= M
    BY <2>0, <2>1
  <2> DEFINE m == (j - 1) * PerMsg
             n == j * PerMsg
  <2>3. m \in Nat /\ m < L
    BY <2>0, <2>2, MessageStarts
  <2>4. n \in Nat /\ m < n + 1
    <3>1. m = n - PerMsg /\ n \in Nat
      BY <2>0, <2>2
    <3> QED BY <2>0, <3>1
  <2>5. r.sent = Part(E, 1, m) /\ r.rest = IF j < M THEN Part(E, n + 1, L) ELSE <<E[L]>>
    BY <2>1 DEF PackFails, Messages
  <2>6. j < M => n < L
    <3> HAVE j < M
    <3>1. j + 1 \in Nat \ {0} /\ j + 1 <= M /\ (j + 1) - 1 = j
      BY <2>0, <2>2
    <3> QED BY <2>0, <3>1, MessageStarts
  <2> HIDE DEF m, n, M
  <2>7. r.sent = SubSeq(E, 1, m) /\ r.rest = IF j < M THEN SubSeq(E, n + 1, L) ELSE <<E[L]>>
    <3>1. (IF m < Len(E) THEN m ELSE Len(E)) = m /\ (IF L < Len(E) THEN L ELSE Len(E)) = L
      BY <2>0, <2>3
    <3> QED BY <2>5, <3>1 DEF Part
  <2>8. CASE j < M
    <3>1. m \in Nat /\ n + 1 \in Nat /\ m < n + 1 /\ n + 1 <= Len(E)
      BY <2>0, <2>3, <2>4, <2>6, <2>8
    <3>2. /\ E[n + 1] \in a .. b /\ Within(SubSeq(E, 1, m), a, E[n + 1])
          /\ Within(SubSeq(E, n + 1, Len(E)), E[n + 1], b)
      BY <3>1, Cut
    <3> QED BY <2>7, <2>8, <3>2
  <2>9. CASE ~(j < M)
    <3>1. m \in Nat /\ L \in Nat /\ m < L /\ L <= Len(E)
      BY <2>0, <2>3
    <3>2. /\ E[L] \in a .. b /\ Within(SubSeq(E, 1, m), a, E[L])
          /\ Within(<<E[L]>>, E[L], b)
      BY <3>1, Cut
    <3> QED BY <2>7, <2>9, <3>2
  <2> QED BY <2>8, <2>9
<1> QED BY <1>2, <1>3, <1>4 DEF PackChoices

LEMMA PackNothing == PackChoices(<< >>) = {Packed(<< >>)} /\ Packed(<< >>) = [sent |-> << >>, rest |-> << >>]
<1>1. Packed(<< >>) = [sent |-> << >>, rest |-> << >>]
  BY LimitType DEF Packed
<1>2. Messages(<< >>) = 0
  <2>1. PerMsg \in Nat \ {0}
    BY LogAssumption
  <2>2. \A p \in Nat \ {0} : (0 + p - 1) \div p = 0
    OBVIOUS
  <2> QED BY <2>1, <2>2 DEF Messages
<1>3. Failing(<< >>) = {}
  BY <1>2 DEF Failing
<1> QED BY <1>1, <1>3 DEF PackChoices

\* A log below the limit is sent whole unless a message fails.
LEMMA PackAll ==
  ASSUME NEW E, Len(E) \in Nat, Len(E) < LimitAt + 2
  PROVE  Packed(E) = [sent |-> E, rest |-> << >>]
  BY LimitType DEF Packed
-----------------------------------------------------------------------------
(* What Emit_log sends.                                                    *)

LEMMA UnsentKeys ==
  ASSUME NEW log, Kept(log), NEW k, SentUpTo(log, k)
  PROVE  LET U == Keys(Unsent(log.mem))
         IN  /\ U \in Seq(Nat) /\ Len(U) = Len(log.mem) - k
             /\ \A i \in 1 .. Len(U) : U[i] = Len(log.file) + k + i - 1
             /\ Within(U, Len(log.file) + k, log.key)
             /\ Len(log.file) + k \in 0 .. log.key
<1> DEFINE U == Keys(Unsent(log.mem))
           V == Unsent(log.mem)
           n == Len(log.mem)
           f == Len(log.file)
<1>1. n \in Nat /\ f \in Nat /\ k \in 0 .. n /\ log.key = f + n
  BY KeptParts DEF SentUpTo
<1>2. V \in Seq(Entries) /\ Len(V) = n - k /\ \A i \in 1 .. n - k : V[i] = log.mem[k + i]
  BY UnsentIs
<1>3. \A i \in 1 .. n : log.mem[i].key = f + i - 1
  BY DEF Kept
<1>4. U \in Seq(Nat) /\ Len(U) = Len(V) /\ \A i \in 1 .. Len(V) : U[i] = V[i].key
  BY <1>2, KeysAre
<1> HIDE DEF U, V, n, f
<1>5. ASSUME NEW i \in 1 .. Len(U) PROVE U[i] = f + k + i - 1
  <2>1. i \in 1 .. n - k /\ k + i \in 1 .. n
    BY <1>1, <1>2, <1>4
  <2>2. U[i] = log.mem[k + i].key /\ log.mem[k + i].key = f + (k + i) - 1
    BY <1>2, <1>3, <1>4, <2>1
  <2> QED BY <1>1, <2>1, <2>2
<1>6. f + k \in Nat /\ Len(U) = n - k /\ f + k + Len(U) = log.key /\ f + k \in 0 .. log.key
  BY <1>1, <1>2, <1>4
<1>7. Within(U, f + k, f + k + Len(U))
  BY <1>4, <1>5, <1>6, WithinSteps
<1>8. Within(U, f + k, log.key)
  BY <1>6, <1>7
<1> QED BY <1>4, <1>5, <1>6, <1>8 DEF U, V, n, f

LEMMA NothingUnsent ==
  ASSUME NEW log, Kept(log), AllSent(log)
  PROVE  SentUpTo(log, Len(log.mem)) /\ Keys(Unsent(log.mem)) = << >>
<1>1. Len(log.mem) \in Nat
  BY KeptParts
<1>2. SentUpTo(log, Len(log.mem))
  BY <1>1 DEF AllSent, SentUpTo
<1>3. Keys(Unsent(log.mem)) \in Seq(Nat) /\ Len(Keys(Unsent(log.mem))) = Len(log.mem) - Len(log.mem)
  BY <1>2, UnsentKeys
<1>4. Len(Keys(Unsent(log.mem))) = 0
  BY <1>1, <1>3
<1> QED BY <1>2, <1>3, <1>4, EmptySeq

LEMMA NothingSent ==
  ASSUME NEW log, Kept(log), Len(log.mem) = 0
  PROVE  SentUpTo(log, 0) /\ AllSent(log)
  BY DEF SentUpTo, AllSent

-----------------------------------------------------------------------------
(* The log of checkpoints.                                                 *)

\* What the client has comes before what is in memory unmarked; and while all is to
\* be sent it has nothing.
ChkInv ==
  /\ Kept(chk) /\ flushed \in Nat /\ sendAll \in BOOLEAN /\ active \in BOOLEAN
  /\ Within(view, 0, chk.key)
  /\ \E k \in 0 .. Len(chk.mem) :
       SentUpTo(chk, k) /\ (sendAll \/ Within(view, 0, Len(chk.file) + k))
  /\ ~sendAll => active
  /\ sendAll /\ active => view = << >>

LEMMA EmptyKept == Kept(Empty) /\ Empty.mem = << >> /\ Len(Empty.mem) = 0 /\ Empty.key = 0
<1>1. Empty \in Logs
  BY DEF Empty, Logs, Entries
<1> QED BY <1>1 DEF Empty, Kept

LEMMA ChkFresh ==
  ASSUME Kept(chk), Len(chk.mem) = 0, flushed \in Nat,
         sendAll = TRUE, active \in BOOLEAN, view = << >>
  PROVE  ChkInv
<1>1. SentUpTo(chk, 0) /\ 0 \in 0 .. Len(chk.mem)
  BY NothingSent
<1> QED BY <1>1, WithinNothing DEF ChkInv

LEMMA ChkAdds ==
  ASSUME ChkInv, chk' = AddEntry(chk, FALSE), UNCHANGED <<flushed, sendAll, active, view>>
  PROVE  ChkInv'
<1> DEFINE n == Len(chk'.mem)
           m == Len(chk.mem)
           f == Len(chk.file)
           g == Len(chk'.file)
           S == chk'.mem
           key == chk.key
           newKey == chk'.key
<1>1. /\ Kept(chk') /\ newKey = key + 1
      /\ n \in Nat \ {0} /\ S[n].sent = FALSE
      /\ n = 1 \/ (n = m + 1 /\ chk'.file = chk.file)
      /\ \A i \in 1 .. n - 1 : S[i] = chk.mem[i]
  BY AddKept DEF ChkInv
<1>2. PICK k \in 0 .. m : SentUpTo(chk, k) /\ (sendAll \/ Within(view, 0, f + k))
  BY DEF ChkInv
<1>3. m \in Nat /\ key \in Nat
  BY <1>1, KeptParts DEF ChkInv
<1>4. newKey \in Nat /\ g \in Nat /\ newKey = g + n
  BY <1>1, KeptParts
<1>5. n = m + 1 /\ chk'.file = chk.file => n = m + 1 /\ g = f
  OBVIOUS
<1>6. Within(view, 0, key)
  BY DEF ChkInv
<1> HIDE DEF n, m, f, g, S, key, newKey
<1>7. key <= newKey
  BY <1>1, <1>3
<1>8. Within(view, 0, newKey)
  <2>1. 0 \in Nat /\ 0 <= 0
    OBVIOUS
  <2> QED BY <1>3, <1>4, <1>6, <1>7, <2>1, WithinMore
<1>9. \E l \in 0 .. n : SentUpTo(chk', l) /\ (sendAll \/ Within(view, 0, g + l))
  <2>1. CASE n = 1
    <3>1. 0 \in 0 .. n /\ \A i \in 1 .. n : i = n /\ ~(i <= 0)
      BY <2>1
    <3>2. SentUpTo(chk', 0)
      BY <1>1, <3>1 DEF SentUpTo, n, S
    <3>3. g + 0 = key
      BY <1>1, <1>3, <1>4, <2>1
    <3> QED BY <1>6, <3>1, <3>2, <3>3
  <2>2. CASE n = m + 1 /\ g = f
    <3>1. k \in 0 .. n
      BY <1>3, <2>2
    <3>2. ASSUME NEW i \in 1 .. n PROVE S[i].sent <=> i <= k
      <4>1. CASE i \in 1 .. n - 1
        <5>1. i \in 1 .. m
          BY <1>3, <2>2, <4>1
        <5>2. chk.mem[i].sent <=> i <= k
          BY <1>2, <5>1 DEF SentUpTo, m
        <5> QED BY <1>1, <4>1, <5>2
      <4>2. CASE i = n
        <5>1. ~(i <= k)
          BY <1>3, <2>2, <4>2
        <5> QED BY <1>1, <4>2, <5>1
      <4>3. n \in Nat
        BY <1>1
      <4> QED BY <4>1, <4>2, <4>3
    <3>3. SentUpTo(chk', k)
      BY <3>1, <3>2 DEF SentUpTo, n, S
    <3> QED BY <1>2, <2>2, <3>1, <3>3
  <2> QED BY <1>1, <1>5, <2>1, <2>2
<1> QED BY <1>1, <1>8, <1>9 DEF ChkInv, n, g, newKey

LEMMA ChkEmitted ==
  ASSUME ChkInv, EmitChkLog
  PROVE  ChkInv'
<1> DEFINE S == ToSend(chk, sendAll)
           key == chk.key
           F == chk.file
           f == Len(F)
           m == Len(chk.mem)
<1>0. active /\ active' = active /\ chk' = Marked(chk) /\ sendAll' = FALSE
  BY DEF EmitChkLog
<1>1. PICK r1 \in PackChoices(S[1]), r2 \in PackChoices(S[2]) : view' = view \o r1.sent \o r2.sent
  BY DEF EmitChkLog
<1>2. PICK k \in 0 .. m : SentUpTo(chk, k) /\ (sendAll \/ Within(view, 0, f + k))
  BY DEF ChkInv
<1>3. Kept(chk) /\ f \in Nat /\ m \in Nat /\ key \in Nat /\ key = f + m
  BY KeptParts DEF ChkInv
<1>4. Within(F, 0, f) /\ Within(Keys(chk.mem), f, key)
  BY <1>3, Parts
<1>5. Within(Keys(Unsent(chk.mem)), f + k, key)
  BY <1>2, <1>3, UnsentKeys
<1>6. IF sendAll THEN S[1] = F /\ S[2] = Keys(chk.mem) /\ view = << >>
                 ELSE S[1] = << >> /\ S[2] = Keys(Unsent(chk.mem))
  BY <1>0 DEF ToSend, ChkInv
<1> HIDE DEF S, key, F, f, m
<1>7. f \in 0 .. key /\ f + k \in 0 .. key
  BY <1>3
<1>8. \E c \in 0 .. key : Within(view \o r1.sent, 0, c) /\ Within(S[2], c, key)
  <2>1. CASE sendAll
    <3>1. S[1] = F /\ S[2] = Keys(chk.mem) /\ view = << >>
      BY <1>6, <2>1
    <3>2. r1 \in PackChoices(F) /\ 0 \in Nat /\ 0 <= f
      BY <1>1, <1>3, <3>1
    <3>3. PICK d \in 0 .. f : Within(r1.sent, 0, d) /\ Within(r1.rest, d, f)
      BY <1>3, <1>4, <3>2, PackSplits
    <3>4. d \in Nat /\ d <= f /\ 0 <= 0
      BY <1>3
    <3>5. Within(r1.sent, 0, f)
      BY <1>3, <3>2, <3>3, <3>4, WithinMore
    <3>6. view \o r1.sent = r1.sent
      BY <3>1, <3>5, ConcatEmptySeq DEF Within
    <3> QED BY <1>4, <1>7, <3>1, <3>5, <3>6
  <2>2. CASE ~sendAll
    <3>1. S[1] = << >> /\ S[2] = Keys(Unsent(chk.mem))
      BY <1>6, <2>2
    <3>2. r1.sent = << >>
      <4>1. r1 = [sent |-> << >>, rest |-> << >>]
        BY <1>1, <3>1, PackNothing
      <4> QED BY <4>1
    <3>3. Within(view, 0, f + k)
      BY <1>2, <2>2
    <3>4. view \o r1.sent = view
      BY <3>2, <3>3, ConcatEmptySeq DEF Within
    <3> QED BY <1>5, <1>7, <3>1, <3>3, <3>4
  <2> QED BY <2>1, <2>2
<1>9. PICK c \in 0 .. key : Within(view \o r1.sent, 0, c) /\ Within(S[2], c, key)
  BY <1>8
<1>10. c \in Nat /\ c <= key
  BY <1>3
<1>11. PICK d \in c .. key : Within(r2.sent, c, d) /\ Within(r2.rest, d, key)
  BY <1>1, <1>3, <1>9, <1>10, PackSplits
<1>12. d \in Nat /\ c <= d /\ d <= key /\ 0 \in Nat /\ 0 <= c /\ 0 <= 0
  BY <1>3, <1>10
<1>13. Within((view \o r1.sent) \o r2.sent, 0, d)
  BY <1>9, <1>10, <1>11, <1>12, WithinJoin
<1>14. Within(view', 0, key)
  BY <1>1, <1>3, <1>12, <1>13, WithinMore
<1>15. /\ Kept(chk') /\ AllSent(chk') /\ chk'.key = key /\ Len(chk'.file) = f
       /\ Len(chk'.mem) = m
  BY <1>0, <1>3, MarkedKept DEF key, f, F, m
<1>16. SentUpTo(chk', m)
  BY <1>15, NothingUnsent
<1>17. m \in 0 .. m /\ f + m = key
  BY <1>3
<1>18. flushed' \in Nat
  BY <1>3 DEF ChkInv, EmitChkLog, f, F
<1> QED BY <1>0, <1>14, <1>15, <1>16, <1>17, <1>18 DEF ChkInv

\* What may be in the file when the application starts.
Filed(F) == F \in Seq(Nat) /\ \A i \in 1 .. Len(F) : F[i] = i - 1

LEMMA RestartKept ==
  ASSUME NEW F, Filed(F), chk' = [mem |-> << >>, file |-> F, key |-> NextKey(F)]
  PROVE  Kept(chk') /\ Len(chk'.mem) = 0 /\ chk'.key = Len(F)
<1>1. F \in Seq(Nat) /\ Len(F) \in Nat
  BY Elements DEF Filed
<1>2. \A i \in 1 .. Len(F) : F[i] = i - 1
  BY DEF Filed
<1>3. chk'.file = F /\ chk'.mem = << >> /\ chk'.key = NextKey(F) /\ Len(chk'.mem) = 0
  OBVIOUS
<1>4. NextKey(F) = Len(F)
  <2>1. CASE F = << >>
    BY <2>1 DEF NextKey
  <2>2. CASE F # << >>
    <3>1. Len(F) # 0
      BY <1>1, <2>2, EmptySeq
    <3>2. Len(F) \in 1 .. Len(F)
      BY <1>1, <3>1
    <3>3. F[Len(F)] = Len(F) - 1
      BY <1>2, <3>2
    <3> QED BY <1>1, <2>2, <3>3 DEF NextKey
  <2> QED BY <2>1, <2>2
<1>5. chk' \in Logs
  <2>1. chk' = [mem |-> << >>, file |-> F, key |-> Len(F)]
    BY <1>4
  <2> QED BY <1>1, <2>1 DEF Logs
<1>6. chk'.key = Len(chk'.file) + Len(chk'.mem)
  BY <1>1, <1>3, <1>4
<1>7. /\ \A i \in 1 .. Len(chk'.file) : chk'.file[i] = i - 1
      /\ \A i \in 1 .. Len(chk'.mem) : chk'.mem[i].key = Len(chk'.file) + i - 1
  BY <1>2, <1>3
<1>8. Kept(chk')
  BY <1>5, <1>6, <1>7, Zenon DEF Kept
<1> QED BY <1>3, <1>4, <1>8

\* What Save_log leaves, and what is left of the file of an application that was killed.
LEMMA LeavesFile ==
  ASSUME ChkInv
  PROVE  /\ Filed(Save(chk).file) /\ Len(Save(chk).file) = chk.key
         /\ \A n \in flushed .. Len(chk.file) :
              Filed(SubSeq(chk.file, 1, n)) /\ Len(SubSeq(chk.file, 1, n)) <= chk.key
<1> DEFINE F == chk.file
           G == Save(chk).file
           key == chk.key
           f == Len(F)
<1>1. Kept(Save(chk)) /\ Save(chk).mem = << >> /\ Save(chk).key = key /\ Kept(chk)
  BY SaveKept DEF ChkInv
<1>2. /\ G \in Seq(Nat) /\ key = Len(G) + Len(Save(chk).mem) /\ Len(G) \in Nat /\ key \in Nat
      /\ F \in Seq(Nat) /\ f \in Nat /\ f <= key /\ DOMAIN F = 1 .. f
  BY <1>1, KeptParts, Parts, Elements
<1>3. Filed(G) /\ Len(G) = key
  <2>1. Len(Save(chk).mem) = 0
    BY <1>1
  <2> DEFINE l == Len(G)
             n == Len(Save(chk).mem)
  <2> HIDE DEF l, n, key
  <2>2. l = key
    <3>1. key = l + n /\ n = 0 /\ l \in Nat
      BY <1>2, <2>1 DEF l, n
    <3> QED BY <3>1
  <2> QED BY <1>1, <1>2, <2>2 DEF Filed, Kept, l
<1>4. ASSUME NEW n \in flushed .. f
      PROVE  Filed(SubSeq(F, 1, n)) /\ Len(SubSeq(F, 1, n)) <= key
  <2>0. n \in Nat /\ n <= f /\ \A i \in 1 .. n : i \in 1 .. f
    BY <1>2 DEF ChkInv
  <2>1. \A i \in 1 .. n : F[i] = i - 1 /\ F[i] \in Nat
    BY <1>1, <2>0 DEF Kept
  <2>2. /\ SubSeq(F, 1, n) \in Seq(Nat) /\ Len(SubSeq(F, 1, n)) = n
        /\ \A i \in 1 .. n : SubSeq(F, 1, n)[i] = F[i]
    <3>1. 1 \in Nat /\ 1 .. n \subseteq DOMAIN F
      BY <1>2, <2>0
    <3> HIDE DEF F, f
    <3> QED BY <1>2, <2>0, <2>1, SubSeqProperties
  <2> HIDE DEF F, f, key
  <2>3. n <= key
    <3>1. f \in Nat /\ f <= key /\ key \in Nat /\ n \in Nat /\ n <= f
      BY <1>2, <2>0
    <3> QED BY <3>1
  <2> QED BY <2>1, <2>2, <2>3 DEF Filed
<1> QED BY <1>3, <1>4

LEMMA ChkStep == ChkInv /\ [LogNext]_logVars => ChkInv'
<1> SUFFICES ASSUME ChkInv, [LogNext]_logVars PROVE ChkInv'
  OBVIOUS
<1> USE DEF flags, told
<1>1. CASE RecordChkpt
  BY <1>1, ChkAdds DEF RecordChkpt
<1>2. CASE LogParams
  BY <1>2 DEF LogParams, ChkInv
<1>3. CASE Attach
  <2>1. /\ chk' = chk /\ flushed' = flushed
        /\ sendAll' = sendAll /\ active' = TRUE /\ view' = << >> /\ sendAll = TRUE
    BY <1>3 DEF Attach, ChkInv
  <2> QED BY <2>1, WithinNothing DEF ChkInv
<1>4. CASE Detach
  <2>1. /\ chk' = chk /\ flushed' = flushed
        /\ sendAll' = TRUE /\ active' = FALSE /\ view' = view
    BY <1>4 DEF Detach, DetachFlags
  <2> QED BY <2>1 DEF ChkInv
<1>5. CASE EmitChkLog
  BY <1>5, ChkEmitted
<1>6. ASSUME NEW h \in Handles, EmitParamLog(h) PROVE ChkInv'
  BY <1>6 DEF EmitParamLog, ChkInv
<1>7. CASE Retry
  BY <1>7 DEF Retry, ChkInv
<1>8. ASSUME NEW F, Filed(F), Restart(F) PROVE ChkInv'
  <2>1. /\ Kept(chk') /\ Len(chk'.mem) = 0 /\ flushed' \in Nat
        /\ sendAll' = TRUE /\ active' \in BOOLEAN /\ view' = << >>
    BY <1>8, RestartKept, Elements DEF Restart, Filed
  <2>2. SentUpTo(chk', 0) /\ 0 \in 0 .. Len(chk'.mem)
    BY <2>1, NothingSent
  <2> QED BY <2>1, <2>2, WithinNothing DEF ChkInv
<1>9. CASE Finalize
  BY <1>8, <1>9, LeavesFile DEF Finalize
<1>10. CASE Killed
  BY <1>8, <1>10, LeavesFile DEF Killed
<1>11. CASE UNCHANGED logVars
  BY <1>11 DEF logVars, ChkInv
<1> QED BY <1>1, <1>2, <1>3, <1>4, <1>5, <1>6, <1>7, <1>9, <1>10, <1>11 DEF LogNext
-----------------------------------------------------------------------------
(* The log of parameters.                                                  *)

ParType ==
  /\ active \in BOOLEAN /\ paramSendAll \subseteq Handles
  /\ pview \in [Handles -> Seq(Nat)] /\ retry \in [h : Handles \cup {0}, rest : Seq(Nat)]

\* Where Emit_log_entries is: what it has still to send comes after what it has sent,
\* and both are in the file.
Retrying ==
  /\ active /\ retry.h \in paramSendAll
  /\ \E c \in 0 .. Len(par.file) :
       Within(pview[retry.h], 0, c) /\ Within(retry.rest, c, Len(par.file))

\* While a client is attached everything in memory is marked as sent: it has been told
\* those values.  Of a parameter whose flag is up it has nothing, unless Emit_log_entries
\* is at it.
ParInv ==
  /\ ParType /\ Kept(par)
  /\ \A h \in Handles : Within(pview[h], 0, par.key)
  /\ active => AllSent(par)
  /\ retry # NoRetry => Retrying
  /\ active => \A h \in paramSendAll :
       retry = NoRetry \/ h # retry.h => pview[h] = << >>

\* RestOfParam completes the answer.
LEMMA RestSent ==
  ASSUME ParInv, NEW h \in Handles, NEW done, RestOfParam(h, done),
         active, active' = active,
         h \in paramSendAll => Within(pview[h] \o done, 0, Len(par.file)),
         h \notin paramSendAll => done = << >>,
         \A g \in paramSendAll : g # h => pview[g] = << >>
  PROVE  ParInv'
<1> DEFINE S == ToSend(par, h \in paramSendAll)[2]
           key == par.key
           f == Len(par.file)
           V == pview[h] \o done
<1>1. PICK r \in PackChoices(S) : pview' = [pview EXCEPT ![h] = @ \o done \o r.sent]
  BY DEF RestOfParam
<1>2. par' = Marked(par) /\ paramSendAll' = paramSendAll \ {h} /\ retry' = NoRetry
  BY DEF RestOfParam
<1>3. ParType /\ Kept(par) /\ AllSent(par) /\ \A g \in Handles : Within(pview[g], 0, key)
  BY DEF ParInv
<1>4. f \in Nat /\ key \in Nat /\ f <= key
  BY <1>3, KeptParts, Parts
<1>5. \E c \in 0 .. key : Within(V, 0, c) /\ Within(S, c, key)
  <2>1. CASE h \in paramSendAll
    <3>1. S = Keys(par.mem)
      BY <2>1 DEF ToSend
    <3>2. Within(S, f, key)
      BY <1>3, <3>1, Parts
    <3>3. f \in 0 .. key
      BY <1>4
    <3> QED BY <2>1, <3>2, <3>3
  <2>2. CASE h \notin paramSendAll
    <3>1. S = << >>
      <4>1. S = Keys(Unsent(par.mem))
        BY <2>2 DEF ToSend
      <4> QED BY <1>3, <4>1, NothingUnsent
    <3>2. Within(pview[h], 0, key)
      BY <1>3
    <3>3. V = pview[h]
      BY <2>2, <3>2, ConcatEmptySeq DEF Within
    <3>4. key \in 0 .. key
      BY <1>4
    <3> QED BY <3>1, <3>2, <3>3, <3>4, WithinNothing
  <2> QED BY <2>1, <2>2
<1> HIDE DEF S, V, key, f
<1>6. PICK c \in 0 .. key : Within(V, 0, c) /\ Within(S, c, key)
  BY <1>5
<1>7. c \in Nat /\ c <= key
  BY <1>4
<1>8. PICK d \in c .. key : Within(r.sent, c, d) /\ Within(r.rest, d, key)
  BY <1>1, <1>4, <1>6, <1>7, PackSplits
<1>9. d \in Nat /\ c <= d /\ d <= key /\ 0 \in Nat /\ 0 <= c /\ 0 <= 0
  BY <1>4, <1>7
<1>10. Within(V \o r.sent, 0, d)
  BY <1>6, <1>7, <1>8, <1>9, WithinJoin
<1>11. Within(V \o r.sent, 0, key)
  BY <1>4, <1>9, <1>10, WithinMore
<1>12. /\ pview' \in [Handles -> Seq(Nat)] /\ \A g \in Handles : Within(pview'[g], 0, key)
       /\ \A g \in Handles : g # h => pview'[g] = pview[g]
  <2>1. pview \in [Handles -> Seq(Nat)] /\ pview' = [pview EXCEPT ![h] = V \o r.sent]
    BY <1>1, <1>3 DEF ParType, V
  <2>2. V \o r.sent \in Seq(Nat)
    BY <1>11 DEF Within
  <2> QED BY <1>3, <1>11, <2>1, <2>2
<1>13. Kept(par') /\ AllSent(par') /\ par'.key = key
  BY <1>2, <1>3, MarkedKept DEF key
<1>14. ParType'
  <2>1. NoRetry \in [h : Handles \cup {0}, rest : Seq(Nat)]
    BY DEF NoRetry
  <2> QED BY <1>2, <1>3, <1>12, <2>1 DEF ParType
<1>15. \A g \in paramSendAll' : pview'[g] = << >>
  BY <1>2, <1>3, <1>12 DEF ParType
<1> QED BY <1>2, <1>12, <1>13, <1>14, <1>15 DEF ParInv

\* The transport is down, or the log is too long for one go: Emit_log_entries keeps the
\* rest.
LEMMA RestKept ==
  ASSUME ParInv, NEW h \in paramSendAll, NEW E, NEW r \in PackChoices(E), NEW b,
         b \in 0 .. Len(par.file), Within(pview[h], 0, b), Within(E, b, Len(par.file)),
         active, UNCHANGED <<par, paramSendAll, active>>,
         \A g \in paramSendAll : g # h => pview[g] = << >>,
         pview' = [pview EXCEPT ![h] = @ \o r.sent],
         retry' = [h |-> h, rest |-> r.rest], r.rest # << >>
  PROVE  ParInv'
<1> DEFINE key == par.key
           f == Len(par.file)
<1>1. ParType /\ Kept(par) /\ AllSent(par) /\ \A g \in Handles : Within(pview[g], 0, key)
  BY DEF ParInv
<1>2. f \in Nat /\ key \in Nat /\ f <= key /\ b \in 0 .. f /\ Within(E, b, f)
  BY <1>1, KeptParts, Parts
<1>3. h \in Handles /\ pview \in [Handles -> Seq(Nat)]
  BY <1>1 DEF ParType
<1> HIDE DEF key, f
<1>4. b \in Nat /\ b <= f
  BY <1>2
<1>5. PICK c \in b .. f : Within(r.sent, b, c) /\ Within(r.rest, c, f)
  BY <1>2, <1>4, PackSplits
<1>6. c \in Nat /\ b <= c /\ c <= f /\ 0 \in Nat /\ 0 <= b /\ 0 <= 0 /\ c <= key /\ c \in 0 .. f
  BY <1>2, <1>4
<1>7. Within(pview[h] \o r.sent, 0, c)
  BY <1>4, <1>5, <1>6, WithinJoin
<1>8. Within(pview[h] \o r.sent, 0, key)
  BY <1>2, <1>6, <1>7, WithinMore
<1>9. pview[h] \o r.sent \in Seq(Nat) /\ r.rest \in Seq(Nat)
  BY <1>5, <1>7 DEF Within
<1>10. /\ pview' \in [Handles -> Seq(Nat)] /\ pview'[h] = pview[h] \o r.sent
       /\ \A g \in Handles : g # h => pview'[g] = pview[g]
  BY <1>3, <1>9
<1>11. \A g \in Handles : Within(pview'[g], 0, key)
  BY <1>1, <1>8, <1>10
<1>12. retry'.h = h /\ retry'.rest = r.rest
  OBVIOUS
<1>13. ParType'
  BY <1>1, <1>3, <1>9, <1>10 DEF ParType
<1>14. Retrying'
  BY <1>5, <1>6, <1>7, <1>10, <1>12 DEF Retrying, f
<1>15. \A g \in paramSendAll' : g # retry'.h => pview'[g] = << >>
  BY <1>1, <1>10, <1>12 DEF ParType
<1>16. Kept(par') /\ AllSent(par') /\ \A g \in Handles : Within(pview'[g], 0, par'.key)
  BY <1>1, <1>11 DEF key
<1>17. retry' # NoRetry
  BY <1>12 DEF NoRetry
<1> QED BY <1>13, <1>14, <1>15, <1>16, <1>17 DEF ParInv

LEMMA ParAsked ==
  ASSUME ParInv, NEW h \in Handles, EmitParamLog(h)
  PROVE  ParInv'
<1> DEFINE F == ToSend(par, h \in paramSendAll)[1]
           f == Len(par.file)
<1>1. active /\ active' = active /\ retry = NoRetry
  BY DEF EmitParamLog, Idle
<1>2. ParType /\ Kept(par) /\ \A g \in paramSendAll : pview[g] = << >>
  BY <1>1 DEF ParInv
<1>3. f \in Nat /\ Within(par.file, 0, f) /\ par.file \in Seq(Nat)
  BY <1>2, KeptParts, Parts
<1>4. h \in paramSendAll => F = par.file
  BY DEF ToSend
<1>5. h \notin paramSendAll => F = << >>
  BY DEF ToSend
<1>6. CASE RestOfParam(h, F)
  <2>1. h \in paramSendAll => Within(pview[h] \o F, 0, f)
    <3> HAVE h \in paramSendAll
    <3>1. pview[h] = << >> /\ F = par.file
      BY <1>2, <1>4
    <3> QED BY <1>3, <3>1, ConcatEmptySeq
  <2> QED BY <1>1, <1>2, <1>5, <1>6, <2>1, RestSent
<1>7. CASE \E r \in PackChoices(F) :
             /\ r.rest # << >> /\ pview' = [pview EXCEPT ![h] = @ \o r.sent]
             /\ retry' = [h |-> h, rest |-> r.rest] /\ UNCHANGED <<par, paramSendAll>>
  <2>1. PICK r \in PackChoices(F) :
             /\ r.rest # << >> /\ pview' = [pview EXCEPT ![h] = @ \o r.sent]
             /\ retry' = [h |-> h, rest |-> r.rest] /\ UNCHANGED <<par, paramSendAll>>
    BY <1>7
  <2>2. h \in paramSendAll
    <3> SUFFICES ASSUME h \notin paramSendAll PROVE FALSE
      OBVIOUS
    <3>1. r = [sent |-> << >>, rest |-> << >>]
      BY <1>5, <2>1, PackNothing
    <3> QED BY <2>1, <3>1
  <2>3. 0 \in 0 .. f /\ Within(pview[h], 0, 0) /\ Within(F, 0, f)
    BY <1>2, <1>3, <1>4, <2>2, WithinNothing
  <2> QED BY <1>1, <1>2, <2>1, <2>2, <2>3, RestKept
<1> QED BY <1>6, <1>7 DEF EmitParamLog

LEMMA ParRetried ==
  ASSUME ParInv, Retry
  PROVE  ParInv'
<1> DEFINE h == retry.h
           E == retry.rest
           f == Len(par.file)
<1>1. retry # NoRetry /\ active' = active
  BY DEF Retry
<1>2. /\ ParType /\ Kept(par) /\ active /\ h \in paramSendAll
      /\ \A g \in paramSendAll : g # h => pview[g] = << >>
  BY <1>1 DEF ParInv, Retrying
<1>3. PICK b \in 0 .. f : Within(pview[h], 0, b) /\ Within(E, b, f)
  BY <1>1 DEF ParInv, Retrying
<1>4. f \in Nat /\ h \in Handles
  BY <1>2, KeptParts DEF ParType
<1>5. CASE RestOfParam(h, E)
  <2>1. Within(pview[h] \o E, 0, f)
    <3>1. b \in Nat /\ 0 \in Nat /\ 0 <= b /\ b <= f
      BY <1>4
    <3> QED BY <1>3, <1>4, <3>1, WithinJoin
  <2> QED BY <1>1, <1>2, <1>4, <1>5, <2>1, RestSent
<1>6. CASE \E r \in PackChoices(E) :
             /\ r.rest # << >> /\ pview' = [pview EXCEPT ![h] = @ \o r.sent]
             /\ retry' = [retry EXCEPT !.rest = r.rest] /\ UNCHANGED <<par, paramSendAll>>
  <2>1. PICK r \in PackChoices(E) :
             /\ r.rest # << >> /\ pview' = [pview EXCEPT ![h] = @ \o r.sent]
             /\ retry' = [retry EXCEPT !.rest = r.rest] /\ UNCHANGED <<par, paramSendAll>>
    BY <1>6
  <2>2. retry' = [h |-> h, rest |-> r.rest]
    BY <1>2, <2>1 DEF ParType
  <2> QED BY <1>1, <1>2, <1>3, <2>1, <2>2, RestKept
<1> QED BY <1>5, <1>6 DEF Retry

LEMMA NoRetryType == NoRetry \in [h : Handles \cup {0}, rest : Seq(Nat)]
  BY DEF NoRetry

LEMMA NothingViewed ==
  ASSUME NEW v, v = [h \in Handles |-> << >>]
  PROVE  /\ v \in [Handles -> Seq(Nat)] /\ \A h \in Handles : v[h] = << >>
         /\ \A b : \A h \in Handles : Within(v[h], 0, b)
<1>1. \A h \in Handles : v[h] = << >>
  OBVIOUS
<1>2. << >> \in Seq(Nat)
  OBVIOUS
<1> QED BY <1>1, <1>2, WithinNothing

LEMMA ParFresh ==
  ASSUME ParType, Kept(par), retry = NoRetry, AllSent(par) \/ ~active,
         pview = [h \in Handles |-> << >>]
  PROVE  ParInv
<1>1. \A h \in Handles : pview[h] = << >> /\ Within(pview[h], 0, par.key)
  BY NothingViewed
<1> QED BY <1>1 DEF ParInv, ParType

LEMMA AddAllSent ==
  ASSUME NEW log, Kept(log), AllSent(log)
  PROVE  AllSent(AddEntry(log, TRUE))
<1> DEFINE new == AddEntry(log, TRUE)
           n == Len(new.mem)
<1>1. /\ n \in Nat \ {0} /\ new.mem[n].sent = TRUE
      /\ n = 1 \/ n = Len(log.mem) + 1
      /\ \A i \in 1 .. n - 1 : new.mem[i] = log.mem[i]
  BY AddKept
<1>2. Len(log.mem) \in Nat
  BY KeptParts
<1> SUFFICES ASSUME NEW i \in 1 .. n PROVE new.mem[i].sent
  BY DEF AllSent
<1> HIDE DEF new, n
<1>3. CASE i = n
  BY <1>1, <1>3
<1>4. CASE i # n
  <2>1. i \in 1 .. n - 1 /\ i \in 1 .. Len(log.mem)
    BY <1>1, <1>2, <1>4
  <2> QED BY <1>1, <2>1 DEF AllSent
<1> QED BY <1>3, <1>4

LEMMA ParStep == ParInv /\ [LogNext]_logVars => ParInv'
<1> SUFFICES ASSUME ParInv, [LogNext]_logVars PROVE ParInv'
  OBVIOUS
<1> USE DEF flags, told
<1>0. ParType /\ Kept(par)
  BY DEF ParInv
<1>1. CASE RecordChkpt
  BY <1>1 DEF RecordChkpt, ParInv, ParType, Retrying
<1>2. CASE LogParams
  <2>1. par' = AddEntry(par, active) /\ retry = NoRetry
        /\ UNCHANGED <<active, paramSendAll, retry, pview>>
    BY <1>2 DEF LogParams, Idle
  <2>2. Kept(par') /\ par'.key = par.key + 1
    BY <1>0, <2>1, AddKept DEF ParType
  <2>3. active' => AllSent(par')
    BY <1>0, <2>1, AddAllSent DEF ParInv
  <2>4. \A h \in Handles : Within(pview'[h], 0, par'.key)
    <3> DEFINE key == par.key
    <3>1. key \in Nat /\ \A h \in Handles : Within(pview[h], 0, key)
      BY <1>0, KeptParts DEF ParInv
    <3> HIDE DEF key
    <3>2. key + 1 \in Nat /\ 0 \in Nat /\ 0 <= 0 /\ key <= key + 1
      BY <3>1
    <3>3. \A h \in Handles : Within(pview[h], 0, key + 1)
      BY <3>1, <3>2, WithinMore
    <3> QED BY <2>1, <2>2, <3>3 DEF key
  <2> QED BY <1>0, <2>1, <2>2, <2>3, <2>4 DEF ParInv, ParType
<1>3. CASE Attach
  <2>1. /\ par' = Save(par) /\ retry' = NoRetry /\ paramSendAll' = paramSendAll
        /\ pview' = [h \in Handles |-> << >>] /\ active' = TRUE
    BY <1>3 DEF Attach, Idle
  <2>2. Kept(par') /\ Len(par'.mem) = 0
    BY <1>0, <2>1, SaveKept
  <2>3. AllSent(par')
    BY <2>2, NothingSent
  <2>4. ParType'
    BY <1>0, <2>1, NothingViewed, NoRetryType DEF ParType
  <2>5. \A h \in Handles : pview'[h] = << >> /\ Within(pview'[h], 0, par'.key)
    BY <2>1, NothingViewed
  <2> QED BY <2>1, <2>2, <2>3, <2>4, <2>5 DEF ParInv, ParType
<1>4. CASE Detach
  <2>1. /\ par' = par /\ retry' = NoRetry /\ paramSendAll' = Handles
        /\ pview' = pview /\ active' = FALSE
    BY <1>4 DEF Detach, DetachFlags, Idle
  <2>2. ParType'
    BY <1>0, <2>1, NoRetryType DEF ParType
  <2> QED BY <1>0, <2>1, <2>2 DEF ParInv
<1>5. CASE EmitChkLog
  BY <1>5 DEF EmitChkLog, ParInv, ParType, Retrying
<1>6. ASSUME NEW h \in Handles, EmitParamLog(h) PROVE ParInv'
  BY <1>6, ParAsked
<1>7. CASE Retry
  BY <1>7, ParRetried
<1>8. ASSUME NEW F, Restart(F) PROVE ParInv'
  <2>1. /\ par' = Empty /\ retry' = NoRetry /\ paramSendAll' = Handles
        /\ pview' = [h \in Handles |-> << >>] /\ active' = FALSE
    BY <1>8 DEF Restart
  <2>2. ParType'
    BY <2>1, NothingViewed, NoRetryType DEF ParType
  <2>3. \A h \in Handles : Within(pview'[h], 0, par'.key)
    BY <2>1, NothingViewed
  <2> QED BY <2>1, <2>2, <2>3, EmptyKept DEF ParInv
<1>9. CASE UNCHANGED logVars
  BY <1>9 DEF logVars, ParInv, ParType, Retrying
<1> QED BY <1>1, <1>2, <1>3, <1>4, <1>5, <1>6, <1>7, <1>8, <1>9 DEF LogNext, Finalize, Killed

-----------------------------------------------------------------------------
(* What the client knows.                                                  *)

LEMMA BeforeJoin ==
  ASSUME NEW n \in Nat, NEW K \in Seq(Nat), \A i \in 1 .. Len(K) : K[i] = n + i - 1
  PROVE  Before(n) \o K = Before(n + Len(K)) /\ Before(n) \in Seq(Nat)
<1> DEFINE B == Before(n)
           W == B \o K
<1>0. Len(K) \in Nat
  BY Elements
<1>1. B \in [1 .. n -> Nat]
  BY DEF Before
<1>2. B \in Seq(Nat) /\ Len(B) = n /\ \A i \in 1 .. n : B[i] = i - 1
  BY <1>1, FunctionIsSeq DEF Before
<1> HIDE DEF B
<1>3. /\ W \in Seq(Nat) /\ Len(W) = Len(B) + Len(K)
      /\ \A i \in 1 .. Len(B) : W[i] = B[i]
      /\ \A i \in 1 .. Len(K) : W[Len(B) + i] = K[i]
  <2>1. B \in Seq(Nat) /\ K \in Seq(Nat)
    BY <1>2
  <2> HIDE DEF W
  <2>2. \A t \in Seq(Nat) : /\ B \o t \in Seq(Nat) /\ Len(B \o t) = Len(B) + Len(t)
                            /\ \A i \in 1 .. Len(B) : (B \o t)[i] = B[i]
                            /\ \A i \in 1 .. Len(t) : (B \o t)[Len(B) + i] = t[i]
    BY <2>1, Joined
  <2> QED BY <2>1, <2>2 DEF W
<1> HIDE DEF W
<1>4. /\ DOMAIN W = 1 .. n + Len(K)
      /\ \A i \in 1 .. n : W[i] = i - 1
      /\ \A i \in 1 .. Len(K) : W[n + i] = n + i - 1
  BY <1>2, <1>3, Elements
<1>5. ASSUME NEW i \in 1 .. n + Len(K) PROVE W[i] = i - 1
  <2>1. CASE i <= n
    BY <1>4, <2>1
  <2>2. CASE i > n
    <3>1. i - n \in 1 .. Len(K) /\ n + (i - n) = i
      BY <1>0, <2>2
    <3>2. W[n + (i - n)] = n + (i - n) - 1
      BY <1>4, <3>1
    <3> QED BY <3>1, <3>2
  <2> QED BY <2>1, <2>2
<1>6. W = [i \in DOMAIN W |-> W[i]]
  BY <1>3
<1>7. W = [i \in 1 .. n + Len(K) |-> i - 1]
  BY <1>4, <1>5, <1>6
<1> QED BY <1>2, <1>7 DEF B, W, Before

LEMMA PackWhole ==
  ASSUME MaxKey < LimitAt + 2, NEW E, Len(E) \in 0 .. MaxKey, NEW r, Pack(E, r, FALSE)
  PROVE  r.sent = E /\ r.rest = << >>
<1>1. Len(E) \in Nat /\ Len(E) < LimitAt + 2
  BY LogAssumption, LimitType
<1>2. r = [sent |-> E, rest |-> << >>]
  BY <1>1, PackAll DEF Pack
<1> QED BY <1>2

\* Until entries that it has not got leave memory, the client knows all but those that are
\* counted as unsent, which are the last in memory and the only ones not marked.
ToldInv ==
  /\ chk.key <= MaxKey
  /\ active /\ ~sendAll /\ ~spilled =>
       /\ unsent \in 0 .. Len(chk.mem)
       /\ SentUpTo(chk, Len(chk.mem) - unsent)
       /\ ~failed => view = Before(chk.key - unsent)

LEMMA ToldRecorded ==
  ASSUME ChkInv, ToldInv, RecordChkpt
  PROVE  ToldInv'
<1> DEFINE n == Len(chk'.mem)
           m == Len(chk.mem)
           S == chk'.mem
           key == chk.key
           newKey == chk'.key
<1>1. /\ key < MaxKey /\ chk' = AddEntry(chk, FALSE) /\ unsent' = unsent + 1
      /\ spilled' = (spilled \/ Spills) /\ UNCHANGED <<sendAll, active, view, failed>>
  BY DEF RecordChkpt, flags, told
<1>2. /\ Kept(chk') /\ newKey = key + 1
      /\ n \in Nat \ {0} /\ S[n].sent = FALSE
      /\ n = 1 \/ n = m + 1
      /\ m # MaxMem => n = m + 1
      /\ \A i \in 1 .. n - 1 : S[i] = chk.mem[i]
  BY <1>1, AddKept DEF ChkInv
<1>3. m \in Nat /\ key \in Nat /\ MaxKey \in Nat /\ MaxMem \in Nat \ {0}
  BY KeptParts, LogAssumption DEF ChkInv
<1>4. newKey <= MaxKey
  <2> HIDE DEF newKey, key
  <2> QED BY <1>1, <1>2, <1>3
<1>5. ASSUME active, ~sendAll, ~spilled'
      PROVE  /\ unsent' \in 0 .. n
             /\ SentUpTo(chk', n - unsent')
             /\ ~failed => view = Before(newKey - unsent')
  <2>1. /\ unsent \in 0 .. m /\ SentUpTo(chk, m - unsent)
        /\ ~failed => view = Before(key - unsent)
    BY <1>1, <1>5 DEF ToldInv
  <2>2. m = MaxMem => \A i \in 1 .. m : chk.mem[i].sent
    <3>1. DOMAIN chk.mem = 1 .. m
      BY KeptParts, Elements DEF ChkInv
    <3> QED BY <1>1, <1>5, <3>1 DEF Spills
  <2>3. \A i \in 1 .. m : chk.mem[i].sent <=> i <= m - unsent
    BY <2>1 DEF SentUpTo
  <2> HIDE DEF n, m, S, key, newKey
  <2>4. m = MaxMem => unsent = 0
    <3> SUFFICES ASSUME m = MaxMem, unsent # 0 PROVE FALSE
      OBVIOUS
    <3>1. m \in 1 .. m /\ ~(m <= m - unsent)
      BY <1>3, <2>1
    <3> QED BY <2>2, <2>3, <3>1
  <2>5. /\ unsent' \in 0 .. n /\ n - unsent' \in 0 .. n /\ ~(n <= n - unsent')
        /\ newKey - unsent' = key - unsent
        /\ \A i \in 1 .. n - 1 : i \in 1 .. m /\ (i <= n - unsent' <=> i <= m - unsent)
    <3>1. CASE n = m + 1
      BY <1>1, <1>2, <1>3, <2>1, <3>1
    <3>2. CASE n # m + 1
      <4>1. n = 1 /\ unsent = 0
        BY <1>2, <2>4, <3>2
      <4> QED BY <1>1, <1>2, <1>3, <4>1
    <3> QED BY <3>1, <3>2
  <2>6. ASSUME NEW i \in 1 .. n PROVE S[i].sent <=> i <= n - unsent'
    <3>1. CASE i = n
      BY <1>2, <2>5, <3>1
    <3>2. CASE i # n
      <4>1. i \in 1 .. n - 1
        BY <1>2, <3>2
      <4> QED BY <1>2, <2>3, <2>5, <4>1
    <3> QED BY <3>1, <3>2
  <2>7. SentUpTo(chk', n - unsent')
    BY <2>5, <2>6 DEF SentUpTo, n, S
  <2> QED BY <2>1, <2>5, <2>7
<1> QED BY <1>1, <1>4, <1>5 DEF ToldInv

LEMMA ToldEmitted ==
  ASSUME ChkInv, ToldInv, MaxKey < LimitAt + 2, EmitChkLog
  PROVE  ToldInv'
<1> DEFINE S == ToSend(chk, sendAll)
           key == chk.key
           F == chk.file
           K == Keys(chk.mem)
           U == Keys(Unsent(chk.mem))
           f == Len(F)
           m == Len(chk.mem)
<1>0. /\ active /\ active' = active /\ chk' = Marked(chk) /\ sendAll' = FALSE
      /\ unsent' = 0 /\ spilled' = spilled
  BY DEF EmitChkLog
<1>1. Kept(chk) /\ f \in Nat /\ m \in Nat /\ key \in Nat /\ key = f + m /\ F \in Seq(Nat)
      /\ K \in Seq(Nat) /\ Len(K) = m /\ MaxKey \in Nat /\ key <= MaxKey
  BY KeptParts, KeptKeys, LogAssumption DEF ChkInv, ToldInv
<1>2. /\ Kept(chk') /\ AllSent(chk') /\ chk'.key = key /\ Len(chk'.mem) = m
  BY <1>0, <1>1, MarkedKept
<1>3. SentUpTo(chk', m)
  BY <1>2, NothingUnsent
<1>4. ASSUME ~failed', ~spilled PROVE view' = Before(key)
  <2>1. PICK r1, r2 : Pack(S[1], r1, FALSE) /\ Pack(S[2], r2, FALSE) /\ view' = view \o r1.sent \o r2.sent
    BY <1>4 DEF EmitChkLog, Failed
  <2>2. CASE sendAll
    <3>1. S[1] = F /\ S[2] = K /\ view = << >>
      BY <1>0, <2>2 DEF ToSend, ChkInv
    <3>2. Written(chk) = Before(key)
      BY <1>1, WrittenIs
    <3> HIDE DEF S, key, F, K, f, m
    <3>3. Len(F) \in 0 .. MaxKey /\ Len(K) \in 0 .. MaxKey
      BY <1>1 DEF f
    <3>4. r1.sent = F /\ r2.sent = K
      BY <2>1, <3>1, <3>3, PackWhole
    <3>5. view \o r1.sent = F
      BY <1>1, <3>1, <3>4, ConcatEmptySeq
    <3> QED BY <2>1, <3>2, <3>4, <3>5 DEF Written, F, K
  <2>3. CASE ~sendAll
    <3>1. S[1] = << >> /\ S[2] = U
      BY <2>3 DEF ToSend
    <3>2. /\ unsent \in 0 .. m /\ SentUpTo(chk, m - unsent)
          /\ view = Before(key - unsent)
      BY <1>0, <1>4, <2>3 DEF ToldInv, EmitChkLog, Failed
    <3>3. /\ U \in Seq(Nat) /\ Len(U) = m - (m - unsent)
          /\ \A i \in 1 .. Len(U) : U[i] = f + (m - unsent) + i - 1
      <4> DEFINE k == m - unsent
      <4>1. SentUpTo(chk, k)
        BY <3>2
      <4> HIDE DEF k
      <4>2. U \in Seq(Nat) /\ Len(U) = m - k /\ \A i \in 1 .. Len(U) : U[i] = f + k + i - 1
        BY <1>1, <4>1, UnsentKeys
      <4> QED BY <4>2 DEF k
    <3> HIDE DEF S, key, F, U, f, m
    <3>4. Len(U) = unsent /\ Len(U) \in 0 .. MaxKey /\ key - unsent \in Nat
          /\ f + (m - unsent) = key - unsent /\ key - unsent + Len(U) = key
      BY <1>1, <3>2, <3>3
    <3>5. r1.sent = << >> /\ r2.sent = U
      <4>1. Len(<< >>) \in 0 .. MaxKey
        BY <1>1
      <4> QED BY <2>1, <3>1, <3>4, <4>1, PackWhole
    <3>6. \A i \in 1 .. Len(U) : U[i] = (key - unsent) + i - 1
      BY <3>3, <3>4
    <3>7. /\ Before(key - unsent) \o U = Before(key - unsent + Len(U))
          /\ Before(key - unsent) \in Seq(Nat)
      BY <3>3, <3>4, <3>6, BeforeJoin
    <3>8. view \o r1.sent = view
      BY <3>2, <3>5, <3>7, ConcatEmptySeq
    <3> QED BY <2>1, <3>2, <3>4, <3>5, <3>7, <3>8
  <2> QED BY <2>2, <2>3
<1> HIDE DEF m, key
<1>5. m - 0 = m /\ key - 0 = key /\ 0 <= m
  BY <1>1
<1> QED BY <1>0, <1>1, <1>2, <1>3, <1>4, <1>5 DEF ToldInv

LEMMA ToldStep ==
  ASSUME MaxKey < LimitAt + 2
  PROVE  ChkInv /\ ToldInv /\ [LogNext]_logVars => ToldInv'
<1> SUFFICES ASSUME ChkInv, ToldInv, [LogNext]_logVars PROVE ToldInv'
  OBVIOUS
<1> USE DEF flags, told
<1>1. CASE RecordChkpt
  BY <1>1, ToldRecorded
<1>2. CASE LogParams
  BY <1>2 DEF LogParams, ToldInv
<1>3. CASE Attach
  BY <1>3 DEF Attach, ToldInv, ChkInv
<1>4. CASE Detach
  BY <1>4 DEF Detach, ToldInv
<1>5. CASE EmitChkLog
  BY <1>5, ToldEmitted
<1>6. ASSUME NEW h \in Handles, EmitParamLog(h) PROVE ToldInv'
  <2>1. failed => failed'
    BY <1>6 DEF EmitParamLog, RestOfParam, Failed
  <2> QED BY <1>6, <2>1 DEF EmitParamLog, ToldInv
<1>7. CASE Retry
  <2>1. failed => failed'
    BY <1>7 DEF Retry, RestOfParam, Failed
  <2> QED BY <1>7, <2>1 DEF Retry, ToldInv
<1>8. ASSUME NEW F, Filed(F), Len(F) <= chk.key, Restart(F) PROVE ToldInv'
  <2>1. active' = FALSE /\ chk'.key = Len(F)
    BY <1>8, RestartKept DEF Restart
  <2>2. Len(F) \in Nat /\ chk.key \in Nat /\ chk.key <= MaxKey /\ MaxKey \in Nat
    BY <1>8, KeptParts, Elements, LogAssumption DEF Filed, ChkInv, ToldInv
  <2> DEFINE l == Len(F)
             k == chk.key
  <2> HIDE DEF l, k
  <2>3. l <= MaxKey
    <3>1. l \in Nat /\ k \in Nat /\ k <= MaxKey /\ MaxKey \in Nat /\ l <= k
      BY <1>8, <2>2 DEF l, k
    <3> QED BY <3>1
  <2> QED BY <2>1, <2>3 DEF ToldInv, l
<1>9. CASE Finalize
  <2>1. PICK F : F = Save(chk).file
    OBVIOUS
  <2>2. chk.key \in Nat
    BY KeptParts DEF ChkInv
  <2>3. Filed(F) /\ Len(F) <= chk.key /\ Restart(F)
    BY <1>9, <2>1, <2>2, LeavesFile DEF Finalize
  <2> QED BY <1>8, <2>3
<1>10. CASE Killed
  BY <1>8, <1>10, LeavesFile DEF Killed
<1>11. CASE UNCHANGED logVars
  BY <1>11 DEF logVars, ToldInv
<1> QED BY <1>1, <1>2, <1>3, <1>4, <1>5, <1>6, <1>7, <1>9, <1>10, <1>11 DEF LogNext

LEMMA LogStarts == LogInit => ChkInv /\ ParInv
<1> SUFFICES ASSUME LogInit PROVE ChkInv /\ ParInv
  OBVIOUS
<1>1. /\ chk = Empty /\ par = Empty /\ flushed = 0 /\ sendAll = TRUE /\ active = FALSE /\ view = << >>
      /\ retry = NoRetry /\ paramSendAll = Handles /\ pview = [h \in Handles |-> << >>]
  BY DEF LogInit
<1>2. ParType
  BY <1>1, NothingViewed, NoRetryType DEF ParType
<1>3. ChkInv
  BY <1>1, EmptyKept, ChkFresh
<1>4. ParInv
  BY <1>1, <1>2, EmptyKept, ParFresh
<1> QED BY <1>3, <1>4

\* File and memory hold every entry once and in order, across saving, MakeRoom, the end
\* of the application and its next start; and what a client is sent rises, whatever
\* messages fail and wherever Pack_send_log_entries gives up or goes on.
THEOREM LogsInOrder == LogSpec => []LogInOrder
<1>1. ChkInv /\ ParInv => LogInOrder
  <2> SUFFICES ASSUME ChkInv, ParInv PROVE LogInOrder
    OBVIOUS
  <2>1. Written(chk) = Before(chk.key) /\ Written(par) = Before(par.key)
    BY WrittenIs DEF ChkInv, ParInv
  <2> QED BY <2>1 DEF LogInOrder, ChkInv, ParInv, Within
<1> QED BY <1>1, LogStarts, ChkStep, ParStep, PTL DEF LogSpec

\* num_unsent = 0, no failed message and no unsent entry put in the file: the client has
\* the whole log of checkpoints, however many were recorded between two calls of
\* Steering_control. For a log that Pack_send_log_entries sends in one go.
THEOREM ToldWhenNothingUnsent ==
  ASSUME MaxKey < LimitAt + 2
  PROVE  LogSpec => []ToldAll
<1>1. LogInit => ToldInv
  BY EmptyKept, LogAssumption DEF LogInit, ToldInv
<1>2. ChkInv /\ ToldInv => ToldAll
  <2> SUFFICES ASSUME ChkInv, ToldInv, active, ~sendAll, unsent = 0, ~failed, ~spilled
               PROVE  view = Before(chk.key)
    BY DEF ToldAll
  <2>1. view = Before(chk.key - 0) /\ chk.key \in Nat
    BY KeptParts DEF ChkInv, ToldInv
  <2>2. chk.key - 0 = chk.key
    BY <2>1
  <2> QED BY <2>1, <2>2
<1>3. ChkInv /\ ToldInv /\ [LogNext]_logVars => ToldInv'
  BY ToldStep
<1> QED BY <1>1, <1>2, <1>3, LogStarts, ChkStep, PTL DEF LogSpec

-----------------------------------------------------------------------------
(* What the client has been answered.                                      *)

\* As long as nothing fails: a parameter's flag is up until the client first asks for
\* it, and then the client has the log as it was at that moment.
AnswerInv ==
  /\ par.key <= MaxKey /\ asked \in [Handles -> Int]
  /\ ~active => paramSendAll = Handles
  /\ active /\ ~failed =>
       /\ retry = NoRetry
       /\ \A h \in Handles :
            /\ asked[h] = NotAsked <=> h \in paramSendAll
            /\ asked[h] # NotAsked => pview[h] = Before(asked[h])

LEMMA Answered ==
  ASSUME ParInv, AnswerInv, MaxKey < LimitAt + 2, NEW h \in Handles, EmitParamLog(h)
  PROVE  AnswerInv'
<1> DEFINE F == ToSend(par, h \in paramSendAll)[1]
           S == ToSend(par, h \in paramSendAll)[2]
           K == Keys(par.mem)
           key == par.key
           f == Len(par.file)
           m == Len(par.mem)
<1>1. /\ active /\ active' = active /\ retry = NoRetry
      /\ asked' = IF asked[h] = NotAsked THEN [asked EXCEPT ![h] = key] ELSE asked
  BY DEF EmitParamLog, Idle
<1>2. ParType /\ Kept(par) /\ AllSent(par) /\ \A g \in paramSendAll : pview[g] = << >>
  BY <1>1 DEF ParInv
<1>3. /\ f \in Nat /\ m \in Nat /\ key \in Nat /\ key = f + m /\ par.file \in Seq(Nat)
      /\ K \in Seq(Nat) /\ Len(K) = m /\ MaxKey \in Nat /\ key <= MaxKey
  BY <1>2, KeptParts, KeptKeys, LogAssumption DEF AnswerInv
<1>4. IF h \in paramSendAll THEN F = par.file /\ S = K ELSE F = << >> /\ S = << >>
  BY <1>2, NothingUnsent DEF ToSend
<1>5. par' \in {par, Marked(par)} /\ par'.key = key
  <2>1. par' \in {par, Marked(par)}
    BY DEF EmitParamLog, RestOfParam
  <2> QED BY <1>2, <2>1, MarkedKept
<1>6. asked' \in [Handles -> Int]
  BY <1>1, <1>3 DEF AnswerInv
<1> HIDE DEF f, m, K, key
<1>7. /\ Len(F) \in 0 .. MaxKey /\ Len(S) \in 0 .. MaxKey
  <2>1. f \in 0 .. MaxKey /\ m \in 0 .. MaxKey /\ 0 \in 0 .. MaxKey /\ Len(<< >>) = 0
    BY <1>3
  <2> QED BY <1>3, <1>4, <2>1 DEF f
<1>8. ASSUME ~failed'
      PROVE  /\ retry' = NoRetry /\ paramSendAll' = paramSendAll \ {h}
             /\ pview' = [pview EXCEPT ![h] = @ \o F \o S]
  <2> HIDE DEF F
  <2>1. Packed(F).rest = << >>
    <3>1. Len(F) \in Nat /\ Len(F) < LimitAt + 2
      BY <1>3, <1>7, LimitType
    <3>2. Packed(F) = [sent |-> F, rest |-> << >>]
      BY <3>1, PackAll
    <3> QED BY <3>2
  <2>2. RestOfParam(h, F)
    <3> SUFFICES ASSUME ~RestOfParam(h, F) PROVE FALSE
      OBVIOUS
    <3>1. PICK r \in PackChoices(F), e \in BOOLEAN : Pack(F, r, e) /\ r.rest # << >> /\ Failed(e)
      BY DEF EmitParamLog, F
    <3>2. ~e
      BY <1>8, <3>1 DEF Failed
    <3>3. r = Packed(F)
      BY <3>1, <3>2 DEF Pack
    <3> QED BY <2>1, <3>1, <3>3
  <2>3. PICK r \in PackChoices(S), e \in BOOLEAN :
         Pack(S, r, e) /\ Failed(e) /\ pview' = [pview EXCEPT ![h] = @ \o F \o r.sent]
    BY <2>2 DEF RestOfParam
  <2>4. ~e
    BY <1>8, <2>3 DEF Failed
  <2>5. r.sent = S
    <3>1. Pack(S, r, FALSE)
      BY <2>3, <2>4 DEF Pack
    <3> HIDE DEF S
    <3> QED BY <1>7, <3>1, PackWhole
  <2> QED BY <2>2, <2>3, <2>5 DEF RestOfParam
<1>9. ASSUME ~failed', NEW g \in Handles
      PROVE  /\ asked'[g] = NotAsked <=> g \in paramSendAll'
             /\ asked'[g] # NotAsked => pview'[g] = Before(asked'[g])
  <2>1. ~failed
    BY <1>9 DEF EmitParamLog, RestOfParam, Failed
  <2>2. /\ asked[g] = NotAsked <=> g \in paramSendAll
        /\ asked[g] # NotAsked => pview[g] = Before(asked[g])
        /\ asked[h] = NotAsked <=> h \in paramSendAll
    BY <1>1, <2>1 DEF AnswerInv
  <2>3. asked \in [Handles -> Int] /\ pview \in [Handles -> Seq(Nat)]
    BY <1>2 DEF AnswerInv, ParType
  <2>4. CASE g # h
    BY <1>1, <1>8, <1>9, <2>2, <2>3, <2>4
  <2>5. CASE g = h /\ h \in paramSendAll
    <3>1. asked'[g] = key /\ key # NotAsked
      BY <1>1, <1>3, <2>2, <2>3, <2>5 DEF NotAsked
    <3>2. pview'[g] = << >> \o par.file \o K
      BY <1>2, <1>4, <1>8, <1>9, <2>3, <2>5
    <3>3. << >> \o par.file = par.file
      BY <1>3, ConcatEmptySeq
    <3>4. par.file \o K = Before(key)
      BY <1>2, WrittenIs DEF Written, K, key
    <3> QED BY <1>8, <1>9, <2>5, <3>1, <3>2, <3>3, <3>4
  <2>6. CASE g = h /\ h \notin paramSendAll
    <3>1. asked' = asked /\ asked[g] # NotAsked
      BY <1>1, <2>2, <2>6
    <3>2. pview'[g] = pview[g] \o << >> \o << >>
      BY <1>4, <1>8, <1>9, <2>3, <2>6
    <3>3. pview[g] \o << >> = pview[g]
      BY <2>3, ConcatEmptySeq
    <3> QED BY <1>8, <1>9, <2>2, <2>6, <3>1, <3>2, <3>3
  <2> QED BY <2>4, <2>5, <2>6
<1>10. par'.key <= MaxKey
  BY <1>3, <1>5
<1> QED BY <1>1, <1>6, <1>8, <1>9, <1>10 DEF AnswerInv

LEMMA AnswerStep ==
  ASSUME MaxKey < LimitAt + 2
  PROVE  ParInv /\ AnswerInv /\ [LogNext]_logVars => AnswerInv'
<1> SUFFICES ASSUME ParInv, AnswerInv, [LogNext]_logVars PROVE AnswerInv'
  OBVIOUS
<1> USE DEF flags, told
<1>0. Kept(par) /\ ParType
  BY DEF ParInv
<1>1. CASE RecordChkpt
  BY <1>1 DEF RecordChkpt, AnswerInv
<1>2. CASE LogParams
  <2>1. par'.key <= MaxKey
    <3> DEFINE key == par.key
               newKey == par'.key
    <3>1. newKey = key + 1 /\ key < MaxKey /\ key \in Nat
      BY <1>0, <1>2, AddKept, KeptParts DEF LogParams, ParType
    <3> HIDE DEF key, newKey
    <3>2. newKey <= MaxKey
      BY <3>1, LogAssumption
    <3> QED BY <3>2 DEF newKey
  <2> QED BY <1>2, <2>1 DEF LogParams, AnswerInv
<1>3. CASE Attach
  <2>1. par'.key = par.key
    BY <1>0, <1>3, SaveKept DEF Attach
  <2>2. /\ retry' = NoRetry /\ paramSendAll' = Handles /\ active' = TRUE
        /\ asked' = [h \in Handles |-> NotAsked]
    BY <1>3 DEF Attach, Idle, AnswerInv
  <2>3. asked' \in [Handles -> Int]
    BY <2>2 DEF NotAsked
  <2>4. \A h \in Handles : asked'[h] = NotAsked
    BY <2>2
  <2> QED BY <2>1, <2>2, <2>3, <2>4 DEF AnswerInv
<1>4. CASE Detach
  BY <1>4 DEF Detach, DetachFlags, AnswerInv
<1>5. CASE EmitChkLog
  <2>1. failed => failed'
    BY <1>5 DEF EmitChkLog, Failed
  <2> QED BY <1>5, <2>1 DEF EmitChkLog, AnswerInv
<1>6. ASSUME NEW h \in Handles, EmitParamLog(h) PROVE AnswerInv'
  BY <1>6, Answered
<1>7. CASE Retry
  <2>1. active /\ active' = active /\ asked' = asked
    BY <1>7 DEF Retry, ParInv, Retrying
  <2>2. failed
    BY <1>7, <2>1 DEF Retry, AnswerInv
  <2>3. failed'
    BY <1>7, <2>2 DEF Retry, RestOfParam, Failed
  <2>4. par' \in {par, Marked(par)}
    BY <1>7 DEF Retry, RestOfParam
  <2>5. par'.key = par.key
    BY <1>0, <2>4, MarkedKept
  <2> QED BY <2>1, <2>3, <2>5 DEF AnswerInv
<1>8. ASSUME NEW F, Restart(F) PROVE AnswerInv'
  <2>1. /\ par'.key = 0 /\ paramSendAll' = Handles /\ active' = FALSE
        /\ asked' = [h \in Handles |-> NotAsked]
    BY <1>8, EmptyKept DEF Restart
  <2>2. asked' \in [Handles -> Int]
    BY <2>1 DEF NotAsked
  <2> QED BY <2>1, <2>2, LogAssumption DEF AnswerInv
<1>9. CASE UNCHANGED logVars
  BY <1>9 DEF logVars, AnswerInv
<1> QED BY <1>1, <1>2, <1>3, <1>4, <1>5, <1>6, <1>7, <1>8, <1>9 DEF LogNext, Finalize, Killed

\* A client that has asked for the log of a parameter has all that had been logged by
\* then.  For a log that Pack_send_log_entries sends in one go.
THEOREM AnswersComplete ==
  ASSUME MaxKey < LimitAt + 2
  PROVE  LogSpec => []AnswerComplete
<1>1. LogInit => AnswerInv
  <2> SUFFICES ASSUME LogInit PROVE AnswerInv
    OBVIOUS
  <2>1. /\ par.key = 0 /\ paramSendAll = Handles /\ active = FALSE
        /\ asked = [h \in Handles |-> NotAsked]
    BY EmptyKept DEF LogInit
  <2>2. asked \in [Handles -> Int]
    BY <2>1 DEF NotAsked
  <2> QED BY <2>1, <2>2, LogAssumption DEF AnswerInv
<1>2. AnswerInv => AnswerComplete
  BY DEF AnswerInv, AnswerComplete
<1>3. ParInv /\ AnswerInv /\ [LogNext]_logVars => AnswerInv'
  BY AnswerStep
<1> QED BY <1>1, <1>2, <1>3, LogStarts, ParStep, PTL DEF LogSpec
=============================================================================
