------------------------ MODULE DefinitionTables_proofs ------------------------
(***************************************************************************)
(* Theorems about DefinitionTables, for any simulations, any number of     *)
(* types, edits and attachments and any table of simulations: what a       *)
(* client lists of a simulation was registered there, its copy is complete *)
(* when nothing is on its way, frequencies follow what was asked for, and  *)
(* simulations are served in turn.                                         *)
(*                                                                         *)
(* Once a table of types was moved to a larger block there are rows that   *)
(* nobody wrote and pointers that lead nowhere: what is said of the rows   *)
(* of a table holds until it is moved, whatever happens to the others.     *)
(***************************************************************************)
EXTENDS DefinitionTables, SequenceTheorems, FiniteSetTheorems, WellFoundedInduction, TLAPS

Cell    == Kinds \X Int
Entry   == [sim : Sims \cup {NoSim}, params : SUBSET Int, io : SUBSET Row, chk : SUBSET Row]
Request == [type : {"edit"}, p : Int, v : Nat] \cup [type : {"detach"}]
News    == [type : All \cup {"status"}, rows : SUBSET (Int \cup Row)]

AppTyped ==
  /\ types \in [Sims -> [Kinds -> Seq(Row)]] /\ freq \in [Sims -> [Kinds -> Seq(Nat)]]
  /\ target \in [Sims -> Seq(Cell)] /\ want \in [Sims -> Seq(Nat)]
  /\ nextType \in [Sims -> Nat] /\ calls \in Nat /\ calls <= MaxTypes
  /\ changed \in [Sims -> SUBSET All]

LinkTyped ==
  /\ conn \in [Sims -> BOOLEAN]
  /\ up \in [Sims -> Seq(Request)] /\ down \in [Sims -> Seq(News)]
  /\ entry \in [0 .. Slots - 1 -> Entry] /\ edits \in Nat /\ last \in -1 .. Slots - 1

TypeInv == AppTyped /\ LinkTyped

-----------------------------------------------------------------------------
(* Sequences.                                                              *)

LEMMA Elements ==
  ASSUME NEW T, NEW q \in Seq(T)
  PROVE  /\ Len(q) \in Nat /\ DOMAIN q = 1 .. Len(q)
         /\ \A i \in 1 .. Len(q) : q[i] \in T
  OBVIOUS

LEMMA FunctionIsSeq ==
  ASSUME NEW T, NEW n \in Nat, NEW f \in [1 .. n -> T]
  PROVE  f \in Seq(T) /\ Len(f) = n
<1>1. f \in UNION {[1 .. k -> T] : k \in Nat}
  BY Zenon
<1>2. f \in Seq(T)
  BY <1>1, SeqDef, Zenon
<1>3. DOMAIN f = 1 .. n
  OBVIOUS
<1> QED BY <1>2, <1>3, LenProperties

LEMMA Appended ==
  ASSUME NEW T, NEW q \in Seq(T), NEW x \in T
  PROVE  /\ Append(q, x) \in Seq(T) /\ Len(Append(q, x)) = Len(q) + 1
         /\ Append(q, x)[Len(q) + 1] = x
         /\ \A i \in 1 .. Len(q) : Append(q, x)[i] = q[i]
         /\ \A i \in 1 .. Len(q) + 1 : i \in 1 .. Len(q) \/ i = Len(q) + 1
<1>1. Len(q) \in Nat
  OBVIOUS
<1>2. \A i \in 1 .. Len(q) + 1 : i \in 1 .. Len(q) \/ i = Len(q) + 1
  BY <1>1
<1> QED BY <1>2, AppendProperties

\* A value written at a position of a sequence, or right behind its end.
LEMMA PutSeq ==
  ASSUME NEW T, NEW q \in Seq(T), NEW i \in 1 .. Len(q) + 1, NEW x \in T
  PROVE  Put(q, i, x) \in Seq(T) /\ Len(Put(q, i, x)) = (IF i > Len(q) THEN Len(q) + 1 ELSE Len(q))
<1> DEFINE n == IF i > Len(q) THEN i ELSE Len(q)
           f == [j \in 1 .. n |-> IF j = i THEN x ELSE q[j]]
<1>1. Len(q) \in Nat /\ \A j \in 1 .. Len(q) : q[j] \in T
  BY Elements
<1>2. n \in Nat /\ n = (IF i > Len(q) THEN Len(q) + 1 ELSE Len(q))
      /\ \A j \in 1 .. n : j = i \/ j \in 1 .. Len(q)
  BY <1>1
<1>3. Put(q, i, x) = f
  BY DEF Put
<1> HIDE DEF n
<1>4. f \in [1 .. n -> T]
  BY <1>1, <1>2
<1> HIDE DEF f
<1>5. f \in Seq(T) /\ Len(f) = n
  BY ONLY <1>2, <1>4, FunctionIsSeq
<1> QED BY <1>2, <1>3, <1>5

LEMMA PutLen ==
  ASSUME NEW q \in Seq(Nat), NEW i \in 1 .. Len(q) + 1, NEW x \in Nat, NEW p, p = Put(q, i, x)
  PROVE  (i > Len(q) => Len(p) = Len(q) + 1) /\ (i <= Len(q) => Len(p) = Len(q))
<1>1. Len(q) \in Nat /\ i \in Nat
  BY Elements
<1>2. Len(p) = (IF i > Len(q) THEN Len(q) + 1 ELSE Len(q))
  BY PutSeq, Zenon
<1> QED BY <1>1, <1>2

LEMMA PutHere ==
  ASSUME NEW T, NEW q \in Seq(T), NEW i \in 1 .. Len(q) + 1, NEW x \in T
  PROVE  Put(q, i, x)[i] = x
<1>1. Len(q) \in Nat
  BY Elements
<1> QED BY <1>1 DEF Put

LEMMA PutElsewhere ==
  ASSUME NEW T, NEW q \in Seq(T), NEW i \in 1 .. Len(q) + 1, NEW x, NEW j \in 1 .. Len(q), j # i
  PROVE  Put(q, i, x)[j] = q[j]
<1>1. Len(q) \in Nat
  BY Elements
<1> QED BY <1>1 DEF Put

LEMMA PutEnd ==
  ASSUME NEW T, NEW q \in Seq(T), NEW x \in T
  PROVE  Put(q, Len(q) + 1, x) = Append(q, x)
<1> DEFINE a == Append(q, x)
           n == Len(q) + 1
           f == [j \in 1 .. n |-> IF j = n THEN x ELSE q[j]]
<1>1. Len(q) \in Nat /\ n \in Nat /\ n > Len(q)
  BY Elements
<1>2. /\ a \in Seq(T) /\ Len(a) = n /\ a[n] = x
      /\ \A j \in 1 .. Len(q) : a[j] = q[j]
      /\ \A j \in 1 .. n : j \in 1 .. Len(q) \/ j = n
  BY ONLY Appended, q \in Seq(T), x \in T
<1>3. \A j \in 1 .. n : f[j] = a[j]
  BY <1>1, <1>2
<1>4. Put(q, n, x) = f
  BY <1>1 DEF Put
<1>5. f = a
  <2>1. a \in [1 .. n -> T]
    BY <1>2, LenProperties
  <2> HIDE DEF a, n
  <2> QED BY <1>3, <2>1
<1> QED BY <1>4, <1>5

-----------------------------------------------------------------------------
(* The tables of an application.  Handles of types are given out once, and  *)
(* the parameter of a row is the only one of a row that points to it.       *)

Linked(s, r, k, i) ==
  /\ r.h \in 0 .. nextType[s] - 1
  /\ \/ r.fh = NotSet
     \/ (r.fh \in 0 .. Len(target[s]) - 1 /\ target[s][r.fh + 1] = <<k, i>>)

TableInv(s) ==
  /\ \A k \in Kinds :
       /\ Len(types[s][k]) <= calls
       /\ Len(types[s][k]) <= Len(freq[s][k]) /\ Len(freq[s][k]) <= Len(types[s][k]) + 1
       /\ \A i \in 1 .. Len(types[s][k]) : Linked(s, types[s][k][i], k, i)
  /\ Len(freq[s]["chk"]) = Len(types[s]["chk"])
  /\ Len(want[s]) = nextType[s]
  /\ \A k, l \in Kinds : \A i \in 1 .. Len(types[s][k]), j \in 1 .. Len(types[s][l]) :
       types[s][k][i].h = types[s][l][j].h => k = l /\ i = j

\* The row that a registration adds to the table of kind k.
Adds(s, k, fh) ==
  /\ types'[s][k] = Append(types[s][k], [h |-> nextType[s], fh |-> fh])
  /\ nextType'[s] = nextType[s] + 1 /\ want'[s] = Append(want[s], 0)
  /\ k \in changed'[s]
  /\ \/ fh = NotSet /\ target'[s] = target[s]
     \/ fh = Len(target[s]) /\ target'[s] = Append(target[s], <<k, Len(types[s][k]) + 1>>)

Registers(s, k) ==
  /\ calls' = calls + 1
  /\ \A t \in Sims \ {s} : UNCHANGED <<types[t], freq[t], target[t], nextType[t], want[t], changed[t]>>
  /\ \A l \in Kinds \ {k} : UNCHANGED <<types[s][l], freq[s][l]>>
  /\ freq'[s][k] = Put(freq[s][k], Len(types[s][k]) + 1, 0)
  /\ changed[s] \subseteq changed'[s]
  /\ \/ target'[s] = target[s]
     \/ target'[s] = Append(target[s], <<k, Len(types[s][k]) + 1>>) /\ "param" \in changed'[s]
  /\ \/ UNCHANGED <<types[s], nextType[s], want[s]>> /\ k = "io"
     \/ \E fh \in Int : Adds(s, k, fh)
  /\ UNCHANGED <<conn, up, down, client, edits, skips, missed>>

LEMMA RegisteringIO ==
  ASSUME TypeInv, NEW s \in Sims, TableInv(s), NEW b \in BOOLEAN, RegisterIOType(s, b)
  PROVE  AppTyped' /\ Registers(s, "io")
<1> DEFINE i == Len(types[s]["io"]) + 1
           row == [h |-> nextType[s], fh |-> Len(target[s])]
<1>1. /\ calls < MaxTypes /\ calls' = calls + 1
      /\ freq' = [freq EXCEPT ![s]["io"] = Put(@, i, 0)]
      /\ target' = [target EXCEPT ![s] = Append(@, <<"io", i>>)]
      /\ changed' = [changed EXCEPT ![s] = @ \cup IF b THEN {"param", "io"} ELSE {"param"}]
      /\ IF b THEN Enter(s, "io", FreqHandle(s)) ELSE UNCHANGED <<types, nextType, want>>
      /\ UNCHANGED <<conn, up, down, client, edits, skips, missed>>
  BY DEF RegisterIOType
<1>2. /\ types \in [Sims -> [Kinds -> Seq(Row)]] /\ freq \in [Sims -> [Kinds -> Seq(Nat)]]
      /\ target \in [Sims -> Seq(Cell)] /\ want \in [Sims -> Seq(Nat)]
      /\ nextType \in [Sims -> Nat] /\ calls \in Nat /\ MaxTypes \in Nat
      /\ changed \in [Sims -> SUBSET All] /\ "io" \in Kinds
  BY TablesAssumption DEF TypeInv, AppTyped, Kinds
<1>3. Len(types[s]["io"]) \in Nat /\ i \in 1 .. Len(freq[s]["io"]) + 1
  BY <1>2, Elements DEF TableInv
<1>4. Len(target[s]) \in Nat /\ row \in Row /\ <<"io", i>> \in Cell
  BY <1>2, <1>3, Elements DEF Row, Cell
<1>5. Put(freq[s]["io"], i, 0) \in Seq(Nat)
  <2>1. freq[s]["io"] \in Seq(Nat) /\ 0 \in Nat
    BY <1>2
  <2> QED BY ONLY <1>3, <2>1, PutSeq
<1> HIDE DEF i, row
<1>6. freq' \in [Sims -> [Kinds -> Seq(Nat)]] /\ target' \in [Sims -> Seq(Cell)]
  BY <1>1, <1>2, <1>4, <1>5
<1>7. calls' \in Nat /\ calls' <= MaxTypes /\ changed' \in [Sims -> SUBSET All]
  BY <1>1, <1>2 DEF All
<1>8. CASE b
  <2>1. /\ types' = [types EXCEPT ![s]["io"] = Append(@, row)]
        /\ nextType' = [nextType EXCEPT ![s] = @ + 1] /\ want' = [want EXCEPT ![s] = Append(@, 0)]
    BY <1>1, <1>8 DEF Enter, FreqHandle, row
  <2>2. types' \in [Sims -> [Kinds -> Seq(Row)]] /\ nextType' \in [Sims -> Nat] /\ want' \in [Sims -> Seq(Nat)]
    BY <1>2, <1>4, <2>1
  <2>3. AppTyped'
    BY <1>6, <1>7, <2>2 DEF AppTyped
  <2>4. /\ types'[s]["io"] = Append(types[s]["io"], row) /\ nextType'[s] = nextType[s] + 1
        /\ want'[s] = Append(want[s], 0) /\ "io" \in changed'[s] /\ "param" \in changed'[s]
        /\ target'[s] = Append(target[s], <<"io", i>>)
    BY <1>1, <1>2, <1>8, <2>1
  <2>5. \E fh \in Int : Adds(s, "io", fh)
    <3>1. Adds(s, "io", Len(target[s]))
      BY ONLY <2>4 DEF Adds, row, i
    <3>2. Len(target[s]) \in Int
      BY <1>4
    <3> QED BY ONLY <3>1, <3>2
  <2>6. /\ \A t \in Sims \ {s} : UNCHANGED <<types[t], freq[t], target[t], nextType[t], want[t], changed[t]>>
        /\ \A l \in Kinds \ {"io"} : UNCHANGED <<types[s][l], freq[s][l]>>
    BY <1>1, <1>2, <2>1
  <2>7. freq'[s]["io"] = Put(freq[s]["io"], i, 0) /\ changed[s] \subseteq changed'[s]
    BY <1>1, <1>2
  <2> QED BY <1>1, <2>3, <2>4, <2>5, <2>6, <2>7 DEF Registers, i
<1>9. CASE ~b
  <2>1. UNCHANGED <<types, nextType, want>>
    BY <1>1, <1>9
  <2>2. AppTyped'
    BY <1>2, <1>6, <1>7, <2>1 DEF AppTyped
  <2>3. /\ \A t \in Sims \ {s} : UNCHANGED <<types[t], freq[t], target[t], nextType[t], want[t], changed[t]>>
        /\ \A l \in Kinds \ {"io"} : UNCHANGED <<types[s][l], freq[s][l]>>
    BY <1>1, <1>2, <2>1
  <2>4. /\ freq'[s]["io"] = Put(freq[s]["io"], i, 0) /\ changed[s] \subseteq changed'[s]
        /\ target'[s] = Append(target[s], <<"io", i>>) /\ "param" \in changed'[s]
    BY <1>1, <1>2, <1>9
  <2> QED BY <1>1, <2>1, <2>2, <2>3, <2>4 DEF Registers, i
<1> QED BY <1>8, <1>9

LEMMA RegisteringChk ==
  ASSUME TypeInv, NEW s \in Sims, TableInv(s), NEW b \in BOOLEAN, RegisterChkType(s, b)
  PROVE  AppTyped' /\ Registers(s, "chk")
<1> DEFINE i == Len(types[s]["chk"]) + 1
           fh == IF b THEN NotSet ELSE Len(target[s])
           row == [h |-> nextType[s], fh |-> fh]
<1>1. /\ calls < MaxTypes /\ calls' = calls + 1
      /\ freq' = [freq EXCEPT ![s]["chk"] = Append(@, 0)]
      /\ target' = IF b THEN target
                   ELSE [target EXCEPT ![s] = Append(@, <<"chk", Len(freq[s]["chk"]) + 1>>)]
      /\ changed' = [changed EXCEPT ![s] = @ \cup IF b THEN {"chk"} ELSE {"param", "chk"}]
      /\ Enter(s, "chk", IF b THEN NotSet ELSE FreqHandle(s))
      /\ UNCHANGED <<conn, up, down, client, edits, skips, missed>>
  BY DEF RegisterChkType
<1>2. /\ types \in [Sims -> [Kinds -> Seq(Row)]] /\ freq \in [Sims -> [Kinds -> Seq(Nat)]]
      /\ target \in [Sims -> Seq(Cell)] /\ want \in [Sims -> Seq(Nat)]
      /\ nextType \in [Sims -> Nat] /\ calls \in Nat /\ MaxTypes \in Nat
      /\ changed \in [Sims -> SUBSET All] /\ "chk" \in Kinds
  BY TablesAssumption DEF TypeInv, AppTyped, Kinds
<1>3. /\ Len(types[s]["chk"]) \in Nat /\ i \in 1 .. Len(freq[s]["chk"]) + 1
      /\ i = Len(freq[s]["chk"]) + 1
  BY <1>2, Elements DEF TableInv
<1>4. Len(target[s]) \in Nat /\ fh \in Int /\ row \in Row /\ <<"chk", i>> \in Cell
  BY <1>2, <1>3, Elements DEF Row, Cell, NotSet
<1>5. Append(freq[s]["chk"], 0) = Put(freq[s]["chk"], i, 0) /\ Append(freq[s]["chk"], 0) \in Seq(Nat)
  <2>1. freq[s]["chk"] \in Seq(Nat) /\ 0 \in Nat
    BY <1>2
  <2> QED BY ONLY <1>3, <2>1, PutEnd, Appended
<1> HIDE DEF i, row, fh
<1>6. freq' \in [Sims -> [Kinds -> Seq(Nat)]] /\ target' \in [Sims -> Seq(Cell)]
  BY <1>1, <1>2, <1>3, <1>4, <1>5
<1>7. calls' \in Nat /\ calls' <= MaxTypes /\ changed' \in [Sims -> SUBSET All]
  BY <1>1, <1>2 DEF All
<1>8. /\ types' = [types EXCEPT ![s]["chk"] = Append(@, row)]
      /\ nextType' = [nextType EXCEPT ![s] = @ + 1] /\ want' = [want EXCEPT ![s] = Append(@, 0)]
  BY <1>1 DEF Enter, FreqHandle, row, fh
<1>9. types' \in [Sims -> [Kinds -> Seq(Row)]] /\ nextType' \in [Sims -> Nat] /\ want' \in [Sims -> Seq(Nat)]
  BY <1>2, <1>4, <1>8
<1>10. AppTyped'
  BY <1>6, <1>7, <1>9 DEF AppTyped
<1>11. /\ types'[s]["chk"] = Append(types[s]["chk"], row) /\ nextType'[s] = nextType[s] + 1
       /\ want'[s] = Append(want[s], 0) /\ "chk" \in changed'[s]
       /\ changed[s] \subseteq changed'[s] /\ freq'[s]["chk"] = Put(freq[s]["chk"], i, 0)
  BY <1>1, <1>2, <1>5, <1>8
<1>12. \/ b /\ target'[s] = target[s]
       \/ ~b /\ target'[s] = Append(target[s], <<"chk", i>>) /\ "param" \in changed'[s]
  BY <1>1, <1>2, <1>3
<1>13. Adds(s, "chk", fh)
  BY <1>11, <1>12 DEF Adds, row, fh, i
<1>14. /\ \A t \in Sims \ {s} : UNCHANGED <<types[t], freq[t], target[t], nextType[t], want[t], changed[t]>>
       /\ \A l \in Kinds \ {"chk"} : UNCHANGED <<types[s][l], freq[s][l]>>
  BY <1>1, <1>2, <1>8
<1> QED BY <1>1, <1>4, <1>10, <1>11, <1>12, <1>13, <1>14 DEF Registers, i

\* A row after a registration is one from before, with its frequency, or the
\* new one.
OldRow(s, l, i) ==
  /\ i \in 1 .. Len(types[s][l])
  /\ types'[s][l][i] = types[s][l][i] /\ freq'[s][l][i] = freq[s][l][i]

NewRow(s, k, i) ==
  /\ i = Len(types[s][k]) + 1 /\ k \in changed'[s]
  /\ types'[s][k][i].h = nextType[s] /\ freq'[s][k][i] = 0
  /\ nextType'[s] = nextType[s] + 1 /\ want'[s] = Append(want[s], 0)
  /\ \/ types'[s][k][i].fh = NotSet
     \/ /\ types'[s][k][i].fh = Len(target[s])
        /\ target'[s] = Append(target[s], <<k, i>>)

LEMMA RowsRegistered ==
  ASSUME AppTyped, AppTyped', NEW s \in Sims, TableInv(s), NEW k \in Kinds, Registers(s, k)
  PROVE  /\ \A l \in Kinds : /\ Len(types[s][l]) \in Nat /\ Len(types'[s][l]) \in Nat
                             /\ Len(types'[s][l]) >= Len(types[s][l])
                             /\ Len(types'[s][l]) <= Len(types[s][l]) + 1
         /\ \A l \in Kinds : \A i \in 1 .. Len(types'[s][l]) :
              OldRow(s, l, i) \/ (l = k /\ NewRow(s, k, i))
         /\ \A l \in Kinds : \A i \in 1 .. Len(types[s][l]) :
              i \in 1 .. Len(types'[s][l]) /\ types'[s][l][i] = types[s][l][i]
         /\ \A l \in Kinds : l \in changed'[s] \/ types'[s][l] = types[s][l]
         /\ nextType'[s] \in {nextType[s], nextType[s] + 1}
         /\ \/ k = "io" /\ UNCHANGED <<types[s], nextType[s], want[s]>>
            \/ Len(types'[s][k]) = Len(types[s][k]) + 1 /\ NewRow(s, k, Len(types'[s][k]))
<1> DEFINE n == Len(types[s][k]) + 1
<1>1. \A l \in Kinds : types[s][l] \in Seq(Row) /\ freq[s][l] \in Seq(Nat) /\ types'[s][l] \in Seq(Row)
  BY DEF AppTyped
<1>2. \A l \in Kinds : Len(types[s][l]) \in Nat /\ Len(freq[s][l]) \in Nat
  BY <1>1, Elements
<1>3. n \in 1 .. Len(freq[s][k]) + 1
  <2>1. Len(types[s][k]) <= Len(freq[s][k]) /\ Len(types[s][k]) \in Nat /\ Len(freq[s][k]) \in Nat
    BY <1>2 DEF TableInv
  <2> QED BY ONLY <2>1
<1>4. freq'[s][k][n] = 0 /\ \A i \in 1 .. Len(freq[s][k]) : i # n => freq'[s][k][i] = freq[s][k][i]
  <2>1. freq'[s][k] = Put(freq[s][k], n, 0) /\ freq[s][k] \in Seq(Nat) /\ 0 \in Nat
    BY <1>1 DEF Registers
  <2> HIDE DEF n
  <2>2. freq'[s][k][n] = 0
    BY ONLY <1>3, <2>1, PutHere
  <2>3. \A i \in 1 .. Len(freq[s][k]) : i # n => freq'[s][k][i] = freq[s][k][i]
    BY ONLY <1>3, <2>1, PutElsewhere
  <2> QED BY <2>2, <2>3
<1>5. \A i \in 1 .. Len(types[s][k]) : i \in 1 .. Len(freq[s][k]) /\ i # n
  BY <1>2 DEF TableInv
<1>6. \A l \in Kinds \ {k} : UNCHANGED <<types[s][l], freq[s][l]>>
  BY DEF Registers
<1>7. CASE k = "io" /\ UNCHANGED <<types[s], nextType[s], want[s]>>
  <2>1. \A l \in Kinds : types'[s][l] = types[s][l] /\ nextType'[s] = nextType[s]
    BY <1>7
  <2>2. \A l \in Kinds : \A i \in 1 .. Len(types'[s][l]) : OldRow(s, l, i)
    BY <1>4, <1>5, <1>6, <2>1 DEF OldRow
  <2>3. \A l \in Kinds : /\ Len(types[s][l]) \in Nat /\ Len(types'[s][l]) \in Nat
                         /\ Len(types'[s][l]) >= Len(types[s][l])
                         /\ Len(types'[s][l]) <= Len(types[s][l]) + 1
    BY ONLY <1>2, <2>1
  <2>4. \A l \in Kinds : \A i \in 1 .. Len(types[s][l]) :
          i \in 1 .. Len(types'[s][l]) /\ types'[s][l][i] = types[s][l][i]
    BY ONLY <2>1
  <2> QED BY ONLY <1>7, <2>1, <2>2, <2>3, <2>4
<1>8. ASSUME NEW fh \in Int, Adds(s, k, fh)
      PROVE  /\ \A l \in Kinds : Len(types'[s][l]) >= Len(types[s][l]) /\ Len(types'[s][l]) <= Len(types[s][l]) + 1
             /\ \A l \in Kinds : \A i \in 1 .. Len(types'[s][l]) :
                  OldRow(s, l, i) \/ (l = k /\ NewRow(s, k, i))
             /\ \A l \in Kinds : \A i \in 1 .. Len(types[s][l]) :
                  i \in 1 .. Len(types'[s][l]) /\ types'[s][l][i] = types[s][l][i]
             /\ \A l \in Kinds : l \in changed'[s] \/ types'[s][l] = types[s][l]
             /\ nextType'[s] = nextType[s] + 1
             /\ Len(types'[s][k]) = Len(types[s][k]) + 1 /\ NewRow(s, k, Len(types'[s][k]))
  <2> DEFINE row == [h |-> nextType[s], fh |-> fh]
  <2>1. row \in Row /\ types[s][k] \in Seq(Row) /\ nextType'[s] = nextType[s] + 1
    BY <1>1, <1>8 DEF Row, AppTyped, Adds
  <2>2. types'[s][k] = Append(types[s][k], row)
    BY <1>8 DEF Adds
  <2>3. row.h = nextType[s] /\ row.fh = fh
    OBVIOUS
  <2> HIDE DEF row
  <2>4. /\ Len(types'[s][k]) = Len(types[s][k]) + 1 /\ types'[s][k][n] = row
        /\ \A i \in 1 .. Len(types[s][k]) : types'[s][k][i] = types[s][k][i]
        /\ \A i \in 1 .. Len(types'[s][k]) : i \in 1 .. Len(types[s][k]) \/ i = n
    BY ONLY <2>1, <2>2, Appended
  <2>5. NewRow(s, k, n)
    BY <1>4, <1>8, <2>3, <2>4 DEF NewRow, Adds
  <2>6. \A i \in 1 .. Len(types[s][k]) : OldRow(s, k, i) /\ i \in 1 .. Len(types'[s][k])
    BY <1>2, <1>4, <1>5, <2>4 DEF OldRow
  <2>7. ASSUME NEW l \in Kinds, l # k
        PROVE  /\ types'[s][l] = types[s][l]
               /\ \A i \in 1 .. Len(types'[s][l]) : OldRow(s, l, i)
    BY <1>6, <2>7 DEF OldRow
  <2>8. k \in changed'[s]
    BY <1>8 DEF Adds
  <2> HIDE DEF n
  <2>9. \A l \in Kinds : Len(types'[s][l]) >= Len(types[s][l]) /\ Len(types'[s][l]) <= Len(types[s][l]) + 1
    BY <1>2, <2>4, <2>7
  <2>10. \A l \in Kinds : \A i \in 1 .. Len(types'[s][l]) :
           OldRow(s, l, i) \/ (l = k /\ NewRow(s, k, i))
    BY <2>4, <2>5, <2>6, <2>7
  <2>11. \A l \in Kinds : \A i \in 1 .. Len(types[s][l]) :
           i \in 1 .. Len(types'[s][l]) /\ types'[s][l][i] = types[s][l][i]
    BY <2>6, <2>7 DEF OldRow
  <2> QED BY <2>1, <2>4, <2>5, <2>7, <2>8, <2>9, <2>10, <2>11 DEF n
<1>9. \A l \in Kinds : Len(types'[s][l]) \in Nat
  BY <1>1, Elements
<1>10. (k = "io" /\ UNCHANGED <<types[s], nextType[s], want[s]>>) \/ \E fh \in Int : Adds(s, k, fh)
  BY DEF Registers
<1> QED BY <1>2, <1>7, <1>8, <1>9, <1>10

LEMMA TableRegisters ==
  ASSUME AppTyped, AppTyped', NEW s \in Sims, TableInv(s), NEW k \in Kinds, Registers(s, k)
  PROVE  TableInv(s)'
<1>1. /\ \A l \in Kinds : types[s][l] \in Seq(Row) /\ freq[s][l] \in Seq(Nat) /\ types'[s][l] \in Seq(Row)
      /\ target[s] \in Seq(Cell) /\ target'[s] \in Seq(Cell) /\ want[s] \in Seq(Nat)
      /\ nextType[s] \in Nat /\ calls \in Nat /\ calls' = calls + 1
  BY DEF AppTyped, Registers
<1>2. /\ \A l \in Kinds : Len(freq[s][l]) \in Nat
      /\ Len(target[s]) \in Nat
  BY <1>1, Elements
<1>3. /\ \A l \in Kinds : /\ Len(types[s][l]) \in Nat /\ Len(types'[s][l]) \in Nat
                          /\ Len(types'[s][l]) >= Len(types[s][l])
                          /\ Len(types'[s][l]) <= Len(types[s][l]) + 1
      /\ \A l \in Kinds : \A i \in 1 .. Len(types'[s][l]) :
           OldRow(s, l, i) \/ (l = k /\ NewRow(s, k, i))
      /\ nextType'[s] \in {nextType[s], nextType[s] + 1}
  BY RowsRegistered
<1>4. \A c \in Cell : target'[s] = Append(target[s], c) =>
         /\ Len(target'[s]) = Len(target[s]) + 1 /\ target'[s][Len(target[s]) + 1] = c
         /\ \A i \in 1 .. Len(target[s]) : target'[s][i] = target[s][i]
  BY ONLY <1>1, Appended
<1>5. <<k, Len(types[s][k]) + 1>> \in Cell
  BY <1>3 DEF Cell
<1>6. /\ Len(target'[s]) \in Nat /\ Len(target'[s]) >= Len(target[s])
      /\ \A i \in 1 .. Len(target[s]) : target'[s][i] = target[s][i]
  BY <1>1, <1>2, <1>4, <1>5, Elements DEF Registers
<1>7. ASSUME NEW l \in Kinds, NEW i \in 1 .. Len(types'[s][l])
      PROVE  Linked(s, types[s][l][i], l, i)'
  <2>1. CASE OldRow(s, l, i)
    <3> DEFINE r == types[s][l][i]
    <3>1. Linked(s, r, l, i) /\ types'[s][l][i] = r
      BY <2>1 DEF TableInv, OldRow
    <3> HIDE DEF r
    <3>2. r.h \in 0 .. nextType'[s] - 1
      BY <1>1, <1>3, <3>1 DEF Linked
    <3>3. r.fh = NotSet \/ (r.fh \in 0 .. Len(target'[s]) - 1 /\ target'[s][r.fh + 1] = <<l, i>>)
      <4>1. CASE r.fh \in 0 .. Len(target[s]) - 1 /\ target[s][r.fh + 1] = <<l, i>>
        <5>1. r.fh \in 0 .. Len(target'[s]) - 1 /\ r.fh + 1 \in 1 .. Len(target[s])
          BY <1>2, <1>6, <4>1
        <5> QED BY <1>6, <4>1, <5>1
      <4> QED BY <3>1, <4>1 DEF Linked
    <3> QED BY <3>1, <3>2, <3>3 DEF Linked
  <2>2. CASE l = k /\ NewRow(s, k, i)
    <3> DEFINE r == types'[s][k][i]
    <3>1. /\ r.h = nextType[s] /\ nextType'[s] = nextType[s] + 1
          /\ r.fh = NotSet \/ (r.fh = Len(target[s]) /\ target'[s] = Append(target[s], <<k, i>>))
          /\ i = Len(types[s][k]) + 1
      BY <2>2 DEF NewRow
    <3> HIDE DEF r
    <3>2. r.h \in 0 .. nextType'[s] - 1
      BY <1>1, <3>1
    <3>3. r.fh = NotSet \/ (r.fh \in 0 .. Len(target'[s]) - 1 /\ target'[s][r.fh + 1] = <<k, i>>)
      BY <1>2, <1>4, <1>5, <3>1
    <3> QED BY <2>2, <3>2, <3>3 DEF Linked, r
  <2> QED BY <1>3, <2>1, <2>2
<1>8. \/ k = "io" /\ UNCHANGED <<types[s], nextType[s], want[s]>>
      \/ Len(types'[s][k]) = Len(types[s][k]) + 1 /\ NewRow(s, k, Len(types'[s][k]))
  BY RowsRegistered
<1>9. Len(freq'[s][k]) = Len(types[s][k]) + 1
  <2> DEFINE n == Len(types[s][k]) + 1
  <2>a. Len(types[s][k]) <= Len(freq[s][k]) /\ Len(freq[s][k]) <= Len(types[s][k]) + 1
    BY DEF TableInv
  <2>b. Len(types[s][k]) \in Nat /\ Len(freq[s][k]) \in Nat
    BY <1>2, <1>3
  <2>1. n \in 1 .. Len(freq[s][k]) + 1 /\ Len(freq[s][k]) \in {n - 1, n}
    BY ONLY <2>a, <2>b
  <2>2. freq'[s][k] = Put(freq[s][k], n, 0) /\ freq[s][k] \in Seq(Nat) /\ 0 \in Nat
    BY <1>1 DEF Registers
  <2> HIDE DEF n
  <2>3. /\ n > Len(freq[s][k]) => Len(freq'[s][k]) = Len(freq[s][k]) + 1
        /\ n <= Len(freq[s][k]) => Len(freq'[s][k]) = Len(freq[s][k])
    BY ONLY <2>1, <2>2, PutLen
  <2>4. n \in Nat /\ Len(freq[s][k]) \in Nat
    BY <1>2, <1>3 DEF n
  <2>5. Len(freq'[s][k]) = n
    BY ONLY <2>1, <2>3, <2>4
  <2> QED BY <2>5 DEF n
<1>10. \A l \in Kinds : l # k => types'[s][l] = types[s][l] /\ freq'[s][l] = freq[s][l]
  BY DEF Registers
<1>11. ASSUME NEW l \in Kinds
       PROVE  /\ Len(types'[s][l]) <= calls' /\ Len(types'[s][l]) <= Len(freq'[s][l])
              /\ Len(freq'[s][l]) <= Len(types'[s][l]) + 1
  <2>1. Len(types[s][l]) <= calls
    BY DEF TableInv
  <2>2. CASE l = k
    BY <1>1, <1>3, <1>9, <2>1, <2>2
  <2>3. CASE l # k
    <3>1. types'[s][l] = types[s][l] /\ freq'[s][l] = freq[s][l]
      BY <1>10, <2>3
    <3>2. Len(types[s][l]) <= Len(freq[s][l]) /\ Len(freq[s][l]) <= Len(types[s][l]) + 1
      BY DEF TableInv
    <3> QED BY <1>1, <1>2, <1>3, <2>1, <3>1, <3>2
  <2> QED BY <2>2, <2>3
<1>12. Len(freq'[s]["chk"]) = Len(types'[s]["chk"])
  <2>1. CASE k = "chk"
    BY <1>8, <1>9, <2>1
  <2>2. CASE k # "chk"
    BY <1>10, <2>2 DEF TableInv, Kinds
  <2> QED BY <2>1, <2>2
<1>13. Len(want'[s]) = nextType'[s]
  <2>1. CASE UNCHANGED <<types[s], nextType[s], want[s]>>
    BY <2>1 DEF TableInv
  <2>2. CASE NewRow(s, k, Len(types'[s][k]))
    <3>1. want'[s] = Append(want[s], 0) /\ nextType'[s] = nextType[s] + 1
      BY <2>2 DEF NewRow
    <3>2. Len(Append(want[s], 0)) = Len(want[s]) + 1
      BY <1>1, Appended
    <3> QED BY <3>1, <3>2 DEF TableInv
  <2> QED BY <1>8, <2>1, <2>2
<1>14. ASSUME NEW l \in Kinds, NEW m \in Kinds,
              NEW i \in 1 .. Len(types'[s][l]), NEW j \in 1 .. Len(types'[s][m]),
              types'[s][l][i].h = types'[s][m][j].h
       PROVE  l = m /\ i = j
  <2>1. \A o \in Kinds : \A x \in 1 .. Len(types[s][o]) : types[s][o][x].h # nextType[s]
    BY <1>1 DEF TableInv, Linked
  <2>2. CASE OldRow(s, l, i) /\ OldRow(s, m, j)
    <3>1. types[s][l][i].h = types[s][m][j].h /\ i \in 1 .. Len(types[s][l]) /\ j \in 1 .. Len(types[s][m])
      BY <1>14, <2>2 DEF OldRow
    <3>2. \A x, y \in Kinds : \A u \in 1 .. Len(types[s][x]), v \in 1 .. Len(types[s][y]) :
            types[s][x][u].h = types[s][y][v].h => x = y /\ u = v
      BY DEF TableInv
    <3> QED BY ONLY l \in Kinds, m \in Kinds, <3>1, <3>2, Zenon
  <2>3. CASE OldRow(s, l, i) /\ NewRow(s, m, j)
    BY <1>14, <2>1, <2>3 DEF OldRow, NewRow
  <2>4. CASE NewRow(s, l, i) /\ OldRow(s, m, j)
    BY <1>14, <2>1, <2>4 DEF OldRow, NewRow
  <2>5. CASE l = m /\ NewRow(s, l, i) /\ NewRow(s, m, j)
    BY <2>5 DEF NewRow
  <2> QED BY <1>3, <2>2, <2>3, <2>4, <2>5
<1> QED BY <1>7, <1>11, <1>12, <1>13, <1>14 DEF TableInv

\* Steps that do not register a type of an application keep its tables.
LEMMA TableStays ==
  ASSUME NEW s \in Sims, AppTyped, TableInv(s),
         UNCHANGED <<types[s], target[s], nextType[s]>>, Len(want'[s]) = Len(want[s]),
         \A k \in Kinds : Len(freq'[s][k]) = Len(freq[s][k]),
         calls' \in {calls, calls + 1}
  PROVE  TableInv(s)'
<1>1. \A k \in Kinds : Len(types[s][k]) \in Nat /\ Len(types[s][k]) <= calls'
  <2>1. \A k \in Kinds : types[s][k] \in Seq(Row) /\ calls \in Nat
    BY DEF AppTyped
  <2>2. \A k \in Kinds : Len(types[s][k]) \in Nat
    BY <2>1, Elements
  <2> QED BY <2>1, <2>2 DEF TableInv
<1>2. "chk" \in Kinds
  BY DEF Kinds
<1>3. \A k \in Kinds : \A i \in 1 .. Len(types[s][k]) : Linked(s, types[s][k][i], k, i)'
  BY DEF TableInv, Linked
<1>4. \A k, l \in Kinds : \A i \in 1 .. Len(types'[s][k]), j \in 1 .. Len(types'[s][l]) :
        types'[s][k][i].h = types'[s][l][j].h => k = l /\ i = j
  BY DEF TableInv
<1> QED BY <1>1, <1>2, <1>3, <1>4 DEF TableInv

-----------------------------------------------------------------------------
(* What the client knows.  An entry, and a message of definitions on its    *)
(* way, names only what has been registered.                                *)

Of(e, k) == CASE k = "param" -> e.params [] k = "io" -> e.io [] OTHER -> e.chk

\* What there is to know of kind k.
Present(s, k) == IF k = "param" THEN 0 .. Len(target[s]) - 1 ELSE Rows(s, k)

\* What may be told of it: a table that was moved has rows that nobody wrote.
Shown(s, k) == IF k = "param" THEN Present(s, k) ELSE Rows(s, k) \cup UNION Extra(s, k)
Exact(s, k) == k = "param" \/ ~Grown(s, k)

KnownInv(s) ==
  /\ \A j \in 1 .. Len(down[s]), k \in All :
       down[s][j].type = k => down[s][j].rows \subseteq Shown(s, k)
  /\ \A i \in Held(s), k \in All : Of(entry[i], k) \subseteq Shown(s, k)

\* A simulation has one entry.
HeldOnce ==
  \A i, j \in DOMAIN entry : entry[i].sim = entry[j].sim /\ entry[i].sim # NoSim => i = j

LEMMA RowsAre ==
  ASSUME AppTyped, NEW s \in Sims, NEW k \in Kinds
  PROVE  Rows(s, k) = {types[s][k][i] : i \in 1 .. Len(types[s][k])}
<1>1. types[s][k] \in Seq(Row)
  BY DEF AppTyped
<1>2. DOMAIN types[s][k] = 1 .. Len(types[s][k])
  BY <1>1, Elements
<1> QED BY <1>2 DEF Rows

\* Rows have handles of their own.
LEMMA HandlesDiffer ==
  ASSUME AppTyped, NEW s \in Sims, TableInv(s), NEW k \in Kinds,
         NEW r \in Shown(s, k), NEW m \in Shown(s, k), r.h = m.h
  PROVE  r = m
<1>1. k # "param" /\ Shown(s, k) \subseteq Rows(s, k) \cup {Junk}
  BY DEF Shown, Extra, Kinds
<1>2. ASSUME NEW x \in Rows(s, k) PROVE \E i \in 1 .. Len(types[s][k]) : x = types[s][k][i] /\ x.h \in Nat
  <2>1. PICK i \in 1 .. Len(types[s][k]) : x = types[s][k][i]
    BY RowsAre
  <2>2. Linked(s, x, k, i) /\ nextType[s] \in Nat
    BY <2>1 DEF TableInv, AppTyped
  <2>3. x.h \in Nat
    BY <2>2 DEF Linked
  <2> QED BY <2>1, <2>3
<1>3. Junk.h \notin Nat
  BY DEF Junk
<1>4. CASE r \in Rows(s, k) /\ m \in Rows(s, k)
  <2>1. PICK i \in 1 .. Len(types[s][k]) : r = types[s][k][i]
    BY <1>2, <1>4
  <2>2. PICK j \in 1 .. Len(types[s][k]) : m = types[s][k][j]
    BY <1>2, <1>4
  <2> QED BY <2>1, <2>2 DEF TableInv
<1> QED BY <1>1, <1>2, <1>3, <1>4

\* Reading definitions that are up to date brings the list up to date.
LEMMA MergedIs ==
  ASSUME NEW N, NEW old \in SUBSET N, NEW rows \in SUBSET N,
         \A r, m \in N : r.h = m.h => r = m
  PROVE  Merged(old, rows) \subseteq N /\ (rows = N => Merged(old, rows) = N)
<1>1. Merged(old, rows) \subseteq N
  BY DEF Merged
<1>2. ASSUME rows = N, NEW m \in N PROVE m \in Merged(old, rows)
  <2>1. CASE \E r \in old : r.h = m.h
    BY <1>2, <2>1 DEF Merged
  <2>2. CASE \A r \in old : r.h # m.h
    BY <1>2, <2>2 DEF Merged
  <2> QED BY <2>1, <2>2
<1> QED BY <1>1, <1>2

LEMMA ConsumeIs ==
  ASSUME NEW e \in Entry, NEW m \in News, NEW k \in All, NEW N,
         k # "param" => \A r, t \in N : r.h = t.h => r = t,
         k # "param" => N \subseteq Row, k = "param" => N \subseteq Int,
         Of(e, k) \subseteq N, m.type = k => m.rows \subseteq N
  PROVE  /\ Of(Consume(e, m), k) \subseteq N
         /\ m.type = k /\ m.rows = N => Of(Consume(e, m), k) = N
         /\ m.type # k => Of(Consume(e, m), k) = Of(e, k)
<1>1. k \in {"param", "io", "chk"} /\ m.type \in {"param", "io", "chk", "status"}
  BY DEF All, Kinds, News
<1>2. CASE m.type # k
  BY <1>1, <1>2 DEF Consume, Of, ConsumeParamDefs, Entry
<1>3. CASE m.type = k /\ k = "param"
  <2>1. Of(Consume(e, m), k) = e.params \cup m.rows /\ Of(e, k) = e.params
    BY <1>3 DEF Consume, Of, ConsumeParamDefs, Entry
  <2> QED BY <1>3, <2>1
<1>4. CASE m.type = k /\ k = "io"
  <2>1. Of(Consume(e, m), k) = Merged(e.io, m.rows) /\ Of(e, k) = e.io
    BY <1>4 DEF Consume, Of, Entry
  <2>2. e.io \in SUBSET N /\ m.rows \in SUBSET N /\ \A r, t \in N : r.h = t.h => r = t
    BY <1>4, <2>1
  <2>3. Merged(e.io, m.rows) \subseteq N /\ (m.rows = N => Merged(e.io, m.rows) = N)
    BY ONLY <2>2, MergedIs
  <2> QED BY <1>4, <2>1, <2>3
<1>5. CASE m.type = k /\ k = "chk"
  <2>1. Of(Consume(e, m), k) = Merged(e.chk, m.rows) /\ Of(e, k) = e.chk
    BY <1>5 DEF Consume, Of, Entry
  <2>2. e.chk \in SUBSET N /\ m.rows \in SUBSET N /\ \A r, t \in N : r.h = t.h => r = t
    BY <1>5, <2>1
  <2>3. Merged(e.chk, m.rows) \subseteq N /\ (m.rows = N => Merged(e.chk, m.rows) = N)
    BY ONLY <2>2, MergedIs
  <2> QED BY <1>5, <2>1, <2>3
<1> QED BY <1>1, <1>2, <1>3, <1>4, <1>5

LEMMA ConsumeTyped ==
  ASSUME NEW e \in Entry, NEW m \in News,
         m.type = "param" => m.rows \subseteq Int,
         m.type \in Kinds => m.rows \subseteq Row
  PROVE  Consume(e, m) \in Entry /\ Consume(e, m).sim = e.sim
<1>1. m.type \in {"param", "io", "chk", "status"}
  BY DEF All, Kinds, News
<1>2. CASE m.type = "param"
  BY <1>2 DEF Consume, ConsumeParamDefs, Entry
<1>3. CASE m.type = "io"
  <2>1. Merged(e.io, m.rows) \subseteq Row
    BY <1>3 DEF Merged, Entry, Kinds
  <2> QED BY <1>3, <2>1 DEF Consume, Entry
<1>4. CASE m.type = "chk"
  <2>1. Merged(e.chk, m.rows) \subseteq Row
    BY <1>4 DEF Merged, Entry, Kinds
  <2> QED BY <1>4, <2>1 DEF Consume, Entry
<1>5. CASE m.type = "status"
  BY <1>5 DEF Consume
<1> QED BY <1>1, <1>2, <1>3, <1>4, <1>5

LEMMA PresentTyped ==
  ASSUME AppTyped, NEW s \in Sims
  PROVE  /\ Present(s, "param") \subseteq Int
         /\ \A k \in Kinds : Present(s, k) = Rows(s, k) /\ Rows(s, k) \subseteq Row
<1>1. Present(s, "param") \subseteq Int
  <2>1. target[s] \in Seq(Cell)
    BY DEF AppTyped
  <2>2. Len(target[s]) \in Nat
    BY <2>1, Elements
  <2> QED BY <2>2 DEF Present
<1>2. ASSUME NEW k \in Kinds PROVE Present(s, k) = Rows(s, k) /\ Rows(s, k) \subseteq Row
  <2>1. types[s][k] \in Seq(Row) /\ k # "param"
    BY DEF AppTyped, Kinds
  <2>2. \A i \in 1 .. Len(types[s][k]) : types[s][k][i] \in Row
    BY <2>1, Elements
  <2> QED BY <2>1, <2>2, RowsAre DEF Present
<1> QED BY <1>1, <1>2

LEMMA ShownTyped ==
  ASSUME AppTyped, NEW s \in Sims
  PROVE  /\ Shown(s, "param") \subseteq Int
         /\ \A k \in Kinds : Shown(s, k) = Rows(s, k) \cup UNION Extra(s, k) /\ Shown(s, k) \subseteq Row
         /\ \A k : Present(s, k) \subseteq Shown(s, k) /\ (Exact(s, k) => Shown(s, k) = Present(s, k))
<1>1. /\ Shown(s, "param") \subseteq Int
      /\ \A k \in Kinds : k # "param" /\ Rows(s, k) \subseteq Row
  BY PresentTyped DEF Shown, Kinds
<1>2. \A k : Extra(s, k) \subseteq {{}, {Junk}}
  BY DEF Extra
<1>3. Junk \in Row
  BY DEF Junk, Row
<1>4. \A k \in Kinds : Shown(s, k) = Rows(s, k) \cup UNION Extra(s, k) /\ Shown(s, k) \subseteq Row
  BY <1>1, <1>2, <1>3 DEF Shown
<1>5. \A k : Present(s, k) \subseteq Shown(s, k) /\ (Exact(s, k) => Shown(s, k) = Present(s, k))
  BY DEF Present, Shown, Exact, Extra
<1> QED BY <1>1, <1>4, <1>5

\* Registration only adds, and marks what it adds to.
LEMMA PresentGrows ==
  ASSUME AppTyped, AppTyped', NEW s \in Sims, TableInv(s), NEW k \in Kinds, Registers(s, k),
         NEW l \in All
  PROVE  /\ Present(s, l) \subseteq Present(s, l)'
         /\ l \in changed'[s] \/ Present(s, l)' = Present(s, l)
<1>1. CASE l = "param"
  <2>1. target[s] \in Seq(Cell) /\ Len(target[s]) \in Nat
    BY Elements DEF AppTyped
  <2>2. <<k, Len(types[s][k]) + 1>> \in Cell
    <3>1. types[s][k] \in Seq(Row)
      BY DEF AppTyped
    <3>2. Len(types[s][k]) \in Nat
      BY <3>1, Elements
    <3> QED BY <3>2 DEF Cell
  <2>3. CASE target'[s] = target[s]
    BY <1>1, <2>3 DEF Present
  <2>4. CASE target'[s] = Append(target[s], <<k, Len(types[s][k]) + 1>>) /\ "param" \in changed'[s]
    <3>1. Len(target'[s]) = Len(target[s]) + 1
      BY <2>1, <2>2, <2>4, Appended
    <3> QED BY <1>1, <2>1, <2>4, <3>1 DEF Present
  <2> QED BY <2>3, <2>4 DEF Registers
<1>2. CASE l \in Kinds /\ l # "param"
  <2>1. \A i \in 1 .. Len(types[s][l]) :
          i \in 1 .. Len(types'[s][l]) /\ types'[s][l][i] = types[s][l][i]
    BY <1>2, RowsRegistered
  <2>2. l \in changed'[s] \/ types'[s][l] = types[s][l]
    BY <1>2, RowsRegistered
  <2>3. Rows(s, l) = {types[s][l][i] : i \in 1 .. Len(types[s][l])}
    BY <1>2, RowsAre
  <2>4. Rows(s, l)' = {types'[s][l][i] : i \in 1 .. Len(types'[s][l])}
    <3>1. types'[s][l] \in Seq(Row)
      BY <1>2 DEF AppTyped
    <3>2. DOMAIN types'[s][l] = 1 .. Len(types'[s][l])
      BY <3>1, Elements
    <3> QED BY <3>2 DEF Rows
  <2>5. Rows(s, l) \subseteq Rows(s, l)'
    BY <2>1, <2>3, <2>4
  <2>6. l \in changed'[s] \/ Rows(s, l)' = Rows(s, l)
    BY <2>2, <2>3, <2>4
  <2> QED BY <1>2, <2>5, <2>6 DEF Present
<1> QED BY <1>1, <1>2 DEF All, Kinds

LEMMA ShownGrows ==
  ASSUME AppTyped, AppTyped', NEW s \in Sims, TableInv(s), NEW k \in Kinds, Registers(s, k),
         NEW l \in All
  PROVE  Shown(s, l) \subseteq Shown(s, l)' /\ (Exact(s, l)' => Exact(s, l))
<1>1. CASE l = "param"
  BY <1>1, PresentGrows DEF Shown, Exact
<1>2. CASE l \in Kinds /\ l # "param"
  <2>1. Rows(s, l) \subseteq Rows(s, l)'
    BY <1>2, PresentGrows DEF Present
  <2>2. Len(types[s][l]) \in Nat /\ Len(types'[s][l]) \in Nat /\ Len(types'[s][l]) >= Len(types[s][l])
    BY <1>2, RowsRegistered
  <2>3. Grown(s, l) => Grown(s, l)'
    BY <2>2, TablesAssumption DEF Grown
  <2>4. UNION Extra(s, l) \subseteq UNION Extra(s, l)'
    BY <2>3 DEF Extra
  <2> QED BY <1>2, <2>1, <2>3, <2>4 DEF Shown, Exact
<1> QED BY <1>1, <1>2 DEF All

-----------------------------------------------------------------------------
(* Messages of definitions on their way.                                    *)

LEMMA ConcatFrom ==
  ASSUME NEW T, NEW a \in Seq(T), NEW b \in Seq(T), NEW j \in 1 .. Len(a \o b)
  PROVE  \/ j \in 1 .. Len(a) /\ (a \o b)[j] = a[j]
         \/ j > Len(a) /\ j - Len(a) \in 1 .. Len(b) /\ (a \o b)[j] = b[j - Len(a)]
<1>1. Len(a) \in Nat /\ Len(b) \in Nat /\ Len(a \o b) = Len(a) + Len(b)
  BY Elements, ConcatProperties
<1>2. (a \o b)[j] = IF j <= Len(a) THEN a[j] ELSE b[j - Len(a)]
  BY <1>1, ConcatProperties
<1> QED BY <1>1, <1>2

LEMMA ConcatTo ==
  ASSUME NEW T, NEW a \in Seq(T), NEW b \in Seq(T)
  PROVE  /\ \A j \in 1 .. Len(a) : j \in 1 .. Len(a \o b) /\ (a \o b)[j] = a[j]
         /\ \A j \in 1 .. Len(b) : Len(a) + j \in 1 .. Len(a \o b) /\ (a \o b)[Len(a) + j] = b[j]
<1>1. Len(a) \in Nat /\ Len(b) \in Nat /\ Len(a \o b) = Len(a) + Len(b)
  BY Elements, ConcatProperties
<1>2. \A j \in 1 .. Len(a) + Len(b) : (a \o b)[j] = IF j <= Len(a) THEN a[j] ELSE b[j - Len(a)]
  BY ConcatProperties
<1> QED BY <1>1, <1>2

\* Messages that say of s what is so at present; that some message is of kind k.
UpToDate(s, m) ==
  m.rows \subseteq Shown(s, m.type) /\ (Exact(s, m.type) => m.rows = Present(s, m.type))

Current(s, q) ==
  /\ q \in Seq(News)
  /\ \A j \in 1 .. Len(q) : q[j].type \in All => UpToDate(s, q[j])

Tells(q, k) == \E j \in 1 .. Len(q) : q[j].type = k

LEMMA CurrentJoins ==
  ASSUME NEW s, NEW a, NEW b, Current(s, a), Current(s, b)
  PROVE  Current(s, a \o b) /\ \A k : Tells(a, k) \/ Tells(b, k) => Tells(a \o b, k)
<1>1. a \in Seq(News) /\ b \in Seq(News)
  BY DEF Current
<1>2. a \o b \in Seq(News)
  BY <1>1, ConcatProperties
<1>3. \A j \in 1 .. Len(a \o b) : (a \o b)[j].type \in All => UpToDate(s, (a \o b)[j])
  BY <1>1, ConcatFrom DEF Current
<1>4. ASSUME NEW k, Tells(a, k) \/ Tells(b, k) PROVE Tells(a \o b, k)
  <2>1. \A j \in 1 .. Len(a) : j \in 1 .. Len(a \o b) /\ (a \o b)[j] = a[j]
    BY <1>1, ConcatTo
  <2>2. \A j \in 1 .. Len(b) : Len(a) + j \in 1 .. Len(a \o b) /\ (a \o b)[Len(a) + j] = b[j]
    BY <1>1, ConcatTo
  <2> QED BY <1>4, <2>1, <2>2 DEF Tells
<1> QED BY <1>2, <1>3, <1>4 DEF Current

LEMMA Singles ==
  ASSUME NEW s, NEW m \in News, m.type \in All => UpToDate(s, m)
  PROVE  Current(s, <<m>>) /\ Tells(<<m>>, m.type)
<1>1. <<m>> \in Seq(News) /\ Len(<<m>>) = 1 /\ <<m>>[1] = m
  <2>1. <<m>> = Append(<< >>, m) /\ << >> \in Seq(News)
    OBVIOUS
  <2>2. Len(<<m>>) = 1 /\ <<m>>[1] = m
    OBVIOUS
  <2> QED BY ONLY <2>1, <2>2, m \in News, Appended
<1>2. 1 .. Len(<<m>>) = {1}
  BY <1>1
<1> QED BY <1>1, <1>2 DEF Current, Tells

LEMMA NoneCurrent == ASSUME NEW s PROVE Current(s, << >>)
<1>1. << >> \in Seq(News) /\ 1 .. Len(<< >>) = {}
  OBVIOUS
<1> QED BY <1>1 DEF Current

\* What a message of definitions says.
LEMMA DefsCurrent ==
  ASSUME AppTyped, NEW s \in Sims
  PROVE  /\ Current(s, <<ParamDefs(s)>>) /\ Tells(<<ParamDefs(s)>>, "param")
         /\ \A k \in Kinds : \A x \in Extra(s, k) :
              /\ Current(s, TypeDefs(s, k, x))
              /\ Present(s, k) # {} => Tells(TypeDefs(s, k, x), k)
         /\ Current(s, <<Status>>)
<1>1. ParamDefs(s) \in News /\ ParamDefs(s).type = "param" /\ UpToDate(s, ParamDefs(s))
  BY PresentTyped DEF ParamDefs, News, All, Present, Shown, UpToDate
<1>2. Status \in News /\ Status.type \notin All
  BY DEF Status, News, All, Kinds
<1>3. ASSUME NEW k \in Kinds, NEW x \in Extra(s, k)
      PROVE  /\ Current(s, TypeDefs(s, k, x))
             /\ Present(s, k) # {} => Tells(TypeDefs(s, k, x), k)
  <2>1. Present(s, k) = Rows(s, k) /\ k # "param"
    BY PresentTyped DEF Kinds
  <2>2. CASE types[s][k] = << >>
    <3>1. Rows(s, k) = {} /\ TypeDefs(s, k, x) = << >>
      BY <2>2 DEF Rows, TypeDefs
    <3> QED BY <2>1, <3>1, NoneCurrent
  <2>3. CASE types[s][k] # << >>
    <3> DEFINE m == [type |-> k, rows |-> Rows(s, k) \cup x]
    <3>1. TypeDefs(s, k, x) = <<m>>
      BY <2>3 DEF TypeDefs
    <3>2. m.rows \subseteq Shown(s, k) /\ Shown(s, k) \subseteq Row
      BY <2>1, ShownTyped DEF Shown
    <3>3. Exact(s, k) => m.rows = Present(s, k)
      BY <2>1 DEF Exact, Extra
    <3>4. m \in News /\ m.type = k
      BY <3>2 DEF News, All
    <3> HIDE DEF m
    <3>5. UpToDate(s, m)
      BY <3>2, <3>3, <3>4 DEF UpToDate
    <3> QED BY <3>1, <3>4, <3>5, Singles
  <2> QED BY <2>2, <2>3
<1> QED BY <1>1, <1>2, <1>3, Singles

\* Steering_control publishes what has changed, apart from what fails.
LEMMA Publishing ==
  ASSUME TypeInv, NEW s \in Sims, Publish(s)
  PROVE  /\ conn[s] /\ changed' = [changed EXCEPT ![s] = {}]
         /\ \E q, failed :
              /\ failed \in SUBSET changed[s] /\ down' = [down EXCEPT ![s] = @ \o q] /\ Current(s, q)
              /\ missed' = [missed EXCEPT ![s] = (@ \ changed[s]) \cup failed]
              /\ \A k \in changed[s] \ failed : Present(s, k) = {} \/ Tells(q, k)
         /\ UNCHANGED <<types, freq, target, nextType, calls, conn, up, client, want, edits, skips>>
<1>1. "io" \in Kinds /\ "chk" \in Kinds /\ "io" # "param" /\ "chk" # "param"
  BY DEF Kinds
<1> PICK failed \in SUBSET changed[s], x \in Extra(s, "io"), y \in Extra(s, "chk") :
      LET Told(k, z) == If(k \in changed[s] \ failed, Defs(s, k, z)) IN
       /\ down' = [down EXCEPT ![s] =
                     @ \o (Told("param", {}) \o Told("io", x) \o Told("chk", y) \o <<Status>>)]
       /\ missed' = [missed EXCEPT ![s] = (@ \ changed[s]) \cup failed]
  BY DEF Publish
<1> DEFINE sent == changed[s] \ failed
           a == If("param" \in sent, Defs(s, "param", {}))
           b == If("io" \in sent, Defs(s, "io", x))
           c == If("chk" \in sent, Defs(s, "chk", y))
           q == a \o b \o c \o <<Status>>
<1>2. /\ conn[s] /\ changed' = [changed EXCEPT ![s] = {}]
      /\ down' = [down EXCEPT ![s] = @ \o q]
      /\ missed' = [missed EXCEPT ![s] = (@ \ changed[s]) \cup failed]
      /\ UNCHANGED <<types, freq, target, nextType, calls, conn, up, client, want, edits, skips>>
  BY DEF Publish
<1>3. Current(s, a) /\ ("param" \in sent => Tells(a, "param"))
  BY DefsCurrent, NoneCurrent DEF If, TypeInv, Defs
<1>4. Current(s, b) /\ ("io" \in sent /\ Present(s, "io") # {} => Tells(b, "io"))
  BY <1>1, DefsCurrent, NoneCurrent DEF If, TypeInv, Defs
<1>5. Current(s, c) /\ ("chk" \in sent /\ Present(s, "chk") # {} => Tells(c, "chk"))
  BY <1>1, DefsCurrent, NoneCurrent DEF If, TypeInv, Defs
<1>6. Current(s, <<Status>>)
  BY DefsCurrent DEF TypeInv
<1>10. \A k \in sent : k \in {"param", "io", "chk"}
  BY DEF TypeInv, AppTyped, All, Kinds
<1> HIDE DEF a, b, c, sent
<1>7. Current(s, a \o b) /\ \A k : Tells(a, k) \/ Tells(b, k) => Tells(a \o b, k)
  BY <1>3, <1>4, CurrentJoins
<1>8. Current(s, a \o b \o c) /\ \A k : Tells(a \o b, k) \/ Tells(c, k) => Tells(a \o b \o c, k)
  BY <1>5, <1>7, CurrentJoins
<1>9. Current(s, q) /\ \A k : Tells(a \o b \o c, k) => Tells(q, k)
  BY <1>6, <1>8, CurrentJoins
<1>11. \A k \in sent : Present(s, k) = {} \/ Tells(q, k)
  BY <1>3, <1>4, <1>5, <1>7, <1>8, <1>9, <1>10
<1> HIDE DEF q
<1> QED BY <1>2, <1>9, <1>11 DEF sent

-----------------------------------------------------------------------------
(* The steps, on what all properties need: tables in order, entries and     *)
(* messages that name only what is registered, one entry per simulation.    *)

\* A request on its way names the parameter of a row; a client that has left
\* asks for nothing more.
AskedInv(s) ==
  \A j \in 1 .. Len(up[s]) :
    \/ up[s][j].type = "detach" /\ j = Len(up[s]) /\ Held(s) = {}
    \/ /\ up[s][j].type = "edit" /\ up[s][j].p # NotSet
       /\ \E k \in Kinds : \E i \in 1 .. Len(types[s][k]) : types[s][k][i].fh = up[s][j].p

BaseInv ==
  /\ TypeInv
  /\ \A s \in Sims : TableInv(s) /\ KnownInv(s) /\ AskedInv(s)
  /\ HeldOnce

LEMMA PresentStays ==
  ASSUME NEW s, UNCHANGED <<types[s], target[s]>>, NEW k
  PROVE  Present(s, k)' = Present(s, k) /\ Shown(s, k)' = Shown(s, k) /\ Exact(s, k)' = Exact(s, k)
<1>1. Present(s, k)' = Present(s, k) /\ Rows(s, k)' = Rows(s, k) /\ Grown(s, k)' = Grown(s, k)
  BY DEF Present, Rows, Grown
<1>2. Extra(s, k)' = Extra(s, k)
  BY <1>1 DEF Extra
<1> QED BY <1>1, <1>2 DEF Shown, Exact

LEMMA KnownKeeps ==
  ASSUME NEW s, \A k \in All : Shown(s, k) \subseteq Shown(s, k)',
         \A j \in 1 .. Len(down'[s]), k \in All :
           down'[s][j].type = k => down'[s][j].rows \subseteq Shown(s, k),
         \A i \in Held(s)' : \A k \in All : Of(entry'[i], k) \subseteq Shown(s, k)
  PROVE  KnownInv(s)'
<1>1. ASSUME NEW j \in 1 .. Len(down'[s]), NEW k \in All, down'[s][j].type = k
      PROVE  down'[s][j].rows \subseteq Shown(s, k)'
  <2>1. down'[s][j].rows \subseteq Shown(s, k) /\ Shown(s, k) \subseteq Shown(s, k)'
    BY <1>1
  <2> QED BY <2>1
<1> QED BY <1>1 DEF KnownInv

\* When messages and entries of a simulation stay.
LEMMA KnownStays ==
  ASSUME NEW s, KnownInv(s), \A k \in All : Shown(s, k) \subseteq Shown(s, k)',
         UNCHANGED <<down[s], entry>>
  PROVE  KnownInv(s)'
<1>1. Held(s)' = Held(s)
  BY DEF Held
<1> QED BY <1>1, KnownKeeps DEF KnownInv

LEMMA AskedStays ==
  ASSUME NEW s, AskedInv(s), UNCHANGED up[s], Held(s) = {} => Held(s)' = {},
         \A k \in Kinds : \A i \in 1 .. Len(types[s][k]) :
           i \in 1 .. Len(types'[s][k]) /\ types'[s][k][i] = types[s][k][i]
  PROVE  AskedInv(s)'
  BY DEF AskedInv

LEMMA HeldStays == ASSUME UNCHANGED entry, NEW s PROVE Held(s)' = Held(s)
  BY DEF Held

LEMMA BaseInit == Init => BaseInv
<1> SUFFICES ASSUME Init PROVE BaseInv
  OBVIOUS
<1>1. /\ types = [s \in Sims |-> [k \in Kinds |-> << >>]] /\ freq = types
      /\ target = [s \in Sims |-> << >>] /\ want = target /\ up = target /\ down = target
      /\ nextType = [s \in Sims |-> 0] /\ calls = 0 /\ edits = 0
      /\ changed = [s \in Sims |-> {"param"}] /\ conn = [s \in Sims |-> FALSE]
      /\ entry = [i \in 0 .. Slots - 1 |-> FreeEntry] /\ last = -1
  BY DEF Init
<1>2. \A T : << >> \in Seq(T)
  OBVIOUS
<1>3. FreeEntry \in Entry /\ FreeEntry.sim = NoSim
  BY DEF FreeEntry, Entry
<1>4. TypeInv
  BY <1>1, <1>2, <1>3, TablesAssumption DEF TypeInv, AppTyped, LinkTyped, All
<1>5. HeldOnce
  BY <1>1, <1>3 DEF HeldOnce
<1>6. \A s \in Sims : TableInv(s)
  BY <1>1 DEF TableInv, Kinds
<1>7. \A s \in Sims : KnownInv(s)
  <2>1. \A s \in Sims : Held(s) = {}
    BY <1>1, <1>3, TablesAssumption DEF Held, NoSim
  <2> QED BY <1>1, <2>1 DEF KnownInv
<1>8. \A s \in Sims : AskedInv(s)
  BY <1>1 DEF AskedInv
<1> QED BY <1>4, <1>5, <1>6, <1>7, <1>8 DEF BaseInv

\* Either registration.
LEMMA Registering ==
  ASSUME BaseInv, NEW s \in Sims, NEW b \in BOOLEAN, RegisterIOType(s, b) \/ RegisterChkType(s, b)
  PROVE  AppTyped' /\ \E k \in Kinds : Registers(s, k)
  BY RegisteringIO, RegisteringChk DEF BaseInv, Kinds

LEMMA BaseRegister ==
  ASSUME BaseInv, NEW s \in Sims, NEW k \in Kinds, Registers(s, k), AppTyped'
  PROVE  BaseInv'
<1>1. UNCHANGED <<conn, up, down, entry, edits, last>> /\ calls' = calls + 1
      /\ \A t \in Sims \ {s} : UNCHANGED <<types[t], freq[t], target[t], nextType[t], want[t], changed[t]>>
  BY DEF Registers, client
<1>2. TypeInv' /\ HeldOnce'
  BY <1>1 DEF BaseInv, TypeInv, LinkTyped, HeldOnce
<1>3. ASSUME NEW t \in Sims PROVE TableInv(t)'
  <2>1. CASE t = s
    BY <2>1, TableRegisters DEF BaseInv, TypeInv
  <2>2. CASE t # s
    <3>1. UNCHANGED <<types[t], target[t], nextType[t], want[t], freq[t]>>
      BY <1>1, <2>2
    <3> QED BY <1>1, <3>1, TableStays DEF BaseInv, TypeInv
  <2> QED BY <2>1, <2>2
<1>4. ASSUME NEW t \in Sims PROVE KnownInv(t)'
  <2>1. \A l \in All : Shown(t, l) \subseteq Shown(t, l)'
    <3>1. CASE t = s
      BY <3>1, ShownGrows DEF BaseInv, TypeInv
    <3>2. CASE t # s
      <4>1. UNCHANGED <<types[t], target[t]>>
        BY <1>1, <3>2
      <4> QED BY <4>1, PresentStays
    <3> QED BY <3>1, <3>2
  <2> QED BY <1>1, <2>1, KnownStays DEF BaseInv
<1>5. ASSUME NEW t \in Sims PROVE AskedInv(t)'
  <2>1. CASE t = s
    <3>1. \A l \in Kinds : \A i \in 1 .. Len(types[s][l]) :
            i \in 1 .. Len(types'[s][l]) /\ types'[s][l][i] = types[s][l][i]
      BY RowsRegistered DEF BaseInv, TypeInv
    <3> QED BY <1>1, <2>1, <3>1, AskedStays, HeldStays DEF BaseInv
  <2>2. CASE t # s
    <3>1. UNCHANGED <<types[t], up[t], entry>>
      BY <1>1, <2>2
    <3> QED BY <3>1, AskedStays, HeldStays DEF BaseInv
  <2> QED BY <2>1, <2>2
<1> QED BY <1>2, <1>3, <1>4, <1>5 DEF BaseInv

\* The tables of all applications stay.
TablesStay == UNCHANGED <<types, freq, target, nextType, calls, want>>

LEMMA TablesKept ==
  ASSUME BaseInv, TablesStay
  PROVE  /\ \A t \in Sims : TableInv(t)'
         /\ \A t \in Sims, k \in All : /\ Present(t, k)' = Present(t, k) /\ Shown(t, k)' = Shown(t, k)
                                       /\ Exact(t, k)' = Exact(t, k)
<1>1. ASSUME NEW t \in Sims, TableInv(t) PROVE TableInv(t)'
  BY <1>1 DEF TablesStay, TableInv, Linked
<1>2. \A t \in Sims : UNCHANGED <<types[t], target[t]>>
  BY DEF TablesStay
<1> QED BY <1>1, <1>2, PresentStays DEF BaseInv

\* Messages sent to a client.
LEMMA BaseSends ==
  ASSUME BaseInv, TablesStay, NEW s \in Sims, NEW q, Current(s, q),
         down' = [down EXCEPT ![s] = @ \o q], changed' \in [Sims -> SUBSET All],
         UNCHANGED <<conn, up, entry, edits, last>>
  PROVE  BaseInv'
<1>1. down \in [Sims -> Seq(News)] /\ q \in Seq(News) /\ down[s] \in Seq(News)
  BY DEF BaseInv, TypeInv, LinkTyped, Current
<1>2. down[s] \o q \in Seq(News)
  BY <1>1, ConcatProperties
<1>3. TypeInv' /\ HeldOnce'
  <2>1. down' \in [Sims -> Seq(News)]
    BY <1>1, <1>2
  <2> QED BY <2>1 DEF BaseInv, TypeInv, AppTyped, LinkTyped, HeldOnce, TablesStay
<1>4. ASSUME NEW t \in Sims PROVE KnownInv(t)'
  <2>1. \A k \in All : Shown(t, k)' = Shown(t, k)
    BY TablesKept
  <2>2. CASE t # s
    <3>1. down'[t] = down[t]
      BY <1>1, <2>2
    <3> QED BY <2>1, <3>1, KnownStays DEF BaseInv
  <2>3. CASE t = s
    <3>1. down'[s] = down[s] \o q
      BY <1>1
    <3>2. ASSUME NEW j \in 1 .. Len(down'[s]), NEW k \in All, down'[s][j].type = k
          PROVE  down'[s][j].rows \subseteq Shown(s, k)
      <4>1. \/ j \in 1 .. Len(down[s]) /\ down'[s][j] = down[s][j]
            \/ j - Len(down[s]) \in 1 .. Len(q) /\ down'[s][j] = q[j - Len(down[s])]
        BY <1>1, <3>1, ConcatFrom
      <4> QED BY <3>2, <4>1 DEF BaseInv, KnownInv, Current, UpToDate
    <3>3. Held(s)' = Held(s) /\ KnownInv(s)
      BY DEF Held, BaseInv
    <3> QED BY <2>1, <2>3, <3>2, <3>3, KnownKeeps DEF KnownInv
  <2> QED BY <2>2, <2>3
<1>5. \A t \in Sims : AskedInv(t)'
  BY AskedStays, HeldStays DEF BaseInv, TablesStay
<1> QED BY <1>3, <1>4, <1>5, TablesKept DEF BaseInv

LEMMA Republishing ==
  ASSUME TypeInv, NEW s \in Sims, Republish(s)
  PROVE  /\ Locked(s)
         /\ \/ /\ \E q : down' = [down EXCEPT ![s] = @ \o q] /\ Current(s, q) /\ Tells(q, "io")
               /\ missed' = [missed EXCEPT ![s] = @ \ {"io"}]
            \/ UNCHANGED <<down, missed>>
         /\ UNCHANGED <<app, conn, up, client, want, edits, skips>>
<1>1. "io" \in Kinds
  BY DEF Kinds
<1>2. \A x \in Extra(s, "io") : Current(s, TypeDefs(s, "io", x)) /\ Tells(TypeDefs(s, "io", x), "io")
  <2>1. types[s]["io"] # << >> /\ types[s]["io"] \in Seq(Row)
    BY <1>1 DEF Republish, TypeInv, AppTyped
  <2>2. 1 \in DOMAIN types[s]["io"]
    <3>1. Len(types[s]["io"]) \in Nat \ {0} /\ DOMAIN types[s]["io"] = 1 .. Len(types[s]["io"])
      BY <2>1
    <3> QED BY <3>1
  <2>3. Present(s, "io") # {}
    BY <1>1, <2>2 DEF Present, Rows
  <2> QED BY <1>1, <2>3, DefsCurrent DEF TypeInv
<1> QED BY <1>2 DEF Republish

\* Unpack_control_msg finds the row that was meant.
LEMMA Applying ==
  ASSUME BaseInv, NEW s \in Sims, ApplyControl(s)
  PROVE  /\ up[s] # << >> /\ Head(up[s]).type = "edit" /\ up' = [up EXCEPT ![s] = Tail(@)]
         /\ \E k \in Kinds : \E n \in 1 .. Len(types[s][k]) :
              /\ types[s][k][n].fh = Head(up[s]).p /\ Head(up[s]).v \in Nat
              /\ \/ freq' = [freq EXCEPT ![s][k] = Put(@, n, Head(up[s]).v)]
                 \/ freq' = freq /\ Grown(s, k)
         /\ UNCHANGED <<types, target, nextType, calls, changed, conn, down, client, want, edits, skips>>
<1> DEFINE msg == Head(up[s])
<1>1. /\ up[s] # << >> /\ msg.type = "edit" /\ up' = [up EXCEPT ![s] = Tail(@)]
      /\ UNCHANGED <<types, target, nextType, calls, changed, conn, down, client, want, edits, skips>>
  BY DEF ApplyControl
<1>2. up[s] \in Seq(Request) /\ TableInv(s) /\ AskedInv(s) /\ AppTyped
  BY DEF BaseInv, TypeInv, LinkTyped
<1>3. 1 \in 1 .. Len(up[s]) /\ msg = up[s][1] /\ msg \in Request
  <2>1. Len(up[s]) \in Nat \ {0}
    BY ONLY <1>1, <1>2
  <2> QED BY <1>2, <2>1
<1> HIDE DEF msg
<1>4. msg.p \in Int /\ msg.v \in Nat
  BY <1>1, <1>3 DEF Request
<1>5. PICK k \in Kinds : \E n \in 1 .. Len(types[s][k]) : types[s][k][n].fh = msg.p /\ msg.p # NotSet
  BY <1>1, <1>2, <1>3 DEF AskedInv
<1>6. PICK n \in 1 .. Len(types[s][k]) : types[s][k][n].fh = msg.p /\ msg.p # NotSet
  BY <1>5
<1>7. msg.p \in 0 .. Len(target[s]) - 1 /\ target[s][msg.p + 1] = <<k, n>>
  <2>1. Linked(s, types[s][k][n], k, n)
    BY <1>2 DEF TableInv
  <2> QED BY <1>6, <2>1 DEF Linked
<1>8. msg.p + 1 \in DOMAIN target[s]
  <2>1. target[s] \in Seq(Cell)
    BY <1>2 DEF AppTyped
  <2>2. Len(target[s]) \in Nat /\ DOMAIN target[s] = 1 .. Len(target[s])
    BY <2>1, Elements
  <2> QED BY <1>7, <2>2
<1>10. LET cell == target[s][msg.p + 1] IN
         freq' \in {[freq EXCEPT ![s][cell[1]] = Put(@, cell[2], msg.v)]}
                   \cup IF Grown(s, cell[1]) /\ cell[2] <= InitTypes THEN {freq} ELSE {}
  BY <1>8 DEF ApplyControl, msg
<1>11. freq' = [freq EXCEPT ![s][k] = Put(@, n, msg.v)] \/ (freq' = freq /\ Grown(s, k))
  BY <1>7, <1>10
<1> QED BY <1>1, <1>4, <1>6, <1>11 DEF msg

LEMMA BaseApply ==
  ASSUME BaseInv, NEW s \in Sims, ApplyControl(s)
  PROVE  BaseInv'
<1>1. /\ up[s] # << >> /\ up' = [up EXCEPT ![s] = Tail(@)]
      /\ UNCHANGED <<types, target, nextType, calls, changed, conn, down, entry, want, edits, last>>
  BY Applying DEF client
<1> PICK k \in Kinds : \E n \in 1 .. Len(types[s][k]) :
        /\ Head(up[s]).v \in Nat
        /\ freq' = [freq EXCEPT ![s][k] = Put(@, n, Head(up[s]).v)] \/ freq' = freq
  BY Applying
<1>2. PICK n \in 1 .. Len(types[s][k]) :
        /\ Head(up[s]).v \in Nat
        /\ freq' = [freq EXCEPT ![s][k] = Put(@, n, Head(up[s]).v)] \/ freq' = freq
  OBVIOUS
<1>3. /\ TypeInv /\ freq \in [Sims -> [Kinds -> Seq(Nat)]] /\ up \in [Sims -> Seq(Request)]
      /\ freq[s][k] \in Seq(Nat) /\ types[s][k] \in Seq(Row) /\ up[s] \in Seq(Request)
  BY DEF BaseInv, TypeInv, AppTyped, LinkTyped
<1>4. Len(freq[s][k]) \in Nat /\ n \in 1 .. Len(freq[s][k]) + 1 /\ n <= Len(freq[s][k])
  <2>1. Len(types[s][k]) \in Nat /\ Len(freq[s][k]) \in Nat
    BY <1>3, Elements
  <2> QED BY <2>1 DEF BaseInv, TableInv
<1> DEFINE p == Put(freq[s][k], n, Head(up[s]).v)
<1>5. p \in Seq(Nat) /\ Len(p) = Len(freq[s][k])
  <2>1. p \in Seq(Nat)
    BY ONLY <1>2, <1>3, <1>4, PutSeq
  <2>2. Len(p) = Len(freq[s][k])
    BY ONLY <1>2, <1>3, <1>4, PutLen
  <2> QED BY <2>1, <2>2
<1> HIDE DEF p
<1>6. freq' = [freq EXCEPT ![s][k] = p] \/ freq' = freq
  BY <1>2 DEF p
<1>7. freq' \in [Sims -> [Kinds -> Seq(Nat)]] /\ \A t \in Sims, l \in Kinds : Len(freq'[t][l]) = Len(freq[t][l])
  <2>1. CASE freq' = [freq EXCEPT ![s][k] = p]
    BY <1>3, <1>5, <2>1
  <2>2. CASE freq' = freq
    BY <1>3, <2>2
  <2> QED BY <1>6, <2>1, <2>2
<1>8. up' \in [Sims -> Seq(Request)]
  <2>1. Tail(up[s]) \in Seq(Request)
    BY ONLY <1>1, <1>3
  <2> QED BY <1>1, <1>3, <2>1
<1>9. TypeInv' /\ HeldOnce'
  BY <1>1, <1>3, <1>7, <1>8 DEF BaseInv, TypeInv, AppTyped, LinkTyped, HeldOnce
<1>10. \A t \in Sims : TableInv(t)'
  BY <1>1, <1>3, <1>7, TableStays DEF BaseInv, TypeInv
<1>11. \A t \in Sims : KnownInv(t)'
  <2>1. \A t \in Sims, l \in All : Shown(t, l)' = Shown(t, l)
    BY <1>1, PresentStays
  <2> QED BY <1>1, <2>1, KnownStays DEF BaseInv
<1>12. ASSUME NEW t \in Sims PROVE AskedInv(t)'
  <2>1. CASE t # s
    <3>1. up'[t] = up[t]
      BY <1>1, <1>3, <2>1
    <3> QED BY <1>1, <3>1, AskedStays, HeldStays DEF BaseInv
  <2>2. CASE t = s
    <3> DEFINE q == Tail(up[s])
    <3>1. /\ Len(up[s]) \in Nat \ {0} /\ Len(q) = Len(up[s]) - 1
          /\ \A j \in 1 .. Len(q) : j + 1 \in 1 .. Len(up[s]) /\ q[j] = up[s][j + 1]
      BY ONLY <1>1, <1>3
    <3>2. up'[s] = q
      BY <1>1, <1>3
    <3> HIDE DEF q
    <3>3. Held(s)' = Held(s) /\ types' = types
      BY <1>1 DEF Held
    <3>4. AskedInv(s)
      BY DEF BaseInv
    <3>5. ASSUME NEW j \in 1 .. Len(q)
          PROVE  \/ q[j].type = "detach" /\ j = Len(q) /\ Held(s) = {}
                 \/ /\ q[j].type = "edit" /\ q[j].p # NotSet
                    /\ \E l \in Kinds : \E i \in 1 .. Len(types[s][l]) : types[s][l][i].fh = q[j].p
      <4>1. j + 1 \in 1 .. Len(up[s]) /\ q[j] = up[s][j + 1] /\ (j + 1 = Len(up[s]) => j = Len(q))
        BY <3>1
      <4>2. \/ up[s][j + 1].type = "detach" /\ j + 1 = Len(up[s]) /\ Held(s) = {}
            \/ /\ up[s][j + 1].type = "edit" /\ up[s][j + 1].p # NotSet
               /\ \E l \in Kinds : \E i \in 1 .. Len(types[s][l]) : types[s][l][i].fh = up[s][j + 1].p
        BY <3>4, <4>1 DEF AskedInv
      <4> QED BY <4>1, <4>2
    <3> QED BY <2>2, <3>2, <3>3, <3>5 DEF AskedInv
  <2> QED BY <2>1, <2>2
<1> QED BY <1>9, <1>10, <1>11, <1>12 DEF BaseInv

\* A step that leaves the tables alone, apart from what is asked of them.
LEMMA BaseLinks ==
  ASSUME BaseInv, UNCHANGED <<types, freq, target, nextType, calls>>,
         want' \in [Sims -> Seq(Nat)], \A t \in Sims : Len(want'[t]) = Len(want[t]),
         changed' \in [Sims -> SUBSET All], LinkTyped', HeldOnce',
         \A t \in Sims : KnownInv(t)' /\ AskedInv(t)'
  PROVE  BaseInv'
<1>1. TypeInv'
  BY DEF BaseInv, TypeInv, AppTyped
<1>2. \A t \in Sims : TableInv(t)'
  BY TableStays DEF BaseInv, TypeInv
<1> QED BY <1>1, <1>2 DEF BaseInv

LEMMA BaseNotice ==
  ASSUME BaseInv, NEW s \in Sims, Notice(s)
  PROVE  BaseInv'
<1>1. /\ conn' = [conn EXCEPT ![s] = TRUE]
      /\ UNCHANGED <<types, freq, target, nextType, calls, changed, up, down, entry, want, edits, last>>
  BY DEF Notice, app, client
<1>2. LinkTyped' /\ HeldOnce' /\ AppTyped
  BY <1>1 DEF BaseInv, TypeInv, LinkTyped, HeldOnce
<1>3. \A t \in Sims : KnownInv(t)' /\ AskedInv(t)'
  BY <1>1, TablesKept, KnownStays, AskedStays, HeldStays DEF BaseInv, TablesStay
<1> QED BY <1>1, <1>2, <1>3, BaseLinks DEF AppTyped

LEMMA BaseAppDetach ==
  ASSUME BaseInv, NEW s \in Sims, AppDetach(s)
  PROVE  BaseInv'
<1>1. /\ conn' = [conn EXCEPT ![s] = FALSE] /\ changed' = [changed EXCEPT ![s] = All]
      /\ up' = [up EXCEPT ![s] = << >>]
      /\ UNCHANGED <<types, freq, target, nextType, calls, down, entry, want, edits, last>>
  BY DEF AppDetach, client
<1>2. LinkTyped /\ AppTyped /\ << >> \in Seq(Request)
  BY DEF BaseInv, TypeInv
<1>3. LinkTyped' /\ HeldOnce' /\ changed' \in [Sims -> SUBSET All]
  BY <1>1, <1>2 DEF BaseInv, LinkTyped, HeldOnce, AppTyped
<1>4. \A t \in Sims : KnownInv(t)'
  BY <1>1, TablesKept, KnownStays DEF BaseInv, TablesStay
<1>5. ASSUME NEW t \in Sims PROVE AskedInv(t)'
  <2>1. CASE t = s
    <3>1. up'[s] = << >>
      BY <1>1, <1>2 DEF LinkTyped
    <3> QED BY <2>1, <3>1 DEF AskedInv
  <2>2. CASE t # s
    <3>1. up'[t] = up[t]
      BY <1>1, <1>2, <2>2 DEF LinkTyped
    <3> QED BY <1>1, <3>1, AskedStays, HeldStays DEF BaseInv
  <2> QED BY <2>1, <2>2
<1> QED BY <1>1, <1>2, <1>3, <1>4, <1>5, BaseLinks DEF AppTyped

-----------------------------------------------------------------------------
(* The steps of the client.                                                *)

\* A set of numbers that is not empty has a least one.
LEMMA Least ==
  ASSUME NEW T \in SUBSET Nat, T # {}
  PROVE  Min(T) \in T /\ \A y \in T : Min(T) <= y
<1> DEFINE Less == {ss \in Nat \X Nat : ss[1] < ss[2]}
<1>1. IsWellFoundedOn(Less, Nat)
  BY NatLessThanWellFounded DEF OpToRel
<1>2. PICK x \in T : \A y \in T : ~(<<y, x>> \in Less)
  BY <1>1, WFMin
<1>3. ASSUME NEW y \in T PROVE x <= y
  <2>1. x \in Nat /\ y \in Nat
    OBVIOUS
  <2>2. ~(y < x)
    BY <1>2, <2>1
  <2> QED BY <2>1, <2>2
<1> QED BY <1>3 DEF Min

\* Sim_attach takes a free entry for a simulation that has none.
LEMMA Attaching ==
  ASSUME TypeInv, NEW s \in Sims, Attach(s)
  PROVE  /\ up[s] = << >> /\ Held(s) = {} /\ ~conn[s] /\ numReg' = numReg + 1
         /\ \E i \in 0 .. Slots - 1 :
              entry[i].sim = NoSim /\ entry' = [entry EXCEPT ![i] = [FreeEntry EXCEPT !.sim = s]]
         /\ down' = [down EXCEPT ![s] = << >>]
         /\ UNCHANGED <<app, conn, up, last, want, edits, skips, missed>>
<1>1. DOMAIN entry = 0 .. Slots - 1 /\ 0 .. Slots - 1 \subseteq Nat
  BY TablesAssumption DEF TypeInv, LinkTyped
<1>2. Min(Free) \in Free
  <2>1. Free \subseteq Nat /\ Free # {}
    BY <1>1 DEF Free, Attach
  <2> QED BY <2>1, Least
<1>3. Min(Free) \in 0 .. Slots - 1 /\ entry[Min(Free)].sim = NoSim
  BY <1>1, <1>2 DEF Free
<1>4. up[s] = << >> /\ Held(s) = {} /\ ~conn[s]
  BY DEF Attach, Locked, Held
<1>5. /\ entry' = [entry EXCEPT ![Min(Free)] = [FreeEntry EXCEPT !.sim = s]]
      /\ numReg' = numReg + 1 /\ down' = [down EXCEPT ![s] = << >>]
      /\ UNCHANGED <<app, conn, up, last, want, edits, skips, missed>>
  BY DEF Attach
<1> QED BY <1>3, <1>4, <1>5

LEMMA BaseAttach ==
  ASSUME BaseInv, NEW s \in Sims, Attach(s)
  PROVE  BaseInv'
<1>1. /\ up[s] = << >> /\ Held(s) = {} /\ down' = [down EXCEPT ![s] = << >>]
      /\ UNCHANGED <<types, freq, target, nextType, calls, changed, conn, up, want, edits, last>>
  BY Attaching DEF BaseInv, app
<1> DEFINE new == [FreeEntry EXCEPT !.sim = s]
<1>2. PICK i \in 0 .. Slots - 1 : entry[i].sim = NoSim /\ entry' = [entry EXCEPT ![i] = new]
  BY Attaching DEF BaseInv
<1>3. new \in Entry /\ new.sim = s /\ s # NoSim /\ \A k \in All : Of(new, k) = {}
  BY TablesAssumption DEF FreeEntry, Entry, Of, All, Kinds, NoSim
<1> HIDE DEF new
<1>4. LinkTyped /\ AppTyped /\ << >> \in Seq(News) /\ HeldOnce
  BY DEF BaseInv, TypeInv
<1>5. /\ entry' \in [0 .. Slots - 1 -> Entry] /\ entry'[i] = new
      /\ \A j \in 0 .. Slots - 1 : j # i => entry'[j] = entry[j]
  BY <1>2, <1>3, <1>4 DEF LinkTyped
<1>6. LinkTyped'
  BY <1>1, <1>4, <1>5 DEF LinkTyped
<1>7. /\ Held(s)' = {i}
      /\ \A t \in Sims : t # s => Held(t)' = Held(t) /\ \A j \in Held(t) : entry'[j] = entry[j]
  <2>1. DOMAIN entry = 0 .. Slots - 1 /\ DOMAIN entry' = 0 .. Slots - 1
    BY <1>4, <1>5 DEF LinkTyped
  <2>2. \A t \in Sims : t # NoSim
    BY TablesAssumption DEF NoSim
  <2> QED BY <1>1, <1>2, <1>3, <1>5, <2>1, <2>2 DEF Held
<1>8. HeldOnce'
  <2>1. DOMAIN entry = 0 .. Slots - 1 /\ DOMAIN entry' = 0 .. Slots - 1
    BY <1>4, <1>5 DEF LinkTyped
  <2>2. \A j \in 0 .. Slots - 1 : entry[j].sim # s
    BY <1>1, <2>1 DEF Held
  <2> QED BY <1>3, <1>4, <1>5, <2>1, <2>2 DEF HeldOnce
<1>9. ASSUME NEW t \in Sims PROVE KnownInv(t)' /\ AskedInv(t)'
  <2>1. \A k \in All : Shown(t, k)' = Shown(t, k)
    BY <1>1, TablesKept DEF TablesStay
  <2>2. CASE t = s
    <3>1. down'[s] = << >> /\ up'[s] = << >>
      BY <1>1, <1>4 DEF LinkTyped
    <3>2. KnownInv(s)'
      BY <1>3, <1>5, <1>7, <3>1 DEF KnownInv
    <3> QED BY <2>2, <3>1, <3>2 DEF AskedInv
  <2>3. CASE t # s
    <3>1. down'[t] = down[t]
      BY <1>1, <1>4, <2>3 DEF LinkTyped
    <3>2. KnownInv(t)'
      BY <1>7, <2>1, <2>3, <3>1, KnownKeeps DEF BaseInv, KnownInv
    <3> QED BY <1>1, <1>7, <2>3, <3>2, AskedStays DEF BaseInv
  <2> QED BY <2>2, <2>3
<1> QED BY <1>1, <1>4, <1>6, <1>8, <1>9, BaseLinks DEF AppTyped

\* Sim_detach.
LEMMA BaseDetach ==
  ASSUME BaseInv, NEW i \in DOMAIN entry, Detach(i)
  PROVE  BaseInv'
<1> DEFINE m == [type |-> "detach"]
<1>1. LinkTyped /\ AppTyped /\ HeldOnce /\ DOMAIN entry = 0 .. Slots - 1
  BY DEF BaseInv, TypeInv, LinkTyped
<1>2. PICK s \in Sims : s = entry[i].sim
  BY <1>1 DEF Detach, LinkTyped, Entry
<1>3. /\ s # NoSim /\ up' = [up EXCEPT ![s] = Append(@, m)]
      /\ entry' = [entry EXCEPT ![i] = FreeEntry]
      /\ UNCHANGED <<types, freq, target, nextType, calls, changed, conn, down, want, edits, last>>
  BY <1>2 DEF Detach, app
<1>4. m \in Request /\ m.type = "detach" /\ FreeEntry \in Entry /\ FreeEntry.sim = NoSim
  BY DEF Request, FreeEntry, Entry
<1>5. i \in Held(s)
  BY <1>2 DEF Held
<1>6. up[s] \in Seq(Request)
  BY <1>1, <1>2 DEF LinkTyped
<1> HIDE DEF m
<1>7. /\ Append(up[s], m) \in Seq(Request) /\ Len(Append(up[s], m)) = Len(up[s]) + 1
      /\ Append(up[s], m)[Len(up[s]) + 1] = m
      /\ \A j \in 1 .. Len(up[s]) : Append(up[s], m)[j] = up[s][j]
      /\ \A j \in 1 .. Len(up[s]) + 1 : j \in 1 .. Len(up[s]) \/ j = Len(up[s]) + 1
  BY ONLY <1>4, <1>6, Appended
<1>8. /\ entry' \in [0 .. Slots - 1 -> Entry] /\ entry'[i] = FreeEntry
      /\ \A j \in 0 .. Slots - 1 : j # i => entry'[j] = entry[j]
  BY <1>3, <1>1, <1>4 DEF LinkTyped
<1>9. LinkTyped'
  BY <1>3, <1>1, <1>2, <1>7, <1>8 DEF LinkTyped
<1>10. DOMAIN entry' = 0 .. Slots - 1 /\ \A t \in Sims : t # NoSim
  BY <1>8, TablesAssumption DEF NoSim
<1>11. HeldOnce'
  BY <1>1, <1>4, <1>8, <1>10 DEF HeldOnce
<1>12. /\ Held(s)' = {}
       /\ \A t \in Sims : t # s => Held(t)' = Held(t)
       /\ \A t \in Sims : Held(t)' \subseteq Held(t) /\ \A j \in Held(t)' : entry'[j] = entry[j]
  <2>1. \A j \in 0 .. Slots - 1 : entry[j].sim = s => j = i
    BY <1>3, <1>1, <1>2 DEF HeldOnce
  <2> QED BY <1>1, <1>2, <1>4, <1>8, <1>10, <2>1 DEF Held
<1>13. ASSUME NEW t \in Sims PROVE KnownInv(t)' /\ AskedInv(t)'
  <2>1. KnownInv(t)'
    <3>1. \A k \in All : Shown(t, k)' = Shown(t, k)
      BY <1>3, TablesKept DEF TablesStay
    <3> QED BY <1>3, <1>12, <3>1, KnownKeeps DEF BaseInv, KnownInv
  <2>2. CASE t # s
    <3>1. up'[t] = up[t]
      BY <1>3, <1>1, <2>2 DEF LinkTyped
    <3> QED BY <1>3, <1>12, <2>1, <2>2, <3>1, AskedStays DEF BaseInv
  <2>3. CASE t = s
    <3>1. up'[s] = Append(up[s], m)
      BY <1>3, <1>1, <1>2 DEF LinkTyped
    <3>2. AskedInv(s) /\ Held(s) # {}
      BY <1>2, <1>5 DEF BaseInv
    <3>3. ASSUME NEW j \in 1 .. Len(up[s]) + 1
          PROVE  \/ up'[s][j].type = "detach" /\ j = Len(up[s]) + 1
                 \/ /\ up'[s][j].type = "edit" /\ up'[s][j].p # NotSet
                    /\ \E k \in Kinds : \E n \in 1 .. Len(types[s][k]) : types[s][k][n].fh = up'[s][j].p
      <4>1. CASE j \in 1 .. Len(up[s])
        BY <1>7, <3>1, <3>2, <4>1 DEF AskedInv
      <4>2. CASE j = Len(up[s]) + 1
        BY <1>4, <1>7, <3>1, <4>2
      <4> QED BY <1>7, <4>1, <4>2
    <3>4. Len(up'[s]) = Len(up[s]) + 1 /\ Held(s)' = {} /\ types' = types
      BY <1>3, <1>7, <1>12, <3>1
    <3>5. AskedInv(s)'
      BY <3>3, <3>4 DEF AskedInv
    <3> QED BY <2>1, <2>3, <3>5
  <2> QED BY <2>2, <2>3
<1> QED BY <1>3, <1>1, <1>9, <1>11, <1>13, BaseLinks DEF AppTyped

\* Get_next_message takes a message of an entry in use, and puts what it says
\* into that entry.
Reads(i, s) ==
  /\ entry[i].sim = s /\ down[s] # << >>
  /\ \E k \in Finds : i = Slot(k) /\ \A l \in Finds : k <= l
  /\ last' = i /\ Skip(i)
  /\ entry' = [entry EXCEPT ![i] = Consume(@, Head(down[s]))]
  /\ down' = [down EXCEPT ![s] = Tail(@)]
  /\ UNCHANGED <<app, conn, up, numReg, want, edits, missed>>

LEMMA Reading ==
  ASSUME TypeInv, ReadNext
  PROVE  \E i \in 0 .. Slots - 1, s \in Sims : Reads(i, s)
<1>1. last \in Int /\ Slots \in Nat \ {0} /\ entry \in [0 .. Slots - 1 -> Entry]
  BY TablesAssumption DEF TypeInv, LinkTyped
<1>2. Min(Finds) \in Finds /\ \A l \in Finds : Min(Finds) <= l
  <2>1. Finds # {}
    BY DEF ReadNext
  <2>2. Finds \subseteq 0 .. Slots - 1 /\ 0 .. Slots - 1 \subseteq Nat
    BY <1>1 DEF Finds
  <2>3. Finds \in SUBSET Nat
    BY <2>2
  <2> QED BY <2>1, <2>3, Least
<1> DEFINE k == Min(Finds)
<1>3. k \in 0 .. Slots - 1 /\ Active(k) /\ down[entry[Slot(k)].sim] # << >>
  BY <1>2 DEF Finds
<1>4. Slot(k) \in 0 .. Slots - 1
  BY <1>1, <1>3 DEF Slot
<1>5. entry[Slot(k)].sim \in Sims
  BY <1>1, <1>3, <1>4 DEF Active, Entry
<1>6. LET i == Slot(k)
          s == entry[i].sim
      IN /\ last' = i /\ Skip(i)
         /\ entry' = [entry EXCEPT ![i] = Consume(@, Head(down[s]))]
         /\ down' = [down EXCEPT ![s] = Tail(@)]
  BY DEF ReadNext
<1>7. UNCHANGED <<app, conn, up, numReg, want, edits, missed>>
  BY DEF ReadNext
<1> HIDE DEF k
<1>8. Reads(Slot(k), entry[Slot(k)].sim)
  BY <1>2, <1>3, <1>6, <1>7 DEF Reads, k
<1> QED BY <1>4, <1>5, <1>8

\* What the reader makes of one message.
LEMMA Consumed ==
  ASSUME BaseInv, NEW s \in Sims, NEW i \in Held(s), down[s] # << >>, NEW k \in All
  PROVE  LET m == Head(down[s])
             N == Shown(s, k)
         IN /\ Of(Consume(entry[i], m), k) \subseteq N
            /\ m.type = k /\ m.rows = N => Of(Consume(entry[i], m), k) = N
            /\ m.type # k => Of(Consume(entry[i], m), k) = Of(entry[i], k)
<1> DEFINE m == Head(down[s])
           N == Shown(s, k)
<1>1. /\ AppTyped /\ TableInv(s) /\ KnownInv(s) /\ down[s] \in Seq(News)
      /\ entry \in [0 .. Slots - 1 -> Entry]
  BY DEF BaseInv, TypeInv, LinkTyped
<1>2. 1 \in 1 .. Len(down[s]) /\ m = down[s][1] /\ m \in News
  <2>1. Len(down[s]) \in Nat \ {0}
    BY <1>1
  <2> QED BY <1>1, <2>1
<1>3. entry[i] \in Entry
  BY <1>1 DEF Held
<1>4. Of(entry[i], k) \subseteq N /\ (m.type = k => m.rows \subseteq N)
  BY <1>1, <1>2 DEF KnownInv
<1>5. k \in {"param", "io", "chk"}
  BY DEF All, Kinds
<1>6. k = "param" => N \subseteq Int
  BY <1>1, ShownTyped
<1>7. k # "param" => N \subseteq Row /\ \A r, t \in N : r.h = t.h => r = t
  <2>1. ASSUME k # "param" PROVE k \in Kinds /\ N \subseteq Row
    <3>1. k \in Kinds
      BY <1>5, <2>1 DEF Kinds
    <3> QED BY <1>1, <3>1, ShownTyped
  <2> HIDE DEF N
  <2> QED BY <1>1, <2>1, HandlesDiffer DEF N
<1> HIDE DEF m, N
<1>8. Of(Consume(entry[i], m), k) \subseteq N
  BY ONLY <1>2, <1>3, <1>4, <1>6, <1>7, k \in All, ConsumeIs
<1>9. m.type = k /\ m.rows = N => Of(Consume(entry[i], m), k) = N
  BY ONLY <1>2, <1>3, <1>4, <1>6, <1>7, k \in All, ConsumeIs
<1>10. m.type # k => Of(Consume(entry[i], m), k) = Of(entry[i], k)
  BY ONLY <1>2, <1>3, <1>4, <1>6, <1>7, k \in All, ConsumeIs
<1> QED BY <1>8, <1>9, <1>10 DEF m, N

LEMMA ConsumedTyped ==
  ASSUME BaseInv, NEW s \in Sims, NEW i \in Held(s), down[s] # << >>
  PROVE  /\ Consume(entry[i], Head(down[s])) \in Entry
         /\ Consume(entry[i], Head(down[s])).sim = s
<1> DEFINE m == Head(down[s])
<1>1. /\ AppTyped /\ KnownInv(s) /\ down[s] \in Seq(News) /\ entry \in [0 .. Slots - 1 -> Entry]
  BY DEF BaseInv, TypeInv, LinkTyped
<1>2. 1 \in 1 .. Len(down[s]) /\ m = down[s][1] /\ m \in News
  <2>1. Len(down[s]) \in Nat \ {0}
    BY <1>1
  <2> QED BY <1>1, <2>1
<1>3. entry[i] \in Entry /\ entry[i].sim = s
  BY <1>1 DEF Held
<1>4. \A k \in All : m.type = k => m.rows \subseteq Shown(s, k)
  BY <1>1, <1>2 DEF KnownInv
<1>5. (m.type = "param" => m.rows \subseteq Int) /\ (m.type \in Kinds => m.rows \subseteq Row)
  BY <1>1, <1>4, ShownTyped DEF All
<1> HIDE DEF m
<1>6. Consume(entry[i], m) \in Entry /\ Consume(entry[i], m).sim = entry[i].sim
  BY <1>2, <1>3, <1>5, ConsumeTyped
<1> QED BY <1>3, <1>6 DEF m

LEMMA BaseReads ==
  ASSUME BaseInv, NEW i \in 0 .. Slots - 1, NEW s \in Sims, Reads(i, s)
  PROVE  BaseInv'
<1> DEFINE new == Consume(entry[i], Head(down[s]))
           q == Tail(down[s])
<1>1. /\ entry[i].sim = s /\ down[s] # << >> /\ last' = i
      /\ entry' = [entry EXCEPT ![i] = new] /\ down' = [down EXCEPT ![s] = q]
      /\ UNCHANGED <<types, freq, target, nextType, calls, changed, conn, up, want, edits>>
  BY DEF Reads, app
<1>2. LinkTyped /\ AppTyped /\ HeldOnce /\ DOMAIN entry = 0 .. Slots - 1 /\ down[s] \in Seq(News)
  BY DEF BaseInv, TypeInv, LinkTyped
<1>3. i \in Held(s)
  BY <1>1, <1>2 DEF Held
<1>4. new \in Entry /\ new.sim = s
  BY <1>1, <1>3, ConsumedTyped
<1>5. q \in Seq(News) /\ Len(q) = Len(down[s]) - 1 /\ Len(down[s]) \in Nat
      /\ \A j \in 1 .. Len(q) : j + 1 \in 1 .. Len(down[s]) /\ q[j] = down[s][j + 1]
  BY ONLY <1>1, <1>2
<1>6. \A k \in All : Of(new, k) \subseteq Shown(s, k)
  BY <1>1, <1>3, Consumed
<1> HIDE DEF new, q
<1>7. /\ entry' \in [0 .. Slots - 1 -> Entry] /\ entry'[i].sim = s
      /\ \A j \in 0 .. Slots - 1 : j # i => entry'[j] = entry[j]
  BY <1>1, <1>2, <1>4 DEF LinkTyped
<1>8. entry'[i] = new
  BY <1>1, <1>2
<1>9. DOMAIN entry' = 0 .. Slots - 1 /\ \A j \in 0 .. Slots - 1 : entry'[j].sim = entry[j].sim
  BY <1>1, <1>7
<1>10. LinkTyped'
  BY <1>1, <1>2, <1>5, <1>7, TablesAssumption DEF LinkTyped
<1>11. HeldOnce' /\ \A t \in Sims : Held(t)' = Held(t)
  BY <1>2, <1>9 DEF HeldOnce, Held
<1>12. ASSUME NEW t \in Sims PROVE KnownInv(t)' /\ AskedInv(t)'
  <2>1. \A k \in All : Shown(t, k)' = Shown(t, k)
    BY <1>1, TablesKept DEF TablesStay
  <2>2. AskedInv(t)'
    BY <1>1, <1>11, AskedStays DEF BaseInv
  <2>3. KnownInv(t)
    BY DEF BaseInv
  <2>4. CASE t # s
    <3>1. down'[t] = down[t] /\ \A j \in Held(t) : entry'[j] = entry[j]
      BY <1>1, <1>2, <1>7, <2>4 DEF LinkTyped, Held
    <3>2. KnownInv(t)'
      BY <1>11, <2>1, <2>3, <3>1, KnownKeeps DEF KnownInv
    <3> QED BY <2>2, <3>2
  <2>5. CASE t = s
    <3>1. down'[s] = q
      BY <1>1, <1>2 DEF LinkTyped
    <3>2. ASSUME NEW j \in 1 .. Len(down'[s]), NEW k \in All, down'[s][j].type = k
          PROVE  down'[s][j].rows \subseteq Shown(s, k)
      <4>1. j + 1 \in 1 .. Len(down[s]) /\ down'[s][j] = down[s][j + 1]
        BY <1>5, <3>1
      <4>2. down[s][j + 1].type = k => down[s][j + 1].rows \subseteq Shown(s, k)
        BY <2>3, <2>5, <4>1 DEF KnownInv
      <4> QED BY <3>2, <4>1, <4>2
    <3>3. \A j \in Held(s) : j = i
      BY <1>2, <1>3, TablesAssumption DEF HeldOnce, Held, NoSim
    <3>4. \A j \in Held(s)' : \A k \in All : Of(entry'[j], k) \subseteq Shown(s, k)
      BY <1>6, <1>8, <1>11, <3>3
    <3>5. KnownInv(s)'
      BY <2>1, <2>5, <3>2, <3>4, KnownKeeps
    <3> QED BY <2>2, <2>5, <3>5
  <2> QED BY <2>4, <2>5
<1> QED BY <1>1, <1>2, <1>10, <1>11, <1>12, BaseLinks DEF AppTyped

LEMMA BaseReadNone ==
  ASSUME BaseInv, ReadNone
  PROVE  BaseInv'
<1>1. /\ last' = -1
      /\ UNCHANGED <<types, freq, target, nextType, calls, changed, conn, up, down, entry, want, edits>>
  BY DEF ReadNone, app
<1>2. LinkTyped' /\ HeldOnce' /\ AppTyped
  BY <1>1, TablesAssumption DEF BaseInv, TypeInv, LinkTyped, HeldOnce
<1>3. \A t \in Sims : KnownInv(t)' /\ AskedInv(t)'
  BY <1>1, TablesKept, KnownStays, AskedStays, HeldStays DEF BaseInv, TablesStay
<1> QED BY <1>1, <1>2, <1>3, BaseLinks DEF AppTyped

\* Set_iotype_freq and Set_chktype_freq ask for the frequency of a row that is
\* registered and has a parameter.
Asks(i, s, k, n) ==
  LET r == types[s][k][n] IN
  /\ entry[i].sim = s /\ r.fh # NotSet /\ edits' = edits + 1
  /\ up' = [up EXCEPT ![s] = Append(@, [type |-> "edit", p |-> r.fh, v |-> edits + 1])]
  /\ want' = [want EXCEPT ![s][r.h + 1] = edits + 1]
  /\ UNCHANGED <<app, conn, down, client, skips>>

LEMMA Asking ==
  ASSUME BaseInv, NEW i \in DOMAIN entry, NEW r \in entry[i].io \cup entry[i].chk, SetFreq(i, r)
  PROVE  \E s \in Sims, k \in Kinds : \E n \in 1 .. Len(types[s][k]) : Asks(i, s, k, n)
<1>1. entry[i] \in Entry /\ entry[i].sim # NoSim
  BY DEF BaseInv, TypeInv, LinkTyped, SetFreq
<1>2. PICK s \in Sims : s = entry[i].sim
  BY <1>1 DEF Entry
<1>3. AppTyped /\ KnownInv(s) /\ i \in Held(s)
  BY <1>2 DEF BaseInv, TypeInv, Held
<1>4. r \in Of(entry[i], "io") \/ r \in Of(entry[i], "chk")
  BY DEF Of
<1>5. \A k \in All : Of(entry[i], k) \subseteq Shown(s, k)
  BY <1>3 DEF KnownInv
<1>6. PICK k \in Kinds : r \in Shown(s, k)
  BY <1>4, <1>5 DEF All, Kinds
<1>8. r.fh \in 0 .. Len(target[s]) - 1
  BY <1>5 DEF Of, Present, Shown, All, SetFreq
<1>9. r.fh # NotSet /\ r # Junk
  <2>1. target[s] \in Seq(Cell)
    BY <1>3 DEF AppTyped
  <2>2. Len(target[s]) \in Nat
    BY <2>1
  <2> QED BY <1>8, <2>2 DEF NotSet, Junk
<1>7. PICK n \in 1 .. Len(types[s][k]) : r = types[s][k][n]
  <2>1. Shown(s, k) \subseteq Rows(s, k) \cup {Junk}
    BY DEF Shown, Extra, Kinds
  <2> QED BY <1>3, <1>6, <1>9, <2>1, RowsAre
<1>10. Asks(i, s, k, n)
  BY <1>2, <1>7, <1>9 DEF SetFreq, Asks
<1> QED BY <1>10

LEMMA BaseAsks ==
  ASSUME BaseInv, NEW i \in DOMAIN entry, NEW s \in Sims, NEW k \in Kinds,
         NEW n \in 1 .. Len(types[s][k]), Asks(i, s, k, n)
  PROVE  BaseInv'
<1> DEFINE r == types[s][k][n]
           m == [type |-> "edit", p |-> r.fh, v |-> edits + 1]
           w == [want[s] EXCEPT ![r.h + 1] = edits + 1]
<1>1. /\ r.fh # NotSet /\ edits' = edits + 1 /\ up' = [up EXCEPT ![s] = Append(@, m)]
      /\ want' = [want EXCEPT ![s] = w]
      /\ UNCHANGED <<types, freq, target, nextType, calls, changed, conn, down, entry, last>>
  BY DEF Asks, app, client
<1>2. LinkTyped /\ AppTyped /\ HeldOnce /\ TableInv(s)
  BY DEF BaseInv, TypeInv
<1>3. r \in Row /\ m \in Request /\ m.type = "edit" /\ m.p = r.fh
  <2>1. types[s][k] \in Seq(Row) /\ edits \in Nat
    BY <1>2 DEF AppTyped, LinkTyped
  <2>2. r \in Row
    BY <2>1, Elements
  <2> QED BY <2>1, <2>2 DEF Request, Row
<1>4. w \in Seq(Nat) /\ Len(w) = Len(want[s])
  <2>1. want[s] \in Seq(Nat) /\ edits + 1 \in Nat
    BY <1>2 DEF AppTyped, LinkTyped
  <2> DEFINE x == r.h + 1
             y == edits + 1
  <2>2. x \in 1 .. Len(want[s])
    <3>1. Linked(s, r, k, n) /\ Len(want[s]) = nextType[s] /\ nextType[s] \in Nat
      BY <1>2 DEF TableInv, AppTyped
    <3> QED BY <3>1 DEF Linked
  <2> HIDE DEF x, y
  <2>3. [want[s] EXCEPT ![x] = y] \in Seq(Nat) /\ Len([want[s] EXCEPT ![x] = y]) = Len(want[s])
    BY <2>1, <2>2, ExceptSeq DEF y
  <2> QED BY <2>3 DEF x, y
<1>5. up[s] \in Seq(Request)
  BY <1>2 DEF LinkTyped
<1>6. /\ i \in Held(s)
      /\ \E l \in Kinds : \E j \in 1 .. Len(types[s][l]) : types[s][l][j].fh = m.p
  BY <1>3 DEF Held, Asks
<1> HIDE DEF m, w, r
<1>7. /\ Append(up[s], m) \in Seq(Request) /\ Len(Append(up[s], m)) = Len(up[s]) + 1
      /\ Append(up[s], m)[Len(up[s]) + 1] = m
      /\ \A j \in 1 .. Len(up[s]) : Append(up[s], m)[j] = up[s][j]
      /\ \A j \in 1 .. Len(up[s]) + 1 : j \in 1 .. Len(up[s]) \/ j = Len(up[s]) + 1
  BY ONLY <1>3, <1>5, Appended
<1>8. LinkTyped' /\ HeldOnce'
  BY <1>1, <1>2, <1>7 DEF LinkTyped, HeldOnce
<1>9. want' \in [Sims -> Seq(Nat)] /\ \A t \in Sims : Len(want'[t]) = Len(want[t])
  BY <1>1, <1>2, <1>4 DEF AppTyped
<1>10. ASSUME NEW t \in Sims PROVE KnownInv(t)' /\ AskedInv(t)'
  <2>1. KnownInv(t)'
    BY <1>1, PresentStays, KnownStays DEF BaseInv
  <2>2. CASE t # s
    <3>1. up'[t] = up[t]
      BY <1>1, <1>2, <2>2 DEF LinkTyped
    <3> QED BY <1>1, <2>1, <3>1, AskedStays, HeldStays DEF BaseInv
  <2>3. CASE t = s
    <3>1. up'[s] = Append(up[s], m) /\ AskedInv(s)
      BY <1>1, <1>2 DEF LinkTyped, BaseInv
    <3>2. ASSUME NEW j \in 1 .. Len(up[s]) + 1
          PROVE  /\ up'[s][j].type = "edit" /\ up'[s][j].p # NotSet
                 /\ \E l \in Kinds : \E x \in 1 .. Len(types[s][l]) : types[s][l][x].fh = up'[s][j].p
      <4>1. CASE j \in 1 .. Len(up[s])
        BY <1>6, <1>7, <3>1, <4>1 DEF AskedInv
      <4>2. CASE j = Len(up[s]) + 1
        BY <1>1, <1>3, <1>6, <1>7, <3>1, <4>2
      <4> QED BY <1>7, <4>1, <4>2
    <3>3. Len(up'[s]) = Len(up[s]) + 1 /\ types' = types
      BY <1>1, <1>7, <3>1
    <3>4. AskedInv(s)'
      BY <3>2, <3>3 DEF AskedInv
    <3> QED BY <2>1, <2>3, <3>4
  <2> QED BY <2>2, <2>3
<1> QED BY <1>1, <1>2, <1>8, <1>9, <1>10, BaseLinks DEF AppTyped

LEMMA BaseStep ==
  ASSUME BaseInv, [Next]_vars
  PROVE  BaseInv'
<1>1. ASSUME NEW s \in Sims, NEW b \in BOOLEAN, RegisterIOType(s, b) \/ RegisterChkType(s, b)
      PROVE  BaseInv'
  BY <1>1, Registering, BaseRegister
<1>2. ASSUME NEW s \in Sims, Publish(s) PROVE BaseInv'
  <2>1. TypeInv
    BY DEF BaseInv
  <2>2. PICK q : down' = [down EXCEPT ![s] = @ \o q] /\ Current(s, q)
    BY <1>2, <2>1, Publishing
  <2>3. /\ changed' = [changed EXCEPT ![s] = {}]
        /\ UNCHANGED <<types, freq, target, nextType, calls, conn, up, entry, want, edits, last>>
    BY <1>2, <2>1, Publishing DEF client
  <2>4. changed' \in [Sims -> SUBSET All]
    BY <2>1, <2>3 DEF TypeInv, AppTyped
  <2> QED BY <2>2, <2>3, <2>4, BaseSends DEF TablesStay
<1>3. ASSUME UNCHANGED <<types, freq, target, nextType, calls, changed, conn, up, down, entry, want, edits, last>>
      PROVE  BaseInv'
  <2>2. TypeInv' /\ HeldOnce' /\ TablesStay
    BY <1>3 DEF BaseInv, TypeInv, AppTyped, LinkTyped, HeldOnce, TablesStay
  <2>3. \A t \in Sims : KnownInv(t)' /\ AskedInv(t)'
    BY <1>3, <2>2, TablesKept, KnownStays, AskedStays, HeldStays DEF BaseInv
  <2> QED BY <2>2, <2>3, TablesKept DEF BaseInv
<1>7. ASSUME NEW s \in Sims, Republish(s) PROVE BaseInv'
  <2>1. /\ TypeInv
        /\ UNCHANGED <<types, freq, target, nextType, calls, changed, conn, up, entry, want, edits, last>>
    BY <1>7, Republishing DEF app, client, BaseInv
  <2>2. CASE UNCHANGED down
    BY <1>3, <2>1, <2>2
  <2>3. CASE \E q : down' = [down EXCEPT ![s] = @ \o q] /\ Current(s, q)
    BY <2>1, <2>3, BaseSends DEF TablesStay, TypeInv, AppTyped
  <2> QED BY <1>7, <2>1, <2>2, <2>3, Republishing
<1>4. ASSUME NEW i \in DOMAIN entry, NEW r \in entry[i].io \cup entry[i].chk, SetFreq(i, r)
      PROVE  BaseInv'
  BY <1>4, Asking, BaseAsks
<1>5. ASSUME ReadNext PROVE BaseInv'
  BY <1>5, Reading, BaseReads DEF BaseInv
<1>6. ASSUME UNCHANGED vars PROVE BaseInv'
  BY <1>3, <1>6 DEF vars, app, client
<1> QED BY <1>1, <1>2, <1>4, <1>5, <1>6, <1>7, BaseNotice, BaseApply, BaseAppDetach, BaseAttach,
           BaseDetach, BaseReadNone DEF Next

\* A client lists for a simulation only what was registered there, with its
\* frequency parameter, whoever comes and goes and whichever entry is used again,
\* apart from the rows that nobody wrote of a table that was moved.
THEOREM Listed == Spec => []OnlyRegistered
<1>1. BaseInv => OnlyRegistered
  <2> SUFFICES ASSUME BaseInv, NEW s \in Sims, NEW i \in Held(s)
      PROVE  /\ entry[i].io \subseteq Rows(s, "io") \cup UNION Extra(s, "io")
             /\ entry[i].chk \subseteq Rows(s, "chk") \cup UNION Extra(s, "chk")
    BY DEF OnlyRegistered
  <2>1. \A k \in All : Of(entry[i], k) \subseteq Shown(s, k)
    BY DEF BaseInv, KnownInv
  <2> QED BY <2>1 DEF Of, Shown, All, Kinds
<1>2. BaseInv /\ [Next]_vars => BaseInv'
  BY BaseStep
<1> QED BY <1>1, <1>2, BaseInit, PTL DEF Spec

-----------------------------------------------------------------------------
(* Frequencies.  Once the requests on their way are applied, every row has  *)
(* the frequency that was last asked for.                                   *)

Names(q, p, j) == q[j].type = "edit" /\ q[j].p = p

\* The requests in q turn the frequency f that parameter p points to into w.
Settles(q, p, f, w) ==
  \/ f = w /\ \A j \in 1 .. Len(q) : ~Names(q, p, j)
  \/ \E j \in 1 .. Len(q) :
       /\ Names(q, p, j) /\ q[j].v = w
       /\ \A l \in 1 .. Len(q) : l > j => ~Names(q, p, l)

EditInv(s) ==
  \A k \in Kinds : \A i \in 1 .. Len(types[s][k]) :
    ~Grown(s, k) => Settles(up[s], types[s][k][i].fh, freq[s][k][i], want[s][types[s][k][i].h + 1])

LEMMA SettlesAdds ==
  ASSUME NEW q \in Seq(Request), NEW m \in Request, NEW p, NEW f, m.type = "edit", m.p = p
  PROVE  Settles(Append(q, m), p, f, m.v)
<1> DEFINE a == Append(q, m)
<1>1. Len(a) = Len(q) + 1 /\ a[Len(q) + 1] = m /\ Len(q) \in Nat
  BY Appended
<1>2. Names(a, p, Len(q) + 1)
  BY <1>1 DEF Names
<1> HIDE DEF a
<1>3. Settles(a, p, f, m.v)
  BY <1>1, <1>2 DEF Settles
<1> QED BY <1>3 DEF a

LEMMA SettlesPasses ==
  ASSUME NEW q \in Seq(Request), NEW m \in Request, NEW p, NEW f, NEW w,
         ~(m.type = "edit" /\ m.p = p), Settles(q, p, f, w)
  PROVE  Settles(Append(q, m), p, f, w)
<1> DEFINE a == Append(q, m)
<1>1. /\ Len(a) = Len(q) + 1 /\ a[Len(q) + 1] = m /\ Len(q) \in Nat
      /\ \A j \in 1 .. Len(q) : a[j] = q[j]
      /\ \A j \in 1 .. Len(a) : j \in 1 .. Len(q) \/ j = Len(q) + 1
  BY Appended
<1>2. \A j \in 1 .. Len(q) : Names(a, p, j) <=> Names(q, p, j)
  BY <1>1 DEF Names
<1>3. ~Names(a, p, Len(q) + 1)
  BY <1>1 DEF Names
<1> HIDE DEF a
<1>4. CASE f = w /\ \A j \in 1 .. Len(q) : ~Names(q, p, j)
  <2>1. \A j \in 1 .. Len(a) : ~Names(a, p, j)
    BY <1>1, <1>2, <1>3, <1>4
  <2> QED BY <1>4, <2>1 DEF Settles, a
<1>5. ASSUME NEW j \in 1 .. Len(q), Names(q, p, j), q[j].v = w,
             \A l \in 1 .. Len(q) : l > j => ~Names(q, p, l)
      PROVE  Settles(a, p, f, w)
  <2>1. j \in 1 .. Len(a) /\ Names(a, p, j) /\ a[j].v = w
    BY <1>1, <1>2, <1>5
  <2>2. \A l \in 1 .. Len(a) : l > j => ~Names(a, p, l)
    BY <1>1, <1>2, <1>3, <1>5
  <2> QED BY <2>1, <2>2 DEF Settles
<1>6. \/ f = w /\ \A j \in 1 .. Len(q) : ~Names(q, p, j)
      \/ \E j \in 1 .. Len(q) :
           /\ Names(q, p, j) /\ q[j].v = w
           /\ \A l \in 1 .. Len(q) : l > j => ~Names(q, p, l)
  BY DEF Settles
<1> QED BY <1>4, <1>5, <1>6 DEF a

LEMMA SettlesTakes ==
  ASSUME NEW q \in Seq(Request), q # << >>, NEW p, NEW f, NEW w, Settles(q, p, f, w),
         NEW g, IF Names(q, p, 1) THEN g = q[1].v ELSE g = f
  PROVE  Settles(Tail(q), p, g, w)
<1> DEFINE t == Tail(q)
<1>1. /\ Len(q) \in Nat \ {0} /\ Len(t) = Len(q) - 1
      /\ \A j \in 1 .. Len(t) : j + 1 \in 1 .. Len(q) /\ t[j] = q[j + 1]
  OBVIOUS
<1>2. \A j \in 1 .. Len(t) : Names(t, p, j) <=> Names(q, p, j + 1)
  BY <1>1 DEF Names
<1> HIDE DEF t
<1>3. CASE f = w /\ \A j \in 1 .. Len(q) : ~Names(q, p, j)
  <2>1. g = w
    BY <1>1, <1>3
  <2> QED BY <1>1, <1>2, <1>3, <2>1 DEF Settles, t
<1>4. ASSUME NEW j \in 1 .. Len(q), Names(q, p, j), q[j].v = w,
             \A l \in 1 .. Len(q) : l > j => ~Names(q, p, l)
      PROVE  Settles(t, p, g, w)
  <2>1. CASE j = 1
    <3>1. g = w
      BY <1>4, <2>1
    <3>2. \A l \in 1 .. Len(t) : ~Names(t, p, l)
      BY <1>1, <1>2, <1>4, <2>1
    <3> QED BY <3>1, <3>2 DEF Settles
  <2>2. CASE j # 1
    <3> DEFINE i == j - 1
    <3>1. i \in 1 .. Len(t) /\ j = i + 1
      BY <1>1, <2>2
    <3> HIDE DEF i
    <3>2. Names(t, p, i) /\ t[i].v = w
      BY <1>1, <1>2, <1>4, <3>1
    <3>3. \A l \in 1 .. Len(t) : l > i => ~Names(t, p, l)
      BY <1>1, <1>2, <1>4, <3>1
    <3> QED BY <3>1, <3>2, <3>3 DEF Settles
  <2> QED BY <2>1, <2>2
<1> QED BY <1>3, <1>4 DEF Settles, t

LEMMA OneHandle ==
  ASSUME NEW s, TableInv(s), NEW k \in Kinds, NEW l \in Kinds,
         NEW i \in 1 .. Len(types[s][k]), NEW j \in 1 .. Len(types[s][l])
  PROVE  types[s][k][i].h = types[s][l][j].h => k = l /\ i = j
BY DEF TableInv

\* A handle of a type, or of a frequency parameter, belongs to one row.
LEMMA OneRow ==
  ASSUME NEW s, TableInv(s), NEW k \in Kinds, NEW l \in Kinds,
         NEW i \in 1 .. Len(types[s][k]), NEW j \in 1 .. Len(types[s][l]),
         \/ types[s][k][i].h = types[s][l][j].h
         \/ types[s][k][i].fh = types[s][l][j].fh /\ types[s][k][i].fh # NotSet
  PROVE  k = l /\ i = j
<1>1. CASE types[s][k][i].h = types[s][l][j].h
  BY <1>1 DEF TableInv
<1>2. CASE types[s][k][i].fh = types[s][l][j].fh /\ types[s][k][i].fh # NotSet
  <2>1. Linked(s, types[s][k][i], k, i) /\ Linked(s, types[s][l][j], l, j)
    BY DEF TableInv
  <2>2. target[s][types[s][k][i].fh + 1] = <<k, i>> /\ target[s][types[s][l][j].fh + 1] = <<l, j>>
    BY <1>2, <2>1 DEF Linked
  <2> QED BY <1>2, <2>2
<1> QED BY <1>1, <1>2

LEMMA EditStays ==
  ASSUME NEW s, EditInv(s), UNCHANGED <<types[s], freq[s], want[s], up[s]>>
  PROVE  EditInv(s)'
<1>1. \A k \in Kinds : Grown(s, k)' = Grown(s, k)
  BY DEF Grown
<1> QED BY <1>1 DEF EditInv

LEMMA EditRegister ==
  ASSUME BaseInv, BaseInv', NEW s \in Sims, EditInv(s), NEW k \in Kinds, Registers(s, k)
  PROVE  EditInv(s)'
<1>1. /\ AppTyped /\ AppTyped' /\ TableInv(s) /\ AskedInv(s) /\ up'[s] = up[s]
      /\ want[s] \in Seq(Nat) /\ Len(want[s]) = nextType[s] /\ nextType[s] \in Nat
  BY DEF BaseInv, TypeInv, AppTyped, TableInv, Registers
<1>2. \A l \in Kinds : \A i \in 1 .. Len(types'[s][l]) : OldRow(s, l, i) \/ (l = k /\ NewRow(s, k, i))
  BY <1>1, RowsRegistered
<1>3. \/ want'[s] = want[s]
      \/ want'[s] = Append(want[s], 0)
  BY DEF Registers, Adds
<1>4. \A x \in 1 .. Len(want[s]) : want'[s][x] = want[s][x]
  BY <1>1, <1>3, Appended
<1>6. \A l \in Kinds : Grown(s, l) => Grown(s, l)'
  <2>1. \A l \in Kinds : Exact(s, l)' => Exact(s, l)
    BY <1>1, ShownGrows DEF All
  <2> QED BY <2>1 DEF Exact, Kinds
<1>5. ASSUME NEW l \in Kinds, NEW i \in 1 .. Len(types'[s][l]), ~Grown(s, l)'
      PROVE  Settles(up'[s], types'[s][l][i].fh, freq'[s][l][i], want'[s][types'[s][l][i].h + 1])
  <2>1. CASE OldRow(s, l, i)
    <3> DEFINE r == types[s][l][i]
    <3>1. /\ i \in 1 .. Len(types[s][l]) /\ types'[s][l][i] = r
          /\ freq'[s][l][i] = freq[s][l][i]
      BY <2>1 DEF OldRow
    <3>2. Linked(s, r, l, i) /\ Settles(up[s], r.fh, freq[s][l][i], want[s][r.h + 1])
      BY <1>1, <1>5, <1>6, <3>1 DEF TableInv, EditInv
    <3>3. r.h \in 0 .. nextType[s] - 1
      BY <3>2 DEF Linked
    <3> HIDE DEF r
    <3>4. want'[s][r.h + 1] = want[s][r.h + 1]
      <4>1. r.h + 1 \in 1 .. Len(want[s])
        BY <1>1, <3>3
      <4> QED BY <1>4, <4>1
    <3> QED BY <1>1, <3>1, <3>2, <3>4
  <2>2. CASE l = k /\ NewRow(s, k, i)
    <3> DEFINE p == types'[s][k][i].fh
    <3>1. /\ types'[s][k][i].h = nextType[s] /\ freq'[s][k][i] = 0
          /\ want'[s] = Append(want[s], 0)
          /\ p = NotSet \/ p = Len(target[s])
      BY <2>2 DEF NewRow
    <3>2. want'[s][nextType[s] + 1] = 0
      BY <1>1, <3>1, Appended
    <3>3. ASSUME NEW j \in 1 .. Len(up[s]), Names(up[s], p, j) PROVE FALSE
      <4>1. up[s][j].p = p /\ p # NotSet
            /\ \E m \in Kinds : \E n \in 1 .. Len(types[s][m]) : types[s][m][n].fh = p
        BY <1>1, <3>3 DEF AskedInv, Names
      <4>2. PICK m \in Kinds : \E n \in 1 .. Len(types[s][m]) : types[s][m][n].fh = p
        BY <4>1
      <4>3. PICK n \in 1 .. Len(types[s][m]) : types[s][m][n].fh = p
        BY <4>2
      <4>4. Linked(s, types[s][m][n], m, n)
        BY <1>1 DEF TableInv
      <4>5. p \in 0 .. Len(target[s]) - 1
        BY <4>1, <4>3, <4>4 DEF Linked
      <4>6. target[s] \in Seq(Cell)
        BY <1>1 DEF AppTyped
      <4>7. Len(target[s]) \in Nat
        BY <4>6
      <4> QED BY <3>1, <4>1, <4>5, <4>7
    <3> HIDE DEF p
    <3> QED BY <1>1, <2>2, <3>1, <3>2, <3>3 DEF Settles, p
  <2> QED BY <1>2, <2>1, <2>2
<1> QED BY <1>5 DEF EditInv

LEMMA EditApply ==
  ASSUME BaseInv, NEW s \in Sims, EditInv(s), ApplyControl(s)
  PROVE  \A t \in Sims : EditInv(t) => EditInv(t)'
<1>1. /\ up[s] # << >> /\ up' = [up EXCEPT ![s] = Tail(@)] /\ Head(up[s]).type = "edit"
      /\ UNCHANGED <<types, want>>
  BY Applying
<1>2. PICK k \in Kinds : \E n \in 1 .. Len(types[s][k]) :
        /\ types[s][k][n].fh = Head(up[s]).p /\ Head(up[s]).v \in Nat
        /\ \/ freq' = [freq EXCEPT ![s][k] = Put(@, n, Head(up[s]).v)]
           \/ freq' = freq /\ Grown(s, k)
  BY Applying
<1>3. PICK n \in 1 .. Len(types[s][k]) :
        /\ types[s][k][n].fh = Head(up[s]).p /\ Head(up[s]).v \in Nat
        /\ \/ freq' = [freq EXCEPT ![s][k] = Put(@, n, Head(up[s]).v)]
           \/ freq' = freq /\ Grown(s, k)
  BY <1>2
<1>4. /\ TableInv(s) /\ AskedInv(s)
      /\ freq \in [Sims -> [Kinds -> Seq(Nat)]] /\ up \in [Sims -> Seq(Request)]
      /\ \A l \in Kinds : types[s][l] \in Seq(Row)
  BY DEF BaseInv, TypeInv, AppTyped, LinkTyped
<1> DEFINE q == up[s]
           p == Head(q).p
           v == Head(q).v
<1>5. q \in Seq(Request) /\ q # << >> /\ Head(q) = q[1] /\ 1 \in 1 .. Len(q)
  <2>1. q \in Seq(Request) /\ q # << >>
    BY <1>1, <1>4
  <2> HIDE DEF q
  <2>2. Len(q) \in Nat \ {0}
    BY <2>1
  <2> QED BY <2>1, <2>2
<1>6. /\ p # NotSet /\ types[s][k][n].fh = p /\ v \in Nat
      /\ freq' = [freq EXCEPT ![s][k] = Put(@, n, v)] \/ (freq' = freq /\ Grown(s, k))
  BY <1>1, <1>3, <1>4, <1>5 DEF AskedInv
<1>7. up'[s] = Tail(q)
  BY <1>1, <1>4
<1>8. \A i : Names(q, i, 1) <=> i = p
  BY <1>1, <1>5 DEF Names
<1> HIDE DEF q, p, v
<1>9. ASSUME NEW l \in Kinds, NEW i \in 1 .. Len(types[s][l]), ~Grown(s, l)
      PROVE  IF types[s][l][i].fh = p THEN freq'[s][l][i] = v ELSE freq'[s][l][i] = freq[s][l][i]
  <2>1. \A m \in Kinds : /\ freq[s][m] \in Seq(Nat) /\ Len(freq[s][m]) \in Nat
                         /\ Len(types[s][m]) \in Nat /\ Len(types[s][m]) <= Len(freq[s][m])
    <3> SUFFICES ASSUME NEW m \in Kinds
        PROVE  /\ freq[s][m] \in Seq(Nat) /\ Len(freq[s][m]) \in Nat
               /\ Len(types[s][m]) \in Nat /\ Len(types[s][m]) <= Len(freq[s][m])
      OBVIOUS
    <3>1. freq[s][m] \in Seq(Nat) /\ types[s][m] \in Seq(Row)
      BY <1>4
    <3>2. Len(freq[s][m]) \in Nat /\ Len(types[s][m]) \in Nat
      BY <3>1, Elements
    <3> QED BY <1>4, <3>1, <3>2 DEF TableInv
  <2>2. n \in 1 .. Len(freq[s][k]) /\ n \in 1 .. Len(freq[s][k]) + 1
    <3>1. Len(freq[s][k]) \in Nat /\ Len(types[s][k]) \in Nat /\ Len(types[s][k]) <= Len(freq[s][k])
      BY <2>1
    <3> QED BY <3>1
  <2>5. i \in 1 .. Len(freq[s][l])
    <3>1. Len(freq[s][l]) \in Nat /\ Len(types[s][l]) \in Nat /\ Len(types[s][l]) <= Len(freq[s][l])
      BY <2>1
    <3> QED BY <3>1
  <2>3. CASE l = k
    <3>1. freq'[s][k] = Put(freq[s][k], n, v)
      BY <1>4, <1>6, <1>9, <2>3
    <3>5. freq[s][k] \in Seq(Nat)
      BY <2>1
    <3>2. freq'[s][k][n] = v
      BY ONLY <1>6, <2>2, <3>1, <3>5, PutHere
    <3>3. i # n => freq'[s][k][i] = freq[s][k][i]
      BY ONLY <1>6, <2>2, <2>3, <2>5, <3>1, <3>5, PutElsewhere
    <3>4. types[s][l][i].fh = p => i = n
      BY <1>4, <1>6, OneRow
    <3> QED BY <1>6, <2>3, <3>2, <3>3, <3>4
  <2>4. CASE l # k
    <3>1. freq'[s][l] = freq[s][l]
      BY <1>4, <1>6, <2>4
    <3>2. types[s][l][i].fh # p
      BY <1>4, <1>6, <2>4, OneRow
    <3> QED BY <3>1, <3>2
  <2> QED BY <2>3, <2>4
<1>10. ASSUME NEW l \in Kinds, NEW i \in 1 .. Len(types[s][l]), ~Grown(s, l)
       PROVE  Settles(up'[s], types[s][l][i].fh, freq'[s][l][i], want[s][types[s][l][i].h + 1])
  <2> DEFINE x == types[s][l][i].fh
             f == freq[s][l][i]
             g == freq'[s][l][i]
             w == want[s][types[s][l][i].h + 1]
  <2>1. Settles(q, x, f, w)
    BY <1>10 DEF EditInv, q
  <2>2. IF Names(q, x, 1) THEN g = q[1].v ELSE g = f
    BY <1>5, <1>8, <1>9, <1>10 DEF v
  <2> HIDE DEF x, f, g, w
  <2>3. Settles(Tail(q), x, g, w)
    BY ONLY <1>5, <2>1, <2>2, SettlesTakes
  <2> QED BY <1>7, <2>3 DEF x, g, w
<1>11. EditInv(s)'
  BY <1>1, <1>10 DEF EditInv, Grown
<1>12. \A t \in Sims : t # s => up'[t] = up[t] /\ freq'[t] = freq[t]
  BY <1>1, <1>4, <1>6
<1> QED BY <1>1, <1>11, <1>12, EditStays

\* A request is added for one row, and what is wanted of that row changes.
LEMMA EditAsks ==
  ASSUME BaseInv, NEW i \in DOMAIN entry, NEW s \in Sims, EditInv(s), NEW k \in Kinds,
         NEW n \in 1 .. Len(types[s][k]), Asks(i, s, k, n)
  PROVE  \A t \in Sims : EditInv(t) => EditInv(t)'
<1> DEFINE r == types[s][k][n]
           m == [type |-> "edit", p |-> r.fh, v |-> edits + 1]
<1>1. /\ r.fh # NotSet /\ up' = [up EXCEPT ![s] = Append(@, m)]
      /\ want' = [want EXCEPT ![s][r.h + 1] = edits + 1]
      /\ UNCHANGED <<types, freq>>
  BY DEF Asks, app
<1>2. /\ TableInv(s) /\ up \in [Sims -> Seq(Request)] /\ want \in [Sims -> Seq(Nat)]
      /\ edits \in Nat /\ types[s][k] \in Seq(Row) /\ nextType[s] \in Nat
  BY DEF BaseInv, TypeInv, AppTyped, LinkTyped
<1>3. m \in Request /\ m.type = "edit" /\ m.p = r.fh /\ m.v = edits + 1
  <2>1. r \in Row
    BY <1>2, Elements
  <2> QED BY <1>2, <2>1 DEF Request, Row
<1>4. up'[s] = Append(up[s], m) /\ up[s] \in Seq(Request)
  BY <1>1, <1>2
<1>5. Linked(s, r, k, n) /\ want[s] \in Seq(Nat) /\ Len(want[s]) = nextType[s]
  BY <1>2 DEF TableInv
<1>6. r.h + 1 \in 1 .. Len(want[s]) /\ r.h \in Int
  <2>1. r.h \in 0 .. nextType[s] - 1
    BY <1>5 DEF Linked
  <2> HIDE DEF r
  <2> QED BY <1>2, <1>5, <2>1
<1>7. want'[s] = [want[s] EXCEPT ![r.h + 1] = edits + 1]
  BY <1>1, <1>2
<1>8. want'[s][r.h + 1] = edits + 1
  BY <1>5, <1>6, <1>7
<1>9. \A x \in 1 .. Len(want[s]) : x # r.h + 1 => want'[s][x] = want[s][x]
  BY <1>5, <1>6, <1>7
<1> HIDE DEF m
<1>10. ASSUME NEW l \in Kinds, NEW j \in 1 .. Len(types[s][l]), ~Grown(s, l)
       PROVE  Settles(up'[s], types[s][l][j].fh, freq[s][l][j], want'[s][types[s][l][j].h + 1])
  <2> DEFINE o == types[s][l][j]
             f == freq[s][l][j]
  <2>1. CASE o.fh = r.fh
    <3>1. l = k /\ j = n
      BY <1>1, <1>2, <2>1, OneRow
    <3>2. o = r
      BY <3>1
    <3> HIDE DEF o, r, f
    <3>3. Settles(Append(up[s], m), o.fh, f, m.v)
      BY ONLY <1>3, <1>4, <2>1, SettlesAdds
    <3> QED BY <1>3, <1>4, <1>8, <3>2, <3>3 DEF o, f
  <2>2. CASE o.fh # r.fh
    <3>1. o.h # r.h
      <4>1. TableInv(s)
        BY <1>2
      <4>2. types[s][l][j].h = types[s][k][n].h => l = k /\ j = n
        BY <4>1, OneHandle
      <4> QED BY <2>2, <4>2
    <3>2. Linked(s, o, l, j)
      BY <1>2 DEF TableInv
    <3>3. o.h + 1 \in 1 .. Len(want[s]) /\ o.h + 1 # r.h + 1
      <4>1. o.h \in 0 .. nextType[s] - 1
        BY <3>2 DEF Linked
      <4>2. r.h \in Int /\ nextType[s] \in Nat /\ Len(want[s]) = nextType[s]
        BY <1>2, <1>5, <1>6
      <4> DEFINE a == o.h
                 b == r.h
                 c == nextType[s]
      <4> HIDE DEF a, b, c
      <4>3. a \in 0 .. c - 1 /\ b \in Int /\ c \in Nat /\ a # b
        BY <3>1, <4>1, <4>2 DEF a, b, c
      <4>4. a + 1 \in 1 .. c /\ a + 1 # b + 1
        BY ONLY <4>3
      <4> QED BY <4>2, <4>4 DEF a, b, c
    <3>4. want'[s][o.h + 1] = want[s][o.h + 1]
      BY <1>9, <3>3
    <3>5. Settles(up[s], o.fh, f, want[s][o.h + 1])
      BY <1>10 DEF EditInv
    <3> DEFINE w == want[s][o.h + 1]
    <3> HIDE DEF o, r, f, w
    <3>6. Settles(up[s], o.fh, f, w)
      BY <3>5 DEF w
    <3>7. Settles(Append(up[s], m), o.fh, f, w)
      BY ONLY <1>3, <1>4, <2>2, <3>6, SettlesPasses
    <3> QED BY <1>4, <3>4, <3>7 DEF o, f, w
  <2> QED BY <2>1, <2>2
<1>11. EditInv(s)'
  BY <1>1, <1>10 DEF EditInv, Grown
<1>12. \A t \in Sims : t # s => up'[t] = up[t] /\ want'[t] = want[t]
  BY <1>1, <1>2
<1> QED BY <1>1, <1>11, <1>12, EditStays

LEMMA EditInit == Init => \A s \in Sims : EditInv(s)
  BY DEF Init, EditInv, Kinds

\* A simulation that has detached has nothing more to apply.
LEMMA EditAppDetach ==
  ASSUME BaseInv, NEW s \in Sims, AppDetach(s)
  PROVE  \A t \in Sims : EditInv(t) => EditInv(t)'
<1>1. /\ up[s] # << >> /\ Head(up[s]).type = "detach" /\ up' = [up EXCEPT ![s] = << >>]
      /\ UNCHANGED <<types, freq, want>>
  BY DEF AppDetach
<1>2. AskedInv(s) /\ up \in [Sims -> Seq(Request)]
  BY DEF BaseInv, TypeInv, LinkTyped
<1>3. up'[s] = << >> /\ \A t \in Sims : t # s => up'[t] = up[t]
  BY <1>1, <1>2
<1>4. 1 \in 1 .. Len(up[s]) /\ Len(up[s]) \in Nat /\ up[s][1].type = "detach"
  <2>1. up[s] \in Seq(Request)
    BY <1>2
  <2>2. Len(up[s]) \in Nat \ {0} /\ Head(up[s]) = up[s][1]
    BY <1>1, <2>1
  <2> QED BY <1>1, <2>2
<1>5. Len(up[s]) = 1
  BY <1>2, <1>4 DEF AskedInv
<1>6. \A p, j : j \in 1 .. Len(up[s]) => ~Names(up[s], p, j)
  BY <1>4, <1>5 DEF Names
<1>7. \A p, f, w : Settles(up[s], p, f, w) => Settles(<< >>, p, f, w)
  BY <1>6 DEF Settles
<1>8. EditInv(s) => EditInv(s)'
  BY <1>1, <1>3, <1>7 DEF EditInv, Grown
<1> QED BY <1>1, <1>3, <1>8, EditStays

LEMMA EditDetach ==
  ASSUME BaseInv, NEW i \in DOMAIN entry, Detach(i)
  PROVE  \A t \in Sims : EditInv(t) => EditInv(t)'
<1> DEFINE m == [type |-> "detach"]
<1>1. LinkTyped
  BY DEF BaseInv, TypeInv
<1>2. PICK s \in Sims : s = entry[i].sim
  BY <1>1 DEF Detach, LinkTyped, Entry
<1>3. up' = [up EXCEPT ![s] = Append(@, m)] /\ UNCHANGED <<types, freq, want>>
  BY <1>2 DEF Detach, app
<1>4. m \in Request /\ \A p : ~(m.type = "edit" /\ m.p = p)
  BY DEF Request
<1>5. /\ up[s] \in Seq(Request) /\ up'[s] = Append(up[s], m)
      /\ \A t \in Sims : t # s => up'[t] = up[t]
  BY <1>1, <1>3 DEF LinkTyped
<1> HIDE DEF m
<1>6. \A p, f, w : Settles(up[s], p, f, w) => Settles(Append(up[s], m), p, f, w)
  BY <1>4, <1>5, SettlesPasses
<1>7. EditInv(s) => EditInv(s)'
  BY <1>3, <1>5, <1>6 DEF EditInv, Grown
<1> QED BY <1>3, <1>5, <1>7, EditStays

LEMMA EditStep ==
  ASSUME BaseInv, BaseInv', \A s \in Sims : EditInv(s), [Next]_vars
  PROVE  \A t \in Sims : EditInv(t)'
<1>1. ASSUME NEW s \in Sims, NEW b \in BOOLEAN, RegisterIOType(s, b) \/ RegisterChkType(s, b)
      PROVE  \A t \in Sims : EditInv(t)'
  <2>1. PICK k \in Kinds : Registers(s, k)
    BY <1>1, Registering
  <2>2. EditInv(s)'
    BY <2>1, EditRegister
  <2>3. ASSUME NEW t \in Sims, t # s PROVE EditInv(t)'
    <3>1. UNCHANGED <<types[t], freq[t], want[t], up[t]>>
      BY <2>1, <2>3 DEF Registers
    <3> QED BY <3>1, EditStays
  <2> QED BY <2>2, <2>3
<1>2. ASSUME UNCHANGED <<types, freq, want, up>> PROVE \A t \in Sims : EditInv(t)'
  BY <1>2, EditStays
<1>3. ASSUME NEW s \in Sims, Notice(s) \/ Publish(s) \/ Republish(s) \/ Attach(s)
      PROVE  UNCHANGED <<types, freq, want, up>>
  BY <1>3 DEF Notice, Publish, Republish, Attach, app
<1>4. ASSUME ReadNext \/ ReadNone \/ UNCHANGED vars PROVE UNCHANGED <<types, freq, want, up>>
  BY <1>4 DEF ReadNext, ReadNone, vars, app
<1>5. ASSUME NEW i \in DOMAIN entry, NEW r \in entry[i].io \cup entry[i].chk, SetFreq(i, r)
      PROVE  \A t \in Sims : EditInv(t)'
  BY <1>5, Asking, EditAsks
<1> QED BY <1>1, <1>2, <1>3, <1>4, <1>5, EditApply, EditAppDetach, EditDetach DEF Next

\* Every IOType and checkpoint type gets the frequency last asked for, by
\* whichever client, and no other row does: handles of types, handles of their
\* parameters and rows stay in step, also after registrations that failed, as long
\* as the table of that kind has not been moved.
THEOREM FrequencyOfTheRow == Spec => []FrequencyFollows
<1> DEFINE Inv == BaseInv /\ \A s \in Sims : EditInv(s)
<1>1. Init => Inv
  BY BaseInit, EditInit
<1>2. Inv /\ [Next]_vars => Inv'
  BY BaseStep, EditStep
<1>3. Inv => FrequencyFollows
  <2> SUFFICES ASSUME Inv, NEW s \in Sims, up[s] = << >>, NEW k \in Kinds, NEW i \in DOMAIN types[s][k],
                      ~Grown(s, k)
      PROVE  freq[s][k][i] = want[s][types[s][k][i].h + 1]
    BY DEF FrequencyFollows
  <2>1. i \in 1 .. Len(types[s][k])
    <3>1. types[s][k] \in Seq(Row)
      BY DEF BaseInv, TypeInv, AppTyped
    <3> QED BY <3>1, Elements
  <2>2. Settles(up[s], types[s][k][i].fh, freq[s][k][i], want[s][types[s][k][i].h + 1])
    BY <2>1 DEF EditInv
  <2>3. 1 .. Len(up[s]) = {}
    OBVIOUS
  <2> QED BY <2>2, <2>3 DEF Settles
<1> HIDE DEF Inv
<1> QED BY <1>1, <1>2, <1>3, PTL DEF Spec

-----------------------------------------------------------------------------
(* The copy of the client.  What the application does not mark as changed,  *)
(* the client knows or will know from the messages on their way.            *)

\* The messages in q turn what is known of kind k into what there is now.
Updates(q, k, known, now) ==
  /\ (\A j \in 1 .. Len(q) : q[j].type # k) => known = now
  /\ \A j \in 1 .. Len(q) :
       q[j].type = k /\ (\A l \in 1 .. Len(q) : l > j => q[l].type # k) => q[j].rows = now

PublishInv(s) ==
  /\ ~conn[s] => \A k \in All : k \in changed[s] \/ Present(s, k) = {}
  /\ conn[s] => \A i \in Held(s), k \in All \ (changed[s] \cup missed[s]) :
                  Exact(s, k) => Updates(down[s], k, Of(entry[i], k), Present(s, k))

Missing == missed \in [Sims -> SUBSET All]

LEMMA ShownExactly ==
  ASSUME NEW s, NEW k, Exact(s, k)
  PROVE  k \in All => Shown(s, k) = Present(s, k)
  BY DEF Shown, Exact, Present, Extra

LEMMA UpdatesNothing ==
  ASSUME NEW s, KnownInv(s), NEW i \in Held(s), NEW k \in All, Present(s, k) = {}, Exact(s, k)
  PROVE  Updates(down[s], k, Of(entry[i], k), Present(s, k))
<1>0. Shown(s, k) = {}
  BY ShownExactly
<1>1. Of(entry[i], k) = {}
  BY <1>0 DEF KnownInv
<1>2. \A j \in 1 .. Len(down[s]) : down[s][j].type = k => down[s][j].rows = {}
  BY <1>0 DEF KnownInv
<1> QED BY <1>1, <1>2 DEF Updates

\* Messages that are up to date join the others.
LEMMA UpdatesJoins ==
  ASSUME NEW s, NEW q \in Seq(News), NEW a, Current(s, a), NEW k \in All, NEW known, NEW now,
         Exact(s, k), now = Present(s, k), Updates(q, k, known, now) \/ Tells(a, k)
  PROVE  Updates(q \o a, k, known, now)
<1> DEFINE c == q \o a
<1>1. a \in Seq(News) /\ \A j \in 1 .. Len(a) : a[j].type = k => a[j].rows = now
  BY DEF Current, UpToDate
<1>2. Len(q) \in Nat /\ Len(a) \in Nat
  BY <1>1
<1>3. /\ \A j \in 1 .. Len(q) : j \in 1 .. Len(c) /\ c[j] = q[j]
      /\ \A j \in 1 .. Len(a) : Len(q) + j \in 1 .. Len(c) /\ c[Len(q) + j] = a[j]
  BY <1>1, ConcatTo
<1>4. \A j \in 1 .. Len(c) : \/ j \in 1 .. Len(q) /\ c[j] = q[j]
                             \/ j - Len(q) \in 1 .. Len(a) /\ c[j] = a[j - Len(q)]
  BY <1>1, ConcatFrom
<1> HIDE DEF c
<1>5. ASSUME \A j \in 1 .. Len(c) : c[j].type # k
      PROVE  known = now
  <2>1. ~Tells(a, k)
    BY <1>3, <1>5 DEF Tells
  <2>2. \A j \in 1 .. Len(q) : q[j].type # k
    BY <1>3, <1>5
  <2> QED BY <2>1, <2>2 DEF Updates
<1>6. ASSUME NEW j \in 1 .. Len(c), c[j].type = k, \A l \in 1 .. Len(c) : l > j => c[l].type # k
      PROVE  c[j].rows = now
  <2>1. CASE j - Len(q) \in 1 .. Len(a) /\ c[j] = a[j - Len(q)]
    BY <1>1, <1>6, <2>1
  <2>2. CASE j \in 1 .. Len(q) /\ c[j] = q[j]
    <3>1. \A l \in 1 .. Len(a) : Len(q) + l > j
      BY <1>2, <2>2
    <3>2. ~Tells(a, k)
      BY <1>3, <1>6, <3>1 DEF Tells
    <3>3. \A l \in 1 .. Len(q) : l > j => q[l].type # k
      BY <1>3, <1>6
    <3>4. q[j].type = k
      BY <1>6, <2>2
    <3> QED BY <2>2, <3>2, <3>3, <3>4 DEF Updates
  <2> QED BY <1>4, <2>1, <2>2
<1>7. Updates(c, k, known, now)
  BY <1>5, <1>6 DEF Updates
<1> QED BY <1>7 DEF c

\* The first message is read.
LEMMA UpdatesTakes ==
  ASSUME NEW q \in Seq(News), q # << >>, NEW k, NEW known, NEW now, Updates(q, k, known, now), NEW new,
         Head(q).type = k /\ Head(q).rows = now => new = now,
         Head(q).type # k => new = known
  PROVE  Updates(Tail(q), k, new, now)
<1> DEFINE t == Tail(q)
<1>1. /\ Len(q) \in Nat \ {0} /\ Len(t) = Len(q) - 1 /\ Head(q) = q[1]
      /\ \A j \in 1 .. Len(t) : j + 1 \in 1 .. Len(q) /\ t[j] = q[j + 1]
  OBVIOUS
<1>2. \A l \in 1 .. Len(q) : l = 1 \/ (l - 1 \in 1 .. Len(t) /\ q[l] = t[l - 1])
  <2> SUFFICES ASSUME NEW l \in 1 .. Len(q), l # 1 PROVE l - 1 \in 1 .. Len(t) /\ q[l] = t[l - 1]
    OBVIOUS
  <2> HIDE DEF t
  <2>1. l - 1 \in 1 .. Len(t) /\ (l - 1) + 1 = l
    BY <1>1
  <2> QED BY <1>1, <2>1
<1> HIDE DEF t
<1>3. ASSUME \A j \in 1 .. Len(t) : t[j].type # k
      PROVE  new = now
  <2>1. \A l \in 1 .. Len(q) : l = 1 \/ q[l].type # k
    BY <1>2, <1>3
  <2>2. 1 \in 1 .. Len(q)
    BY <1>1
  <2>3. CASE q[1].type = k
    <3>1. \A l \in 1 .. Len(q) : l > 1 => q[l].type # k
      BY <2>1
    <3>2. q[1].rows = now
      BY <2>2, <2>3, <3>1 DEF Updates
    <3> QED BY <1>1, <2>3, <3>2
  <2>4. CASE q[1].type # k
    <3>1. \A l \in 1 .. Len(q) : q[l].type # k
      BY <2>1, <2>4
    <3>2. known = now
      BY <3>1 DEF Updates
    <3> QED BY <1>1, <2>4, <3>2
  <2> QED BY <2>3, <2>4
<1>4. ASSUME NEW j \in 1 .. Len(t), t[j].type = k, \A l \in 1 .. Len(t) : l > j => t[l].type # k
      PROVE  t[j].rows = now
  <2>1. j + 1 \in 1 .. Len(q) /\ q[j + 1] = t[j]
    BY <1>1
  <2>2. \A l \in 1 .. Len(q) : l > j + 1 => l - 1 > j /\ l # 1
    BY <1>1
  <2>3. \A l \in 1 .. Len(q) : l > j + 1 => q[l].type # k
    BY <1>2, <1>4, <2>2
  <2>4. q[j + 1].type = k
    BY <1>4, <2>1
  <2>5. q[j + 1].rows = now
    BY <2>1, <2>3, <2>4 DEF Updates
  <2> QED BY <2>1, <2>5
<1>5. Updates(t, k, new, now)
  BY <1>3, <1>4 DEF Updates
<1> QED BY <1>5 DEF t

LEMMA PublishStays ==
  ASSUME NEW s, PublishInv(s),
         UNCHANGED <<types[s], target[s], changed[s], missed[s], conn[s], down[s]>>,
         conn[s] => \A i \in Held(s)' : i \in Held(s) /\ entry'[i] = entry[i]
  PROVE  PublishInv(s)'
<1>1. \A k : Present(s, k)' = Present(s, k) /\ Exact(s, k)' = Exact(s, k)
  BY PresentStays
<1> QED BY <1>1 DEF PublishInv

LEMMA PublishRegister ==
  ASSUME BaseInv, BaseInv', NEW s \in Sims, PublishInv(s), NEW k \in Kinds, Registers(s, k)
  PROVE  PublishInv(s)'
<1>1. UNCHANGED <<conn, down, entry, missed>> /\ changed[s] \subseteq changed'[s]
  BY DEF Registers, client
<1>2. Held(s)' = Held(s)
  BY <1>1, HeldStays
<1>3. \A l \in All : l \in changed'[s] \/ Present(s, l)' = Present(s, l)
  BY PresentGrows DEF BaseInv, TypeInv
<1>6. \A l \in All : Exact(s, l)' => Exact(s, l)
  BY ShownGrows DEF BaseInv, TypeInv
<1>4. ASSUME ~conn[s], NEW l \in All PROVE l \in changed'[s] \/ Present(s, l)' = {}
  BY <1>1, <1>3, <1>4 DEF PublishInv
<1>5. ASSUME conn[s], NEW i \in Held(s), NEW l \in All \ (changed'[s] \cup missed[s]), Exact(s, l)'
      PROVE  Updates(down[s], l, Of(entry[i], l), Present(s, l)')
  <2>1. l \in All \ (changed[s] \cup missed[s]) /\ Present(s, l)' = Present(s, l) /\ Exact(s, l)
    BY <1>1, <1>3, <1>5, <1>6
  <2>2. Updates(down[s], l, Of(entry[i], l), Present(s, l))
    BY <1>5, <2>1 DEF PublishInv
  <2> QED BY <2>1, <2>2
<1> QED BY <1>1, <1>2, <1>4, <1>5 DEF PublishInv

\* What was not marked when no client was there is empty.
LEMMA PublishNotice ==
  ASSUME BaseInv, NEW s \in Sims, Notice(s)
  PROVE  \A t \in Sims : PublishInv(t) => PublishInv(t)'
<1>1. ~conn[s] /\ conn' = [conn EXCEPT ![s] = TRUE]
      /\ UNCHANGED <<types, target, changed, missed, down, entry>>
  BY DEF Notice, app, client
<1>2. conn'[s] /\ \A t \in Sims : t # s => conn'[t] = conn[t]
  BY <1>1 DEF BaseInv, TypeInv, LinkTyped
<1>3. ASSUME PublishInv(s) PROVE PublishInv(s)'
  <2>1. ASSUME NEW i \in Held(s), NEW k \in All \ (changed[s] \cup missed[s]), Exact(s, k)
        PROVE  Updates(down[s], k, Of(entry[i], k), Present(s, k))
    <3>1. Present(s, k) = {}
      BY <1>1, <1>3 DEF PublishInv
    <3> QED BY <2>1, <3>1, UpdatesNothing DEF BaseInv
  <2>2. Held(s)' = Held(s) /\ \A k : Present(s, k)' = Present(s, k) /\ Exact(s, k)' = Exact(s, k)
    BY <1>1, HeldStays, PresentStays
  <2> QED BY <1>1, <1>2, <2>1, <2>2 DEF PublishInv
<1>4. \A t \in Sims : Held(t)' = Held(t)
  BY <1>1, HeldStays
<1> QED BY <1>1, <1>2, <1>3, <1>4, PublishStays

\* Messages that are up to date, and tell at least what was marked or missed, and
\* is not any more.
LEMMA PublishSends ==
  ASSUME BaseInv, BaseInv', NEW s \in Sims, NEW q, Current(s, q),
         down' = [down EXCEPT ![s] = @ \o q], UNCHANGED <<types, target, conn, entry>>,
         \A t \in Sims \ {s} : changed'[t] = changed[t] /\ missed'[t] = missed[t],
         conn[s] \/ changed'[s] = changed[s],
         \A k \in All \ (changed'[s] \cup missed'[s]) :
           k \notin changed[s] \cup missed[s] \/ Present(s, k) = {} \/ Tells(q, k)
  PROVE  \A t \in Sims : PublishInv(t) => PublishInv(t)'
<1>1. /\ down[s] \in Seq(News) /\ down'[s] = down[s] \o q
      /\ \A t \in Sims : t # s => down'[t] = down[t]
  BY DEF BaseInv, TypeInv, LinkTyped
<1>2. \A t \in Sims : Held(t)' = Held(t) /\ \A k : Present(t, k)' = Present(t, k) /\ Exact(t, k)' = Exact(t, k)
  BY HeldStays, PresentStays
<1>3. ASSUME PublishInv(s) PROVE PublishInv(s)'
  <2>1. ASSUME ~conn[s], NEW k \in All PROVE k \in changed'[s] \/ Present(s, k) = {}
    BY <1>3, <2>1 DEF PublishInv
  <2>2. ASSUME conn[s], NEW i \in Held(s), NEW k \in All \ (changed'[s] \cup missed'[s]), Exact(s, k)
        PROVE  Updates(down'[s], k, Of(entry[i], k), Present(s, k))
    <3>1. CASE Present(s, k) = {}
      <4>1. KnownInv(s)' /\ i \in Held(s)' /\ Present(s, k)' = {} /\ entry'[i] = entry[i] /\ Exact(s, k)'
        BY <1>2, <2>2, <3>1 DEF BaseInv
      <4>2. Shown(s, k)' = {}
        BY <4>1 DEF Shown, Exact, Present, Extra, All
      <4>3. Of(entry[i], k) = {} /\ \A j \in 1 .. Len(down'[s]) : down'[s][j].type = k => down'[s][j].rows = {}
        BY <4>1, <4>2 DEF KnownInv
      <4> QED BY <3>1, <4>3 DEF Updates
    <3>2. CASE Present(s, k) # {}
      <4>1. k \notin changed[s] \cup missed[s] \/ Tells(q, k)
        BY <2>2, <3>2
      <4>2. k \notin changed[s] \cup missed[s] => Updates(down[s], k, Of(entry[i], k), Present(s, k))
        BY <1>3, <2>2 DEF PublishInv
      <4> DEFINE known == Of(entry[i], k)
                 now == Present(s, k)
      <4>3. Updates(down[s], k, known, now) \/ Tells(q, k)
        BY <4>1, <4>2
      <4>4. now = Present(s, k) /\ Current(s, q) /\ k \in All /\ Exact(s, k)
        BY <2>2
      <4> HIDE DEF known, now
      <4>5. Updates(down[s] \o q, k, known, now)
        BY ONLY <1>1, <4>3, <4>4, UpdatesJoins
      <4> QED BY <1>1, <4>5 DEF known, now
    <3> QED BY <3>1, <3>2
  <2> QED BY <1>2, <2>1, <2>2 DEF PublishInv
<1> QED BY <1>1, <1>2, <1>3, PublishStays

LEMMA PublishReads ==
  ASSUME BaseInv, NEW i \in 0 .. Slots - 1, NEW s \in Sims, Reads(i, s)
  PROVE  \A t \in Sims : PublishInv(t) => PublishInv(t)'
<1> DEFINE new == Consume(entry[i], Head(down[s]))
<1>1. /\ entry[i].sim = s /\ down[s] # << >>
      /\ entry' = [entry EXCEPT ![i] = new] /\ down' = [down EXCEPT ![s] = Tail(@)]
      /\ UNCHANGED <<types, target, changed, missed, conn>>
  BY DEF Reads, app
<1>2. /\ LinkTyped /\ HeldOnce /\ DOMAIN entry = 0 .. Slots - 1 /\ down[s] \in Seq(News)
  BY DEF BaseInv, TypeInv, LinkTyped
<1>3. i \in Held(s)
  BY <1>1, <1>2 DEF Held
<1>4. new \in Entry /\ new.sim = s
  BY <1>1, <1>3, ConsumedTyped
<1> HIDE DEF new
<1>5. /\ DOMAIN entry' = 0 .. Slots - 1 /\ entry'[i] = new
      /\ \A j \in 0 .. Slots - 1 : j # i => entry'[j] = entry[j]
      /\ down'[s] = Tail(down[s]) /\ \A t \in Sims : t # s => down'[t] = down[t]
  BY <1>1, <1>2 DEF LinkTyped
<1>6. \A t \in Sims : Held(t)' = Held(t) /\ \A k : Present(t, k)' = Present(t, k) /\ Exact(t, k)' = Exact(t, k)
  <2>1. \A j \in 0 .. Slots - 1 : entry'[j].sim = entry[j].sim
    BY <1>1, <1>4, <1>5
  <2>2. \A t \in Sims : Held(t)' = Held(t)
    BY <1>2, <1>5, <2>1 DEF Held
  <2> QED BY <1>1, <2>2, PresentStays
<1>7. \A j \in Held(s) : j = i
  BY <1>2, <1>3, TablesAssumption DEF HeldOnce, Held, NoSim
<1>8. ASSUME PublishInv(s) PROVE PublishInv(s)'
  <2>1. ASSUME conn[s], NEW k \in All \ (changed[s] \cup missed[s]), Exact(s, k)
        PROVE  Updates(Tail(down[s]), k, Of(new, k), Present(s, k))
    <3>1. Updates(down[s], k, Of(entry[i], k), Present(s, k))
      BY <1>3, <1>8, <2>1 DEF PublishInv
    <3>2. /\ Head(down[s]).type = k /\ Head(down[s]).rows = Present(s, k) => Of(new, k) = Present(s, k)
          /\ Head(down[s]).type # k => Of(new, k) = Of(entry[i], k)
      BY <1>1, <1>3, <2>1, Consumed, ShownExactly DEF new
    <3> QED BY <1>1, <1>2, <3>1, <3>2, UpdatesTakes
  <2> QED BY <1>1, <1>5, <1>6, <1>7, <1>8, <2>1 DEF PublishInv
<1>9. ASSUME NEW t \in Sims, t # s, PublishInv(t) PROVE PublishInv(t)'
  <2>1. \A j \in Held(t) : j # i /\ j \in 0 .. Slots - 1
    BY <1>1, <1>2, <1>9 DEF Held
  <2>2. \A j \in Held(t)' : j \in Held(t) /\ entry'[j] = entry[j]
    BY <1>5, <1>6, <2>1
  <2> QED BY <1>1, <1>5, <1>9, <2>2, PublishStays
<1> QED BY <1>8, <1>9

LEMMA PublishStep ==
  ASSUME BaseInv, BaseInv', Missing, \A s \in Sims : PublishInv(s), [Next]_vars
  PROVE  \A t \in Sims : PublishInv(t)'
<1>1. ASSUME NEW s \in Sims, NEW b \in BOOLEAN, RegisterIOType(s, b) \/ RegisterChkType(s, b)
      PROVE  \A t \in Sims : PublishInv(t)'
  <2>1. PICK k \in Kinds : Registers(s, k)
    BY <1>1, Registering
  <2>2. PublishInv(s)'
    BY <2>1, PublishRegister
  <2>3. ASSUME NEW t \in Sims, t # s PROVE PublishInv(t)'
    <3>1. UNCHANGED <<types[t], target[t], changed[t], missed, conn, down, entry>>
      BY <2>1, <2>3 DEF Registers, client
    <3> QED BY <3>1, HeldStays, PublishStays
  <2> QED BY <2>2, <2>3
<1>2. ASSUME NEW s \in Sims, Publish(s) PROVE \A t \in Sims : PublishInv(t)'
  <2>1. TypeInv
    BY DEF BaseInv
  <2>2. PICK q, failed :
          /\ failed \in SUBSET changed[s] /\ down' = [down EXCEPT ![s] = @ \o q] /\ Current(s, q)
          /\ missed' = [missed EXCEPT ![s] = (@ \ changed[s]) \cup failed]
          /\ \A k \in changed[s] \ failed : Present(s, k) = {} \/ Tells(q, k)
    BY <1>2, <2>1, Publishing
  <2>3. /\ conn[s] /\ changed' = [changed EXCEPT ![s] = {}]
        /\ UNCHANGED <<types, target, conn, entry>>
    BY <1>2, <2>1, Publishing DEF client
  <2>4. /\ \A t \in Sims \ {s} : changed'[t] = changed[t] /\ missed'[t] = missed[t]
        /\ changed'[s] = {} /\ missed'[s] = (missed[s] \ changed[s]) \cup failed
    BY <2>1, <2>2, <2>3 DEF TypeInv, AppTyped, Missing
  <2>5. \A k \in All \ (changed'[s] \cup missed'[s]) :
          k \notin changed[s] \cup missed[s] \/ Present(s, k) = {} \/ Tells(q, k)
    BY <2>2, <2>4
  <2> QED BY <2>2, <2>3, <2>4, <2>5, PublishSends
<1>3. ASSUME NEW s \in Sims, Republish(s) PROVE \A t \in Sims : PublishInv(t)'
  <2>1. UNCHANGED <<types, target, changed, conn, entry>> /\ TypeInv
    BY <1>3, Republishing DEF app, client, BaseInv
  <2>2. CASE UNCHANGED <<down, missed>>
    BY <2>1, <2>2, HeldStays, PublishStays
  <2>3. ASSUME NEW q, down' = [down EXCEPT ![s] = @ \o q], Current(s, q), Tells(q, "io"),
               missed' = [missed EXCEPT ![s] = @ \ {"io"}]
        PROVE  \A t \in Sims : PublishInv(t)'
    <3>1. /\ \A t \in Sims \ {s} : changed'[t] = changed[t] /\ missed'[t] = missed[t]
          /\ missed'[s] = missed[s] \ {"io"} /\ changed'[s] = changed[s]
      BY <2>1, <2>3 DEF Missing
    <3>2. \A k \in All \ (changed'[s] \cup missed'[s]) :
            k \notin changed[s] \cup missed[s] \/ Present(s, k) = {} \/ Tells(q, k)
      BY <2>3, <3>1
    <3> QED BY <2>1, <2>3, <3>1, <3>2, PublishSends
  <2> QED BY <1>3, <2>1, <2>2, <2>3, Republishing
<1>4. ASSUME NEW s \in Sims, AppDetach(s) PROVE \A t \in Sims : PublishInv(t)'
  <2>1. /\ conn' = [conn EXCEPT ![s] = FALSE] /\ changed' = [changed EXCEPT ![s] = All]
        /\ missed' = [missed EXCEPT ![s] = {}] /\ UNCHANGED <<types, target, down, entry>>
    BY <1>4 DEF AppDetach, client
  <2>2. /\ ~conn'[s] /\ changed'[s] = All
        /\ \A t \in Sims : t # s => UNCHANGED <<conn[t], changed[t], missed[t]>>
    BY <2>1 DEF BaseInv, TypeInv, LinkTyped, AppTyped, Missing
  <2>3. PublishInv(s)'
    BY <2>2 DEF PublishInv
  <2> QED BY <2>1, <2>2, <2>3, HeldStays, PublishStays
<1>5. ASSUME NEW s \in Sims, Attach(s) PROVE \A t \in Sims : PublishInv(t)'
  <2>1. ~conn[s] /\ down' = [down EXCEPT ![s] = << >>] /\ UNCHANGED <<types, target, changed, missed, conn>>
    BY <1>5, Attaching DEF BaseInv, app
  <2>2. PICK i \in 0 .. Slots - 1 :
          entry[i].sim = NoSim /\ entry' = [entry EXCEPT ![i] = [FreeEntry EXCEPT !.sim = s]]
    BY <1>5, Attaching DEF BaseInv
  <2>3. PublishInv(s)'
    <3>1. \A k : Present(s, k)' = Present(s, k)
      BY <2>1, PresentStays
    <3> QED BY <2>1, <3>1 DEF PublishInv
  <2>4. ASSUME NEW t \in Sims, t # s PROVE PublishInv(t)'
    <3>1. down'[t] = down[t] /\ DOMAIN entry' = DOMAIN entry /\ i \in DOMAIN entry
      BY <2>1, <2>2, <2>4 DEF BaseInv, TypeInv, LinkTyped
    <3>2. entry'[i].sim = s /\ \A j \in DOMAIN entry : j # i => entry'[j] = entry[j]
      BY <2>2, <3>1 DEF FreeEntry
    <3>3. \A j \in Held(t)' : j \in Held(t) /\ entry'[j] = entry[j]
      BY <2>4, <3>1, <3>2 DEF Held
    <3> QED BY <2>1, <3>1, <3>3, PublishStays
  <2> QED BY <2>3, <2>4
<1>6. ASSUME NEW i \in DOMAIN entry, Detach(i) PROVE \A t \in Sims : PublishInv(t)'
  <2>1. entry' = [entry EXCEPT ![i] = FreeEntry] /\ UNCHANGED <<types, target, changed, missed, conn, down>>
    BY <1>6 DEF Detach, app
  <2>2. /\ DOMAIN entry' = DOMAIN entry /\ entry'[i].sim = NoSim
        /\ \A j \in DOMAIN entry : j # i => entry'[j] = entry[j]
    BY <2>1 DEF FreeEntry
  <2>3. \A t \in Sims : \A j \in Held(t)' : j \in Held(t) /\ entry'[j] = entry[j]
    BY <2>2, TablesAssumption DEF Held, NoSim
  <2> QED BY <2>1, <2>3, PublishStays
<1>7. ASSUME ReadNext PROVE \A t \in Sims : PublishInv(t)'
  BY <1>7, Reading, PublishReads DEF BaseInv
<1>8. ASSUME UNCHANGED <<types, target, changed, missed, conn, down, entry>> PROVE \A t \in Sims : PublishInv(t)'
  BY <1>8, HeldStays, PublishStays
<1>9. ASSUME NEW s \in Sims, ApplyControl(s) PROVE UNCHANGED <<types, target, changed, missed, conn, down, entry>>
  BY <1>9 DEF ApplyControl, client
<1>10. ASSUME ReadNone \/ UNCHANGED vars PROVE UNCHANGED <<types, target, changed, missed, conn, down, entry>>
  BY <1>10 DEF ReadNone, vars, app, client
<1>11. ASSUME NEW i \in DOMAIN entry, NEW r \in entry[i].io \cup entry[i].chk, SetFreq(i, r)
       PROVE  UNCHANGED <<types, target, changed, missed, conn, down, entry>>
  BY <1>11 DEF SetFreq, app, client
<1> QED BY <1>1, <1>2, <1>3, <1>4, <1>5, <1>6, <1>7, <1>8, <1>9, <1>10, <1>11, PublishNotice DEF Next

LEMMA MissingStep ==
  ASSUME BaseInv, Missing, [Next]_vars
  PROVE  Missing'
<1>1. ASSUME NEW s \in Sims, Publish(s) PROVE Missing'
  <2>1. PICK failed : failed \in SUBSET changed[s] /\ missed' = [missed EXCEPT ![s] = (@ \ changed[s]) \cup failed]
    BY <1>1, Publishing DEF BaseInv
  <2>2. changed[s] \subseteq All
    BY DEF BaseInv, TypeInv, AppTyped
  <2> QED BY <2>1, <2>2 DEF Missing
<1>2. ASSUME NEW s \in Sims, Republish(s) PROVE Missing'
  BY <1>2 DEF Republish, Missing
<1>3. ASSUME NEW s \in Sims, AppDetach(s) PROVE Missing'
  BY <1>3 DEF AppDetach, Missing
<1>4. ASSUME UNCHANGED missed PROVE Missing'
  BY <1>4 DEF Missing
<1>5. ASSUME NEW s \in Sims, NEW b \in BOOLEAN, RegisterIOType(s, b) \/ RegisterChkType(s, b)
      PROVE  UNCHANGED missed
  BY <1>5 DEF RegisterIOType, RegisterChkType
<1>6. ASSUME NEW s \in Sims, Notice(s) \/ ApplyControl(s) \/ Attach(s) PROVE UNCHANGED missed
  BY <1>6 DEF Notice, ApplyControl, Attach
<1>7. ASSUME NEW i \in DOMAIN entry,
             Detach(i) \/ \E r \in entry[i].io \cup entry[i].chk : SetFreq(i, r)
      PROVE  UNCHANGED missed
  BY <1>7 DEF Detach, SetFreq
<1>8. ASSUME ReadNext \/ ReadNone \/ UNCHANGED vars PROVE UNCHANGED missed
  BY <1>8 DEF ReadNext, ReadNone, vars
<1> QED BY <1>1, <1>2, <1>3, <1>4, <1>5, <1>6, <1>7, <1>8 DEF Next

\* When nothing is on its way and nothing is marked as changed, the client's
\* copy of the tables of an application is complete: whatever was registered
\* before or after it attached, also by registrations that failed half-way, or
\* published to an earlier client, apart from the kinds that failed to be sent and
\* have not been sent since, and tables that were moved.
THEOREM CompleteCopy == Spec => []CopyComplete
<1> DEFINE Inv == BaseInv /\ Missing /\ \A s \in Sims : PublishInv(s)
<1>1. Init => Inv
  <2> SUFFICES ASSUME Init, NEW s \in Sims PROVE PublishInv(s)
    BY BaseInit DEF Init, Missing
  <2>1. ~conn[s] /\ changed[s] = {"param"} /\ \A k \in Kinds : Rows(s, k) = {}
    BY DEF Init, Rows
  <2> QED BY <2>1 DEF PublishInv, Present, All
<1>2. Inv /\ [Next]_vars => Inv'
  BY BaseStep, PublishStep, MissingStep
<1>3. Inv => CopyComplete
  <2> SUFFICES ASSUME Inv, NEW s \in Sims, NEW i \in Held(s), conn[s], changed[s] = {}, down[s] = << >>
      PROVE  /\ "io" \in missed[s] \/ Grown(s, "io") \/ entry[i].io = Rows(s, "io")
             /\ "chk" \in missed[s] \/ Grown(s, "chk") \/ entry[i].chk = Rows(s, "chk")
             /\ "param" \in missed[s] \/ entry[i].params = 0 .. Len(target[s]) - 1
    BY DEF CopyComplete
  <2>1. 1 .. Len(down[s]) = {}
    OBVIOUS
  <2>2. \A k \in All : k \in missed[s] \/ ~Exact(s, k) \/ Of(entry[i], k) = Present(s, k)
    <3> SUFFICES ASSUME NEW k \in All, k \notin missed[s], Exact(s, k) PROVE Of(entry[i], k) = Present(s, k)
      OBVIOUS
    <3>1. Updates(down[s], k, Of(entry[i], k), Present(s, k))
      BY DEF PublishInv
    <3> QED BY <2>1, <3>1 DEF Updates
  <2> QED BY <2>2 DEF Of, Present, Exact, All, Kinds
<1> HIDE DEF Inv
<1> QED BY <1>1, <1>2, <1>3, PTL DEF Spec

-----------------------------------------------------------------------------
(* Whose turn it is.  This needs none of the above, and holds whatever the  *)
(* tables contain: an entry that has waited while others were served is at  *)
(* most that much closer to being looked at.                                *)

Used == {i \in 0 .. Slots - 1 : entry[i].sim # NoSim}

\* The round in which the loop of Get_next_message comes to entry i.
Round(i) == IF i > last THEN i - last - 1 ELSE i - last - 1 + Slots

SeatInv ==
  /\ DOMAIN entry = 0 .. Slots - 1 /\ DOMAIN down = Sims /\ DOMAIN skips = 0 .. Slots - 1
  /\ \A i \in 0 .. Slots - 1 : /\ DOMAIN entry[i] = DOMAIN FreeEntry
                               /\ entry[i].sim \in Sims \cup {NoSim} /\ skips[i] \in Nat
  /\ \A s \in Sims : \E X : down[s] \in Seq(X)
  /\ HeldOnce
  /\ last \in -1 .. Slots - 1 /\ numReg \in Nat /\ Cardinality(Used) <= numReg

TurnInv ==
  \A i \in 0 .. Slots - 1 : skips[i] = 0 \/ (Waiting(i) /\ skips[i] + Round(i) < Slots)

LEMMA Wraps ==
  ASSUME NEW n \in Nat \ {0}
  PROVE  /\ \A x \in 0 .. n - 1 : x % n = x
         /\ \A x \in n .. 2 * n - 1 : x % n = x - n
  OBVIOUS

LEMMA SlotIs ==
  ASSUME last \in -1 .. Slots - 1, NEW k \in 0 .. Slots - 1
  PROVE  Slot(k) \in 0 .. Slots - 1 /\ Round(Slot(k)) = k
<1>1. Slots \in Nat \ {0} /\ last + 1 + k \in 0 .. 2 * Slots - 1
  BY TablesAssumption
<1>2. CASE last + 1 + k < Slots
  <2>1. Slot(k) = last + 1 + k
    BY <1>1, <1>2, Wraps DEF Slot
  <2> QED BY <1>1, <1>2, <2>1 DEF Round
<1>3. CASE last + 1 + k >= Slots
  <2>1. Slot(k) = last + 1 + k - Slots
    BY <1>1, <1>3, Wraps DEF Slot
  <2> QED BY <1>1, <1>3, <2>1 DEF Round
<1> QED BY <1>1, <1>2, <1>3

LEMMA RoundIs ==
  ASSUME last \in -1 .. Slots - 1, NEW i \in 0 .. Slots - 1
  PROVE  Round(i) \in 0 .. Slots - 1 /\ Slot(Round(i)) = i
<1>1. Slots \in Nat \ {0}
  BY TablesAssumption
<1>2. CASE i > last
  <2>1. Round(i) = i - last - 1
    BY <1>2 DEF Round
  <2>2. last + 1 + Round(i) = i
    BY <1>1, <2>1
  <2> QED BY <1>1, <1>2, <2>1, <2>2, Wraps DEF Slot
<1>3. CASE i <= last
  <2>1. Round(i) = i - last - 1 + Slots
    BY <1>1, <1>3 DEF Round
  <2>2. last + 1 + Round(i) = i + Slots
    BY <1>1, <2>1
  <2>3. i + Slots \in Slots .. 2 * Slots - 1
    BY <1>1
  <2>4. Slot(Round(i)) = (i + Slots) % Slots
    BY <2>2 DEF Slot
  <2>5. (i + Slots) % Slots = (i + Slots) - Slots
    BY ONLY <1>1, <2>3, Wraps
  <2>6. Slot(Round(i)) = i
    BY ONLY <1>1, <2>4, <2>5, i \in 0 .. Slots - 1
  <2> QED BY <1>1, <1>3, <2>1, <2>6
<1> QED BY <1>1, <1>2, <1>3

LEMMA UsedFinite ==
  /\ IsFiniteSet(Used) /\ Cardinality(Used) \in Nat
  /\ \A T \in SUBSET Used : IsFiniteSet(T) /\ Cardinality(T) \in Nat /\ Cardinality(T) <= Cardinality(Used)
<1>1. IsFiniteSet(0 .. Slots - 1)
  BY TablesAssumption, FS_Interval
<1>2. IsFiniteSet(Used)
  <2>1. Used \in SUBSET (0 .. Slots - 1)
    BY DEF Used
  <2> QED BY <1>1, <2>1, FS_Subset
<1> QED BY <1>2, FS_Subset, FS_CardinalityType

\* The count of entries in use does not end the search before one that waits.
LEMMA WaitingFound ==
  ASSUME SeatInv, NEW i \in 0 .. Slots - 1, Waiting(i)
  PROVE  Round(i) \in Finds
<1> DEFINE k == Round(i)
<1>1. k \in 0 .. Slots - 1 /\ Slot(k) = i
  BY RoundIs DEF SeatInv
<1>2. Active(k) /\ down[entry[Slot(k)].sim] # << >>
  BY <1>1 DEF Waiting, Active
<1> HIDE DEF k
<1>3. ASSUME NEW j \in 0 .. k - 1, Active(j) PROVE Tried(j) # numReg
  <2> DEFINE S == {x \in 0 .. j : Active(x)}
             T == Used \ {i}
             f == [x \in S |-> Slot(x)]
  <2>1. j \in Nat /\ k \in Nat /\ Slots \in Nat /\ k < Slots /\ j < k
    BY <1>1, TablesAssumption
  <2>2. \A x \in S : /\ x \in 0 .. Slots - 1 /\ x # k
                     /\ Slot(x) \in 0 .. Slots - 1 /\ Round(Slot(x)) = x
    <3>1. \A x \in 0 .. j : x \in 0 .. Slots - 1 /\ x # k
      BY <2>1
    <3> QED BY <3>1, SlotIs DEF SeatInv
  <2>3. \A x \in S : Slot(x) \in T
    <3> SUFFICES ASSUME NEW x \in S PROVE Slot(x) \in T
      OBVIOUS
    <3>1. Slot(x) # i
      BY <2>2 DEF k
    <3>2. Slot(x) \in Used
      BY <2>2 DEF Used, Active
    <3> QED BY <3>1, <3>2
  <2>4. IsFiniteSet(S)
    <3>1. IsFiniteSet(0 .. j) /\ S \in SUBSET (0 .. j)
      BY <2>1, FS_Interval
    <3> QED BY <3>1, FS_Subset
  <2>5. i \in Used
    BY DEF Used, Waiting
  <2>6. IsFiniteSet(T) /\ Cardinality(T) = Cardinality(Used) - 1
    BY <2>5, UsedFinite, FS_RemoveElement
  <2> HIDE DEF S, T
  <2>7. ~(Cardinality(T) < Cardinality(S))
    <3>1. f \in [S -> T]
      BY <2>3
    <3>2. \A x, y \in S : f[x] = f[y] => x = y
      BY <2>2
    <3> HIDE DEF f
    <3> QED BY <2>4, <2>6, <3>1, <3>2, FS_PigeonHole
  <2>8. Cardinality(S) \in Nat
    BY <2>4, FS_CardinalityType
  <2>9. Tried(j) = Cardinality(S)
    BY DEF Tried, S
  <2>10. Cardinality(Used) \in Nat /\ numReg \in Nat /\ Cardinality(Used) <= numReg
    BY UsedFinite DEF SeatInv
  <2>11. Cardinality(S) <= Cardinality(Used) - 1
    BY ONLY <2>6, <2>7, <2>8, <2>10
  <2> QED BY ONLY <2>8, <2>9, <2>10, <2>11
<1>4. Goes(k)
  BY <1>3 DEF Goes
<1>5. k \in Finds
  BY <1>1, <1>2, <1>4 DEF Finds
<1> QED BY <1>5 DEF k

\* Nothing is known here of what messages contain.
Sequence(q) == \E X : q \in Seq(X)

LEMMA SequenceOne == Sequence(<< >>) /\ \A x : Sequence(<<x>>)
<1>1. << >> \in Seq({})
  OBVIOUS
<1>2. \A x : <<x>> \in Seq({x})
  OBVIOUS
<1> QED BY <1>1, <1>2 DEF Sequence

LEMMA SequenceJoins ==
  ASSUME NEW a, NEW b, Sequence(a), Sequence(b)
  PROVE  Sequence(a \o b) /\ (a # << >> => a \o b # << >>)
<1>1. PICK X : a \in Seq(X)
  BY DEF Sequence
<1>2. PICK Y : b \in Seq(Y)
  BY DEF Sequence
<1> DEFINE Z == X \cup Y
<1>3. a \in Seq(Z) /\ b \in Seq(Z)
  BY <1>1, <1>2
<1> HIDE DEF Z
<1>4. a \o b \in Seq(Z) /\ Len(a \o b) = Len(a) + Len(b)
  BY <1>3, ConcatProperties
<1>5. a # << >> => a \o b # << >>
  <2> SUFFICES ASSUME a # << >>, a \o b = << >> PROVE FALSE
    OBVIOUS
  <2>1. Len(a) \in Nat /\ Len(a) # 0 /\ Len(b) \in Nat
    BY <1>3
  <2>2. Len(a \o b) = 0
    OBVIOUS
  <2> QED BY <1>4, <2>1, <2>2
<1> QED BY <1>4, <1>5 DEF Sequence

\* A step that leaves entries alone and takes no message.
LEMMA SeatsStay ==
  ASSUME SeatInv, TurnInv, UNCHANGED <<entry, numReg, last, skips>>, DOMAIN down' = Sims,
         \A s \in Sims : Sequence(down'[s]) /\ (down[s] # << >> => down'[s] # << >>)
  PROVE  SeatInv' /\ TurnInv'
<1>1. SeatInv'
  BY DEF SeatInv, Used, HeldOnce, Sequence
<1>2. ASSUME NEW i \in 0 .. Slots - 1, Waiting(i) PROVE Waiting(i)'
  <2>1. entry[i].sim \in Sims
    BY <1>2 DEF SeatInv, Waiting
  <2> QED BY <1>2, <2>1 DEF Waiting
<1>3. \A i : Round(i)' = Round(i)
  BY DEF Round
<1> QED BY <1>1, <1>2, <1>3 DEF TurnInv

LEMMA SeatsSend ==
  ASSUME SeatInv, TurnInv, UNCHANGED <<entry, numReg, last, skips>>, NEW s \in Sims, NEW q, Sequence(q),
         down' = [down EXCEPT ![s] = @ \o q]
  PROVE  SeatInv' /\ TurnInv'
<1>1. DOMAIN down = Sims /\ \A t \in Sims : Sequence(down[t])
  BY DEF SeatInv, Sequence
<1>2. DOMAIN down' = Sims /\ down'[s] = down[s] \o q /\ \A t \in Sims : t # s => down'[t] = down[t]
  BY <1>1
<1>3. Sequence(down[s] \o q) /\ (down[s] # << >> => down[s] \o q # << >>)
  BY <1>1, SequenceJoins
<1>4. \A t \in Sims : Sequence(down'[t]) /\ (down[t] # << >> => down'[t] # << >>)
  BY <1>1, <1>2, <1>3
<1> QED BY <1>2, <1>4, SeatsStay

LEMMA DefsSequence ==
  ASSUME NEW s, NEW k, NEW x
  PROVE  Sequence(TypeDefs(s, k, x))
  BY SequenceOne DEF TypeDefs

LEMMA TurnPublish ==
  ASSUME SeatInv, TurnInv, NEW s \in Sims, Publish(s)
  PROVE  SeatInv' /\ TurnInv'
<1>1. UNCHANGED <<entry, numReg, last, skips>>
  BY DEF Publish, client
<1>2. PICK x, y, failed :
        LET Told(k, z) == If(k \in changed[s] \ failed, Defs(s, k, z))
        IN down' = [down EXCEPT ![s] =
                      @ \o (Told("param", {}) \o Told("io", x) \o Told("chk", y) \o <<Status>>)]
  BY DEF Publish
<1> DEFINE a == If("param" \in changed[s] \ failed, Defs(s, "param", {}))
           b == If("io" \in changed[s] \ failed, Defs(s, "io", x))
           c == If("chk" \in changed[s] \ failed, Defs(s, "chk", y))
<1>3. Sequence(a) /\ Sequence(b) /\ Sequence(c) /\ Sequence(<<Status>>)
  BY SequenceOne, DefsSequence DEF If, Defs
<1>4. down' = [down EXCEPT ![s] = @ \o (a \o b \o c \o <<Status>>)]
  BY <1>2
<1> HIDE DEF a, b, c
<1>5. Sequence(a \o b)
  BY <1>3, SequenceJoins
<1>6. Sequence(a \o b \o c)
  BY <1>3, <1>5, SequenceJoins
<1>7. Sequence(a \o b \o c \o <<Status>>)
  BY <1>3, <1>6, SequenceJoins
<1> QED BY <1>1, <1>4, <1>7, SeatsSend

\* An entry that is taken has not waited.
LEMMA TurnAttach ==
  ASSUME SeatInv, TurnInv, NEW s \in Sims, Attach(s)
  PROVE  SeatInv' /\ TurnInv'
<1> DEFINE m == Min(Free)
           new == [FreeEntry EXCEPT !.sim = s]
<1>1. /\ ~Locked(s) /\ entry' = [entry EXCEPT ![m] = new] /\ numReg' = numReg + 1
      /\ down' = [down EXCEPT ![s] = << >>] /\ UNCHANGED <<last, skips>>
  BY DEF Attach
<1>2. DOMAIN entry = 0 .. Slots - 1 /\ DOMAIN down = Sims
  BY DEF SeatInv
<1>3. m \in 0 .. Slots - 1 /\ entry[m].sim = NoSim
  <2>1. Free # {}
    BY DEF Attach
  <2>2. Free \in SUBSET Nat
    BY <1>2, TablesAssumption DEF Free
  <2>3. m \in Free
    BY <2>1, <2>2, Least
  <2> QED BY <1>2, <2>3 DEF Free
<1>4. new.sim = s /\ DOMAIN new = DOMAIN FreeEntry /\ s # NoSim
  BY TablesAssumption DEF FreeEntry, NoSim
<1> HIDE DEF m, new
<1> PICK i \in 0 .. Slots - 1 : i = m
  BY <1>3
<1>5. /\ DOMAIN entry' = 0 .. Slots - 1 /\ entry'[i] = new
      /\ \A j \in 0 .. Slots - 1 : j # i => entry'[j] = entry[j]
  BY <1>1, <1>2
<1>6. /\ DOMAIN down' = Sims /\ down'[s] = << >> /\ \A t \in Sims : t # s => down'[t] = down[t]
  BY <1>1, <1>2
<1>7. \A j \in 0 .. Slots - 1 : entry[j].sim # s
  BY <1>1, <1>2 DEF Locked
<1>8. HeldOnce'
  BY <1>2, <1>4, <1>5, <1>7 DEF HeldOnce, SeatInv
<1>9. Cardinality(Used') <= numReg' /\ numReg' \in Nat
  <2>1. Used' = Used \cup {i}
    BY <1>4, <1>5 DEF Used
  <2>2. Cardinality(Used \cup {i}) <= Cardinality(Used) + 1
    BY UsedFinite, FS_AddElement
  <2>3. IsFiniteSet(Used \cup {i}) /\ Cardinality(Used \cup {i}) \in Nat
    BY UsedFinite, FS_AddElement, FS_CardinalityType
  <2> QED BY <1>1, <2>1, <2>2, <2>3, UsedFinite DEF SeatInv
<1>10. \A t \in Sims : \E X : down'[t] \in Seq(X)
  <2>1. << >> \in Seq({})
    OBVIOUS
  <2> QED BY <1>6, <2>1 DEF SeatInv
<1>11. SeatInv'
  <2>1. \A j \in 0 .. Slots - 1 : /\ DOMAIN entry'[j] = DOMAIN FreeEntry
                                  /\ entry'[j].sim \in Sims \cup {NoSim}
    BY <1>4, <1>5 DEF SeatInv
  <2> QED BY <1>1, <1>5, <1>6, <1>8, <1>9, <1>10, <2>1 DEF SeatInv
<1>12. ASSUME NEW j \in 0 .. Slots - 1
       PROVE  skips'[j] = 0 \/ (Waiting(j)' /\ skips'[j] + Round(j)' < Slots)
  <2>1. Round(j)' = Round(j) /\ skips'[j] = skips[j]
    BY <1>1 DEF Round
  <2>2. Waiting(j) => Waiting(j)'
    <3> SUFFICES ASSUME Waiting(j) PROVE Waiting(j)'
      OBVIOUS
    <3>1. j # i /\ entry[j].sim \in Sims /\ entry[j].sim # s
      BY <1>3, <1>7 DEF Waiting, SeatInv
    <3> QED BY <1>5, <1>6, <3>1 DEF Waiting
  <2> QED BY <2>1, <2>2 DEF TurnInv
<1> QED BY <1>11, <1>12 DEF TurnInv

LEMMA TurnDetach ==
  ASSUME SeatInv, TurnInv, NEW i \in DOMAIN entry, Detach(i)
  PROVE  SeatInv' /\ TurnInv'
<1>1. /\ entry[i].sim # NoSim /\ entry' = [entry EXCEPT ![i] = FreeEntry]
      /\ skips' = [skips EXCEPT ![i] = 0] /\ UNCHANGED <<down, numReg, last>>
  BY DEF Detach
<1>2. DOMAIN entry = 0 .. Slots - 1 /\ DOMAIN skips = 0 .. Slots - 1 /\ i \in 0 .. Slots - 1
  BY DEF SeatInv
<1>3. /\ DOMAIN entry' = 0 .. Slots - 1 /\ entry'[i] = FreeEntry
      /\ DOMAIN skips' = 0 .. Slots - 1 /\ skips'[i] = 0
      /\ \A j \in 0 .. Slots - 1 : j # i => entry'[j] = entry[j] /\ skips'[j] = skips[j]
  BY <1>1, <1>2
<1>4. FreeEntry.sim = NoSim
  BY DEF FreeEntry
<1>5. HeldOnce'
  BY <1>2, <1>3, <1>4 DEF HeldOnce, SeatInv
<1>6. Cardinality(Used') <= numReg'
  <2>1. Used' = Used \ {i}
    BY <1>3, <1>4 DEF Used
  <2>2. Used \ {i} \in SUBSET Used
    OBVIOUS
  <2>3. /\ Cardinality(Used \ {i}) \in Nat /\ Cardinality(Used \ {i}) <= Cardinality(Used)
        /\ Cardinality(Used) \in Nat
    BY <2>2, UsedFinite
  <2> QED BY <1>1, <2>1, <2>3 DEF SeatInv
<1>7. SeatInv'
  <2>1. \A j \in 0 .. Slots - 1 : /\ DOMAIN entry'[j] = DOMAIN FreeEntry
                                  /\ entry'[j].sim \in Sims \cup {NoSim} /\ skips'[j] \in Nat
    BY <1>3, <1>4 DEF SeatInv
  <2> QED BY <1>1, <1>3, <1>5, <1>6, <2>1 DEF SeatInv
<1>8. ASSUME NEW j \in 0 .. Slots - 1
      PROVE  skips'[j] = 0 \/ (Waiting(j)' /\ skips'[j] + Round(j)' < Slots)
  <2>1. CASE j = i
    BY <1>3, <2>1
  <2>2. CASE j # i
    <3>1. Round(j)' = Round(j) /\ skips'[j] = skips[j] /\ (Waiting(j) => Waiting(j)')
      BY <1>1, <1>3, <2>2 DEF Round, Waiting
    <3> QED BY <3>1 DEF TurnInv
  <2> QED BY <2>1, <2>2
<1> QED BY <1>7, <1>8 DEF TurnInv

LEMMA ConsumeKeeps ==
  ASSUME NEW e, NEW m, DOMAIN e = DOMAIN FreeEntry
  PROVE  DOMAIN Consume(e, m) = DOMAIN FreeEntry /\ Consume(e, m).sim = e.sim
  BY DEF Consume, ConsumeParamDefs, FreeEntry

\* The entry that is served goes to the end of the line, the others come closer.
LEMMA TurnRead ==
  ASSUME SeatInv, TurnInv, ReadNext
  PROVE  SeatInv' /\ TurnInv'
<1>1. Finds # {} /\ Finds \in SUBSET Nat
  <2>1. Finds \subseteq 0 .. Slots - 1 /\ 0 .. Slots - 1 \subseteq Nat
    BY TablesAssumption DEF Finds
  <2> QED BY <2>1 DEF ReadNext
<1>2. PICK k \in Finds : k = Min(Finds) /\ \A l \in Finds : k <= l
  BY <1>1, Least
<1>3. k \in 0 .. Slots - 1 /\ Active(k) /\ last \in -1 .. Slots - 1
  BY DEF Finds, SeatInv
<1>4. PICK i \in 0 .. Slots - 1 : i = Slot(k) /\ Round(i) = k
  BY <1>3, SlotIs
<1>5. PICK s \in Sims : s = entry[i].sim
  BY <1>3, <1>4 DEF Active, SeatInv
<1> DEFINE new == Consume(entry[i], Head(down[s]))
<1>6. /\ last' = i /\ Skip(i) /\ entry' = [entry EXCEPT ![i] = new]
      /\ down' = [down EXCEPT ![s] = Tail(@)] /\ UNCHANGED numReg /\ down[s] # << >>
  BY <1>2, <1>4, <1>5 DEF ReadNext, Finds
<1>7. DOMAIN new = DOMAIN FreeEntry /\ new.sim = s
  BY <1>5, ConsumeKeeps DEF SeatInv
<1> HIDE DEF new
<1>8. /\ DOMAIN entry = 0 .. Slots - 1 /\ DOMAIN down = Sims /\ DOMAIN skips = 0 .. Slots - 1
      /\ HeldOnce /\ \A j \in 0 .. Slots - 1 : skips[j] \in Nat
  BY DEF SeatInv
<1>9. /\ DOMAIN entry' = 0 .. Slots - 1 /\ entry'[i] = new
      /\ \A j \in 0 .. Slots - 1 : j # i => entry'[j] = entry[j]
      /\ DOMAIN down' = Sims /\ down'[s] = Tail(down[s]) /\ \A t \in Sims : t # s => down'[t] = down[t]
  BY <1>6, <1>8
<1>10. \A j \in 0 .. Slots - 1 : entry'[j].sim = entry[j].sim
  BY <1>5, <1>7, <1>9
<1>11. /\ DOMAIN skips' = 0 .. Slots - 1
       /\ \A j \in 0 .. Slots - 1 : skips'[j] = IF j # i /\ Waiting(j) THEN skips[j] + 1 ELSE 0
  BY <1>6, <1>8 DEF Skip
<1>12. SeatInv'
  <2>1. Used' = Used /\ HeldOnce'
    BY <1>8, <1>9, <1>10 DEF Used, HeldOnce
  <2>2. \A t \in Sims : \E X : down'[t] \in Seq(X)
    <3>1. \E X : Tail(down[s]) \in Seq(X)
      <4>1. PICK X : down[s] \in Seq(X)
        BY DEF SeatInv
      <4>2. Tail(down[s]) \in Seq(X)
        BY <1>6, <4>1
      <4> QED BY <4>2
    <3> QED BY <1>9, <3>1 DEF SeatInv
  <2>3. \A j \in 0 .. Slots - 1 : /\ DOMAIN entry'[j] = DOMAIN FreeEntry
                                  /\ entry'[j].sim \in Sims \cup {NoSim} /\ skips'[j] \in Nat
    BY <1>7, <1>8, <1>9, <1>10, <1>11 DEF SeatInv
  <2>4. last' \in -1 .. Slots - 1
    BY <1>6
  <2> QED BY <1>6, <1>9, <1>11, <2>1, <2>2, <2>3, <2>4 DEF SeatInv
<1>13. ASSUME NEW j \in 0 .. Slots - 1, j # i, Waiting(j)
       PROVE  Waiting(j)' /\ skips'[j] + Round(j)' < Slots
  <2>1. entry[j].sim \in Sims /\ entry[j].sim # s
    BY <1>5, <1>8, <1>13 DEF Waiting, HeldOnce, SeatInv
  <2>2. Waiting(j)'
    BY <1>9, <1>10, <1>13, <2>1 DEF Waiting
  <2>3. k <= Round(j)
    BY <1>2, <1>13, WaitingFound
  <2>4. Round(j) \in 0 .. Slots - 1 /\ Round(j) # k
    BY <1>3, <1>4, <1>13, RoundIs
  <2>5. Slots \in Nat
    BY TablesAssumption
  <2>6. Round(j)' = IF j > i THEN j - i - 1 ELSE j - i - 1 + Slots
    BY <1>6 DEF Round
  <2>7. Round(j)' = Round(j) - k - 1
    BY <1>3, <1>4, <1>13, <2>3, <2>4, <2>5, <2>6 DEF Round
  <2>8. skips[j] \in Nat /\ (skips[j] = 0 \/ skips[j] + Round(j) < Slots)
    BY <1>8 DEF TurnInv
  <2>9. skips'[j] = skips[j] + 1
    BY <1>11, <1>13
  <2>10. skips'[j] + Round(j)' < Slots
    <3> DEFINE a == skips[j]
               r == Round(j)
    <3>1. a \in Nat /\ r \in 0 .. Slots - 1 /\ (a = 0 \/ a + r < Slots) /\ k <= r
      BY <2>3, <2>4, <2>8
    <3> HIDE DEF a, r
    <3>2. (a + 1) + (r - k - 1) < Slots
      BY <1>3, <2>5, <3>1
    <3> QED BY <2>7, <2>9, <3>2 DEF a, r
  <2> QED BY <2>2, <2>10
<1>14. TurnInv'
  BY <1>11, <1>13 DEF TurnInv
<1> QED BY <1>12, <1>14

\* When the search finds nothing, nobody waits.
LEMMA TurnReadNone ==
  ASSUME SeatInv, TurnInv, ReadNone
  PROVE  SeatInv' /\ TurnInv'
<1>1. Finds = {} /\ last' = -1 /\ UNCHANGED <<down, entry, numReg, skips>>
  BY DEF ReadNone
<1>2. \A i \in 0 .. Slots - 1 : ~Waiting(i)
  BY <1>1, WaitingFound
<1>3. \A i \in 0 .. Slots - 1 : skips'[i] = 0
  BY <1>1, <1>2 DEF TurnInv
<1>4. SeatInv'
  <2>1. last' \in -1 .. Slots - 1
    BY <1>1, TablesAssumption
  <2> QED BY <1>1, <2>1 DEF SeatInv, Used, HeldOnce
<1> QED BY <1>3, <1>4 DEF TurnInv

\* Get_next_message finds a message when any simulation has one, and while a
\* message of one simulation waits every other is served once at most, whichever
\* simulations come and go: for tables of types of any size.
THEOREM TurnsAreKept == Spec => []ServedInTurn
<1> DEFINE Inv == SeatInv /\ TurnInv
<1>1. Init => Inv
  <2> SUFFICES ASSUME Init PROVE SeatInv /\ TurnInv
    OBVIOUS
  <2>1. /\ entry = [i \in 0 .. Slots - 1 |-> FreeEntry] /\ down = [s \in Sims |-> << >>]
        /\ skips = [i \in 0 .. Slots - 1 |-> 0] /\ numReg = 0 /\ last = -1
    BY DEF Init
  <2>2. FreeEntry.sim = NoSim /\ << >> \in Seq({})
    BY DEF FreeEntry
  <2>3. Used = {}
    BY <2>1, <2>2 DEF Used
  <2>4. Cardinality(Used) <= numReg
    BY <2>1, <2>3, FS_EmptySet
  <2> QED BY <2>1, <2>2, <2>4, TablesAssumption DEF SeatInv, TurnInv, HeldOnce
<1>2. Inv /\ [Next]_vars => Inv'
  <2> SUFFICES ASSUME SeatInv, TurnInv, [Next]_vars PROVE SeatInv' /\ TurnInv'
    OBVIOUS
  <2>1. ASSUME UNCHANGED <<entry, down, numReg, last, skips>> PROVE SeatInv' /\ TurnInv'
    BY <2>1, SeatsStay DEF SeatInv, Sequence
  <2>2. ASSUME NEW s \in Sims,
               \/ \E b \in BOOLEAN : RegisterIOType(s, b) \/ RegisterChkType(s, b)
               \/ Notice(s) \/ ApplyControl(s) \/ AppDetach(s)
        PROVE  UNCHANGED <<entry, down, numReg, last, skips>>
    BY <2>2 DEF RegisterIOType, RegisterChkType, Notice, ApplyControl, AppDetach, client
  <2>3. ASSUME NEW i \in DOMAIN entry, NEW r \in entry[i].io \cup entry[i].chk, SetFreq(i, r)
        PROVE  UNCHANGED <<entry, down, numReg, last, skips>>
    BY <2>3 DEF SetFreq, client
  <2>4. ASSUME UNCHANGED vars PROVE UNCHANGED <<entry, down, numReg, last, skips>>
    BY <2>4 DEF vars, client
  <2>5. ASSUME NEW s \in Sims, Republish(s) PROVE SeatInv' /\ TurnInv'
    <3>1. /\ UNCHANGED <<entry, numReg, last, skips>>
          /\ UNCHANGED down \/ \E x : down' = [down EXCEPT ![s] = @ \o TypeDefs(s, "io", x)]
      BY <2>5 DEF Republish, client
    <3> QED BY <2>1, <3>1, DefsSequence, SeatsSend
  <2> QED BY <2>1, <2>2, <2>3, <2>4, <2>5, TurnPublish, TurnAttach, TurnDetach, TurnRead, TurnReadNone DEF Next
<1>3. Inv => ServedInTurn
  <2> SUFFICES ASSUME SeatInv, TurnInv PROVE ServedInTurn
    OBVIOUS
  <2>1. DOMAIN entry = 0 .. Slots - 1
    BY DEF SeatInv
  <2>2. (\E i \in DOMAIN entry : Waiting(i)) => Finds # {}
    BY <2>1, WaitingFound
  <2>3. ASSUME NEW i \in DOMAIN entry PROVE skips[i] < Slots
    <3>1. Round(i) \in 0 .. Slots - 1 /\ skips[i] \in Nat /\ Slots \in Nat \ {0}
      BY <2>1, RoundIs, TablesAssumption DEF SeatInv
    <3> QED BY <2>1, <3>1 DEF TurnInv
  <2> QED BY <2>2, <2>3 DEF ServedInTurn
<1> HIDE DEF Inv
<1> QED BY <1>1, <1>2, <1>3, PTL DEF Spec
=============================================================================
