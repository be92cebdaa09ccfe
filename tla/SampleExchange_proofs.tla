------------------------ MODULE SampleExchange_proofs ------------------------
(***************************************************************************)
(* Theorems about SampleExchange, for every range of sequence numbers, with *)
(* and without acknowledgements, and for every set and number of faults.   *)
(***************************************************************************)
EXTENDS SampleExchange, WellFoundedInduction, TLAPS

\* A set of numbers that is not empty has a least one.
LEMMA Least ==
  ASSUME NEW T \in SUBSET Nat, T # {}
  PROVE  \E x \in T : \A y \in T : x <= y
<1> DEFINE Less == {ss \in Nat \X Nat : ss[1] < ss[2]}
<1>1. IsWellFoundedOn(Less, Nat)
  BY NatLessThanWellFounded DEF OpToRel
<1>2. PICK x \in T : \A y \in T : ~(<<y, x>> \in Less)
  BY <1>1, WFMin
<1>3. ASSUME NEW y \in T PROVE x <= y
  <2>1. x \in Nat /\ y \in Nat
    OBVIOUS
  <2>2. ~(y < x)
    BY <1>2, <2>1
  <2> QED BY <2>1, <2>2
<1> QED BY <1>3

\* The search through the directory finds a file when there is one.
LEMMA FirstFileFound ==
  ASSUME lock \subseteq Seqs, lock # {}
  PROVE  FirstFile \in lock
<1> DEFINE T == {Key(n) : n \in lock}
<1>0. \A n \in lock : Key(n) \in Nat
  BY ExchangeAssumption DEF Seqs, Key
<1>1. T \in SUBSET Nat /\ T # {}
  BY <1>0
<1>2. PICK x \in T : \A y \in T : x <= y
  BY <1>1, Least
<1>3. \E n \in lock : \A m \in lock : Key(n) <= Key(m)
  BY <1>2
<1> QED BY <1>3 DEF FirstFile
-----------------------------------------------------------------------------
(* The files.  A name with a lock, or one that the consumer has, is not    *)
(* later than the last call of Emit_stop, and the emitter is past it.      *)

PlaceInv ==
  /\ \A n \in lock : n <= stopped /\ data[n] # "open"
  /\ epc = "writing" => ename > stopped /\ ename \in Seqs
  /\ cpc = "reading" => cname \notin lock /\ data[cname] # "open"
  /\ cpc = "reading" \/ cack => cname \in Seqs /\ cname <= stopped

SafeInv == TypeOK /\ PlaceInv

LEMMA SafeInit == Init => SafeInv
<1>1. Init => TypeOK
  <2> SUFFICES ASSUME Init PROVE TypeOK
    OBVIOUS
  <2>1. /\ data \in [Seqs -> {"none", "open", "whole", "broken", "empty"}]
        /\ lock \subseteq {n \in Seqs : data[n] # "none"} /\ acks \subseteq Seqs
        /\ acked \subseteq Seqs /\ faults \in 0 .. MaxFaults
    BY ExchangeAssumption DEF Init
  <2>2. emitted \in Seq(Seqs) /\ taken \in Seq(Seqs)
    BY DEF Init
  <2> QED BY <2>1, <2>2 DEF Init, TypeOK
<1>2. Init => PlaceInv
  BY DEF Init, PlaceInv
<1> QED BY <1>1, <1>2 DEF SafeInv

LEMMA SafeStep == SafeInv /\ [Next]_vars => SafeInv'
<1> SUFFICES ASSUME SafeInv, [Next]_vars PROVE SafeInv'
  OBVIOUS
<1> USE ExchangeAssumption DEF SafeInv, TypeOK, PlaceInv, emitter, consumer, NoFault, Fault, NoName
<1>0. Seqs \subseteq Nat \ {0}
  BY DEF Seqs
<1>1. ASSUME NEW n \in Seqs, EmitStart(n) PROVE SafeInv'
  <2>1. n > stopped /\ n \in Nat \ {0} /\ stopped \in Nat /\ n \notin lock
    BY <1>0, <1>1 DEF EmitStart, Later
  <2>2. data' \in [Seqs -> {"none", "open", "whole", "broken", "empty"}]
    BY <1>1 DEF EmitStart
  <2>3. \A m \in Seqs : m # n => data'[m] = data[m]
    BY <1>1 DEF EmitStart
  <2>4. acks' \subseteq Seqs /\ faults' \in 0 .. MaxFaults
    BY <1>1 DEF EmitStart
  <2>5. /\ ename' = n
        /\ (epc' = "writing" /\ data'[n] = "open") \/ epc' = "idle"
        /\ eack' \in BOOLEAN
    BY <1>1 DEF EmitStart
  <2>6. UNCHANGED <<lock, stopped, emitted, cpc, cname, cack, taken, acked>>
    BY <1>1 DEF EmitStart
  <2>7. TypeOK'
    BY <2>1, <2>2, <2>3, <2>4, <2>5, <2>6
  <2>8. PlaceInv'
    BY <2>1, <2>3, <2>5, <2>6
  <2> QED BY <2>7, <2>8
<1>2. CASE EmitStop
  <2>1. PICK content \in {"whole", "broken", "empty"}, ok \in BOOLEAN :
           /\ data' = [data EXCEPT ![ename] = content]
           /\ eack' = ok
           /\ emitted' = IF ok THEN Append(emitted, ename) ELSE emitted
           /\ faults' \in 0 .. MaxFaults
    <3>1. PICK content \in {"whole", "broken", "empty"}, ok \in BOOLEAN :
             /\ \/ content = "whole" /\ ok /\ NoFault
                \/ content = "broken" /\ Fault(IF ok THEN "slice" ELSE "footer")
                \/ content = "empty" /\ ok /\ Fault("flush")
             /\ data' = [data EXCEPT ![ename] = content]
             /\ eack' = ok
             /\ emitted' = IF ok THEN Append(emitted, ename) ELSE emitted
      BY <1>2, Zenon DEF EmitStop
    <3>2. faults' \in 0 .. MaxFaults
      BY <3>1
    <3> QED BY <3>1, <3>2, Zenon
  <2>2. /\ epc = "writing" /\ epc' = "idle" /\ lock' = lock \cup {ename} /\ stopped' = ename
        /\ UNCHANGED <<acks, ename, cpc, cname, cack, taken, acked>>
    BY <1>2 DEF EmitStop
  <2>3. ename \in Seqs /\ ename > stopped /\ stopped \in Nat /\ ename \in Nat
    BY <2>2, <1>0
  <2>4. emitted' \in Seq(Seqs)
    BY <2>1, <2>3
  <2>5. \A m \in Seqs : data'[m] = IF m = ename THEN content ELSE data[m]
    BY <2>1
  <2>6. TypeOK'
    BY <2>1, <2>2, <2>3, <2>4, <2>5
  <2>7. lock \subseteq Seqs /\ (cname \in Seqs => cname \in Nat)
    BY <1>0
  <2>8. PlaceInv'
    BY <2>2, <2>3, <2>5, <2>7, <1>0
  <2> QED BY <2>6, <2>8
<1>3. CASE ConsumeAck
  <2>1. /\ UNCHANGED <<data, lock, epc, ename, eack, stopped, emitted, cname, taken>>
        /\ cpc' = "list" /\ cack' = FALSE /\ faults' \in 0 .. MaxFaults
    BY <1>3 DEF ConsumeAck
  <2>2. acks' \subseteq Seqs /\ acked' \subseteq Seqs
    BY <1>3 DEF ConsumeAck
  <2> QED BY <2>1, <2>2
<1>4. CASE ConsumeNothing
  BY <1>4 DEF ConsumeNothing
<1>5. CASE ConsumeTake
  <2>1. FirstFile \in lock /\ lock \subseteq Seqs
    BY <1>5, FirstFileFound DEF ConsumeTake
  <2> DEFINE f == FirstFile
  <2>2. /\ cname' = f /\ lock' = lock \ {f}
        /\ \/ cpc' = "idle" /\ data' = [data EXCEPT ![f] = "none"] /\ UNCHANGED taken
           \/ cpc' = "reading" /\ taken' = Append(taken, f) /\ UNCHANGED data
        /\ UNCHANGED <<acks, epc, ename, eack, stopped, emitted, cack, acked, faults>>
    BY <1>5 DEF ConsumeTake
  <2>3. f \in Seqs /\ f \in lock /\ f <= stopped /\ data[f] # "open"
    BY <2>1
  <2> HIDE DEF f
  <2>4. taken' \in Seq(Seqs)
    BY <2>2, <2>3
  <2>5. \A m \in Seqs : m # f => data'[m] = data[m]
    BY <2>2
  <2>6. epc = "writing" => ename # f
    BY <2>3
  <2>7. TypeOK'
    BY <2>2, <2>3, <2>4, <2>5, <2>6
  <2>8. PlaceInv'
    BY <2>2, <2>3, <2>5
  <2> QED BY <2>7, <2>8
<1>6. CASE ConsumeStop
  <2>1. /\ cpc = "reading" /\ cpc' = "idle" /\ cack' = TRUE /\ data' = [data EXCEPT ![cname] = "none"]
        /\ UNCHANGED <<lock, acks, epc, ename, eack, stopped, emitted, cname, taken, acked, faults>>
    BY <1>6 DEF ConsumeStop
  <2>2. cname \in Seqs /\ cname <= stopped /\ cname \notin lock
    BY <2>1
  <2>3. /\ data' \in [Seqs -> {"none", "open", "whole", "broken", "empty"}]
        /\ \A m \in Seqs : m # cname => data'[m] = data[m]
    BY <2>1, <2>2
  <2>4. epc = "writing" => ename # cname
    BY <2>2, <1>0
  <2>5. TypeOK'
    BY <2>1, <2>2, <2>3, <2>4
  <2>6. PlaceInv'
    BY <2>1, <2>2, <2>3
  <2> QED BY <2>5, <2>6
<1>7. CASE UNCHANGED vars
  BY <1>7 DEF vars
<1> QED BY <1>1, <1>2, <1>3, <1>4, <1>5, <1>6, <1>7 DEF Next, Consume

\* The variables keep their types, and every lock file has its data file.
THEOREM Typing == Spec => []TypeOK
<1>1. SafeInv => TypeOK
  BY DEF SafeInv
<1> QED BY SafeInit, SafeStep, <1>1, PTL DEF Spec

\* Nobody reads a file that is being written, whatever fails.
THEOREM ReadsClosed == Spec => []NoTorn
<1>1. SafeInv => NoTorn
  BY DEF SafeInv, PlaceInv, NoTorn
<1> QED BY SafeInit, SafeStep, <1>1, PTL DEF Spec
-----------------------------------------------------------------------------
(* Acknowledgements.  While the emitter has one to wait for, it is for the *)
(* sample that it emitted last; every other one has been acknowledged.     *)

AckInv ==
  /\ acks \subseteq acked
  /\ \A i \in 1 .. Len(emitted) :
       emitted[i] \in acked \/ (eack /\ epc = "idle" /\ emitted[i] = ename)

HonestInv ==
  /\ \A n \in acked : n <= stopped
  /\ eack /\ epc = "idle" =>
       /\ emitted # << >> /\ emitted[Len(emitted)] = ename
       /\ ename \in acked => ename \in acks

LEMMA AckInit == Init => AckInv /\ HonestInv
  BY DEF Init, AckInv, HonestInv

LEMMA AckStep ==
  ASSUME UseAck = TRUE, SafeInv, AckInv, [Next]_vars
  PROVE  AckInv'
<1> USE DEF AckInv, emitter, consumer, NoFault, Fault
<1>1. ASSUME NEW n \in Seqs, EmitStart(n) PROVE AckInv'
  <2>1. \A i \in 1 .. Len(emitted) : emitted[i] \in acked
    BY <1>1 DEF EmitStart, Acked
  <2>2. UNCHANGED <<emitted, acked>> /\ acks' \subseteq acks
    BY <1>1 DEF EmitStart
  <2> QED BY <2>1, <2>2
<1>2. CASE EmitStop
  <2>1. PICK ok \in BOOLEAN :
           /\ eack' = ok
           /\ emitted' = IF ok THEN Append(emitted, ename) ELSE emitted
    BY <1>2, Zenon DEF EmitStop
  <2>2. /\ epc = "writing" /\ epc' = "idle" /\ ename \in Seqs
        /\ UNCHANGED <<acks, ename, acked>> /\ emitted \in Seq(Seqs)
    BY <1>2 DEF EmitStop, SafeInv, TypeOK, PlaceInv
  <2>3. \A i \in 1 .. Len(emitted) : emitted[i] \in acked
    BY <2>2
  <2>4. CASE ok = TRUE
    <3>1. /\ emitted' = Append(emitted, ename) /\ Len(emitted') = Len(emitted) + 1
          /\ Len(emitted) \in Nat /\ emitted'[Len(emitted')] = ename
          /\ \A i \in 1 .. Len(emitted) : emitted'[i] = emitted[i]
      BY <2>1, <2>2, <2>4
    <3> QED BY <2>1, <2>2, <2>3, <2>4, <3>1
  <2>5. CASE ok = FALSE
    BY <2>1, <2>2, <2>3, <2>5
  <2> QED BY <2>4, <2>5
<1>3. CASE ConsumeAck
  <2>1. /\ UNCHANGED <<emitted, eack, epc, ename>>
        /\ acked \subseteq acked' /\ acks' \subseteq acked'
    BY <1>3 DEF ConsumeAck
  <2> QED BY <2>1
<1>4. CASE ConsumeNothing \/ ConsumeTake \/ ConsumeStop \/ UNCHANGED vars
  <2>1. UNCHANGED <<acks, acked, emitted, eack, epc, ename>>
    BY <1>4 DEF ConsumeNothing, ConsumeTake, ConsumeStop, vars
  <2> QED BY <2>1
<1> QED BY <1>1, <1>2, <1>3, <1>4 DEF Next, Consume

LEMMA HonestStep ==
  ASSUME "open" \notin Faults, SafeInv, HonestInv, [Next]_vars
  PROVE  HonestInv'
<1> USE ExchangeAssumption DEF HonestInv, emitter, consumer, NoFault, Fault
<1>0. Seqs \subseteq Nat \ {0} /\ acked \subseteq Seqs /\ stopped \in Nat
  BY DEF Seqs, SafeInv, TypeOK, NoName
<1>1. ASSUME NEW n \in Seqs, EmitStart(n) PROVE HonestInv'
  <2>1. epc' = "writing" \/ eack' = FALSE
    BY <1>1 DEF EmitStart
  <2>2. UNCHANGED <<stopped, acked>>
    BY <1>1 DEF EmitStart
  <2> QED BY <2>1, <2>2
<1>2. CASE EmitStop
  <2>1. PICK ok \in BOOLEAN :
           /\ eack' = ok
           /\ emitted' = IF ok THEN Append(emitted, ename) ELSE emitted
    BY <1>2, Zenon DEF EmitStop
  <2>2. /\ epc = "writing" /\ ename \in Seqs /\ ename > stopped /\ stopped' = ename
        /\ UNCHANGED <<acks, ename, acked>> /\ emitted \in Seq(Seqs)
    BY <1>2 DEF EmitStop, SafeInv, TypeOK, PlaceInv
  <2>3. ename \notin acked /\ \A n \in acked : n <= stopped'
    BY <1>0, <2>2
  <2>4. ok = TRUE => emitted' # << >> /\ emitted'[Len(emitted')] = ename
    BY <2>1, <2>2
  <2> QED BY <2>1, <2>2, <2>3, <2>4
<1>3. CASE ConsumeAck
  <2>1. UNCHANGED <<emitted, eack, epc, ename, stopped>>
    BY <1>3 DEF ConsumeAck
  <2>2. \/ UNCHANGED <<acks, acked>>
        \/ cack /\ acks' = acks \cup {cname} /\ acked' = acked \cup {cname}
    BY <1>3 DEF ConsumeAck
  <2>3. cack => cname <= stopped
    BY DEF SafeInv, PlaceInv
  <2> QED BY <2>1, <2>2, <2>3
<1>4. CASE ConsumeNothing \/ ConsumeTake \/ ConsumeStop \/ UNCHANGED vars
  <2>1. UNCHANGED <<acks, acked, emitted, eack, epc, ename, stopped>>
    BY <1>4 DEF ConsumeNothing, ConsumeTake, ConsumeStop, vars
  <2> QED BY <2>1
<1> QED BY <1>1, <1>2, <1>3, <1>4 DEF Next, Consume

\* With acknowledgements no sample is begun before the consumer is done with
\* all that were emitted, whatever fails.
THEOREM Paced == ASSUME UseAck = TRUE PROVE Spec => []Backpressure
<1>1. SafeInv /\ AckInv /\ [Next]_vars => AckInv'
  BY AckStep
<1>2. AckInv => Backpressure
  BY DEF AckInv, Backpressure
<1> QED BY SafeInit, SafeStep, AckInit, <1>1, <1>2, PTL DEF Spec

\* As long as no sample file fails to open, Emit_start says REG_NOT_READY only
\* when the last sample has really not been acknowledged.
THEOREM WaitsHonestly == ASSUME "open" \notin Faults PROVE Spec => []NotReadyHonest
<1>1. SafeInv /\ HonestInv /\ [Next]_vars => HonestInv'
  BY HonestStep
<1>2. HonestInv => NotReadyHonest
  BY DEF HonestInv, NotReadyHonest, Waiting, Acked
<1> QED BY SafeInit, SafeStep, AckInit, <1>1, <1>2, PTL DEF Spec
-----------------------------------------------------------------------------
(* The order of arrival.  An emitted sample that has not been taken is the  *)
(* one that the emitter waits for, so all the others have been taken.      *)

First(q, n) == {q[i] : i \in 1 .. n}
Numbers(q)  == First(q, Len(q))
Below(S, n) == {m \in S : m < n}

Sorted ==
  \A i \in 1 .. Len(taken) : taken[i] \in Numbers(emitted) =>
    First(taken, i - 1) \cap Numbers(emitted) = Below(Numbers(emitted), taken[i])

OrderInv ==
  /\ \A n \in Numbers(emitted) \cup Numbers(taken) : n <= stopped
  /\ stopped <= ename
  /\ lock \cap Numbers(taken) = {}
  /\ acked \subseteq Numbers(taken)
  /\ cpc = "reading" \/ cack => cname \in Numbers(taken)
  /\ cpc = "list" => cack = FALSE
  /\ Sorted

LEMMA SortedIsInOrder == Sorted <=> InOrder
<1>1. \A n : Emitted(n) <=> n \in Numbers(emitted)
  BY DEF Emitted, Numbers, First
<1>2. ASSUME NEW i \in 1 .. Len(taken)
      PROVE  /\ {taken[j] : j \in {j \in 1 .. i - 1 : Emitted(taken[j])}}
                  = First(taken, i - 1) \cap Numbers(emitted)
             /\ {emitted[k] : k \in {k \in 1 .. Len(emitted) : emitted[k] < taken[i]}}
                  = Below(Numbers(emitted), taken[i])
  BY <1>1 DEF Numbers, First, Below
<1> QED BY <1>1, <1>2 DEF InOrder, Sorted

LEMMA NumbersAppend ==
  ASSUME NEW S, NEW q \in Seq(S), NEW x \in S
  PROVE  /\ Numbers(Append(q, x)) = Numbers(q) \cup {x}
         /\ Len(Append(q, x)) = Len(q) + 1 /\ Len(q) \in Nat
         /\ \A i \in 1 .. Len(q) : Append(q, x)[i] = q[i]
         /\ Append(q, x)[Len(q) + 1] = x
  BY DEF Numbers, First

LEMMA OrderInit == Init => OrderInv
  BY DEF Init, OrderInv, Sorted, Numbers, First, NoName

LEMMA OrderStep ==
  ASSUME UseAck = TRUE, SafeInv, AckInv, OrderInv, [Next]_vars
  PROVE  OrderInv'
<1> USE ExchangeAssumption DEF emitter, consumer, NoFault, Fault
<1>0. /\ Seqs \subseteq Nat \ {0} /\ stopped \in Nat /\ ename \in Nat
      /\ Numbers(emitted) \subseteq Seqs /\ Numbers(taken) \subseteq Seqs
  BY DEF Seqs, SafeInv, TypeOK, NoName, Numbers, First
<1>1. ASSUME NEW n \in Seqs, EmitStart(n) PROVE OrderInv'
  <2>1. ename' = n /\ n > stopped
    BY <1>1 DEF EmitStart, Later
  <2>2. UNCHANGED <<lock, emitted, stopped, cpc, cname, cack, taken, acked>>
    BY <1>1 DEF EmitStart
  <2> QED BY <1>0, <2>1, <2>2 DEF OrderInv, Sorted
<1>2. CASE EmitStop
  <2>1. \/ emitted' = Append(emitted, ename)
        \/ UNCHANGED emitted
    BY <1>2, Zenon DEF EmitStop
  <2>2. /\ epc = "writing" /\ ename \in Seqs /\ ename > stopped
        /\ stopped' = ename /\ lock' = lock \cup {ename}
        /\ UNCHANGED <<ename, cpc, cname, cack, taken, acked>>
        /\ emitted \in Seq(Seqs)
    BY <1>2 DEF EmitStop, SafeInv, TypeOK, PlaceInv
  <2>3. \/ Numbers(emitted') = Numbers(emitted) \cup {ename}
        \/ Numbers(emitted') = Numbers(emitted)
    <3>1. CASE emitted' = Append(emitted, ename)
      BY ONLY <2>2, <3>1, NumbersAppend
    <3>2. CASE UNCHANGED emitted
      BY ONLY <3>2, Zenon
    <3> QED BY <2>1, <3>1, <3>2
  <2>4. \A n \in Numbers(emitted) \cup Numbers(taken) : n <= stopped /\ n < ename
    <3> SUFFICES ASSUME NEW n \in Numbers(emitted) \cup Numbers(taken)
                 PROVE  n <= stopped /\ n < ename
      OBVIOUS
    <3>1. n <= stopped
      BY DEF OrderInv
    <3>2. n \in Nat
      BY <1>0
    <3> QED BY ONLY <3>1, <3>2, <2>2, <1>0
  <2>5. ASSUME NEW i \in 1 .. Len(taken), taken[i] \in Numbers(emitted')
        PROVE  First(taken, i - 1) \cap Numbers(emitted') = Below(Numbers(emitted'), taken[i])
    <3>1. taken[i] \in Numbers(taken) /\ First(taken, i - 1) \subseteq Numbers(taken)
      BY DEF Numbers, First, SafeInv, TypeOK
    <3>2. taken[i] \in Nat /\ taken[i] < ename /\ ename \in Nat
      BY ONLY <3>1, <1>0, <2>2, <2>4
    <3>3. taken[i] \in Numbers(emitted)
      BY <2>3, <2>5, <3>2
    <3>4. First(taken, i - 1) \cap Numbers(emitted) = Below(Numbers(emitted), taken[i])
      BY <3>3 DEF OrderInv, Sorted
    <3>5. ename \notin First(taken, i - 1) /\ ~(ename < taken[i])
      BY ONLY <3>1, <3>2, <2>4, <1>0
    <3> QED BY <2>3, <3>4, <3>5 DEF Below
  <2>6. Sorted'
    BY <2>2, <2>5 DEF Sorted
  <2>7. Numbers(taken') = Numbers(taken)
    BY ONLY <2>2, Zenon
  <2>8. \A n \in Numbers(emitted') \cup Numbers(taken) : n <= ename
    <3> SUFFICES ASSUME NEW n \in Numbers(emitted') \cup Numbers(taken)
                 PROVE  n <= ename
      OBVIOUS
    <3>1. n \in Numbers(emitted) \cup Numbers(taken) => n \in Nat /\ n < ename
      BY <1>0, <2>4
    <3>2. n = ename \/ n \in Numbers(emitted) \cup Numbers(taken)
      BY <2>3
    <3> QED BY ONLY <1>0, <3>1, <3>2
  <2>9. (lock \cup {ename}) \cap Numbers(taken) = {}
    BY ONLY <1>0, <2>2, <2>4, OrderInv DEF OrderInv
  <2> QED BY <1>0, <2>2, <2>6, <2>7, <2>8, <2>9 DEF OrderInv
<1>3. CASE ConsumeAck
  <2>1. /\ UNCHANGED <<lock, emitted, stopped, ename, cname, taken>>
        /\ cpc' = "list" /\ cack' = FALSE
        /\ acked' = acked \/ (cack /\ acked' = acked \cup {cname})
    BY <1>3 DEF ConsumeAck
  <2> QED BY <2>1 DEF OrderInv, Sorted
<1>4. CASE ConsumeTake
  <2> DEFINE f == FirstFile
  <2>1. f \in lock /\ f \in Seqs /\ f \notin Numbers(taken) /\ lock \subseteq Seqs
    BY <1>4, FirstFileFound DEF ConsumeTake, SafeInv, TypeOK, OrderInv
  <2>2. /\ cname' = f /\ lock' = lock \ {f}
        /\ \/ cpc' = "idle" /\ UNCHANGED taken
           \/ cpc' = "reading" /\ taken' = Append(taken, f)
        /\ UNCHANGED <<emitted, stopped, ename, cack, acked>>
        /\ taken \in Seq(Seqs) /\ cpc = "list"
    BY <1>4 DEF ConsumeTake, SafeInv, TypeOK
  <2>3. f <= stopped
    BY <2>1 DEF SafeInv, PlaceInv
  <2> HIDE DEF f
  <2>4. CASE cpc' = "idle" /\ UNCHANGED taken
    BY <2>2, <2>4 DEF OrderInv, Sorted
  <2>5. CASE cpc' = "reading" /\ taken' = Append(taken, f)
    <3>1. /\ Numbers(taken') = Numbers(taken) \cup {f}
          /\ Len(taken') = Len(taken) + 1 /\ Len(taken) \in Nat
          /\ \A i \in 1 .. Len(taken) : taken'[i] = taken[i]
          /\ taken'[Len(taken) + 1] = f
      BY <2>1, <2>2, <2>5, NumbersAppend
    <3>2. ASSUME f \in Numbers(emitted)
          PROVE  Numbers(taken) \cap Numbers(emitted) = Below(Numbers(emitted), f)
      <4>1. f \notin acked
        BY <2>1 DEF OrderInv
      <4>2. f = ename /\ \A n \in Numbers(emitted) : n \in acked \/ n = f
        BY <3>2, <4>1 DEF AckInv, Numbers, First
      <4>3. \A n \in Numbers(emitted) : n \in Nat /\ n <= ename
        <5> TAKE n \in Numbers(emitted)
        <5>1. n <= stopped /\ stopped <= ename
          BY DEF OrderInv
        <5>2. n \in Nat
          BY <1>0
        <5> QED BY ONLY <5>1, <5>2, <1>0
      <4>4. \A n \in Numbers(emitted) : n # f => n \in Numbers(taken)
        BY <4>2 DEF OrderInv
      <4> QED BY ONLY <1>0, <2>1, <4>2, <4>3, <4>4 DEF Below
    <3>3. Sorted'
      <4> SUFFICES ASSUME NEW i \in 1 .. Len(taken'), taken'[i] \in Numbers(emitted')
                   PROVE  First(taken', i - 1) \cap Numbers(emitted')
                            = Below(Numbers(emitted'), taken'[i])
        BY DEF Sorted
      <4>0. emitted' = emitted
        BY <2>2
      <4>1. CASE i \in 1 .. Len(taken)
        <5>1. First(taken', i - 1) = First(taken, i - 1) /\ taken'[i] = taken[i]
          BY <3>1, <4>1 DEF First
        <5> QED BY <4>0, <4>1, <5>1 DEF OrderInv, Sorted
      <4>2. CASE i = Len(taken) + 1
        <5>1. First(taken', i - 1) = Numbers(taken) /\ taken'[i] = f
          BY <3>1, <4>2 DEF Numbers, First
        <5> QED BY <3>2, <4>0, <5>1
      <4> QED BY <3>1, <4>1, <4>2
    <3>4. \A n \in Numbers(emitted') \cup Numbers(taken') : n <= stopped
      <4>1. Numbers(emitted') = Numbers(emitted)
        BY ONLY <2>2, Zenon
      <4> QED BY <2>3, <3>1, <4>1 DEF OrderInv
    <3> QED BY <2>1, <2>2, <2>5, <3>1, <3>3, <3>4 DEF OrderInv
  <2> QED BY <2>2, <2>4, <2>5
<1>5. CASE ConsumeNothing \/ ConsumeStop \/ UNCHANGED vars
  <2>1. /\ UNCHANGED <<lock, emitted, stopped, ename, cname, taken, acked>>
        /\ cpc' = "reading" \/ cack' => cpc = "reading" \/ cack
        /\ cpc' = "list" => cpc = "list" /\ cack' = cack
    BY <1>5 DEF ConsumeNothing, ConsumeStop, vars
  <2> QED BY <2>1 DEF OrderInv, Sorted
<1> QED BY <1>1, <1>2, <1>3, <1>4, <1>5 DEF Next, Consume

\* With acknowledgements samples arrive in the order in which they were emitted,
\* each once and none left out, whatever fails and although the names of the
\* files do not sort by number.
THEOREM ArriveInOrder == ASSUME UseAck = TRUE PROVE Spec => []InOrder
<1>1. SafeInv /\ AckInv /\ [Next]_vars => AckInv'
  BY AckStep
<1>2. SafeInv /\ AckInv /\ OrderInv /\ [Next]_vars => OrderInv'
  BY OrderStep
<1>3. OrderInv => InOrder
  BY SortedIsInOrder DEF OrderInv
<1> QED BY SafeInit, SafeStep, AckInit, OrderInit, <1>1, <1>2, <1>3, PTL DEF Spec
=============================================================================
