----------------------- MODULE SteeringControl_proofs -----------------------
(***************************************************************************)
(* Theorems about SteeringControl, for any messages, types and limits:     *)
(* definitions before status, the arguments beside the commands, the order *)
(* of the commands, and that a pause has a client that can end it.         *)
(***************************************************************************)
EXTENDS SteeringControl, SequenceTheorems, FiniteSetTheorems, WellFoundedInduction, TLAPS

\* Messages, for what the proof needs to know of them.
Text    == STRING \cup {"DETACH", NoArg}
Draft   == [after : Nat, cmds : Seq([c : Text, a : Text]), edits : Seq(STRING)]
Arrived == [no : Nat, after : Nat, edits : Seq(STRING),
            cmds : Seq([c : Text, a : Text, id : Nat])]

\* What the store holds is not due: at most one message, which came too early
\* and has not become valid since.
StoreInv ==
  /\ inbox \in Seq(Arrived) /\ store \in Seq(Arrived) /\ Len(store) <= 1
  /\ sent \in Nat /\ simTime \in Nat
  /\ \A i \in 1 .. Len(store) : store[i].after >= simTime

LEMMA Elements ==
  ASSUME NEW T, NEW q \in Seq(T)
  PROVE  Len(q) \in Nat /\ \A i \in 1 .. Len(q) : q[i] \in T
  OBVIOUS

LEMMA Single ==
  ASSUME NEW T, NEW x \in T
  PROVE  <<x>> \in Seq(T)
<1>1. <<x>> = Append(<< >>, x) /\ << >> \in Seq(T)
  OBVIOUS
<1> QED BY ONLY <1>1

LEMMA FunctionIsSeq ==
  ASSUME NEW T, NEW n \in Nat, NEW f \in [1 .. n -> T]
  PROVE  f \in Seq(T)
<1>1. f \in UNION {[1 .. k -> T] : k \in Nat}
  BY Zenon
<1> QED BY <1>1, SeqDef, Zenon

LEMMA FirstOfOne ==
  ASSUME NEW T, NEW q \in Seq(T), Len(q) <= 1, q # << >>
  PROVE  Len(q) = 1 /\ Head(q) = q[1] /\ q[1] \in T
<1>0. Len(q) \in Nat \ {0}
  BY ONLY q \in Seq(T), q # << >>, EmptySeq, Zenon
<1>1. Len(q) = 1
  BY <1>0
<1> QED BY <1>1

LEMMA MessagesAreDrafts == Messages \subseteq Draft
<1>1. [c : STRING, a : STRING] \subseteq [c : Text, a : Text]
  BY DEF Text
<1>2. Seq([c : STRING, a : STRING]) \subseteq Seq([c : Text, a : Text])
  BY <1>1, SeqMonotonic
<1> QED BY ControlAssumption, <1>2 DEF Draft

\* The message with which a client leaves.
LEMMA LastIsDraft ==
  [after |-> 0, edits |-> << >>, cmds |-> <<[c |-> "DETACH", a |-> NoArg]>>] \in Draft
<1>1. [c |-> "DETACH", a |-> NoArg] \in [c : Text, a : Text]
  BY DEF Text
<1>2. <<[c |-> "DETACH", a |-> NoArg]>> \in Seq([c : Text, a : Text])
  BY ONLY <1>1, Single
<1>3. << >> \in Seq(STRING)
  OBVIOUS
<1> QED BY <1>2, <1>3 DEF Draft

LEMMA StampIsMessage ==
  ASSUME sent \in Nat,
         NEW m \in Draft
  PROVE  Stamp(m) \in Arrived
<1> DEFINE cmds == [i \in 1 .. Len(m.cmds) |->
               [c |-> m.cmds[i].c, a |-> m.cmds[i].a, id |-> sent * CmdSlots + i]]
<1>1. sent * CmdSlots \in Nat
  BY ControlAssumption
<1>0. m.after \in Nat /\ m.cmds \in Seq([c : Text, a : Text]) /\ m.edits \in Seq(STRING)
  BY DEF Draft
<1>2. Len(m.cmds) \in Nat /\ \A i \in 1 .. Len(m.cmds) : m.cmds[i] \in [c : Text, a : Text]
  BY ONLY <1>0, Elements, Zenon
<1>3. ASSUME NEW i \in 1 .. Len(m.cmds) PROVE cmds[i] \in [c : Text, a : Text, id : Nat]
  <2>1. sent * CmdSlots + i \in Nat
    BY <1>1, <1>2
  <2> QED BY <1>2, <2>1 
<1>4. cmds \in [1 .. Len(m.cmds) -> [c : Text, a : Text, id : Nat]]
  BY <1>3
<1>5. cmds \in Seq([c : Text, a : Text, id : Nat])
  BY ONLY <1>2, <1>4, FunctionIsSeq
<1> QED BY <1>0, <1>5 DEF Stamp, Arrived

\* Storing a message that is not valid yet.
LEMMA StoreKeeps ==
  ASSUME NEW s \in Seq(Arrived), Len(s) <= 1, NEW now \in Nat,
         \A i \in 1 .. Len(s) : s[i].after >= now,
         NEW m \in Arrived, ~NowValid(m, now)
  PROVE  /\ StoreMsg(s, m) \in Seq(Arrived) /\ Len(StoreMsg(s, m)) <= 1
         /\ \A i \in 1 .. Len(StoreMsg(s, m)) : StoreMsg(s, m)[i].after >= now
<1>1. m.after \in Nat /\ m.after >= now
  BY DEF NowValid, Arrived
<1>2. CASE s = << >>
  BY <1>1, <1>2 DEF StoreMsg
<1>3. CASE s # << >>
  BY <1>3 DEF StoreMsg
<1> QED BY <1>2, <1>3

LEMMA StoreInit == Init => StoreInv
  BY DEF Init, StoreInv

LEMMA ControlStep ==
  ASSUME StoreInv, NEW poll \in BOOLEAN, Control(poll)
  PROVE  StoreInv'
<1> DEFINE
      n     == (seqNum % Period) + 1
      now   == IF simTime < MaxTime THEN simTime + 1 ELSE simTime
      steer == Steers(active \/ (poll /\ connected), n)
      due   == store # << >> /\ NowValid(Head(store), now)
      left  == IF due THEN Tail(store) ELSE store
      reads == steer /\ inbox # << >>
      valid == reads /\ NowValid(Head(inbox), now)
<1>1. /\ simTime' = now /\ sent' = sent
      /\ store' = IF reads /\ ~valid THEN StoreMsg(left, Head(inbox)) ELSE left
      /\ inbox' \in {<< >>, inbox, IF inbox # << >> THEN Tail(inbox) ELSE inbox}
  BY Zenon DEF Control, clientVars, DetachIf
<1>2. now \in Nat
  BY ControlAssumption DEF StoreInv
<1>3. left \in Seq(Arrived) /\ Len(left) <= 1
  BY DEF StoreInv
<1>4. \A i \in 1 .. Len(left) : left[i].after >= now
  <2>1. CASE due
    BY <2>1 DEF StoreInv
  <2>2. CASE ~due
    <3>1. CASE store = << >>
      BY <2>2, <3>1
    <3>2. CASE store # << >>
      <4>0. left = store
        BY <2>2
      <4>1. Len(store) = 1 /\ Head(store) = store[1] /\ store[1] \in Arrived
        BY <3>2, FirstOfOne DEF StoreInv
      <4>2. store[1].after \in Nat /\ ~(store[1].after < now)
        BY <2>2, <3>2, <4>1 DEF NowValid, Arrived
      <4> HIDE DEF now, left, due
      <4> QED BY <1>2, <4>0, <4>1, <4>2
    <3> QED BY <3>1, <3>2
  <2> QED BY <2>1, <2>2
<1>5. inbox # << >> => Head(inbox) \in Arrived /\ Tail(inbox) \in Seq(Arrived)
  BY DEF StoreInv
<1> HIDE DEF n, now, steer, left
<1>6. inbox' \in Seq(Arrived)
  <2>1. inbox \in Seq(Arrived) /\ << >> \in Seq(Arrived)
    BY DEF StoreInv
  <2>2. (IF inbox # << >> THEN Tail(inbox) ELSE inbox) \in Seq(Arrived)
    BY <1>5, <2>1
  <2>3. {<< >>, inbox, IF inbox # << >> THEN Tail(inbox) ELSE inbox} \subseteq Seq(Arrived)
    BY <2>1, <2>2, Zenon
  <2> QED BY <1>1, <2>3, Zenon
<1>7. CASE reads /\ ~valid
  BY <1>1, <1>2, <1>3, <1>4, <1>5, <1>6, <1>7, StoreKeeps DEF StoreInv
<1>8. CASE ~(reads /\ ~valid)
  BY <1>1, <1>2, <1>3, <1>4, <1>6, <1>8 DEF StoreInv
<1> QED BY <1>7, <1>8

LEMMA PauseStep ==
  ASSUME StoreInv, PausePoll
  PROVE  StoreInv'
<1> DEFINE m == Head(inbox)
<1>1. /\ inbox # << >> /\ simTime' = simTime /\ sent' = sent
      /\ store' = IF NowValid(m, simTime) THEN store ELSE StoreMsg(store, m)
      /\ inbox' \in {<< >>, Tail(inbox)}
  BY Zenon DEF PausePoll, clientVars, DetachIf
<1>2. m \in Arrived /\ inbox' \in Seq(Arrived)
  <2>1. inbox \in Seq(Arrived) /\ << >> \in Seq(Arrived)
    BY DEF StoreInv
  <2>2. m \in Arrived /\ Tail(inbox) \in Seq(Arrived)
    BY <1>1, <2>1
  <2> QED BY <1>1, <2>1, <2>2, Zenon
<1>3. CASE NowValid(m, simTime)
  BY <1>1, <1>2, <1>3 DEF StoreInv
<1>4. CASE ~NowValid(m, simTime)
  <2> HIDE DEF m
  <2> QED BY <1>1, <1>2, <1>4, StoreKeeps DEF StoreInv
<1> QED BY <1>3, <1>4

LEMMA OtherStep ==
  ASSUME StoreInv,
         \/ \E k \in Kinds : Register(k)
         \/ Finalize \/ Client \/ UNCHANGED vars
  PROVE  StoreInv'
<1> USE DEF StoreInv
<1>1. CASE \E k \in Kinds : Register(k)
  BY <1>1 DEF Register, clientVars
<1>2. CASE Finalize
  BY <1>2 DEF Finalize, clientVars
<1>3. CASE Attach \/ Noticed \/ UNCHANGED vars
  BY <1>3 DEF Attach, Noticed, libVars, vars, clientVars
<1>4. ASSUME NEW m \in Messages, Send(m) PROVE StoreInv'
  <2>1. Stamp(m) \in Arrived
    BY MessagesAreDrafts, StampIsMessage
  <2> QED BY <1>4, <2>1 DEF Send, libVars
<1>5. CASE Leave
  <2> DEFINE m == [after |-> 0, edits |-> << >>, cmds |-> <<[c |-> "DETACH", a |-> NoArg]>>]
  <2>1. m \in Draft
    BY LastIsDraft
  <2>2. Stamp(m) \in Arrived
    BY <2>1, StampIsMessage
  <2>3. inbox' = Append(inbox, Stamp(m)) /\ sent' = sent + 1 /\ UNCHANGED <<store, simTime>>
    BY <1>5 DEF Leave, libVars
  <2> QED BY <2>2, <2>3
<1> QED BY <1>1, <1>2, <1>3, <1>4, <1>5 DEF Client

LEMMA StoreStep == StoreInv /\ [Next]_vars => StoreInv'
  BY ControlStep, PauseStep, OtherStep DEF Next, Call
-----------------------------------------------------------------------------
(* Definitions.  Whatever the library has not tried to tell the client is   *)
(* marked as changed until the application finishes; a pause begins when it *)
(* has tried everything.                                                    *)

DefsInv ==
  /\ seqNum \in Nat /\ changed \in [Kinds -> BOOLEAN]
  /\ told \subseteq Kinds /\ lost \subseteq Kinds
  /\ pc = "done" \/ \A k \in Kinds : changed[k] \/ k \in told \cup lost
  /\ pc = "done" => active = FALSE
  /\ pc = "paused" /\ active => told \cup lost = Kinds
  /\ DefsBeforeStatus

LEMMA DefsInit == Init => DefsInv
  BY DEF Init, DefsInv, DefsBeforeStatus

LEMMA DefsControl ==
  ASSUME SteerInterval = 1, DefsInv, NEW poll \in BOOLEAN, Control(poll)
  PROVE  DefsInv'
<1> DEFINE n == (seqNum % Period) + 1
           act == active \/ (poll /\ connected)
           steer == Steers(act, n)
           defs == {k \in Kinds : steer /\ changed[k]}
           chg == [k \in Kinds |-> changed[k] /\ k \notin defs]
<1>1. pc = "sim" /\ seqNum' = n /\ pc' \in {"sim", "paused"}
  BY Zenon DEF Control, Finish
<1>2a. PICK failed \in SUBSET defs, detach \in BOOLEAN :
          \E box : DetachIf(detach, box, act, chg, told \cup (defs \ failed), lost \cup failed)
  <2>1. \A x, y : (x = y) \in BOOLEAN
    OBVIOUS
  <2> QED BY <2>1, Zenon DEF Control
<1> DEFINE tld == told \cup (defs \ failed)
           lst == lost \cup failed
<1>2. PICK box : DetachIf(detach, box, act, chg, tld, lst)
  BY <1>2a
<1>3. n \in Nat
  BY ControlAssumption DEF DefsInv
<1>4. act => steer
  BY <1>3 DEF Steers
<1>5. \A k \in Kinds : changed[k] \/ k \in told \cup lost
  BY <1>1 DEF DefsInv
<1>6. /\ chg \in [Kinds -> BOOLEAN] /\ tld \in SUBSET Kinds /\ lst \in SUBSET Kinds
      /\ \A k \in Kinds : chg[k] \/ k \in tld \cup lst
  BY <1>5 DEF DefsInv
<1>7. act => tld \cup lst = Kinds
  BY <1>4, <1>5 DEF DefsInv
<1> HIDE DEF n, act, steer, defs, chg, tld, lst
<1>8. /\ changed' \in [Kinds -> BOOLEAN] /\ told' \subseteq Kinds /\ lost' \subseteq Kinds
      /\ \A k \in Kinds : changed'[k] \/ k \in told' \cup lost'
      /\ active' => act /\ told' = tld /\ lost' = lst
  BY <1>2, <1>6 DEF DetachIf
<1> QED BY <1>1, <1>3, <1>7, <1>8 DEF DefsInv, DefsBeforeStatus

LEMMA DefsPause ==
  ASSUME DefsInv, PausePoll
  PROVE  DefsInv'
<1>1. pc = "paused" /\ UNCHANGED seqNum /\ pc' \in {"sim", "paused"}
  BY Zenon DEF PausePoll, Finish
<1>2a. PICK detach \in BOOLEAN : \E box : DetachIf(detach, box, active, changed, told, lost)
  <2> DEFINE cmds  == IF NowValid(Head(inbox), simTime) THEN Unpack(Head(inbox)) ELSE << >>
             ends  == {i \in 1 .. Len(cmds) : cmds[i].c \in EndsPause}
             first == CHOOSE i \in ends : \A j \in ends : i <= j
             why   == IF ends = {} THEN "NONE" ELSE cmds[first].c
  <2>1. DetachIf(why \in {"DETACH", "STOP"}, Tail(inbox), active, changed, told, lost)
    BY Zenon DEF PausePoll
  <2>2. (why \in {"DETACH", "STOP"}) \in BOOLEAN
    OBVIOUS
  <2> HIDE DEF why
  <2> QED BY <2>1, <2>2, Zenon
<1>2. PICK box : DetachIf(detach, box, active, changed, told, lost)
  BY <1>2a
<1>3. /\ changed' \in [Kinds -> BOOLEAN] /\ told' \subseteq Kinds /\ lost' \subseteq Kinds
      /\ \A k \in Kinds : changed'[k] \/ k \in told' \cup lost'
      /\ active' => active /\ told' = told /\ lost' = lost
  BY <1>1, <1>2 DEF DetachIf, DefsInv
<1> QED BY <1>1, <1>3 DEF DefsInv, DefsBeforeStatus

LEMMA DefsOther ==
  ASSUME DefsInv,
         \/ \E k \in Kinds : Register(k)
         \/ Finalize \/ Client \/ UNCHANGED vars
  PROVE  DefsInv'
<1> USE DEF DefsInv, DefsBeforeStatus
<1>1. CASE \E k \in Kinds : Register(k)
  BY <1>1 DEF Register, clientVars
<1>2. CASE Finalize
  BY <1>2 DEF Finalize, clientVars, historyVars
<1>3. CASE Client \/ UNCHANGED vars
  <2>1. UNCHANGED <<seqNum, changed, told, lost, pc, active, emitted>>
    BY <1>3 DEF Client, Attach, Send, Leave, Noticed, libVars, historyVars, vars
  <2> QED BY <2>1
<1> QED BY <1>1, <1>2, <1>3

\* An application that steers at every call (the interval the library starts
\* with) never reports its state, before, in or after a pause, to a client to
\* which it has not tried to send all definitions since they last changed:
\* whatever fails, whatever the client sends, whenever the application
\* registers and whoever attaches.
THEOREM DefinitionsFirst == ASSUME SteerInterval = 1 PROVE Spec => []DefsBeforeStatus
<1>1. DefsInv /\ [Next]_vars => DefsInv'
  BY DefsControl, DefsPause, DefsOther DEF Next, Call
<1>2. DefsInv => DefsBeforeStatus
  BY DEF DefsInv
<1> QED BY DefsInit, <1>1, <1>2, PTL DEF Spec
-----------------------------------------------------------------------------
(* The arguments.  A call that does not pause makes one pass over its       *)
(* commands; the arguments beside those it returns are moved up in place.   *)

Listed == [c : Text, a : Text, id : Nat]

\* A set of numbers that is not empty has a least one.
LEMMA Least ==
  ASSUME NEW T \in SUBSET Nat, T # {}
  PROVE  \E x \in T : \A y \in T : x <= y
<1> DEFINE Less == {ss \in Nat \X Nat : ss[1] < ss[2]}
<1>1. IsWellFoundedOn(Less, Nat)
  BY NatLessThanWellFounded DEF OpToRel
<1>2. PICK x \in T : \A y \in T : ~(<<y, x>> \in Less)
  BY <1>1, WFMin
<1>3. ASSUME NEW y \in T PROVE x <= y
  <2>1. x \in Nat /\ y \in Nat
    OBVIOUS
  <2>2. ~(y < x)
    BY <1>2, <2>1
  <2> QED BY <2>1, <2>2
<1> QED BY <1>3

LEMMA FiniteCount ==
  ASSUME NEW n \in Nat, NEW I \in SUBSET (1 .. n)
  PROVE  IsFiniteSet(I) /\ Cardinality(I) \in Nat /\ Cardinality(I) <= n
<1>1. IsFiniteSet(1 .. n) /\ Cardinality(1 .. n) = n
  BY FS_Interval
<1>2. IsFiniteSet(I) /\ Cardinality(I) <= n
  BY <1>1, FS_Subset
<1> QED BY <1>2, FS_CardinalityType

\* Every place in the order of a set of numbers is taken by one of them.
LEMMA Ranked ==
  ASSUME NEW n \in Nat, NEW I \in SUBSET (1 .. n)
  PROVE  \A k \in 1 .. Cardinality(I) : \E i \in I : Cardinality({j \in I : j < i}) = k - 1
<1> DEFINE At(i) == {j \in I : j < i}
           Vacant == {k \in 1 .. Cardinality(I) : \A i \in I : Cardinality(At(i)) # k - 1}
<1>0. IsFiniteSet(I) /\ Cardinality(I) \in Nat /\ I \in SUBSET Nat
  BY FiniteCount
<1> SUFFICES ASSUME Vacant # {} PROVE FALSE
  OBVIOUS
<1>1. Vacant \in SUBSET Nat
  BY <1>0
<1>2. PICK k \in Vacant : \A l \in Vacant : k <= l
  BY <1>1, Least
<1>3. k \in 1 .. Cardinality(I) /\ \A i \in I : Cardinality(At(i)) # k - 1
  OBVIOUS
<1>4. CASE k = 1
  <2>1. I # {}
    BY <1>0, <1>3, FS_EmptySet
  <2>2. PICK m \in I : \A j \in I : m <= j
    BY <2>1, Least
  <2>3. At(m) = {}
    <3>1. ASSUME NEW j \in I PROVE ~(j < m)
      BY ONLY <1>0, <2>2
    <3> QED BY <3>1
  <2> QED BY <1>3, <1>4, <2>3, FS_EmptySet
<1>5. CASE k # 1
  <2>1. k - 1 \in 1 .. Cardinality(I) /\ k - 1 \notin Vacant
    BY <1>0, <1>2, <1>3, <1>5
  <2>2. PICK i \in I : Cardinality(At(i)) = k - 2
    <3>1. \E i \in I : Cardinality(At(i)) = (k - 1) - 1
      BY <2>1
    <3>2. (k - 1) - 1 = k - 2
      BY <1>0, <1>3
    <3> QED BY <3>1, <3>2
  <2> DEFINE B == At(i) \cup {i}
  <2>3. Cardinality(B) = k - 1 /\ IsFiniteSet(B)
    <3>1. IsFiniteSet(At(i)) /\ i \notin At(i)
      <4>1. At(i) \subseteq I
        OBVIOUS
      <4> QED BY <1>0, <4>1, FS_Subset
    <3>2. Cardinality(At(i) \cup {i}) = Cardinality(At(i)) + 1 /\ IsFiniteSet(At(i) \cup {i})
      BY <3>1, FS_AddElement
    <3> QED BY <1>3, <2>2, <3>2
  <2>4. I \ B # {}
    <3> SUFFICES ASSUME I \ B = {} PROVE FALSE
      OBVIOUS
    <3>1. I = B
      OBVIOUS
    <3> HIDE DEF B
    <3> QED BY <1>0, <1>3, <2>3, <3>1
  <2>5. PICK m \in I \ B : \A j \in I \ B : m <= j
    <3>1. I \ B \in SUBSET Nat
      BY <1>0
    <3> HIDE DEF B
    <3> QED BY <2>4, <3>1, Least
  <2>6. At(m) = B
    <3>1. ASSUME NEW j \in I, j < m PROVE j \in B
      BY <2>5, <3>1
    <3>2. ASSUME NEW j \in B PROVE j \in I /\ j < m
      BY <2>2, <2>5, <3>2
    <3> QED BY <3>1, <3>2
  <2> QED BY <1>3, <2>3, <2>5, <2>6
<1> QED BY <1>4, <1>5

\* The indices that are left when some are skipped: each is one of those, and
\* none moves to a later place than its own.
LEMMA InTurnIs ==
  ASSUME NEW n \in Nat, NEW I \in SUBSET (1 .. n), NEW k \in 1 .. Cardinality(I)
  PROVE  InTurn(I)[k] \in I /\ k <= InTurn(I)[k]
<1> DEFINE i == InTurn(I)[k]
<1>1. i = CHOOSE x \in I : Cardinality({j \in I : j < x}) = k - 1
  BY DEF InTurn
<1>2. i \in I /\ Cardinality({j \in I : j < i}) = k - 1
  BY <1>1, Ranked
<1> HIDE DEF i
<1>3. i \in 1 .. n /\ i - 1 \in Nat
  BY <1>2
<1>4. {j \in I : j < i} \in SUBSET (1 .. i - 1)
  <2>1. ASSUME NEW j \in I, j < i PROVE j \in 1 .. i - 1
    BY <1>3, <2>1
  <2> QED BY <2>1
<1>5. k - 1 <= i - 1
  BY <1>2, <1>3, <1>4, FiniteCount
<1>6. k \in Int
  BY FiniteCount
<1>7. k <= i
  BY <1>3, <1>5, <1>6
<1> QED BY <1>2, <1>7 DEF i

LEMMA OnlyIsSeq ==
  ASSUME NEW S, NEW s \in Seq(S), NEW I \in SUBSET (1 .. Len(s))
  PROVE  Only(s, I) \in Seq(S)
<1>1. Len(s) \in Nat /\ \A i \in 1 .. Len(s) : s[i] \in S
  BY Elements
<1>2. Cardinality(I) \in Nat
  BY <1>1, FiniteCount
<1>3. \A k \in 1 .. Cardinality(I) : s[InTurn(I)[k]] \in S
  BY <1>1, InTurnIs
<1>4. Only(s, I) \in [1 .. Cardinality(I) -> S]
  BY <1>3 DEF Only
<1> QED BY ONLY <1>2, <1>4, FunctionIsSeq

LEMMA AtMostFits ==
  ASSUME NEW S, NEW s \in Seq(S), NEW n \in Nat
  PROVE  /\ AtMost(n, s) \in Seq(S)
         /\ Len(AtMost(n, s)) <= n
         /\ Len(s) <= n => AtMost(n, s) = s
         /\ \A i \in 1 .. Len(AtMost(n, s)) : i \in 1 .. Len(s) /\ AtMost(n, s)[i] = s[i]
  BY DEF AtMost

LEMMA UnpackedFits ==
  ASSUME NEW m \in Arrived
  PROVE  Unpack(m) \in Seq(Listed) /\ Len(Unpack(m)) <= MaxCmds
<1>1. m.cmds \in Seq(Listed)
  BY DEF Arrived, Listed
<1> QED BY <1>1, ControlAssumption, AtMostFits DEF Unpack

LEMMA AutoFits ==
  ASSUME NEW n
  PROVE  /\ AutoCmds(n) \in Seq(Listed) /\ Len(AutoCmds(n)) <= MaxCmds
         /\ \A i \in 1 .. Len(AutoCmds(n)) : AutoCmds(n)[i].id = 0 /\ AutoCmds(n)[i].c # "PAUSE"
<1> DEFINE I == {i \in DOMAIN AutoTypes : AutoTypes[i].freq # 0 /\ n % AutoTypes[i].freq = 0}
           due == Only(AutoTypes, I)
           T == [handle : STRING \ Predefined, freq : Nat, arg : STRING]
           all == [i \in 1 .. Len(due) |-> [c |-> due[i].handle, a |-> due[i].arg, id |-> 0]]
<1>1. AutoTypes \in Seq(T) /\ DOMAIN AutoTypes = 1 .. Len(AutoTypes)
  BY ControlAssumption
<1>2. I \in SUBSET (1 .. Len(AutoTypes))
  BY <1>1
<1>3. due \in Seq(T)
  BY <1>1, <1>2, OnlyIsSeq
<1> HIDE DEF due
<1>4. Len(due) \in Nat /\ \A i \in 1 .. Len(due) : due[i] \in T
  BY ONLY <1>3, Elements
<1>5. \A i \in 1 .. Len(due) : all[i] \in Listed
  BY <1>4 DEF Listed, Text
<1>6. all \in [1 .. Len(due) -> Listed]
  BY <1>5
<1>7. all \in Seq(Listed)
  BY ONLY <1>4, <1>6, FunctionIsSeq
<1>8. AutoCmds(n) = AtMost(MaxCmds, all)
  BY DEF AutoCmds, due
<1>9. DOMAIN all = 1 .. Len(due) /\ \A i \in DOMAIN all : all[i].id = 0 /\ all[i].c # "PAUSE"
  BY <1>4 DEF Predefined
<1> HIDE DEF all
<1>10. DOMAIN all = 1 .. Len(all)
  BY <1>7
<1> QED BY <1>7, <1>8, <1>9, <1>10, ControlAssumption, AtMostFits

LEMMA CutEnds ==
  ASSUME NEW cmds \in Seq(Listed)
  PROVE  \/ Cut(cmds) = Len(cmds) + 1
         \/ Cut(cmds) \in 1 .. Len(cmds) /\ EndsLoop(cmds[Cut(cmds)].c)
<1> DEFINE ends == {i \in 1 .. Len(cmds) : EndsLoop(cmds[i].c)}
<1>1. Len(cmds) \in Nat
  BY Elements
<1>2. CASE ends = {}
  BY <1>2 DEF Cut
<1>3. CASE ends # {}
  <2>1. ends \in SUBSET Nat
    BY <1>1
  <2>2. \E i \in ends : \A j \in ends : i <= j
    BY <1>3, <2>1, Least
  <2>3. Cut(cmds) = CHOOSE i \in ends : \A j \in ends : i <= j
    BY <1>3 DEF Cut
  <2>4. Cut(cmds) \in ends
    BY <2>2, <2>3
  <2> QED BY <2>4
<1> QED BY <1>2, <1>3

\* A place that is copied to never comes later than the one that is copied
\* from, so that the copies do not disturb one another.
LEMMA CopyMoves ==
  ASSUME NEW n \in Nat, NEW I \in SUBSET (1 .. n), NEW args \in [1 .. CmdSlots -> Text]
  PROVE  Copy(args, 0, InTurn(I)) =
           [i \in DOMAIN args |-> IF i \in 1 .. Cardinality(I) THEN args[InTurn(I)[i]] ELSE args[i]]
<1> DEFINE idx == InTurn(I)
           f == [k \in 1 .. Len(idx) |-> args[idx[k]]]
           arg[k \in 1 .. Len(idx)] ==
             IF idx[k] - 0 \in 1 .. k - 1 THEN arg[idx[k] - 0] ELSE args[idx[k]]
<1>1. Cardinality(I) \in Nat
  BY FiniteCount
<1>2. \A k \in 1 .. Cardinality(I) : idx[k] \in I /\ k <= idx[k]
  BY InTurnIs
<1>3. idx \in Seq(1 .. n) /\ Len(idx) = Cardinality(I)
  <2>1. idx \in [1 .. Cardinality(I) -> 1 .. n]
    BY <1>2 DEF InTurn
  <2> HIDE DEF idx
  <2>2. idx \in Seq(1 .. n)
    BY ONLY <1>1, <2>1, FunctionIsSeq
  <2>3. DOMAIN idx = 1 .. Cardinality(I)
    BY <2>1
  <2> QED BY <1>1, <2>2, <2>3, LenProperties
<1> HIDE DEF idx
<1>4. ASSUME NEW k \in 1 .. Len(idx) PROVE idx[k] \in Nat /\ idx[k] - 0 = idx[k] /\ ~(idx[k] \in 1 .. k - 1)
  <2>1. k <= idx[k] /\ idx[k] \in 1 .. n
    BY <1>2, <1>3
  <2> QED BY <2>1, <1>3
<1>5. f = [k \in 1 .. Len(idx) |-> IF idx[k] - 0 \in 1 .. k - 1 THEN f[idx[k] - 0] ELSE args[idx[k]]]
  BY <1>4
<1>6. arg = [k \in 1 .. Len(idx) |-> IF idx[k] - 0 \in 1 .. k - 1 THEN arg[idx[k] - 0] ELSE args[idx[k]]]
  <2> HIDE DEF f
  <2> QED BY <1>5
<1> HIDE DEF arg
<1>7. \A k \in 1 .. Len(idx) : arg[k] = args[idx[k]]
  BY <1>4, <1>6
<1>8. Copy(args, 0, idx) = [i \in DOMAIN args |-> IF i - 0 \in 1 .. Len(idx) THEN arg[i - 0] ELSE args[i]]
  BY DEF Copy, arg
<1>9. ASSUME NEW i \in DOMAIN args
      PROVE  (IF i - 0 \in 1 .. Len(idx) THEN arg[i - 0] ELSE args[i])
               = IF i \in 1 .. Cardinality(I) THEN args[idx[i]] ELSE args[i]
  <2>1. i \in Int /\ i - 0 = i
    BY ControlAssumption
  <2> QED BY <1>3, <1>7, <2>1
<1> HIDE DEF f
<1> QED BY <1>8, <1>9 DEF idx

\* A pass hands on some of the commands, in turn, behind those kept before it.
LEMMA PassPicks ==
  ASSUME NEW cmds \in Seq(Listed), NEW kept, NEW args
  PROVE  LET r == Pass(cmds, kept, args) IN
           /\ \E I \in SUBSET (1 .. Len(cmds)) :
                r.kept = kept \o Only(cmds, I) /\ r.args = Copy(args, Len(kept), InTurn(I))
           /\ r.why = "PAUSE" => \E i \in 1 .. Len(cmds) : cmds[i].c = "PAUSE"
<1> DEFINE cut  == Cut(cmds)
           why  == IF cut > Len(cmds) THEN "END" ELSE cmds[cut].c
           last == IF why = "STOP" THEN cut ELSE cut - 1
           I    == {i \in 1 .. last : cmds[i].c # "LOG"}
           idx  == InTurn(I)
           r    == Pass(cmds, kept, args)
<1>1. r = [why |-> why, kept |-> kept \o [k \in 1 .. Len(idx) |-> cmds[idx[k]]],
           args |-> Copy(args, Len(kept), idx)]
  BY DEF Pass
<1>2. Len(cmds) \in Nat /\ \A i \in 1 .. Len(cmds) : cmds[i] \in Listed
  BY Elements
<1>3. cut = Len(cmds) + 1 \/ (cut \in 1 .. Len(cmds) /\ EndsLoop(cmds[cut].c))
  BY CutEnds
<1>4. why = "PAUSE" => \E i \in 1 .. Len(cmds) : cmds[i].c = "PAUSE"
  BY <1>2, <1>3
<1>5. last \in Nat /\ last <= Len(cmds)
  <2>1. cut \in Nat \ {0} /\ cut <= Len(cmds) + 1
    BY <1>2, <1>3
  <2>2. cut > Len(cmds) => why = "END"
    OBVIOUS
  <2> HIDE DEF cut, why
  <2> QED BY <1>2, <2>1, <2>2
<1>6. I \in SUBSET (1 .. Len(cmds))
  BY <1>2, <1>5
<1> HIDE DEF cut, why, last, I, r
<1>7. Len(idx) = Cardinality(I)
  <2>1. Cardinality(I) \in Nat
    BY <1>2, <1>6, FiniteCount
  <2>2. idx \in [1 .. Cardinality(I) -> 1 .. Len(cmds)]
    BY <1>2, <1>6, InTurnIs DEF InTurn
  <2> HIDE DEF idx
  <2>3. idx \in Seq(1 .. Len(cmds)) /\ DOMAIN idx = 1 .. Cardinality(I)
    BY <2>1, <2>2, FunctionIsSeq
  <2> QED BY <2>1, <2>3, LenProperties
<1>8. [k \in 1 .. Len(idx) |-> cmds[idx[k]]] = Only(cmds, I)
  BY <1>7 DEF Only
<1> HIDE DEF idx
<1>9. r.why = why /\ r.kept = kept \o Only(cmds, I) /\ r.args = Copy(args, Len(kept), idx)
  BY <1>1, <1>8
<1> QED BY <1>4, <1>6, <1>9 DEF r, idx

\* The chosen elements, one by one.
LEMMA OnlyElements ==
  ASSUME NEW s \in Seq(Listed), NEW I \in SUBSET (1 .. Len(s))
  PROVE  /\ Only(s, I) \in Seq(Listed) /\ Len(Only(s, I)) = Cardinality(I)
         /\ Cardinality(I) \in Nat /\ Cardinality(I) <= Len(s)
         /\ \A k \in 1 .. Cardinality(I) : Only(s, I)[k] = s[InTurn(I)[k]] /\ InTurn(I)[k] \in I
<1>1. Len(s) \in Nat
  BY Elements
<1>2. Cardinality(I) \in Nat /\ Cardinality(I) <= Len(s)
  BY <1>1, FiniteCount
<1>3. Only(s, I) \in Seq(Listed) /\ DOMAIN Only(s, I) = 1 .. Cardinality(I)
  BY OnlyIsSeq DEF Only
<1>4. Len(Only(s, I)) = Cardinality(I)
  BY <1>2, <1>3, LenProperties
<1> QED BY <1>1, <1>2, <1>3, <1>4, InTurnIs DEF Only

\* One pass over the commands of a call.
LEMMA PassOnce ==
  ASSUME NEW cmds \in Seq(Listed)
  PROVE  LET r == Pass(cmds, << >>, Place(NoFrame.args, 0, cmds)) IN
           /\ r.kept \in Seq(Listed) /\ Len(r.kept) <= Len(cmds)
           /\ Len(cmds) <= CmdSlots => \A i \in 1 .. Len(r.kept) : r.args[i] = r.kept[i].a
<1> DEFINE args0 == Place(NoFrame.args, 0, cmds)
           r     == Pass(cmds, << >>, args0)
<1>1. PICK I \in SUBSET (1 .. Len(cmds)) :
           r.kept = << >> \o Only(cmds, I) /\ r.args = Copy(args0, Len(<< >>), InTurn(I))
  BY PassPicks
<1>2. Len(cmds) \in Nat /\ \A i \in 1 .. Len(cmds) : cmds[i] \in Listed
  BY Elements
<1>3. /\ r.kept \in Seq(Listed) /\ Len(r.kept) = Cardinality(I) /\ Len(r.kept) <= Len(cmds)
      /\ \A k \in 1 .. Cardinality(I) : r.kept[k] = cmds[InTurn(I)[k]] /\ InTurn(I)[k] \in 1 .. Len(cmds)
  <2>1. Only(cmds, I) \in Seq(Listed)
    BY OnlyElements
  <2>2. r.kept = Only(cmds, I)
    BY ONLY <1>1, <2>1, ConcatEmptySeq
  <2>3. \A k \in 1 .. Cardinality(I) : InTurn(I)[k] \in 1 .. Len(cmds)
    BY OnlyElements
  <2> HIDE DEF r
  <2> QED BY <2>1, <2>2, <2>3, OnlyElements
<1>4. ASSUME Len(cmds) <= CmdSlots, NEW i \in 1 .. Len(r.kept)
      PROVE  r.args[i] = r.kept[i].a
  <2>1. args0 = [j \in 1 .. CmdSlots |-> IF j - 0 \in 1 .. Len(cmds) THEN cmds[j - 0].a ELSE NoArg]
    BY DEF Place, NoFrame
  <2>2. \A j \in 1 .. Len(cmds) : j \in 1 .. CmdSlots /\ args0[j] = cmds[j].a
    BY <1>2, <1>4, <2>1, ControlAssumption
  <2>3. args0 \in [1 .. CmdSlots -> Text]
    <3>1. ASSUME NEW j \in 1 .. CmdSlots PROVE args0[j] \in Text
      <4>1. NoArg \in Text /\ j - 0 = j
        BY ControlAssumption DEF Text
      <4>2. j \in 1 .. Len(cmds) => cmds[j].a \in Text
        BY <1>2 DEF Listed
      <4> QED BY <2>1, <4>1, <4>2
    <3> QED BY <2>1, <3>1
  <2>4. r.args = Copy(args0, 0, InTurn(I))
    BY <1>1
  <2> HIDE DEF args0, r
  <2>5. Copy(args0, 0, InTurn(I)) =
          [j \in DOMAIN args0 |-> IF j \in 1 .. Cardinality(I) THEN args0[InTurn(I)[j]] ELSE args0[j]]
    BY <1>2, <2>3, CopyMoves
  <2>6. i \in 1 .. Cardinality(I) /\ i \in DOMAIN args0
    BY <1>2, <1>3, <1>4, <2>3, ControlAssumption
  <2> QED BY <1>3, <2>2, <2>4, <2>5, <2>6
<1> QED BY <1>3, <1>4 DEF r, args0

\* What a call of Steering_control does with the commands it has got.
LEMMA CallDoes ==
  ASSUME StoreInv, NEW poll \in BOOLEAN, Control(poll)
  PROVE  \E cmds \in Seq(Listed) : \E labels, steer :
           LET r == Pass(cmds, << >>, Place(NoFrame.args, 0, cmds)) IN
             /\ reused' = (Len(cmds) > MaxCmds \/ r.why = "PAUSE")
             /\ Finish(r, << >>, steer, labels, << >>)
<1> DEFINE
      n      == (seqNum % Period) + 1
      now    == IF simTime < MaxTime THEN simTime + 1 ELSE simTime
      steer  == Steers(active \/ (poll /\ connected), n)
      due    == store # << >> /\ NowValid(Head(store), now)
      reads  == steer /\ inbox # << >>
      valid  == reads /\ NowValid(Head(inbox), now)
      auto   == AutoCmds(n)
      stored == IF due THEN Unpack(Head(store)) ELSE << >>
      fresh  == IF valid THEN Unpack(Head(inbox)) ELSE << >>
      cmds   == auto \o stored \o fresh
      labels == (IF due THEN Labels(Head(store)) ELSE << >>)
                  \o (IF valid THEN Labels(Head(inbox)) ELSE << >>)
      r      == Pass(cmds, << >>, Place(NoFrame.args, 0, cmds))
<1>1. /\ reused' = (Len(cmds) > MaxCmds \/ r.why = "PAUSE")
      /\ Finish(r, << >>, steer, labels, << >>)
  BY Zenon DEF Control
<1>2. (due => Head(store) \in Arrived) /\ (valid => Head(inbox) \in Arrived)
  BY DEF StoreInv
<1> HIDE DEF steer, due, valid, n, labels
<1>3. stored \in Seq(Listed) /\ fresh \in Seq(Listed) /\ auto \in Seq(Listed)
  BY <1>2, UnpackedFits, AutoFits
<1>4. cmds \in Seq(Listed)
  <2> HIDE DEF stored, fresh, auto
  <2> QED BY <1>3, ConcatProperties
<1> HIDE DEF cmds
<1> QED BY <1>1, <1>4

\* A call that is in a pause has its arrays filled again.
ArgsInv == ArgsFaithful /\ (pc = "paused" => reused)

LEMMA ArgsControl ==
  ASSUME StoreInv, NEW poll \in BOOLEAN, Control(poll)
  PROVE  ArgsInv'
<1>0. PICK cmds \in Seq(Listed) : \E labels, steer :
           LET r == Pass(cmds, << >>, Place(NoFrame.args, 0, cmds)) IN
             /\ reused' = (Len(cmds) > MaxCmds \/ r.why = "PAUSE")
             /\ Finish(r, << >>, steer, labels, << >>)
  BY CallDoes
<1> DEFINE r == Pass(cmds, << >>, Place(NoFrame.args, 0, cmds))
<1>1. PICK labels, steer : /\ reused' = (Len(cmds) > MaxCmds \/ r.why = "PAUSE")
                           /\ Finish(r, << >>, steer, labels, << >>)
  BY <1>0, Zenon
<1>2. /\ r.kept \in Seq(Listed) /\ Len(r.kept) <= Len(cmds)
      /\ Len(cmds) <= CmdSlots => \A i \in 1 .. Len(r.kept) : r.args[i] = r.kept[i].a
  BY PassOnce
<1>3. reused' = (Len(cmds) > MaxCmds \/ r.why = "PAUSE") /\ Finish(r, << >>, steer, labels, << >>)
  BY <1>1
<1> HIDE DEF r
<1>4. CASE r.why = "PAUSE"
  BY <1>3, <1>4 DEF ArgsInv, ArgsFaithful
<1>5. CASE r.why # "PAUSE"
  <2>1. /\ pc' = "sim"
        /\ result' = [cmds |-> r.kept, args |-> SubSeq(r.args, 1, Len(r.kept)),
                      labels |-> LabelsOut(<< >>, labels)]
    BY <1>3, <1>5 DEF Finish
  <2>2. ASSUME ~reused' PROVE Len(cmds) <= CmdSlots
    <3>1. Len(cmds) \in Nat
      BY Elements
    <3>2. ~(Len(cmds) > MaxCmds)
      BY <1>3, <2>2, Zenon
    <3> QED BY <3>1, <3>2, ControlAssumption
  <2>3. \A i \in 1 .. Len(r.kept) : SubSeq(r.args, 1, Len(r.kept))[i] = r.args[i]
    <3>1. Len(r.kept) \in Nat
      BY <1>2, Elements
    <3> QED BY <3>1
  <2> QED BY <1>2, <2>1, <2>2, <2>3 DEF ArgsInv, ArgsFaithful
<1> QED BY <1>4, <1>5

LEMMA ArgsOther ==
  ASSUME ArgsInv, PausePoll \/ (\E k \in Kinds : Register(k)) \/ Finalize \/ Client \/ UNCHANGED vars
  PROVE  ArgsInv'
<1>1. CASE PausePoll
  <2>1. reused /\ reused' = reused
    BY <1>1, Zenon DEF PausePoll, ArgsInv
  <2> QED BY <2>1 DEF ArgsInv, ArgsFaithful
<1>2. CASE \E k \in Kinds : Register(k)
  <2>1. UNCHANGED <<pc, result, reused>>
    BY <1>2 DEF Register
  <2> QED BY <2>1 DEF ArgsInv, ArgsFaithful
<1>3. CASE Finalize
  <2>1. pc' = "done" /\ UNCHANGED <<result, reused>>
    BY <1>3 DEF Finalize, historyVars
  <2> QED BY <2>1 DEF ArgsInv, ArgsFaithful
<1>4. CASE Client \/ UNCHANGED vars
  <2>1. UNCHANGED <<pc, result, reused>>
    BY <1>4 DEF Client, Attach, Send, Leave, Noticed, libVars, historyVars, vars
  <2> QED BY <2>1 DEF ArgsInv, ArgsFaithful
<1> QED BY <1>1, <1>2, <1>3, <1>4

\* Beside every command that is returned stands the argument it came with,
\* wherever commands before it have been dealt with by the library and left
\* out: for every call that does not pause and whose commands fit in the
\* array, whether the library or the application implements the pause.
THEOREM ArgumentsOfCommands == Spec => []ArgsFaithful
<1>1. Init => ArgsInv
  BY DEF Init, ArgsInv, ArgsFaithful, Nothing
<1>2. StoreInv /\ ArgsInv /\ [Next]_vars => ArgsInv'
  BY ArgsControl, ArgsOther DEF Next, Call
<1>3. ArgsInv => ArgsFaithful
  BY DEF ArgsInv
<1> QED BY StoreInit, StoreStep, <1>1, <1>2, <1>3, PTL DEF Spec
-----------------------------------------------------------------------------
(* The order of the commands.  When no message waits for a later time, the  *)
(* client's commands stand in one line: those delivered, those that a pause *)
(* holds back, and those of the messages still to be read.                  *)

Rising(q) ==
  \A i, j \in 1 .. Len(q) : i < j /\ q[i].id > 0 /\ q[j].id > 0 => q[i].id < q[j].id

\* The numbers of the client's commands in q are above low and not above high.
Within(q, low, high) ==
  \A i \in 1 .. Len(q) : q[i].id > 0 => low < q[i].id /\ q[i].id <= high

\* d has been delivered, q comes next, and nothing of them is beyond top.
InLine(d, q, top) ==
  /\ d \in Seq(Nat) /\ q \in Seq(Listed)
  /\ \A i, j \in 1 .. Len(d) : i < j => d[i] < d[j]
  /\ \A i \in 1 .. Len(d) : d[i] <= top
  /\ Rising(q) /\ Within(q, 0, top)
  /\ \A i \in 1 .. Len(d), j \in 1 .. Len(q) : q[j].id > 0 => d[i] < q[j].id

Numbered(m) ==
  /\ m.after = 0 /\ m.no > 0
  /\ \A k \in 1 .. Len(m.cmds) : m.cmds[k].id = (m.no - 1) * CmdSlots + k

\* No command that the library has read has a number above this one.
Reached == IF inbox = << >> THEN sent * CmdSlots ELSE (Head(inbox).no - 1) * CmdSlots

InboxInv ==
  /\ store = << >>
  /\ \A i \in 1 .. Len(inbox) : Numbered(inbox[i]) /\ inbox[i].no <= sent
  /\ \A i, j \in 1 .. Len(inbox) : i < j => inbox[i].no < inbox[j].no

OrderInv == InboxInv /\ InLine(delivered, frame.kept, Reached)

\* What does not wait is not put in the store.
NoWaiting == \A m \in Messages : m.after = 0

\* The indices visited go up.
LEMMA InTurnRises ==
  ASSUME NEW n \in Nat, NEW I \in SUBSET (1 .. n),
         NEW k \in 1 .. Cardinality(I), NEW l \in 1 .. Cardinality(I), k < l
  PROVE  InTurn(I)[k] < InTurn(I)[l]
<1> DEFINE At(i) == {j \in I : j < i}
           a == InTurn(I)[k]
           b == InTurn(I)[l]
<1>1. a = (CHOOSE x \in I : Cardinality(At(x)) = k - 1) /\ b = (CHOOSE x \in I : Cardinality(At(x)) = l - 1)
  BY DEF InTurn
<1>2. a \in I /\ b \in I /\ Cardinality(At(a)) = k - 1 /\ Cardinality(At(b)) = l - 1
  BY <1>1, Ranked
<1> HIDE DEF a, b
<1>3. a \in 1 .. n /\ b \in 1 .. n /\ k \in Int /\ l \in Int
  BY <1>2, FiniteCount
<1>4. ASSUME b <= a PROVE FALSE
  <2>1. At(b) \subseteq At(a)
    <3>1. ASSUME NEW j \in I, j < b PROVE j < a
      BY <1>3, <1>4, <3>1
    <3> QED BY <3>1
  <2>2. IsFiniteSet(At(a))
    <3>1. At(a) \in SUBSET (1 .. n)
      OBVIOUS
    <3> QED BY ONLY <3>1, n \in Nat, FiniteCount
  <2>3. Cardinality(At(b)) <= Cardinality(At(a))
    BY <2>1, <2>2, FS_Subset
  <2> QED BY ONLY <1>2, <1>3, <2>3, k < l
<1>5. a < b
  BY <1>3, <1>4
<1> QED BY <1>5 DEF a, b

LEMMA OnlyRises ==
  ASSUME NEW c \in Seq(Listed), NEW I \in SUBSET (1 .. Len(c)), NEW low, NEW high,
         Rising(c), Within(c, low, high)
  PROVE  Rising(Only(c, I)) /\ Within(Only(c, I), low, high)
<1> DEFINE o == Only(c, I)
<1>1. Len(c) \in Nat
  BY Elements
<1>2. /\ Len(o) = Cardinality(I)
      /\ \A k \in 1 .. Cardinality(I) : o[k] = c[InTurn(I)[k]] /\ InTurn(I)[k] \in 1 .. Len(c)
  BY OnlyElements
<1>3. \A k, l \in 1 .. Cardinality(I) : k < l => InTurn(I)[k] < InTurn(I)[l]
  BY <1>1, InTurnRises
<1> HIDE DEF o
<1>4. Rising(o) /\ Within(o, low, high)
  BY <1>2, <1>3 DEF Rising, Within
<1> QED BY <1>4 DEF o

\* Commands read join the line behind those kept.
LEMMA Joins ==
  ASSUME NEW d, NEW q, NEW top \in Nat, InLine(d, q, top),
         NEW c \in Seq(Listed), NEW high \in Nat, top <= high,
         Rising(c), Within(c, top, high)
  PROVE  InLine(d, q \o c, high)
<1>1. /\ d \in Seq(Nat) /\ q \in Seq(Listed) /\ Rising(q) /\ Within(q, 0, top)
      /\ \A i, j \in 1 .. Len(d) : i < j => d[i] < d[j]
      /\ \A i \in 1 .. Len(d) : d[i] <= top
      /\ \A i \in 1 .. Len(d), j \in 1 .. Len(q) : q[j].id > 0 => d[i] < q[j].id
  BY DEF InLine
<1>2. /\ Len(q) \in Nat /\ \A i \in 1 .. Len(q) : q[i] \in Listed
      /\ Len(c) \in Nat /\ \A i \in 1 .. Len(c) : c[i] \in Listed
      /\ Len(d) \in Nat /\ \A i \in 1 .. Len(d) : d[i] \in Nat
  BY <1>1, Elements
<1>3. q \o c \in Seq(Listed) /\ Len(q \o c) = Len(q) + Len(c)
  BY <1>1, ConcatProperties
<1>4. ASSUME NEW i \in 1 .. Len(q \o c)
      PROVE  \/ i \in 1 .. Len(q) /\ (q \o c)[i] = q[i]
             \/ i > Len(q) /\ i - Len(q) \in 1 .. Len(c) /\ (q \o c)[i] = c[i - Len(q)]
  <2>1. (q \o c)[i] = IF i <= Len(q) THEN q[i] ELSE c[i - Len(q)]
    BY <1>1, <1>3, ConcatProperties
  <2> QED BY <1>2, <1>3, <2>1
<1> DEFINE s == q \o c
<1>5. Within(s, 0, high)
  <2> SUFFICES ASSUME NEW i \in 1 .. Len(s), s[i].id > 0 PROVE 0 < s[i].id /\ s[i].id <= high
    BY DEF Within
  <2>1. CASE i \in 1 .. Len(q) /\ s[i] = q[i]
    BY <1>1, <1>2, <2>1 DEF Within, Listed
  <2>2. CASE i - Len(q) \in 1 .. Len(c) /\ s[i] = c[i - Len(q)]
    BY <2>2 DEF Within
  <2> HIDE DEF s
  <2> QED BY <1>4, <2>1, <2>2 DEF s
<1>6. Rising(s)
  <2> SUFFICES ASSUME NEW i \in 1 .. Len(s), NEW j \in 1 .. Len(s), i < j, s[i].id > 0, s[j].id > 0
               PROVE  s[i].id < s[j].id
    BY DEF Rising
  <2>1. i \in Int /\ j \in Int
    BY <1>2, <1>3
  <2>2. CASE j \in 1 .. Len(q) /\ s[j] = q[j]
    <3>1. i \in 1 .. Len(q)
      BY <1>2, <2>1, <2>2
    <3>2. s[i] = q[i]
      BY <1>2, <1>4, <3>1
    <3> HIDE DEF s
    <3> QED BY <1>1, <2>2, <3>1, <3>2 DEF Rising
  <2>3. CASE j > Len(q) /\ j - Len(q) \in 1 .. Len(c) /\ s[j] = c[j - Len(q)]
    <3>1. top < s[j].id /\ s[j].id \in Nat
      BY <1>2, <2>3 DEF Within, Listed
    <3>2. CASE i \in 1 .. Len(q) /\ s[i] = q[i]
      <4>1. s[i].id <= top /\ s[i].id \in Nat
        BY <1>1, <1>2, <3>2 DEF Within, Listed
      <4> HIDE DEF s
      <4> QED BY <3>1, <4>1
    <3>3. CASE i > Len(q) /\ i - Len(q) \in 1 .. Len(c) /\ s[i] = c[i - Len(q)]
      <4>1. i - Len(q) < j - Len(q)
        BY <1>2, <2>1
      <4> HIDE DEF s
      <4> QED BY <2>3, <3>3, <4>1 DEF Rising
    <3> HIDE DEF s
    <3> QED BY <1>4, <3>2, <3>3 DEF s
  <2> HIDE DEF s
  <2> QED BY <1>4, <2>2, <2>3 DEF s
<1>7. ASSUME NEW i \in 1 .. Len(d), NEW j \in 1 .. Len(s), s[j].id > 0
      PROVE  d[i] < s[j].id
  <2>1. CASE j \in 1 .. Len(q) /\ s[j] = q[j]
    BY <1>1, <1>7, <2>1
  <2>2. CASE j - Len(q) \in 1 .. Len(c) /\ s[j] = c[j - Len(q)]
    <3>1. top < s[j].id /\ s[j].id \in Nat
      BY <1>2, <1>7, <2>2 DEF Within, Listed
    <3>2. d[i] \in Nat /\ d[i] <= top
      BY <1>1, <1>2
    <3> HIDE DEF s
    <3> QED BY <3>1, <3>2
  <2> HIDE DEF s
  <2> QED BY <1>4, <2>1, <2>2 DEF s
<1>8. \A i \in 1 .. Len(d) : d[i] <= high
  BY <1>1, <1>2
<1> QED BY <1>1, <1>3, <1>5, <1>6, <1>7, <1>8 DEF InLine

\* The commands kept are delivered.
LEMMA Delivers ==
  ASSUME NEW d, NEW q, NEW top, InLine(d, q, top)
  PROVE  InLine(d \o ClientIds(q), << >>, top)
<1>1. /\ d \in Seq(Nat) /\ q \in Seq(Listed) /\ Rising(q) /\ Within(q, 0, top)
      /\ \A i, j \in 1 .. Len(d) : i < j => d[i] < d[j]
      /\ \A i \in 1 .. Len(d) : d[i] <= top
      /\ \A i \in 1 .. Len(d), j \in 1 .. Len(q) : q[j].id > 0 => d[i] < q[j].id
  BY DEF InLine
<1>2. /\ Len(q) \in Nat /\ \A i \in 1 .. Len(q) : q[i] \in Listed
      /\ Len(d) \in Nat /\ \A i \in 1 .. Len(d) : d[i] \in Nat
      /\ DOMAIN q = 1 .. Len(q)
  BY <1>1, Elements
<1> DEFINE I == {i \in DOMAIN q : q[i].id > 0}
           own == Only(q, I)
           ids == [i \in 1 .. Len(own) |-> own[i].id]
<1>3. I \in SUBSET (1 .. Len(q))
  BY <1>2
<1>4. /\ own \in Seq(Listed) /\ Len(own) = Cardinality(I) /\ Cardinality(I) \in Nat
      /\ \A k \in 1 .. Cardinality(I) : own[k] = q[InTurn(I)[k]] /\ InTurn(I)[k] \in I
  BY <1>1, <1>3, OnlyElements
<1>5. \A k, l \in 1 .. Cardinality(I) : k < l => InTurn(I)[k] < InTurn(I)[l]
  BY <1>2, <1>3, InTurnRises
<1>6. ClientIds(q) = ids
  BY DEF ClientIds
<1> HIDE DEF own
<1>7. \A k \in 1 .. Len(own) : ids[k] \in Nat
  <2>1. \A k \in 1 .. Len(own) : own[k] \in Listed
    BY <1>4, Elements
  <2> QED BY <2>1 DEF Listed
<1>8. ids \in Seq(Nat) /\ Len(ids) = Len(own)
  <2>1. ids \in [1 .. Len(own) -> Nat] /\ Len(own) \in Nat
    BY <1>4, <1>7
  <2> HIDE DEF ids
  <2>2. ids \in Seq(Nat) /\ DOMAIN ids = 1 .. Len(own)
    BY <2>1, FunctionIsSeq
  <2> QED BY <2>1, <2>2, LenProperties
<1>9. \A k \in 1 .. Len(own) : /\ InTurn(I)[k] \in 1 .. Len(q)
                               /\ ids[k] = q[InTurn(I)[k]].id /\ ids[k] > 0
  BY <1>3, <1>4
<1> HIDE DEF ids, I
<1>10. /\ \A k, l \in 1 .. Len(own) : k < l => ids[k] < ids[l]
       /\ \A k \in 1 .. Len(own) : ids[k] <= top
       /\ \A i \in 1 .. Len(d), k \in 1 .. Len(own) : d[i] < ids[k]
  BY <1>1, <1>4, <1>5, <1>9 DEF Rising, Within
<1> DEFINE e == d \o ids
<1>11. e \in Seq(Nat) /\ Len(e) = Len(d) + Len(own)
  <2>1. d \in Seq(Nat) /\ ids \in Seq(Nat) /\ Len(ids) = Len(own)
    BY <1>1, <1>8
  <2>2. \A s, t \in Seq(Nat) : s \o t \in Seq(Nat) /\ Len(s \o t) = Len(s) + Len(t)
    BY ConcatProperties
  <2> QED BY ONLY <2>1, <2>2
<1>12. ASSUME NEW i \in 1 .. Len(e)
       PROVE  \/ i \in 1 .. Len(d) /\ e[i] = d[i]
              \/ i > Len(d) /\ i - Len(d) \in 1 .. Len(own) /\ e[i] = ids[i - Len(d)]
  <2>1. e[i] = IF i <= Len(d) THEN d[i] ELSE ids[i - Len(d)]
    BY <1>1, <1>8, <1>11, ConcatProperties
  <2> QED BY <1>2, <1>4, <1>11, <2>1
<1>13. \A i \in 1 .. Len(e) : e[i] <= top
  BY <1>1, <1>10, <1>12
<1>14. ASSUME NEW i \in 1 .. Len(e), NEW j \in 1 .. Len(e), i < j PROVE e[i] < e[j]
  <2>1. i \in Int /\ j \in Int
    BY <1>2, <1>4, <1>11
  <2> HIDE DEF e
  <2>2. CASE j \in 1 .. Len(d) /\ e[j] = d[j]
    <3>1. i \in 1 .. Len(d) /\ ~(i > Len(d))
      BY <1>2, <1>14, <2>1, <2>2
    <3> QED BY <1>1, <1>12, <1>14, <2>2, <3>1
  <2>3. CASE j > Len(d) /\ j - Len(d) \in 1 .. Len(own) /\ e[j] = ids[j - Len(d)]
    <3>1. i - Len(d) < j - Len(d)
      BY <1>2, <1>14, <2>1
    <3> QED BY <1>10, <1>12, <2>3, <3>1
  <2> QED BY <1>12, <2>2, <2>3
<1>15. << >> \in Seq(Listed) /\ Rising(<< >>) /\ Within(<< >>, 0, top) /\ 1 .. Len(<< >>) = {}
  BY DEF Rising, Within
<1> HIDE DEF e
<1>16. InLine(e, << >>, top)
  BY <1>11, <1>13, <1>14, <1>15 DEF InLine
<1> QED BY <1>6, <1>16 DEF e

\* A pass over commands read puts some of them in the line.
LEMMA PassInLine ==
  ASSUME NEW d, NEW q, NEW top \in Nat, InLine(d, q, top),
         NEW c \in Seq(Listed), NEW args, NEW high \in Nat, top <= high,
         Rising(c), Within(c, top, high)
  PROVE  InLine(d, Pass(c, q, args).kept, high)
<1>1. PICK I \in SUBSET (1 .. Len(c)) : Pass(c, q, args).kept = q \o Only(c, I)
  BY PassPicks, Zenon
<1>2. Only(c, I) \in Seq(Listed)
  BY OnlyElements
<1>3. Rising(Only(c, I)) /\ Within(Only(c, I), top, high)
  BY OnlyRises
<1> QED BY <1>1, <1>2, <1>3, Joins

\* Whether the call ends or pauses, the line stays as the pass has left it.
LEMMA FinishInLine ==
  ASSUME NEW top, NEW r, NEW out, NEW steer, NEW before, NEW inPause,
         InLine(delivered, r.kept, top), Finish(r, out, steer, before, inPause)
  PROVE  InLine(delivered', frame'.kept, top)
<1>1. CASE r.why = "PAUSE"
  <2>1. frame'.kept = r.kept /\ delivered' = delivered
    BY <1>1 DEF Finish
  <2> QED BY <2>1
<1>2. CASE r.why # "PAUSE"
  <2>1. frame' = NoFrame /\ delivered' = delivered \o ClientIds(r.kept)
    BY <1>2, Zenon DEF Finish
  <2>2. frame'.kept = << >>
    BY <2>1 DEF NoFrame
  <2>3. InLine(delivered \o ClientIds(r.kept), << >>, top)
    BY Delivers
  <2> QED BY <2>1, <2>2, <2>3
<1> QED BY <1>1, <1>2

LEMMA Times ==
  ASSUME NEW a \in Nat, NEW b \in Nat, NEW c \in Nat, a <= b
  PROVE  a * c \in Nat /\ b * c \in Nat /\ a * c <= b * c
<1>1. b - a \in Nat /\ (b - a) * c \in Nat
  OBVIOUS
<1>2. b * c = a * c + (b - a) * c
  OBVIOUS
<1>3. a * c \in Nat /\ b * c \in Nat
  OBVIOUS
<1> QED BY <1>1, <1>2, <1>3

\* The commands that are read of a message have the numbers of the message.
LEMMA NumbersOfMessage ==
  ASSUME NEW m \in Arrived, Numbered(m)
  PROVE  /\ Unpack(m) \in Seq(Listed)
         /\ Rising(Unpack(m)) /\ Within(Unpack(m), (m.no - 1) * CmdSlots, m.no * CmdSlots)
         /\ (m.no - 1) * CmdSlots \in Nat /\ m.no * CmdSlots \in Nat
         /\ (m.no - 1) * CmdSlots <= m.no * CmdSlots
<1> DEFINE u == Unpack(m)
           low == (m.no - 1) * CmdSlots
<1>1. u \in Seq(Listed) /\ Len(u) <= MaxCmds /\ Len(u) \in Nat
  BY UnpackedFits, Elements
<1>2. m.no \in Nat /\ m.no - 1 \in Nat /\ CmdSlots \in Nat /\ MaxCmds \in Nat /\ MaxCmds <= CmdSlots
  BY ControlAssumption DEF Numbered, Arrived
<1>3. low \in Nat /\ m.no * CmdSlots = low + CmdSlots
  BY <1>2
<1>4. \A k \in 1 .. Len(u) : u[k].id = low + k
  <2>1. m.cmds \in Seq(Listed)
    BY DEF Arrived, Listed
  <2>2. \A k \in 1 .. Len(u) : k \in 1 .. Len(m.cmds) /\ u[k] = m.cmds[k]
    BY <1>2, <2>1 DEF Unpack, AtMost
  <2> HIDE DEF u
  <2> QED BY <2>2 DEF Numbered
<1> HIDE DEF u, low
<1>5. Rising(u)
  BY <1>1, <1>3, <1>4 DEF Rising
<1>6. Within(u, low, low + CmdSlots)
  BY <1>1, <1>2, <1>3, <1>4 DEF Within
<1> QED BY <1>1, <1>2, <1>3, <1>5, <1>6 DEF u, low

\* What is in line stays there when more has been read, and when what was kept
\* is dropped.
LEMMA Raised ==
  ASSUME NEW d, NEW q, NEW top \in Nat, InLine(d, q, top), NEW high \in Nat, top <= high
  PROVE  InLine(d, q, high)
<1>1. \A i \in 1 .. Len(d) : d[i] \in Nat
  BY Elements DEF InLine
<1>2. \A i \in 1 .. Len(q) : q[i].id \in Nat
  <2>1. q \in Seq(Listed)
    BY DEF InLine
  <2>2. \A i \in 1 .. Len(q) : q[i] \in Listed
    BY <2>1, Elements
  <2> QED BY <2>2 DEF Listed
<1>3. \A i \in 1 .. Len(d) : d[i] <= high
  BY <1>1 DEF InLine
<1>4. Within(q, 0, high)
  BY <1>2 DEF InLine, Within
<1> QED BY <1>3, <1>4 DEF InLine

LEMMA Holds ==
  ASSUME NEW d, NEW q, NEW top, InLine(d, q, top)
  PROVE  InLine(d, << >>, top)
  BY DEF InLine, Rising, Within

\* Commands that are not the client's come first, and have no number.
LEMMA Preceded ==
  ASSUME NEW a \in Seq(Listed), \A i \in 1 .. Len(a) : a[i].id = 0,
         NEW c \in Seq(Listed), NEW low, NEW high, Rising(c), Within(c, low, high)
  PROVE  a \o c \in Seq(Listed) /\ Rising(a \o c) /\ Within(a \o c, low, high)
<1>1. Len(a) \in Nat /\ Len(c) \in Nat
  BY Elements
<1>2. a \o c \in Seq(Listed) /\ Len(a \o c) = Len(a) + Len(c)
  BY ConcatProperties
<1> DEFINE s == a \o c
<1>3. ASSUME NEW i \in 1 .. Len(s), s[i].id > 0
      PROVE  i > Len(a) /\ i - Len(a) \in 1 .. Len(c) /\ s[i] = c[i - Len(a)]
  <2>1. s[i] = IF i <= Len(a) THEN a[i] ELSE c[i - Len(a)]
    BY <1>2, ConcatProperties
  <2> QED BY <1>1, <1>2, <1>3, <2>1
<1> HIDE DEF s
<1>4. Within(s, low, high)
  BY <1>3 DEF Within
<1>5. Rising(s)
  <2> SUFFICES ASSUME NEW i \in 1 .. Len(s), NEW j \in 1 .. Len(s), i < j, s[i].id > 0, s[j].id > 0
               PROVE  s[i].id < s[j].id
    BY DEF Rising
  <2>1. i - Len(a) < j - Len(a)
    BY <1>1, <1>2 DEF s
  <2> QED BY <1>3, <2>1 DEF Rising
<1> QED BY <1>2, <1>4, <1>5 DEF s

LEMMA ReachedIsNat ==
  ASSUME StoreInv, InboxInv
  PROVE  Reached \in Nat /\ Reached <= sent * CmdSlots /\ sent * CmdSlots \in Nat
<1>1. sent \in Nat /\ CmdSlots \in Nat
  BY ControlAssumption DEF StoreInv
<1>2. sent * CmdSlots \in Nat
  BY <1>1, Times
<1>3. CASE inbox = << >>
  BY <1>2, <1>3 DEF Reached
<1>4. CASE inbox # << >>
  <2>1. Len(inbox) \in Nat \ {0} /\ Head(inbox) = inbox[1] /\ inbox[1] \in Arrived
    BY <1>4 DEF StoreInv
  <2>2. Head(inbox).no - 1 \in Nat /\ Head(inbox).no - 1 <= sent
    BY <1>1, <2>1 DEF InboxInv, Numbered, Arrived
  <2> QED BY <1>1, <1>2, <1>4, <2>2, Times DEF Reached
<1> QED BY <1>3, <1>4

\* Reading the first message: the next one is behind it.
LEMMA ReadsOn ==
  ASSUME StoreInv, InboxInv, inbox # << >>, UNCHANGED sent,
         store' = store, inbox' \in {Tail(inbox), << >>}
  PROVE  /\ Head(inbox) \in Arrived /\ Numbered(Head(inbox)) /\ InboxInv'
         /\ Reached = (Head(inbox).no - 1) * CmdSlots
         /\ Reached' \in Nat /\ Head(inbox).no * CmdSlots <= Reached'
<1> DEFINE m == Head(inbox)
<1>1. /\ inbox \in Seq(Arrived) /\ Len(inbox) \in Nat \ {0} /\ m = inbox[1] /\ m \in Arrived
      /\ Tail(inbox) \in Seq(Arrived) /\ Len(Tail(inbox)) = Len(inbox) - 1
      /\ \A i \in 1 .. Len(Tail(inbox)) : i + 1 \in 1 .. Len(inbox) /\ Tail(inbox)[i] = inbox[i + 1]
  BY DEF StoreInv
<1>2. /\ Numbered(m) /\ m.no \in Nat /\ m.no <= sent /\ sent \in Nat /\ CmdSlots \in Nat
  BY <1>1, ControlAssumption DEF InboxInv, Arrived, StoreInv
<1>3. Reached = (m.no - 1) * CmdSlots
  BY DEF Reached
<1> HIDE DEF m
<1>4. CASE inbox' = << >>
  <2>1. InboxInv'
    BY <1>4 DEF InboxInv
  <2>2. Reached' = sent * CmdSlots
    BY <1>4 DEF Reached
  <2> QED BY <1>1, <1>2, <1>3, <2>1, <2>2, Times DEF m
<1>5. CASE inbox' = Tail(inbox) /\ inbox' # << >>
  <2> DEFINE t == Tail(inbox)
  <2>1. InboxInv'
    <3>1. \A i \in 1 .. Len(t) : Numbered(t[i]) /\ t[i].no <= sent
      BY <1>1 DEF InboxInv
    <3>2. ASSUME NEW i \in 1 .. Len(t), NEW j \in 1 .. Len(t), i < j PROVE t[i].no < t[j].no
      <4>1. i + 1 < j + 1 /\ i + 1 \in 1 .. Len(inbox) /\ j + 1 \in 1 .. Len(inbox)
        BY <1>1, <3>2
      <4>2. inbox[i + 1].no < inbox[j + 1].no
        BY <4>1 DEF InboxInv
      <4> QED BY <1>1, <4>2
    <3> QED BY <1>5, <3>1, <3>2 DEF InboxInv, Numbered
  <2>2. t # << >> /\ Head(t) = inbox[2] /\ 2 \in 1 .. Len(inbox)
    BY <1>1, <1>5
  <2>3. inbox[2].no > m.no /\ inbox[2].no \in Nat
    <3>1. 1 \in 1 .. Len(inbox) /\ inbox[2] \in Arrived /\ 1 < 2
      BY <1>1, <2>2
    <3>2. inbox[1].no < inbox[2].no
      BY <2>2, <3>1 DEF InboxInv
    <3> QED BY <1>1, <1>2, <3>1, <3>2 DEF Arrived
  <2>4. Reached' = (inbox[2].no - 1) * CmdSlots
    BY <1>5, <2>2 DEF Reached
  <2>5. inbox[2].no - 1 \in Nat /\ m.no <= inbox[2].no - 1
    BY <1>2, <2>3
  <2> QED BY <1>1, <1>2, <1>3, <2>1, <2>4, <2>5, Times DEF m
<1> QED BY <1>4, <1>5

LEMMA OrderControl ==
  ASSUME StoreInv, OrderInv, NEW poll \in BOOLEAN, Control(poll)
  PROVE  OrderInv'
<1> DEFINE
      n      == (seqNum % Period) + 1
      now    == IF simTime < MaxTime THEN simTime + 1 ELSE simTime
      act    == active \/ (poll /\ connected)
      steer  == Steers(act, n)
      due    == store # << >> /\ NowValid(Head(store), now)
      left   == IF due THEN Tail(store) ELSE store
      reads  == steer /\ inbox # << >>
      valid  == reads /\ NowValid(Head(inbox), now)
      auto   == AutoCmds(n)
      stored == IF due THEN Unpack(Head(store)) ELSE << >>
      fresh  == IF valid THEN Unpack(Head(inbox)) ELSE << >>
      cmds   == auto \o stored \o fresh
      labels == (IF due THEN Labels(Head(store)) ELSE << >>)
                  \o (IF valid THEN Labels(Head(inbox)) ELSE << >>)
      r      == Pass(cmds, << >>, Place(NoFrame.args, 0, cmds))
<1>1. /\ store' = IF reads /\ ~valid THEN StoreMsg(left, Head(inbox)) ELSE left
      /\ inbox' = IF r.why = "DETACH" THEN << >> ELSE IF reads THEN Tail(inbox) ELSE inbox
      /\ Finish(r, << >>, steer, labels, << >>)
      /\ sent' = sent
  BY Zenon DEF Control, DetachIf, clientVars
<1> HIDE DEF n, steer, now, labels
<1>2. ~due /\ left = << >> /\ stored = << >>
  BY DEF OrderInv, InboxInv
<1>3. valid <=> reads
  <2>1. ASSUME reads PROVE NowValid(Head(inbox), now)
    <3>1. Len(inbox) \in Nat \ {0} /\ Head(inbox) = inbox[1]
      BY <2>1 DEF StoreInv
    <3> QED BY <3>1 DEF OrderInv, InboxInv, Numbered, NowValid
  <2> QED BY <2>1
<1>4. store' = store
  BY <1>1, <1>2, <1>3 DEF OrderInv, InboxInv
<1> HIDE DEF reads, valid, due, left, r
<1>5. auto \in Seq(Listed) /\ \A i \in 1 .. Len(auto) : auto[i].id = 0
  BY AutoFits
<1>6. InLine(delivered, << >>, Reached) /\ Reached \in Nat /\ Reached <= sent * CmdSlots
      /\ sent * CmdSlots \in Nat
  <2>1. InLine(delivered, << >>, Reached)
    BY Holds DEF OrderInv
  <2> QED BY <2>1, ReachedIsNat DEF OrderInv
<1>7. cmds = auto \o fresh
  <2>1. auto \o << >> = auto
    BY <1>5, ConcatEmptySeq
  <2> QED BY <1>2, <2>1
<1>8. CASE reads
  <2>1. inbox # << >> /\ inbox' \in {Tail(inbox), << >>}
    BY <1>1, <1>8 DEF reads
  <2>2. /\ Head(inbox) \in Arrived /\ Numbered(Head(inbox)) /\ InboxInv'
        /\ Reached = (Head(inbox).no - 1) * CmdSlots
        /\ Reached' \in Nat /\ Head(inbox).no * CmdSlots <= Reached'
    BY <1>1, <1>4, <2>1, ReadsOn DEF OrderInv
  <2>3. /\ fresh \in Seq(Listed) /\ Rising(fresh) /\ Within(fresh, Reached, Head(inbox).no * CmdSlots)
        /\ Reached <= Head(inbox).no * CmdSlots /\ Head(inbox).no * CmdSlots \in Nat
    BY <1>3, <1>8, <2>2, NumbersOfMessage
  <2> DEFINE high == Head(inbox).no * CmdSlots
  <2> HIDE DEF fresh, high, auto
  <2>4. cmds \in Seq(Listed) /\ Rising(cmds) /\ Within(cmds, Reached, high)
    BY <1>5, <1>7, <2>3, Preceded DEF high
  <2> HIDE DEF cmds
  <2>5. InLine(delivered, r.kept, high)
    BY <1>6, <2>3, <2>4, PassInLine DEF r, high
  <2>6. InLine(delivered', frame'.kept, high)
    BY <1>1, <2>5, FinishInLine
  <2> QED BY <2>2, <2>3, <2>6, Raised DEF OrderInv, high
<1>9. CASE ~reads
  <2>1. fresh = << >>
    BY <1>3, <1>9
  <2>2. cmds \in Seq(Listed) /\ Rising(cmds) /\ Within(cmds, Reached, Reached)
    <3>1. << >> \in Seq(Listed) /\ Rising(<< >>) /\ Within(<< >>, Reached, Reached)
      BY DEF Rising, Within
    <3> HIDE DEF auto, cmds
    <3> QED BY <1>5, <1>7, <2>1, <3>1, Preceded
  <2> HIDE DEF cmds
  <2>3. InLine(delivered, r.kept, Reached)
    BY <1>6, <2>2, PassInLine DEF r
  <2>4. InLine(delivered', frame'.kept, Reached)
    BY <1>1, <2>3, FinishInLine
  <2>5. InboxInv' /\ Reached' \in Nat /\ Reached <= Reached'
    <3>1. inbox' = << >> \/ inbox' = inbox
      BY <1>1, <1>9
    <3>2. sent' = sent
      BY <1>1
    <3> QED BY <1>4, <1>6, <3>1, <3>2 DEF OrderInv, InboxInv, Reached
  <2> QED BY <1>6, <2>4, <2>5, Raised DEF OrderInv
<1> QED BY <1>8, <1>9

LEMMA OrderPause ==
  ASSUME StoreInv, OrderInv, PausePoll
  PROVE  OrderInv'
<1> DEFINE
      m      == Head(inbox)
      valid  == NowValid(m, simTime)
      cmds   == IF valid THEN Unpack(m) ELSE << >>
      labels == IF valid THEN Labels(m) ELSE << >>
      n      == Len(cmds)
      args   == Place(frame.args, 0, cmds)
      ends   == {i \in 1 .. n : cmds[i].c \in EndsPause}
      first  == CHOOSE i \in ends : \A j \in ends : i <= j
      why    == IF ends = {} THEN "NONE" ELSE cmds[first].c
      rest   == CASE why = "RESUME" -> SubSeq(cmds, first + 1, n)
                  [] why = "STOP"   -> <<cmds[first]>>
                  [] OTHER          -> << >>
      moved  == IF why = "RESUME"
                THEN [i \in DOMAIN args |-> IF i <= Len(rest) THEN args[i + first]
                                                             ELSE args[i]]
                ELSE args
      inPause == AtMost(MaxParams, frame.inPause \o labels)
      r      == Pass(rest, frame.kept, moved)
      high   == m.no * CmdSlots
<1>1. /\ inbox # << >> /\ sent' = sent
      /\ store' = IF valid THEN store ELSE StoreMsg(store, m)
      /\ inbox' = IF why \in {"DETACH", "STOP"} THEN << >> ELSE Tail(inbox)
      /\ IF PauseGoesOn(why)
         THEN frame' = [frame EXCEPT !.args = args, !.inPause = inPause] /\ delivered' = delivered
         ELSE Finish(r, <<Status(<<why>>)>>, frame.doSteer, frame.before, inPause)
  BY Zenon DEF PausePoll, DetachIf, clientVars
<1>2. Len(inbox) \in Nat \ {0} /\ m = inbox[1] /\ m \in Arrived
  <2>1. inbox \in Seq(Arrived) /\ inbox # << >>
    BY <1>1 DEF StoreInv
  <2> QED BY ONLY <2>1
<1>3. valid
  BY <1>2 DEF OrderInv, InboxInv, Numbered, NowValid
<1>4. store' = store /\ inbox' \in {Tail(inbox), << >>}
  BY <1>1, <1>3
<1> HIDE DEF valid, m
<1>5. /\ Numbered(m) /\ InboxInv' /\ Reached = (m.no - 1) * CmdSlots
      /\ Reached' \in Nat /\ high <= Reached'
  BY <1>1, <1>4, ReadsOn DEF OrderInv, m
<1>6. /\ cmds \in Seq(Listed) /\ Rising(cmds) /\ Within(cmds, Reached, high)
      /\ Reached <= high /\ high \in Nat /\ Reached \in Nat
  BY <1>2, <1>3, <1>5, NumbersOfMessage
<1> HIDE DEF cmds, high
<1>7. n \in Nat /\ \A i \in 1 .. n : cmds[i] \in Listed
  BY <1>6, Elements
<1>8. why # "NONE" => first \in 1 .. n
  <2>1. ASSUME ends # {} PROVE first \in ends
    <3>1. ends \in SUBSET Nat
      BY <1>7
    <3>2. \E i \in ends : \A j \in ends : i <= j
      BY <2>1, <3>1, Least
    <3> QED BY <3>2
  <2> QED BY <2>1
<1> HIDE DEF first, ends, why
<1>9. rest \in Seq(Listed) /\ Rising(rest) /\ Within(rest, Reached, high)
  <2>1. CASE why = "RESUME"
    <3> DEFINE s == SubSeq(cmds, first + 1, n)
    <3>1. first \in 1 .. n
      BY <1>8, <2>1
    <3>2. /\ s \in Seq(Listed) /\ Len(s) = n - first
          /\ \A i \in 1 .. Len(s) : i + first \in 1 .. n /\ s[i] = cmds[i + first]
      BY <1>6, <1>7, <3>1
    <3> HIDE DEF s
    <3>3. Within(s, Reached, high)
      BY <1>6, <3>2 DEF Within
    <3>4. Rising(s)
      <4> SUFFICES ASSUME NEW i \in 1 .. Len(s), NEW j \in 1 .. Len(s), i < j, s[i].id > 0, s[j].id > 0
                   PROVE  s[i].id < s[j].id
        BY DEF Rising
      <4>1. i + first < j + first
        BY <1>7, <3>1, <3>2
      <4> QED BY <1>6, <3>2, <4>1 DEF Rising
    <3>5. rest = s
      BY <2>1 DEF s
    <3> QED BY <3>2, <3>3, <3>4, <3>5
  <2>2. CASE why = "STOP"
    <3>1. rest = <<cmds[first]>> /\ first \in 1 .. n
      BY <1>8, <2>2
    <3>2. <<cmds[first]>> \in Seq(Listed)
      BY <1>7, <3>1, Single
    <3>3. Len(<<cmds[first]>>) = 1 /\ <<cmds[first]>>[1] = cmds[first]
      OBVIOUS
    <3>4. Rising(<<cmds[first]>>)
      BY <3>3 DEF Rising
    <3>5. Within(<<cmds[first]>>, Reached, high)
      BY <1>6, <3>1, <3>3 DEF Within
    <3> QED BY <3>1, <3>2, <3>4, <3>5
  <2>3. CASE why # "RESUME" /\ why # "STOP"
    <3>1. rest = << >>
      BY <2>3
    <3>2. << >> \in Seq(Listed) /\ Rising(<< >>) /\ Within(<< >>, Reached, high)
      BY DEF Rising, Within
    <3> QED BY <3>1, <3>2
  <2> QED BY <2>1, <2>2, <2>3
<1> HIDE DEF rest, moved
<1>10. InLine(delivered', frame'.kept, high)
  <2>0. InLine(delivered, frame.kept, Reached)
    BY DEF OrderInv
  <2>1. CASE PauseGoesOn(why)
    <3>1. delivered' = delivered /\ frame' = [frame EXCEPT !.args = args, !.inPause = inPause]
      BY <1>1, <2>1
    <3>2. frame'.kept = frame.kept
      BY <3>1
    <3> QED BY <1>6, <2>0, <3>1, <3>2, Raised
  <2>2. CASE ~PauseGoesOn(why)
    <3>1. Finish(r, <<Status(<<why>>)>>, frame.doSteer, frame.before, inPause)
      BY <1>1, <2>2
    <3>2. InLine(delivered, r.kept, high)
      BY <1>6, <1>9, <2>0, PassInLine
    <3> HIDE DEF r, inPause
    <3> QED BY <3>1, <3>2, FinishInLine
  <2> QED BY <2>1, <2>2
<1> QED BY <1>5, <1>6, <1>10, Raised DEF OrderInv

LEMMA OrderOther ==
  ASSUME NoWaiting, StoreInv, OrderInv,
         \/ \E k \in Kinds : Register(k)
         \/ Finalize \/ Client \/ UNCHANGED vars
  PROVE  OrderInv'
<1>0. Reached \in Nat /\ Reached <= sent * CmdSlots /\ sent * CmdSlots \in Nat
  BY ReachedIsNat DEF OrderInv
<1>1. CASE \/ \E k \in Kinds : Register(k)
           \/ Attach \/ Noticed \/ UNCHANGED vars
  <2>1. UNCHANGED <<inbox, sent, store, delivered, frame>>
    BY <1>1 DEF Register, Attach, Noticed, libVars, historyVars, clientVars, vars
  <2> QED BY <2>1 DEF OrderInv, InboxInv, Reached
<1>2. CASE Finalize
  <2>1. inbox' = << >> /\ store' = << >> /\ UNCHANGED <<sent, delivered, frame>>
    BY <1>2 DEF Finalize, historyVars, clientVars
  <2>2. Reached' = sent * CmdSlots
    BY <2>1 DEF Reached
  <2>3. InLine(delivered, frame.kept, sent * CmdSlots)
    BY <1>0, Raised DEF OrderInv
  <2> QED BY <2>1, <2>2, <2>3 DEF OrderInv, InboxInv
<1>3. ASSUME NEW m \in Draft, m.after = 0, inbox' = Append(inbox, Stamp(m)), sent' = sent + 1,
             UNCHANGED <<store, delivered, frame>>
      PROVE  OrderInv'
  <2>1. inbox \in Seq(Arrived) /\ Len(inbox) \in Nat /\ sent \in Nat
    BY DEF StoreInv
  <2>2. Stamp(m).no = sent + 1 /\ Numbered(Stamp(m)) /\ Stamp(m) \in Arrived
    <3>1. Len(m.cmds) \in Nat
      BY DEF Draft
    <3>2. Stamp(m).no = sent + 1 /\ (sent + 1) - 1 = sent
      BY <2>1 DEF Stamp
    <3>3. \A k \in 1 .. Len(Stamp(m).cmds) : Stamp(m).cmds[k].id = sent * CmdSlots + k
      BY <3>1 DEF Stamp
    <3>4. Stamp(m).after = 0 /\ Stamp(m).no > 0
      BY <1>3, <2>1, <3>2 DEF Stamp
    <3>5. Stamp(m) \in Arrived
      BY <2>1, StampIsMessage
    <3> QED BY <3>2, <3>3, <3>4, <3>5 DEF Numbered
  <2> DEFINE box == Append(inbox, Stamp(m))
  <2>3. /\ Len(box) = Len(inbox) + 1 /\ box[Len(box)] = Stamp(m)
        /\ \A i \in 1 .. Len(inbox) : box[i] = inbox[i]
    BY <2>1, <2>2
  <2> HIDE DEF box
  <2>4. \A i \in 1 .. Len(inbox) : inbox[i].no \in Nat /\ inbox[i].no <= sent
    <3>1. \A i \in 1 .. Len(inbox) : inbox[i] \in Arrived
      BY <2>1, Elements
    <3> QED BY <3>1 DEF OrderInv, InboxInv, Arrived
  <2>5. \A i \in 1 .. Len(box) : i \in 1 .. Len(inbox) \/ i = Len(box)
    BY <2>1, <2>3
  <2>6. \A i \in 1 .. Len(box) : Numbered(box[i]) /\ box[i].no <= sent + 1
    BY <2>1, <2>2, <2>3, <2>4, <2>5 DEF OrderInv, InboxInv
  <2>7. ASSUME NEW i \in 1 .. Len(box), NEW j \in 1 .. Len(box), i < j
        PROVE  box[i].no < box[j].no
    <3>1. i \in 1 .. Len(inbox)
      BY <2>1, <2>3, <2>7
    <3>2. CASE j = Len(box)
      BY <2>1, <2>2, <2>3, <2>4, <3>1, <3>2
    <3>3. CASE j \in 1 .. Len(inbox)
      BY <2>3, <2>7, <3>1, <3>3 DEF OrderInv, InboxInv
    <3> QED BY <2>5, <3>2, <3>3
  <2>8. InboxInv'
    BY <1>3, <2>6, <2>7 DEF OrderInv, InboxInv, Numbered, box
  <2>9. Reached' = Reached
    <3>1. CASE inbox = << >>
      <4>1. box # << >> /\ Head(box) = Stamp(m)
        BY <2>2, <3>1 DEF box
      <4>2. Reached' = ((sent + 1) - 1) * CmdSlots
        BY <1>3, <2>2, <4>1 DEF Reached, box
      <4> QED BY <2>1, <3>1, <4>2 DEF Reached
    <3>2. CASE inbox # << >>
      <4>1. box # << >> /\ Head(box) = Head(inbox)
        BY <2>1, <2>2, <3>2 DEF box
      <4> QED BY <1>3, <3>2, <4>1 DEF Reached, box
    <3> QED BY <3>1, <3>2
  <2> QED BY <1>3, <2>8, <2>9 DEF OrderInv
<1>4. ASSUME NEW m \in Messages, Send(m) PROVE OrderInv'
  <2>1. m \in Draft /\ m.after = 0
    BY MessagesAreDrafts DEF NoWaiting
  <2> QED BY <1>3, <1>4, <2>1 DEF Send, libVars, historyVars
<1>5. CASE Leave
  <2> DEFINE m == [after |-> 0, edits |-> << >>, cmds |-> <<[c |-> "DETACH", a |-> NoArg]>>]
  <2>1. m \in Draft /\ m.after = 0
    BY LastIsDraft
  <2>2. inbox' = Append(inbox, Stamp(m)) /\ sent' = sent + 1 /\ UNCHANGED <<store, delivered, frame>>
    BY <1>5 DEF Leave, libVars, historyVars
  <2> HIDE DEF m
  <2> QED BY <1>3, <2>1, <2>2
<1> QED BY <1>1, <1>2, <1>4, <1>5 DEF Client

LEMMA OrderInit == Init => OrderInv
<1> SUFFICES ASSUME Init PROVE OrderInv
  OBVIOUS
<1>1. inbox = << >> /\ store = << >> /\ sent = 0 /\ delivered = << >> /\ frame.kept = << >>
  BY DEF Init, NoFrame
<1>2. InboxInv /\ Reached = 0
  BY <1>1, ControlAssumption DEF InboxInv, Reached
<1>3. InLine(<< >>, << >>, 0)
  BY DEF InLine, Rising, Within
<1> QED BY <1>1, <1>2, <1>3 DEF OrderInv

LEMMA OrderStep == NoWaiting /\ StoreInv /\ OrderInv /\ [Next]_vars => OrderInv'
  BY OrderControl, OrderPause, OrderOther DEF Next, Call

\* The client's commands come back from Steering_control in the order in which
\* it gave them and none twice, whatever a pause holds back, behind a RESUME
\* or over several pauses: for any messages that do not wait for a time.
THEOREM OrderOfCommands == ASSUME NoWaiting PROVE Spec => []CommandsInOrder
<1>1. StoreInv /\ OrderInv /\ [Next]_vars => OrderInv'
  BY OrderStep
<1>2. OrderInv => CommandsInOrder
  BY DEF OrderInv, InLine, CommandsInOrder
<1> QED BY StoreInit, OrderInit, StoreStep, <1>1, <1>2, PTL DEF Spec
-----------------------------------------------------------------------------
(* Who ends a pause.  A pause is begun by a message of a client, when no    *)
(* message waits, and the connection that brought it is still there.        *)

SteererInv ==
  /\ active => connected
  /\ inbox # << >> => connected
  /\ pc = "paused" => active

LEMMA SteererControl ==
  ASSUME StoreInv, OrderInv, SteererInv, NEW poll \in BOOLEAN, Control(poll)
  PROVE  SteererInv'
<1> DEFINE
      n      == (seqNum % Period) + 1
      now    == IF simTime < MaxTime THEN simTime + 1 ELSE simTime
      act    == active \/ (poll /\ connected)
      steer  == Steers(act, n)
      due    == store # << >> /\ NowValid(Head(store), now)
      reads  == steer /\ inbox # << >>
      valid  == reads /\ NowValid(Head(inbox), now)
      auto   == AutoCmds(n)
      stored == IF due THEN Unpack(Head(store)) ELSE << >>
      fresh  == IF valid THEN Unpack(Head(inbox)) ELSE << >>
      cmds   == auto \o stored \o fresh
      labels == (IF due THEN Labels(Head(store)) ELSE << >>)
                  \o (IF valid THEN Labels(Head(inbox)) ELSE << >>)
      r      == Pass(cmds, << >>, Place(NoFrame.args, 0, cmds))
      quits  == r.why = "DETACH"
<1>1. /\ connected' = (connected /\ ~quits)
      /\ inbox' = IF quits THEN << >> ELSE IF reads THEN Tail(inbox) ELSE inbox
      /\ active' = (act /\ ~quits)
  BY Zenon DEF Control, DetachIf
<1>2. Finish(r, << >>, steer, labels, << >>)
  BY Zenon DEF Control
<1>3. pc' = "paused" => r.why = "PAUSE"
  <2> HIDE DEF r, steer, labels
  <2> QED BY <1>2 DEF Finish
<1>4. ~due /\ stored = << >>
  BY DEF OrderInv, InboxInv
<1>5. auto \in Seq(Listed) /\ \A i \in 1 .. Len(auto) : auto[i].c # "PAUSE"
  BY AutoFits
<1>6. valid => fresh \in Seq(Listed)
  <2>1. valid => Head(inbox) \in Arrived
    BY DEF StoreInv
  <2> HIDE DEF valid
  <2> QED BY <2>1, UnpackedFits
<1>7. ASSUME r.why = "PAUSE" PROVE act /\ reads
  <2>1. CASE valid
    BY <2>1 DEF Steers
  <2>2. CASE ~valid
    <3> HIDE DEF valid, auto
    <3>1. fresh = << >>
      BY <2>2
    <3> HIDE DEF fresh, stored
    <3>2. cmds = auto
      BY <1>4, <1>5, <3>1, ConcatEmptySeq
    <3> HIDE DEF cmds
    <3>3. \E i \in 1 .. Len(cmds) : cmds[i].c = "PAUSE"
      BY <1>5, <1>7, <3>2, PassPicks DEF r
    <3> QED BY <1>5, <3>2, <3>3
  <2> QED BY <2>1, <2>2
<1>8. act => connected
  BY DEF SteererInv
<1> HIDE DEF act, reads, r
<1>9. inbox' # << >> => inbox # << >> /\ ~quits
  <2>1. inbox \in Seq(Arrived)
    BY DEF StoreInv
  <2>2. CASE reads
    <3>1. inbox # << >>
      BY <2>2 DEF reads
    <3> QED BY <1>1, <3>1
  <2> QED BY <1>1, <2>2
<1> QED BY <1>1, <1>3, <1>7, <1>8, <1>9 DEF SteererInv

LEMMA SteererPause ==
  ASSUME StoreInv, SteererInv, PausePoll
  PROVE  SteererInv'
<1> DEFINE
      m     == Head(inbox)
      cmds  == IF NowValid(m, simTime) THEN Unpack(m) ELSE << >>
      ends  == {i \in 1 .. Len(cmds) : cmds[i].c \in EndsPause}
      first == CHOOSE i \in ends : \A j \in ends : i <= j
      why   == IF ends = {} THEN "NONE" ELSE cmds[first].c
      quits == why \in {"DETACH", "STOP"}
<1>1. /\ inbox # << >> /\ pc = "paused"
      /\ connected' = (connected /\ ~quits)
      /\ inbox' = IF quits THEN << >> ELSE Tail(inbox)
      /\ active' = (active /\ ~quits)
  BY Zenon DEF PausePoll, DetachIf
<1>2. PICK rest, moved, steer, before, inPause :
        /\ why = "STOP" => rest = <<cmds[first]>>
        /\ why = "DETACH" => rest = << >>
        /\ why # "NONE" => Finish(Pass(rest, frame.kept, moved), <<Status(<<why>>)>>, steer, before, inPause)
        /\ why = "NONE" => pc' = pc
  <2> DEFINE
      args   == Place(frame.args, 0, cmds)
      rest   == CASE why = "RESUME" -> SubSeq(cmds, first + 1, Len(cmds))
                  [] why = "STOP"   -> <<cmds[first]>>
                  [] OTHER          -> << >>
      moved  == IF why = "RESUME"
                THEN [i \in DOMAIN args |-> IF i <= Len(rest) THEN args[i + first]
                                                             ELSE args[i]]
                ELSE args
      labels == IF NowValid(m, simTime) THEN Labels(m) ELSE << >>
      inPause == AtMost(MaxParams, frame.inPause \o labels)
  <2>1. IF why = "NONE" THEN pc' = pc
        ELSE Finish(Pass(rest, frame.kept, moved), <<Status(<<why>>)>>, frame.doSteer, frame.before, inPause)
    BY Zenon DEF PausePoll, PauseGoesOn
  <2>2. (why = "STOP" => rest = <<cmds[first]>>) /\ (why = "DETACH" => rest = << >>)
    OBVIOUS
  <2> HIDE DEF why, rest, moved, inPause, cmds, first
  <2> QED BY <2>1, <2>2, Zenon
<1>3. m \in Arrived
  <2>1. inbox \in Seq(Arrived) /\ inbox # << >>
    BY <1>1 DEF StoreInv
  <2> QED BY ONLY <2>1
<1>4. cmds \in Seq(Listed)
  <2> HIDE DEF m
  <2> QED BY <1>3, UnpackedFits
<1> HIDE DEF cmds, m
<1>5. Len(cmds) \in Nat /\ \A i \in 1 .. Len(cmds) : cmds[i] \in Listed
  BY <1>4, Elements
<1>6. why # "NONE" => first \in 1 .. Len(cmds) /\ cmds[first].c = why
  <2>1. ASSUME ends # {} PROVE first \in ends
    <3>1. ends \in SUBSET Nat
      BY <1>5
    <3>2. \E i \in ends : \A j \in ends : i <= j
      BY <2>1, <3>1, Least
    <3> QED BY <3>2
  <2> QED BY <2>1
<1> HIDE DEF first, ends, why
<1>7. ASSUME quits PROVE pc' = "sim"
  <2> DEFINE r == Pass(rest, frame.kept, moved)
  <2>1. rest \in Seq(Listed) /\ \A i \in 1 .. Len(rest) : rest[i].c # "PAUSE"
    <3>1. CASE why = "STOP"
      <4>1. rest = <<cmds[first]>> /\ cmds[first] \in Listed /\ cmds[first].c = "STOP"
        BY <1>2, <1>5, <1>6, <3>1
      <4>2. <<cmds[first]>> \in Seq(Listed)
        BY <4>1, Single
      <4> QED BY <4>1, <4>2
    <3>2. CASE why = "DETACH"
      BY <1>2, <3>2
    <3> QED BY <1>7, <3>1, <3>2
  <2>2. r.why # "PAUSE"
    BY <2>1, PassPicks
  <2>3. Finish(r, <<Status(<<why>>)>>, steer, before, inPause)
    BY <1>2, <1>7
  <2> HIDE DEF r
  <2> QED BY <2>2, <2>3 DEF Finish
<1>8. inbox' # << >> => ~quits
  BY <1>1
<1> HIDE DEF quits
<1> QED BY <1>1, <1>7, <1>8 DEF SteererInv

LEMMA SteererOther ==
  ASSUME SteererInv,
         \/ \E k \in Kinds : Register(k)
         \/ Finalize \/ Client \/ UNCHANGED vars
  PROVE  SteererInv'
<1> USE DEF SteererInv
<1>1. CASE \E k \in Kinds : Register(k)
  BY <1>1 DEF Register, clientVars
<1>2. CASE Finalize
  BY <1>2 DEF Finalize
<1>3. CASE Client \/ UNCHANGED vars
  <2>1. UNCHANGED <<pc, active>> /\ (connected' = connected \/ connected')
    BY <1>3 DEF Client, Attach, Send, Leave, Noticed, libVars, vars
  <2>2. inbox' = inbox \/ connected'
    BY <1>3 DEF Client, Attach, Send, Leave, Noticed, vars
  <2> QED BY <2>1, <2>2
<1> QED BY <1>1, <1>2, <1>3

\* The library never waits in a pause that no client can end, whoever detaches
\* or is detached, in whatever message the PAUSE came and whatever the
\* application registered to be emitted: when messages do not wait for a time.
THEOREM SomeoneToResume == ASSUME NoWaiting PROVE Spec => []PausedHasSteerer
<1>1. Init => SteererInv
  BY DEF Init, SteererInv
<1>2. StoreInv /\ OrderInv /\ SteererInv /\ [Next]_vars => SteererInv'
  BY SteererControl, SteererPause, SteererOther DEF Next, Call
<1>3. SteererInv => PausedHasSteerer
  BY DEF SteererInv, PausedHasSteerer
<1>4. StoreInv /\ OrderInv /\ [Next]_vars => OrderInv'
  BY OrderStep
<1> QED BY StoreInit, OrderInit, StoreStep, <1>1, <1>2, <1>3, <1>4, PTL DEF Spec
=============================================================================
