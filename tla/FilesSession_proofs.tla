------------------------- MODULE FilesSession_proofs -------------------------
(***************************************************************************)
(* Theorems about FilesSession, for any set of clients, any number of      *)
(* attempts to attach, of messages and of starts, and any order of them.   *)
(***************************************************************************)
EXTENDS FilesSession, FiniteSetTheorems, TLAPS

\* An application that is not up knows no client; while it works for one the
\* lock is there.  Clients only ever create the lock.
KnownInv ==
  /\ apc \in {"down", "start", "cleared", "run", "report", "detach", "unlocked",
              "confirm", "close", "sweep"}
  /\ apc \in {"down", "start", "cleared"} => active = FALSE
  /\ apc \in {"run", "report"} /\ active => lock

LEMMA KnownInit == Init => KnownInv
  BY DEF Init, KnownInv

LEMMA SteeringStep == KnownInv /\ Steering => KnownInv'
<1> SUFFICES ASSUME KnownInv, Steering PROVE KnownInv'
  OBVIOUS
<1> USE DEF KnownInv, Becomes
<1>1. CASE Poll
  BY <1>1 DEF Poll, files
<1>2. CASE EmitDefs
  BY <1>2 DEF EmitDefs
<1>3. CASE ReadControl
  BY <1>3 DEF ReadControl
<1>4. CASE Report
  BY <1>4 DEF Report
<1>5. CASE Detach1
  BY <1>5 DEF Detach1
<1>6. CASE Detach2
  BY <1>6 DEF Detach2
<1>7. CASE Detach3
  BY <1>7 DEF Detach3
<1> QED BY <1>1, <1>2, <1>3, <1>4, <1>5, <1>6, <1>7 DEF Steering

LEMMA LifeStep == KnownInv /\ Life => KnownInv'
<1> SUFFICES ASSUME KnownInv, Life PROVE KnownInv'
  OBVIOUS
<1> USE DEF KnownInv, Becomes
<1>1. CASE Start1 \/ Start2 \/ Start3
  BY <1>1 DEF Start1, Start2, Start3
<1>2. CASE Finalize1 \/ Finalize2 \/ Finalize3
  BY <1>2 DEF Finalize1, Finalize2, Finalize3
<1>3. CASE Crash
  BY <1>3 DEF Crash, files
<1> QED BY <1>1, <1>2, <1>3 DEF Life

LEMMA ClientStep ==
  ASSUME NEW s \in Steerers, KnownInv, Client(s)
  PROVE  KnownInv'
<1>1. UNCHANGED <<apc, active>>
  BY DEF Client, Attach1, Attach2, Attach3, Attach4, Send, Read, Leave1, Leave2, Die, app
<1>2. lock => lock'
  BY DEF Client, Attach1, Attach2, Attach3, Attach4, Send, Read, Leave1, Leave2, Die, files
<1> QED BY <1>1, <1>2 DEF KnownInv

\* Whatever clients do, and however often the application detaches, stops or is
\* killed, it never goes on working for a client whose lock is gone.
THEOREM LockedWhileActive == Spec => []ActiveMeansLocked
<1>1. KnownInv /\ [Next]_vars => KnownInv'
  <2>1. KnownInv /\ UNCHANGED vars => KnownInv'
    BY DEF KnownInv, vars, files, app
  <2> QED BY SteeringStep, LifeStep, ClientStep, <2>1 DEF Next
<1>2. KnownInv => ActiveMeansLocked
  BY DEF KnownInv, ActiveMeansLocked
<1> QED BY KnownInit, <1>1, <1>2, PTL DEF Spec

-----------------------------------------------------------------------------
(* Messages.  Nothing has crossed yet: one attempt to attach at a time, none *)
(* while a session ends, one life of the application.                        *)

\* The application has not said yet that it can be steered.
NotSteerableYet == apc \in {"start", "cleared"} \/ (apc = "down" /\ starts = 0)

Up == apc \notin {"down", "start", "cleared"}

NobodyAttached == \A s \in Steerers : pc[s] # "attached"

Commands == [from : Steerers \cup {Nobody}, cmd : {"other", "DETACH"}]
Answers == [kind : {"defs", "status", "DETACH"}, to : Steerers \cup {Nobody}]

TypeInv ==
  /\ lock \in BOOLEAN /\ steerable \in BOOLEAN /\ active \in BOOLEAN
  /\ control \in Seq(Commands) /\ status \in Seq(Answers)
  /\ apc \in {"down", "start", "cleared", "run", "report", "detach", "unlocked",
              "confirm", "close", "sweep"}
  /\ pc \in [Steerers -> {"idle", "check", "test", "take", "attached", "leave"}]
  /\ starts \in {0, 1} /\ (apc # "down" => starts = 1)
  /\ holder \in Steerers \cup {Nobody} /\ served \in Steerers \cup {Nobody}

\* How far the application has got, and what that says of the lock.
PhaseInv ==
  /\ NotSteerableYet \/ apc \in {"close", "sweep"} => steerable = FALSE
  /\ active => Up /\ served = holder
  /\ active /\ apc \in {"run", "close"} => lock
  /\ apc = "report" => active /\ lock
  /\ apc = "detach" => lock
  /\ apc \in {"unlocked", "confirm", "sweep"} => ~lock

\* One client attaches at a time; it has seen no lock, and there is none until
\* it creates it.  The client that is attached has the lock, unless the
\* application closes and will let in no other.
ClientInv ==
  /\ \A s, t \in Attaching : s = t
  /\ apc \in {"unlocked", "confirm", "sweep"} => Attaching = {}
  /\ \A s \in Steerers : pc[s] \in {"test", "take"} => ~lock
  /\ \A s \in Steerers : pc[s] = "take" => NobodyAttached
  /\ \A s \in Steerers : pc[s] = "attached" =>
       holder = s /\ (lock \/ (steerable = FALSE /\ apc \in {"sweep", "down"}))
  /\ \A s \in Steerers : NotSteerableYet => pc[s] \in {"idle", "check", "test"}
  /\ apc \in {"detach", "unlocked", "confirm"} => NobodyAttached

\* Every control message is of the last client that was attached; after its
\* DETACH nobody is attached until the application has let it go.
ControlInv ==
  /\ Up => \A i \in 1 .. Len(control) : control[i].from = holder
  /\ apc \in {"run", "close"} /\ ~lock => control = << >>
  /\ apc \in {"cleared", "confirm"} => control = << >>
  /\ apc \in {"run", "report"} /\ (\E i \in 1 .. Len(control) : control[i].cmd = "DETACH")
       => lock /\ NobodyAttached

\* Old status messages are gone when a client gets the lock.
StatusInv ==
  /\ Attaching # {} /\ (~lock \/ starts = 0) => status = << >>
  /\ \A s \in Steerers : pc[s] = "attached" =>
       \A i \in 1 .. Len(status) : status[i].to = s

SessionInv == TypeInv /\ PhaseInv /\ ClientInv /\ ControlInv /\ StatusInv

LEMMA NoMessages == \A S : << >> \in Seq(S)
  OBVIOUS

LEMMA OneMessage ==
  ASSUME NEW S, NEW m \in S
  PROVE  <<m>> \in Seq(S)
  OBVIOUS

LEMMA EmitType ==
  ASSUME TypeInv, NEW kind \in {"defs", "status", "DETACH"}, Emit(kind)
  PROVE  status' \in Seq(Answers)
<1>1. [kind |-> kind, to |-> served] \in Answers
  BY DEF TypeInv, Answers
<1> QED BY <1>1 DEF TypeInv, Emit

LEMMA SteeringKeeps ==
  ASSUME ~crossed', SessionInv, Steering
  PROVE  SessionInv'
<1> USE DEF SessionInv, Becomes, Attaching, NotSteerableYet, Up, NobodyAttached, files, app, client, past
<1>1. CASE Poll
  <2>1. TypeInv'
    BY <1>1 DEF Poll, TypeInv
  <2>2. PhaseInv'
    BY <1>1 DEF Poll, TypeInv, PhaseInv
  <2>3. ClientInv'
    BY <1>1 DEF Poll, TypeInv, PhaseInv, ClientInv
  <2>4. ControlInv'
    BY <1>1 DEF Poll, TypeInv, PhaseInv, ClientInv, ControlInv
  <2>5. StatusInv'
    BY <1>1 DEF Poll, TypeInv, PhaseInv, ClientInv, StatusInv
  <2> QED BY <2>1, <2>2, <2>3, <2>4, <2>5
<1>2. CASE EmitDefs
  <2>1. TypeInv'
    BY <1>2, EmitType DEF EmitDefs, TypeInv
  <2>2. PhaseInv'
    BY <1>2 DEF EmitDefs, Emit, TypeInv, PhaseInv
  <2>3. ClientInv'
    BY <1>2 DEF EmitDefs, Emit, TypeInv, PhaseInv, ClientInv
  <2>4. ControlInv'
    BY <1>2 DEF EmitDefs, Emit, TypeInv, PhaseInv, ClientInv, ControlInv
  <2>5. StatusInv'
    <3>1. apc = "run" /\ active /\ UNCHANGED <<lock, starts, client>>
      BY <1>2 DEF EmitDefs
    <3>2. lock /\ starts # 0 /\ served = holder
      BY <3>1 DEF TypeInv, PhaseInv
    <3>3. ASSUME NEW s \in Steerers, pc'[s] = "attached"
          PROVE  \A i \in 1 .. Len(status') : status'[i].to = s
      <4>1. pc[s] = "attached" /\ holder = s
        BY <3>1, <3>3 DEF ClientInv
      <4>2. \A i \in 1 .. Len(status) : status[i].to = s
        BY <4>1 DEF StatusInv
      <4>3. CASE UNCHANGED status
        BY <4>2, <4>3
      <4>4. CASE Emit("defs")
        BY <3>2, <4>1, <4>2, <4>4 DEF Emit, TypeInv
      <4> QED BY <1>2, <4>3, <4>4 DEF EmitDefs
    <3> QED BY <3>1, <3>2, <3>3 DEF StatusInv
  <2> QED BY <2>1, <2>2, <2>3, <2>4, <2>5
<1>3. CASE ReadControl
  <2>1. TypeInv'
    BY <1>3, NoMessages DEF ReadControl, TypeInv
  <2>2. PhaseInv'
    BY <1>3 DEF ReadControl, TypeInv, PhaseInv
  <2>3. ClientInv'
    BY <1>3 DEF ReadControl, TypeInv, PhaseInv, ClientInv, ControlInv
  <2>4. ControlInv'
    BY <1>3 DEF ReadControl, TypeInv, PhaseInv, ClientInv, ControlInv
  <2>5. StatusInv'
    BY <1>3 DEF ReadControl, TypeInv, PhaseInv, ClientInv, StatusInv
  <2> QED BY <2>1, <2>2, <2>3, <2>4, <2>5
<1>4. CASE Report
  <2>1. TypeInv'
    BY <1>4, EmitType DEF Report, EmitIfRoom, TypeInv
  <2>2. PhaseInv'
    BY <1>4 DEF Report, EmitIfRoom, Emit, TypeInv, PhaseInv
  <2>3. ClientInv'
    BY <1>4 DEF Report, EmitIfRoom, Emit, TypeInv, PhaseInv, ClientInv
  <2>4. ControlInv'
    BY <1>4 DEF Report, EmitIfRoom, Emit, TypeInv, PhaseInv, ClientInv, ControlInv
  <2>5. StatusInv'
    <3>1. apc = "report" /\ UNCHANGED <<lock, starts, client>>
      BY <1>4 DEF Report
    <3>2. lock /\ starts # 0 /\ served = holder
      BY <3>1 DEF TypeInv, PhaseInv
    <3>3. ASSUME NEW s \in Steerers, pc'[s] = "attached"
          PROVE  \A i \in 1 .. Len(status') : status'[i].to = s
      <4>1. pc[s] = "attached" /\ holder = s
        BY <3>1, <3>3 DEF ClientInv
      <4>2. \A i \in 1 .. Len(status) : status[i].to = s
        BY <4>1 DEF StatusInv
      <4>3. CASE UNCHANGED status
        BY <4>2, <4>3
      <4>4. CASE Emit("status")
        BY <3>2, <4>1, <4>2, <4>4 DEF Emit, TypeInv
      <4> QED BY <1>4, <4>3, <4>4 DEF Report, EmitIfRoom
    <3> QED BY <3>1, <3>2, <3>3 DEF StatusInv
  <2> QED BY <2>1, <2>2, <2>3, <2>4, <2>5
<1>5. CASE Detach1
  <2>1. TypeInv'
    BY <1>5 DEF Detach1, TypeInv
  <2>2. PhaseInv'
    BY <1>5 DEF Detach1, TypeInv, PhaseInv
  <2>3. ClientInv'
    BY <1>5 DEF Detach1, TypeInv, PhaseInv, ClientInv
  <2>4. ControlInv'
    BY <1>5 DEF Detach1, TypeInv, PhaseInv, ClientInv, ControlInv
  <2>5. StatusInv'
    BY <1>5 DEF Detach1, TypeInv, PhaseInv, ClientInv, StatusInv
  <2> QED BY <2>1, <2>2, <2>3, <2>4, <2>5
<1>6. CASE Detach2
  <2>1. TypeInv'
    BY <1>6, NoMessages DEF Detach2, TypeInv
  <2>2. PhaseInv'
    BY <1>6 DEF Detach2, TypeInv, PhaseInv
  <2>3. ClientInv'
    BY <1>6 DEF Detach2, TypeInv, PhaseInv, ClientInv
  <2>4. ControlInv'
    BY <1>6 DEF Detach2, TypeInv, PhaseInv, ClientInv, ControlInv
  <2>5. StatusInv'
    BY <1>6 DEF Detach2, TypeInv, PhaseInv, ClientInv, StatusInv
  <2> QED BY <2>1, <2>2, <2>3, <2>4, <2>5
<1>7. CASE Detach3
  <2>1. TypeInv'
    BY <1>7, EmitType DEF Detach3, TypeInv
  <2>2. PhaseInv'
    BY <1>7 DEF Detach3, Emit, TypeInv, PhaseInv
  <2>3. ClientInv'
    BY <1>7 DEF Detach3, Emit, TypeInv, PhaseInv, ClientInv
  <2>4. ControlInv'
    BY <1>7 DEF Detach3, Emit, TypeInv, PhaseInv, ClientInv, ControlInv
  <2>5. StatusInv'
    BY <1>7 DEF Detach3, Emit, TypeInv, PhaseInv, ClientInv, StatusInv
  <2> QED BY <2>1, <2>2, <2>3, <2>4, <2>5
<1> QED BY <1>1, <1>2, <1>3, <1>4, <1>5, <1>6, <1>7 DEF Steering

LEMMA LifeKeeps ==
  ASSUME ~crossed', SessionInv, Life
  PROVE  SessionInv'
<1> USE DEF SessionInv, Becomes, Attaching, NotSteerableYet, Up, NobodyAttached, files, app, client, past
<1>1. CASE Start1
  <2>1. TypeInv'
    <3>1. starts = 0
      <4>1. crossed' = (crossed \/ starts # 0)
        BY <1>1 DEF Start1
      <4> QED BY ONLY <4>1, ~crossed'
    <3>2. /\ starts' = 1 /\ lock' = FALSE /\ apc' = "start"
          /\ UNCHANGED <<steerable, control, status, active, served, pc, holder>>
      BY <1>1, <3>1 DEF Start1
    <3> QED BY <3>1, <3>2 DEF TypeInv
  <2>2. PhaseInv'
    BY <1>1 DEF Start1, TypeInv, PhaseInv
  <2>3. ClientInv'
    BY <1>1 DEF Start1, TypeInv, PhaseInv, ClientInv
  <2>4. ControlInv'
    BY <1>1 DEF Start1, TypeInv, PhaseInv, ClientInv, ControlInv
  <2>5. StatusInv'
    BY <1>1 DEF Start1, TypeInv, PhaseInv, ClientInv, StatusInv
  <2> QED BY <2>1, <2>2, <2>3, <2>4, <2>5
<1>2. CASE Start2
  <2>1. TypeInv'
    BY <1>2, NoMessages DEF Start2, TypeInv
  <2>2. PhaseInv'
    BY <1>2 DEF Start2, TypeInv, PhaseInv
  <2>3. ClientInv'
    BY <1>2 DEF Start2, TypeInv, PhaseInv, ClientInv
  <2>4. ControlInv'
    BY <1>2 DEF Start2, TypeInv, PhaseInv, ClientInv, ControlInv
  <2>5. StatusInv'
    BY <1>2 DEF Start2, TypeInv, PhaseInv, ClientInv, StatusInv
  <2> QED BY <2>1, <2>2, <2>3, <2>4, <2>5
<1>3. CASE Start3
  <2>1. TypeInv'
    BY <1>3 DEF Start3, TypeInv
  <2>2. PhaseInv'
    BY <1>3 DEF Start3, TypeInv, PhaseInv
  <2>3. ClientInv'
    BY <1>3 DEF Start3, TypeInv, PhaseInv, ClientInv
  <2>4. ControlInv'
    BY <1>3 DEF Start3, TypeInv, PhaseInv, ClientInv, ControlInv
  <2>5. StatusInv'
    BY <1>3 DEF Start3, TypeInv, PhaseInv, ClientInv, StatusInv
  <2> QED BY <2>1, <2>2, <2>3, <2>4, <2>5
<1>4. CASE Finalize1
  <2>1. TypeInv'
    BY <1>4 DEF Finalize1, TypeInv
  <2>2. PhaseInv'
    BY <1>4 DEF Finalize1, TypeInv, PhaseInv
  <2>3. ClientInv'
    BY <1>4 DEF Finalize1, TypeInv, PhaseInv, ClientInv
  <2>4. ControlInv'
    BY <1>4 DEF Finalize1, TypeInv, PhaseInv, ClientInv, ControlInv
  <2>5. StatusInv'
    BY <1>4 DEF Finalize1, TypeInv, PhaseInv, ClientInv, StatusInv
  <2> QED BY <2>1, <2>2, <2>3, <2>4, <2>5
<1>5. CASE Finalize2
  <2>1. TypeInv'
    BY <1>5 DEF Finalize2, TypeInv
  <2>2. PhaseInv'
    BY <1>5 DEF Finalize2, TypeInv, PhaseInv
  <2>3. ClientInv'
    BY <1>5 DEF Finalize2, TypeInv, PhaseInv, ClientInv
  <2>4. ControlInv'
    BY <1>5 DEF Finalize2, TypeInv, PhaseInv, ClientInv, ControlInv
  <2>5. StatusInv'
    BY <1>5 DEF Finalize2, TypeInv, PhaseInv, ClientInv, StatusInv
  <2> QED BY <2>1, <2>2, <2>3, <2>4, <2>5
<1>6. CASE Finalize3
  <2>1. TypeInv'
    BY <1>6, NoMessages DEF Finalize3, TypeInv
  <2>2. PhaseInv'
    BY <1>6 DEF Finalize3, TypeInv, PhaseInv
  <2>3. ClientInv'
    BY <1>6 DEF Finalize3, TypeInv, PhaseInv, ClientInv
  <2>4. ControlInv'
    BY <1>6 DEF Finalize3, TypeInv, PhaseInv, ClientInv, ControlInv
  <2>5. StatusInv'
    BY <1>6 DEF Finalize3, TypeInv, PhaseInv, ClientInv, StatusInv
  <2> QED BY <2>1, <2>2, <2>3, <2>4, <2>5
<1>7. CASE Crash
  <2>1. TypeInv'
    BY <1>7 DEF Crash, TypeInv
  <2>2. PhaseInv'
    BY <1>7 DEF Crash, TypeInv, PhaseInv
  <2>3. ClientInv'
    BY <1>7 DEF Crash, TypeInv, PhaseInv, ClientInv
  <2>4. ControlInv'
    BY <1>7 DEF Crash, TypeInv, PhaseInv, ClientInv, ControlInv
  <2>5. StatusInv'
    BY <1>7 DEF Crash, TypeInv, PhaseInv, ClientInv, StatusInv
  <2> QED BY <2>1, <2>2, <2>3, <2>4, <2>5
<1> QED BY <1>1, <1>2, <1>3, <1>4, <1>5, <1>6, <1>7 DEF Life

LEMMA ClientKeeps ==
  ASSUME ~crossed', SessionInv, NEW s \in Steerers, Client(s)
  PROVE  SessionInv'
<1> USE DEF SessionInv, Goes, Attaching, NotSteerableYet, Up, NobodyAttached, LettingGo, files, app, client, past
<1>1. CASE Attach1(s)
  <2>1. TypeInv'
    BY <1>1 DEF Attach1, TypeInv
  <2>2. PhaseInv'
    BY <1>1 DEF Attach1, TypeInv, PhaseInv, ClientInv
  <2>3. ClientInv'
    BY <1>1 DEF Attach1, TypeInv, PhaseInv, ClientInv
  <2>4. ControlInv'
    BY <1>1 DEF Attach1, TypeInv, PhaseInv, ClientInv, ControlInv
  <2>5. StatusInv'
    BY <1>1 DEF Attach1, TypeInv, PhaseInv, ClientInv, StatusInv
  <2> QED BY <2>1, <2>2, <2>3, <2>4, <2>5
<1>2. CASE Attach2(s)
  <2>1. TypeInv'
    BY <1>2 DEF Attach2, TypeInv
  <2>2. PhaseInv'
    BY <1>2 DEF Attach2, TypeInv, PhaseInv, ClientInv
  <2>3. ClientInv'
    BY <1>2 DEF Attach2, TypeInv, PhaseInv, ClientInv
  <2>4. ControlInv'
    BY <1>2 DEF Attach2, TypeInv, PhaseInv, ClientInv, ControlInv
  <2>5. StatusInv'
    BY <1>2 DEF Attach2, TypeInv, PhaseInv, ClientInv, StatusInv
  <2> QED BY <2>1, <2>2, <2>3, <2>4, <2>5
<1>3. CASE Attach3(s)
  <2>1. TypeInv'
    BY <1>3 DEF Attach3, TypeInv
  <2>2. PhaseInv'
    BY <1>3 DEF Attach3, TypeInv, PhaseInv, ClientInv
  <2>3. ClientInv'
    BY <1>3 DEF Attach3, TypeInv, PhaseInv, ClientInv
  <2>4. ControlInv'
    BY <1>3 DEF Attach3, TypeInv, PhaseInv, ClientInv, ControlInv
  <2>5. StatusInv'
    BY <1>3 DEF Attach3, TypeInv, PhaseInv, ClientInv, StatusInv
  <2> QED BY <2>1, <2>2, <2>3, <2>4, <2>5
<1>4. CASE Attach4(s)
  <2>1. TypeInv'
    BY <1>4 DEF Attach4, TypeInv
  <2>2. PhaseInv'
    BY <1>4 DEF Attach4, TypeInv, PhaseInv, ClientInv
  <2>3. ClientInv'
    BY <1>4 DEF Attach4, TypeInv, PhaseInv, ClientInv
  <2>4. ControlInv'
    BY <1>4 DEF Attach4, TypeInv, PhaseInv, ClientInv, ControlInv
  <2>5. StatusInv'
    BY <1>4 DEF Attach4, TypeInv, PhaseInv, ClientInv, StatusInv
  <2> QED BY <2>1, <2>2, <2>3, <2>4, <2>5
<1>5. CASE Send(s)
  <2>1. TypeInv'
    <3>1. [from |-> s, cmd |-> "other"] \in Commands
      BY DEF Commands
    <3> QED BY <1>5, <3>1 DEF Send, TypeInv
  <2>2. PhaseInv'
    BY <1>5 DEF Send, TypeInv, PhaseInv, ClientInv
  <2>3. ClientInv'
    BY <1>5 DEF Send, TypeInv, PhaseInv, ClientInv
  <2>4. ControlInv'
    BY <1>5 DEF Send, TypeInv, PhaseInv, ClientInv, ControlInv
  <2>5. StatusInv'
    BY <1>5 DEF Send, TypeInv, PhaseInv, ClientInv, StatusInv
  <2> QED BY <2>1, <2>2, <2>3, <2>4, <2>5
<1>6. CASE Read(s)
  <2>1. TypeInv'
    <3>1. status' \in Seq(Answers)
      BY <1>6 DEF Read, TypeInv
    <3>2. pc' \in [Steerers -> {"idle", "check", "test", "take", "attached", "leave"}]
      BY <1>6 DEF Read, Goes, TypeInv
    <3> QED BY <1>6, <3>1, <3>2 DEF Read, TypeInv
  <2>2. PhaseInv'
    BY <1>6 DEF Read, TypeInv, PhaseInv, ClientInv
  <2>3. ClientInv'
    BY <1>6 DEF Read, TypeInv, PhaseInv, ClientInv
  <2>4. ControlInv'
    BY <1>6 DEF Read, TypeInv, PhaseInv, ClientInv, ControlInv
  <2>5. StatusInv'
    BY <1>6 DEF Read, TypeInv, PhaseInv, ClientInv, StatusInv
  <2> QED BY <2>1, <2>2, <2>3, <2>4, <2>5
<1>7. CASE Leave1(s)
  <2>1. TypeInv'
    <3>1. [from |-> s, cmd |-> "DETACH"] \in Commands
      BY DEF Commands
    <3> QED BY <1>7, <3>1 DEF Leave1, TypeInv
  <2>2. PhaseInv'
    BY <1>7 DEF Leave1, TypeInv, PhaseInv, ClientInv
  <2>3. ClientInv'
    BY <1>7 DEF Leave1, TypeInv, PhaseInv, ClientInv
  <2>4. ControlInv'
    <3>1. CASE UNCHANGED control
      BY <1>7, <3>1 DEF Leave1, TypeInv, PhaseInv, ClientInv, ControlInv
    <3>2. CASE control' = Append(control, [from |-> s, cmd |-> "DETACH"])
      BY <1>7, <3>2 DEF Leave1, TypeInv, PhaseInv, ClientInv, ControlInv
    <3> QED BY <1>7, <3>1, <3>2 DEF Leave1
  <2>5. StatusInv'
    BY <1>7 DEF Leave1, TypeInv, PhaseInv, ClientInv, StatusInv
  <2> QED BY <2>1, <2>2, <2>3, <2>4, <2>5
<1>8. CASE Leave2(s)
  <2>1. TypeInv'
    BY <1>8 DEF Leave2, TypeInv
  <2>2. PhaseInv'
    BY <1>8 DEF Leave2, TypeInv, PhaseInv, ClientInv
  <2>3. ClientInv'
    BY <1>8 DEF Leave2, TypeInv, PhaseInv, ClientInv
  <2>4. ControlInv'
    BY <1>8 DEF Leave2, TypeInv, PhaseInv, ClientInv, ControlInv
  <2>5. StatusInv'
    BY <1>8 DEF Leave2, TypeInv, PhaseInv, ClientInv, StatusInv
  <2> QED BY <2>1, <2>2, <2>3, <2>4, <2>5
<1>9. CASE Die(s)
  <2>1. TypeInv'
    BY <1>9 DEF Die, TypeInv
  <2>2. PhaseInv'
    BY <1>9 DEF Die, TypeInv, PhaseInv, ClientInv
  <2>3. ClientInv'
    BY <1>9 DEF Die, TypeInv, PhaseInv, ClientInv
  <2>4. ControlInv'
    BY <1>9 DEF Die, TypeInv, PhaseInv, ClientInv, ControlInv
  <2>5. StatusInv'
    BY <1>9 DEF Die, TypeInv, PhaseInv, ClientInv, StatusInv
  <2> QED BY <2>1, <2>2, <2>3, <2>4, <2>5
<1> QED BY <1>1, <1>2, <1>3, <1>4, <1>5, <1>6, <1>7, <1>8, <1>9 DEF Client

LEMMA SessionInit ==
  ASSUME Init
  PROVE  SessionInv
<1> USE DEF Init, NotSteerableYet, Up, Attaching, NobodyAttached
<1>1. TypeInv
  <2>1. [from |-> Nobody, cmd |-> "other"] \in Commands
    BY DEF Commands
  <2>2. [kind |-> "status", to |-> Nobody] \in Answers
    BY DEF Answers
  <2>3. control \in Seq(Commands)
    BY <2>1, NoMessages, OneMessage
  <2>4. status \in Seq(Answers)
    BY <2>2, NoMessages, OneMessage
  <2> QED BY <2>3, <2>4 DEF TypeInv
<1>2. PhaseInv
  BY DEF PhaseInv
<1>3. ClientInv
  BY DEF ClientInv
<1>4. ControlInv
  BY DEF ControlInv
<1>5. StatusInv
  BY DEF StatusInv
<1> QED BY <1>1, <1>2, <1>3, <1>4, <1>5 DEF SessionInv

LEMMA CrossedStays == [Next]_vars /\ ~crossed' => ~crossed
<1> USE DEF vars, client, past
<1>1. Steering => (~crossed' => ~crossed)
  BY DEF Steering, Poll, EmitDefs, ReadControl, Report, Detach1, Detach2, Detach3
<1>2. Life => (~crossed' => ~crossed)
  BY DEF Life, Start1, Start2, Start3, Finalize1, Finalize2, Finalize3, Crash
<1>3. ASSUME NEW s \in Steerers, Client(s), ~crossed' PROVE ~crossed
  BY <1>3 DEF Client, Attach1, Attach2, Attach3, Attach4, Send, Read, Leave1, Leave2, Die
<1> QED BY <1>1, <1>2, <1>3 DEF Next

LEMMA SessionKept == Spec => [](~crossed => SessionInv)
<1> DEFINE Kept == ~crossed => SessionInv
<1>1. Init => Kept
  BY SessionInit
<1>2. Kept /\ [Next]_vars => Kept'
  <2> SUFFICES ASSUME Kept, [Next]_vars, ~crossed' PROVE SessionInv'
    OBVIOUS
  <2>0. SessionInv
    BY CrossedStays
  <2> HIDE DEF Kept
  <2>1. CASE UNCHANGED vars
    BY <2>0, <2>1 DEF SessionInv, TypeInv, PhaseInv, ClientInv, ControlInv, StatusInv, Attaching,
                NotSteerableYet, Up, NobodyAttached, vars, files, app, client, past
  <2>2. CASE Steering
    BY <2>0, <2>2, SteeringKeeps
  <2>3. CASE Life
    BY <2>0, <2>3, LifeKeeps
  <2>4. CASE \E s \in Steerers : Client(s)
    BY <2>0, <2>4, ClientKeeps
  <2> QED BY <2>1, <2>2, <2>3, <2>4 DEF Next
<1> QED BY <1>1, <1>2, PTL DEF Spec

\* Until an attempt to attach falls together with another one or with an end of a session,
\* or the application is started again, no message outlives its session: the application
\* carries out no command of an earlier client, and no client takes a status
\* meant for another for its own.
THEOREM MessagesOfTheSession == Spec => []OwnMessages
<1>1. (~crossed => SessionInv) => OwnMessages
  BY DEF SessionInv, PhaseInv, ControlInv, StatusInv, OwnMessages, Attached
<1> QED BY <1>1, SessionKept, PTL

-----------------------------------------------------------------------------
(* Two clients.  Attempts to attach, ends and starts may cross in any way   *)
(* here.                                                                    *)

\* It can be steered, or will be able to once it has started.
Open == steerable \/ apc \in {"start", "cleared"}

\* Whoever creates the lock now finds nobody attached and will not be let go for another.
Free == /\ Attached = {}
        /\ apc # "detach"
        /\ DetachSent => apc = "start"

\* An application that can be steered and shows no lock is free; so it is for a client that
\* has seen no lock when none has been created since; and a DETACH is the last word of the
\* client that was attached.
FreeInv ==
  /\ control \in Seq(Commands)
  /\ pc \in [Steerers -> {"idle", "check", "test", "take", "attached", "leave"}]
  /\ apc \in {"close", "sweep"} => ~steerable
  /\ Open /\ ~lock => Free
  /\ \A s \in Steerers : pc[s] = "take" /\ s \notin stale => Free
  /\ \A s \in Steerers : pc[s] = "test" /\ s \notin stale /\ Open => Free
  /\ DetachSent /\ apc # "start" => Attached = {}
  /\ apc # "start" => \A i \in 1 .. Len(control) : control[i].cmd = "DETACH" => i = Len(control)
  /\ apc = "detach" => control = << >> /\ Attached = {}
  /\ \A s, t \in Attached : s = t

LEMMA FreeInit == Init => FreeInv
<1> SUFFICES ASSUME Init PROVE FreeInv
  OBVIOUS
<1>1. control \in Seq(Commands)
  <2>1. [from |-> Nobody, cmd |-> "other"] \in Commands
    BY DEF Commands
  <2> QED BY <2>1, NoMessages, OneMessage DEF Init
<1>2. ~DetachSent
  <2>1. CASE control = << >>
    BY <2>1 DEF DetachSent
  <2>2. CASE control = <<[from |-> Nobody, cmd |-> "other"]>>
    BY <2>2 DEF DetachSent
  <2> QED BY <2>1, <2>2 DEF Init
<1>3. Attached = {} /\ ~Open /\ \A s \in Steerers : pc[s] = "idle"
  BY DEF Init, Attached, Open
<1> QED BY <1>1, <1>2, <1>3 DEF Init, FreeInv, DetachSent

LEMMA SteeringFree ==
  ASSUME FreeInv, Steering
  PROVE  FreeInv'
<1> USE DEF FreeInv, Becomes, Attached, Open, Free, DetachSent, files, client, past
<1>1. CASE Poll \/ EmitDefs \/ Report \/ Detach3
  BY <1>1 DEF Poll, EmitDefs, Report, Detach3
<1>2. CASE ReadControl
  <2>1. CASE control = << >>
    BY <1>2, <2>1 DEF ReadControl
  <2>2. CASE control # << >>
    <3>1. /\ Len(control) \in Nat \ {0} /\ control' \in Seq(Commands)
          /\ Len(control') = Len(control) - 1 /\ Head(control) = control[1]
          /\ \A i \in 1 .. Len(control') : control'[i] = control[i + 1] /\ i + 1 \in 1 .. Len(control)
      BY <1>2, <2>2 DEF ReadControl
    <3>2. DetachSent' => DetachSent
      BY <3>1
    <3>3. apc = "run" /\ UNCHANGED <<steerable, lock, pc, stale>>
      BY <1>2 DEF ReadControl
    <3>4. CASE Head(control).cmd = "DETACH"
      <4>0. 1 \in 1 .. Len(control) /\ control[1].cmd = "DETACH"
        BY <3>1, <3>4
      <4>1. DetachSent /\ Attached = {} /\ Len(control) = 1 /\ apc' = "detach"
        <5>1. DetachSent
          BY <4>0
        <5>2. 1 = Len(control) /\ Attached = {}
          BY <4>0, <5>1, <3>3
        <5>3. apc' = "detach"
          BY <1>2, <2>2, <3>4 DEF ReadControl
        <5> QED BY <5>1, <5>2, <5>3
      <4>2. control' = << >>
        BY <3>1, <4>1
      <4>3. ~Free
        BY <3>3, <4>1
      <4> QED BY <3>1, <3>3, <4>1, <4>2, <4>3
    <3>5. CASE Head(control).cmd # "DETACH"
      <4>1. apc' = "report" /\ (Free => Free')
        BY <1>2, <2>2, <3>2, <3>3, <3>5 DEF ReadControl
      <4>2. ASSUME NEW i \in 1 .. Len(control'), control'[i].cmd = "DETACH"
            PROVE  i = Len(control')
        <5>1. i + 1 \in 1 .. Len(control) /\ control[i + 1].cmd = "DETACH"
          BY <3>1, <4>2
        <5>2. i + 1 = Len(control)
          BY <3>3, <5>1
        <5> QED BY ONLY <3>1, <5>2, i \in 1 .. Len(control')
      <4>3. Open' = Open /\ Attached' = Attached
        BY <3>3, <4>1
      <4>4. control' \in Seq(Commands)
        BY <3>1
      <4>5. DetachSent' => Attached' = {}
        BY <3>2, <3>3, <4>3
      <4> HIDE DEF Free, DetachSent, Open, Attached
      <4> QED BY <3>3, <4>1, <4>2, <4>3, <4>4, <4>5
    <3> QED BY <3>4, <3>5
  <2> QED BY <2>1, <2>2
<1>3. CASE Detach1
  BY <1>3 DEF Detach1
<1>4. CASE Detach2
  BY <1>4, NoMessages DEF Detach2
<1> QED BY <1>1, <1>2, <1>3, <1>4 DEF Steering

LEMMA LifeFree ==
  ASSUME FreeInv, Life, ~raced'
  PROVE  FreeInv'
<1> USE DEF FreeInv, Becomes, Attached, Open, Free, DetachSent, files, client, past
<1>1. CASE Start1
  BY <1>1 DEF Start1
<1>2. CASE Start2
  BY <1>2, NoMessages DEF Start2
<1>3. CASE Start3
  BY <1>3 DEF Start3
<1>4. CASE Finalize1
  BY <1>4 DEF Finalize1
<1>5. CASE Finalize2
  BY <1>5 DEF Finalize2
<1>6. CASE Finalize3
  BY <1>6, NoMessages DEF Finalize3
<1>7. CASE Crash
  BY <1>7 DEF Crash
<1> QED BY <1>1, <1>2, <1>3, <1>4, <1>5, <1>6, <1>7 DEF Life

LEMMA ClientFree ==
  ASSUME FreeInv, NEW s \in Steerers, Client(s), ~raced'
  PROVE  FreeInv'
<1> USE DEF FreeInv, Goes, Attached, Open, Free, DetachSent, files, app, client, past
<1>1. CASE Attach1(s)
  BY <1>1 DEF Attach1
<1>2. CASE Attach2(s)
  BY <1>2 DEF Attach2
<1>3. CASE Attach3(s)
  BY <1>3 DEF Attach3
<1>4. CASE Attach4(s)
  BY <1>4 DEF Attach4
<1>5. CASE Send(s)
  <2>1. [from |-> s, cmd |-> "other"] \in Commands
    BY DEF Commands
  <2>2. /\ control' \in Seq(Commands) /\ Len(control') = Len(control) + 1 /\ Len(control) \in Nat
        /\ \A i \in 1 .. Len(control) : control'[i] = control[i]
        /\ control'[Len(control')].cmd = "other"
    BY <1>5, <2>1 DEF Send
  <2>3. s \in Attached /\ UNCHANGED <<steerable, lock, apc, pc, stale>>
    BY <1>5 DEF Send
  <2>4. DetachSent' => DetachSent
    BY <2>2
  <2>5. apc # "start" => ~DetachSent
    BY <2>3
  <2>6. ~Free /\ (apc # "start" => \A i \in 1 .. Len(control') : control'[i].cmd # "DETACH")
    BY <2>2, <2>3, <2>4, <2>5
  <2> QED BY <2>2, <2>3, <2>4, <2>5, <2>6
<1>6. CASE Read(s)
  BY <1>6 DEF Read
<1>7. CASE Leave1(s)
  <2> DEFINE m == [from |-> s, cmd |-> "DETACH"]
  <2>1. m \in Commands
    BY DEF Commands
  <2>2. s \in Attached /\ UNCHANGED <<steerable, lock, apc, stale>> /\ pc' = [pc EXCEPT ![s] = "leave"]
    BY <1>7 DEF Leave1
  <2>3. Attached' = {} /\ ~Free /\ apc # "detach"
    BY <2>2
  <2>4. apc # "start" => \A i \in 1 .. Len(control) : control[i].cmd # "DETACH"
    BY <2>2
  <2>5. CASE control' = control
    BY <2>2, <2>3, <2>5
  <2>6. CASE control' = Append(control, m)
    <3> HIDE DEF m
    <3>1. /\ control' \in Seq(Commands) /\ Len(control') = Len(control) + 1 /\ Len(control) \in Nat
          /\ \A i \in 1 .. Len(control) : control'[i] = control[i]
      BY <2>1, <2>6
    <3>2. apc # "start" => \A i \in 1 .. Len(control') : control'[i].cmd = "DETACH" => i = Len(control')
      BY <2>4, <3>1
    <3> QED BY <2>2, <2>3, <3>1, <3>2
  <2> QED BY <1>7, <2>5, <2>6 DEF Leave1
<1>8. CASE Leave2(s)
  BY <1>8 DEF Leave2
<1>9. CASE Die(s)
  BY <1>9 DEF Die
<1> QED BY <1>1, <1>2, <1>3, <1>4, <1>5, <1>6, <1>7, <1>8, <1>9 DEF Client

LEMMA RacedStays == [Next]_vars /\ ~raced' => ~raced
<1> USE DEF vars, client, past
<1>1. Steering => (~raced' => ~raced)
  BY DEF Steering, Poll, EmitDefs, ReadControl, Report, Detach1, Detach2, Detach3
<1>2. Life => (~raced' => ~raced)
  BY DEF Life, Start1, Start2, Start3, Finalize1, Finalize2, Finalize3, Crash
<1>3. ASSUME NEW s \in Steerers, Client(s), ~raced' PROVE ~raced
  BY <1>3 DEF Client, Attach1, Attach2, Attach3, Attach4, Send, Read, Leave1, Leave2, Die
<1> QED BY <1>1, <1>2, <1>3 DEF Next

\* For any number of clients, attempts and starts: two clients are attached at once only
\* when one of them created the lock over one that it had not seen, or outlived the
\* application it was attached to.
THEOREM Exclusive == Spec => []ExclusiveSession
<1> DEFINE Kept == ~raced => FreeInv
<1>1. Init => Kept
  BY FreeInit
<1>2. Kept /\ [Next]_vars => Kept'
  <2> SUFFICES ASSUME Kept, [Next]_vars, ~raced' PROVE FreeInv'
    OBVIOUS
  <2>0. FreeInv
    BY RacedStays
  <2> HIDE DEF Kept
  <2>1. CASE UNCHANGED vars
    BY <2>0, <2>1 DEF FreeInv, Free, Open, DetachSent, Attached, vars, files, app, client, past
  <2>2. CASE Steering
    BY <2>0, <2>2, SteeringFree
  <2>3. CASE Life
    BY <2>0, <2>3, LifeFree
  <2>4. CASE \E s \in Steerers : Client(s)
    BY <2>0, <2>4, ClientFree
  <2> QED BY <2>1, <2>2, <2>3, <2>4 DEF Next
<1>3. Kept => ExclusiveSession
  <2> SUFFICES ASSUME FreeInv PROVE Cardinality(Attached) <= 1
    BY DEF ExclusiveSession
  <2>1. \A s, t \in Attached : s = t
    BY DEF FreeInv
  <2>2. CASE Attached = {}
    BY <2>2, FS_EmptySet
  <2>3. ASSUME NEW s \in Attached PROVE Cardinality(Attached) = 1
    <3>1. Attached = {s}
      BY <2>1, <2>3
    <3> QED BY <3>1, FS_Singleton
  <2> QED BY <2>2, <2>3
<1> QED BY <1>1, <1>2, <1>3, PTL DEF Spec
=============================================================================
