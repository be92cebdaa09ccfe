---------------------------- MODULE FilesSession ----------------------------
(***************************************************************************)
(* How steering clients attach to an application and detach from it when   *)
(* the transport is files in a directory that they share:                  *)
(*   APP_STEERABLE_FILENAME   the application can be steered;              *)
(*   STR_CONNECTED_FILENAME   a client is attached;                        *)
(*   STR_TO_APP_FILENAME_*    control messages, read by the application;   *)
(*   APP_TO_STR_FILENAME_*    status messages, read by the client.         *)
(* A step is one operation on one of these; reading or removing a message  *)
(* is one step (MessageFiles looks into it), and so is remove_files, which *)
(* goes on until it finds no more.                                         *)
(*                                                                         *)
(* Nothing in the code keeps clients from attaching while another attaches *)
(* or while the application is letting one go, and nothing does here.  Two *)
(* history variables tell what a property has to except: raced, that the   *)
(* lock was created twice or outlived by a client, and crossed, that an    *)
(* attempt to attach fell together with another one or with an end.        *)
(***************************************************************************)
EXTENDS Integers, Sequences, FiniteSets

CONSTANTS Steerers,     \* steering clients
          MaxAttach,    \* bound: attempts to attach
          MaxControl,   \* bound: control messages waiting, but for DETACH
          MaxStatus,    \* bound: status messages waiting, but for DETACH
          MaxStart      \* bound: times that the application is started

VARIABLES
  steerable, lock, control, status,  \* the files
  apc, active, untold, \* the application: progress, ReG_SteeringActive, and
                       \* whether definitions have to be sent
  served,              \* the client it found the lock of
  pc, told,            \* the clients: progress, and whether they have read
                       \* the definitions since they attached
  attempts, starts,
  holder,              \* history: the last client that created the lock,
  stale,               \* who has looked for it before that,
  raced, crossed       \* see above

files  == <<steerable, lock, control, status>>
app    == <<apc, active, untold, served, starts>>
past   == <<holder, stale, raced, crossed>>
client == <<pc, told, attempts, past>>
vars   == <<files, app, client>>

Nobody == "nobody"

Init ==
  /\ steerable = FALSE
  \* An earlier run may have left its lock and messages.
  /\ lock \in BOOLEAN
  /\ control \in {<< >>, <<[from |-> Nobody, cmd |-> "other"]>>}
  /\ status \in {<< >>, <<[kind |-> "status", to |-> Nobody]>>}
  /\ apc = "down" /\ active = FALSE /\ untold = FALSE /\ served = Nobody /\ starts = 0
  /\ pc = [s \in Steerers |-> "idle"] /\ told = [s \in Steerers |-> FALSE]
  /\ attempts = 0 /\ holder = Nobody
  /\ stale = {} /\ raced = FALSE /\ crossed = FALSE

Emit(kind) == status' = Append(status, [kind |-> kind, to |-> served])

EmitIfRoom(kind) == IF Len(status) < MaxStatus THEN Emit(kind) ELSE UNCHANGED status

-----------------------------------------------------------------------------
(* The application.                                                        *)

Becomes(from, to) == apc = from /\ apc' = to

Attached  == {s \in Steerers : pc[s] = "attached"}
Attaching == {s \in Steerers : pc[s] \in {"check", "test", "take"}}

\* Initialize_steering_connection_files: remove the lock, the control
\* messages, and say that the application can be steered.
Start1 ==
  /\ Becomes("down", "start") /\ starts < MaxStart
  /\ starts' = starts + 1 /\ lock' = FALSE
  /\ raced' = (raced \/ Attached # {}) /\ crossed' = (crossed \/ starts # 0)
  /\ UNCHANGED <<steerable, control, status, active, untold, served,
                 pc, told, attempts, holder, stale>>

\* Old control messages are left where they are.
Start2Keeps ==
  /\ Becomes("start", "cleared")
  /\ UNCHANGED <<steerable, lock, control, status, active, untold, served, starts, client>>

Start2 ==
  /\ Becomes("start", "cleared") /\ control' = << >>
  /\ UNCHANGED <<steerable, lock, status, active, untold, served, starts, client>>

Start3 ==
  /\ Becomes("cleared", "run") /\ steerable' = TRUE /\ untold' = TRUE
  /\ UNCHANGED <<lock, control, status, active, served, starts, client>>

\* Steerer_connected_files, while no client is known.
Poll ==
  /\ apc = "run" /\ ~active /\ lock
  /\ active' = TRUE /\ served' = holder
  /\ UNCHANGED <<files, apc, untold, starts, client>>

\* Emit_param_defs, Emit_IOType_defs and Emit_ChkType_defs.  That they fail is not
\* looked at.
EmitDefs ==
  /\ apc = "run" /\ active /\ untold
  /\ untold' = FALSE
  /\ Emit("defs") \/ UNCHANGED status
  /\ UNCHANGED <<steerable, lock, control, apc, active, served, starts, client>>

\* Consume_control.
ReadControl ==
  /\ active /\ ~untold
  /\ IF control # << >> /\ Head(control).cmd = "DETACH"
     THEN Becomes("run", "detach") ELSE Becomes("run", "report")
  /\ control' = IF control = << >> THEN << >> ELSE Tail(control)
  /\ UNCHANGED <<steerable, lock, status, active, untold, served, starts, client>>

\* Emit_status at the end of Steering_control.
Report ==
  /\ Becomes("report", "run")
  /\ EmitIfRoom("status")
  /\ UNCHANGED <<steerable, lock, control, active, untold, served, starts, client>>

\* The lock stays.
Detach1Keeps ==
  /\ Becomes("detach", "unlocked")
  /\ UNCHANGED <<files, active, untold, served, starts, client>>

\* Detach_from_steerer_files: remove the lock, then the control messages.
Detach1 ==
  /\ Becomes("detach", "unlocked")
  /\ lock' = FALSE /\ crossed' = (crossed \/ Attaching # {})
  /\ UNCHANGED <<steerable, control, status, active, untold, served, starts,
                 pc, told, attempts, holder, stale, raced>>

Detach2 ==
  /\ Becomes("unlocked", "confirm") /\ control' = << >>
  /\ UNCHANGED <<steerable, lock, status, active, untold, served, starts, client>>

\* The flag that a client is attached survives the detach.
Detach3StaysActive ==
  /\ Becomes("confirm", "run") /\ untold' = TRUE
  /\ Emit("DETACH")
  /\ UNCHANGED <<steerable, lock, control, active, served, starts, client>>

\* The rest of Detach_from_steerer, and the confirmation.
Detach3 ==
  /\ Becomes("confirm", "run") /\ active' = FALSE /\ untold' = TRUE
  /\ Emit("DETACH")
  /\ UNCHANGED <<steerable, lock, control, served, starts, client>>

\* Finalize_steering_connection_files.
Finalize1 ==
  /\ Becomes("run", "close") /\ steerable' = FALSE
  /\ UNCHANGED <<lock, control, status, active, untold, served, starts, client>>

Finalize2 ==
  /\ Becomes("close", "sweep")
  /\ lock' = FALSE /\ crossed' = (crossed \/ Attaching # {})
  /\ UNCHANGED <<steerable, control, status, active, untold, served, starts,
                 pc, told, attempts, holder, stale, raced>>

Finalize3 ==
  /\ Becomes("sweep", "down") /\ control' = << >> /\ active' = FALSE
  /\ UNCHANGED <<steerable, lock, status, untold, served, starts, client>>

\* The application is killed; its files stay.
Crash ==
  /\ apc \notin {"down", "start", "cleared"}
  /\ apc' = "down" /\ active' = FALSE
  /\ UNCHANGED <<files, untold, served, starts, client>>

-----------------------------------------------------------------------------
(* The clients.                                                            *)

Goes(s, from, to) == pc[s] = from /\ pc' = [pc EXCEPT ![s] = to]

LettingGo == \/ apc \in {"detach", "unlocked", "confirm", "close", "sweep"}
             \/ \E s \in Steerers : pc[s] = "leave"

\* Sim_attach_files: remove old status messages.
Attach1(s) ==
  /\ Goes(s, "idle", "check") /\ attempts < MaxAttach
  /\ attempts' = attempts + 1
  /\ status' = << >>
  /\ crossed' = (crossed \/ Attaching # {} \/ LettingGo)
  /\ UNCHANGED <<steerable, lock, control, app, told, holder, stale, raced>>

\* A client that does not look for the lock.
Attach2Blind(s) ==
  /\ Goes(s, "check", "test") /\ stale' = stale \ {s}
  /\ UNCHANGED <<files, app, told, attempts, holder, raced, crossed>>

\* consume_supp_cmds: is another client attached ...
Attach2(s) ==
  /\ IF lock THEN Goes(s, "check", "idle") ELSE Goes(s, "check", "test")
  /\ stale' = stale \ {s}
  /\ UNCHANGED <<files, app, told, attempts, holder, raced, crossed>>

\* ... and can the application be steered?
Attach3(s) ==
  /\ IF steerable THEN Goes(s, "test", "take") ELSE Goes(s, "test", "idle")
  /\ UNCHANGED <<files, app, told, attempts, past>>

\* open(lock_file, O_CREAT | O_WRONLY | O_TRUNC): it may exist already.
Attach4(s) ==
  /\ Goes(s, "take", "attached")
  /\ lock' = TRUE
  /\ told' = [told EXCEPT ![s] = FALSE] /\ holder' = s
  /\ raced' = (raced \/ s \in stale)
  /\ stale' = {t \in Steerers \ {s} : pc[t] \in {"test", "take"}}
  /\ UNCHANGED <<steerable, control, status, app, attempts, crossed>>

Send(s) ==
  /\ pc[s] = "attached" /\ Len(control) < MaxControl
  /\ control' = Append(control, [from |-> s, cmd |-> "other"])
  /\ UNCHANGED <<steerable, lock, status, app, client>>

\* Get_next_message.  A client that reads that the application has let it go
\* or stopped calls Delete_sim_table_entry.
Read(s) ==
  /\ pc[s] = "attached" /\ status # << >>
  /\ status' = Tail(status)
  /\ IF Head(status).kind = "DETACH" THEN Goes(s, "attached", "leave")
                                     ELSE UNCHANGED pc
  /\ told' = [told EXCEPT ![s] = @ \/ Head(status).kind = "defs"]
  /\ UNCHANGED <<steerable, lock, control, app, attempts, past>>

\* Sim_detach: Emit_detach_cmd, which may fail without a consequence ...
Leave1(s) ==
  /\ Goes(s, "attached", "leave")
  /\ control' \in {control, Append(control, [from |-> s, cmd |-> "DETACH"])}
  /\ UNCHANGED <<steerable, lock, status, app, told, attempts, past>>

\* ... and Delete_sim_table_entry, with Finalize_connection_files.
Leave2(s) ==
  /\ Goes(s, "leave", "idle")
  /\ status' = << >>
  /\ UNCHANGED <<steerable, lock, control, app, told, attempts, past>>

\* The client is killed.
Die(s) ==
  /\ pc[s] # "idle"
  /\ pc' = [pc EXCEPT ![s] = "idle"]
  /\ UNCHANGED <<files, app, told, attempts, past>>

-----------------------------------------------------------------------------
Steering == Poll \/ EmitDefs \/ ReadControl \/ Report \/ Detach1 \/ Detach2 \/ Detach3
Life == Start1 \/ Start2 \/ Start3 \/ Finalize1 \/ Finalize2 \/ Finalize3 \/ Crash
Client(s) == \/ Attach1(s) \/ Attach2(s) \/ Attach3(s) \/ Attach4(s)
             \/ Send(s) \/ Read(s) \/ Leave1(s) \/ Leave2(s) \/ Die(s)

Next == Steering \/ Life \/ \E s \in Steerers : Client(s)

Spec == Init /\ [][Next]_vars

\* An application that runs goes on calling Steering_control, and who has begun
\* to start, to close, to attach or to leave gets done with it.
Fairness ==
  /\ WF_vars(Steering) /\ WF_vars(Start2 \/ Start3) /\ WF_vars(Finalize2 \/ Finalize3)
  /\ \A s \in Steerers : WF_vars(Attach2(s) \/ Attach3(s) \/ Attach4(s) \/ Leave2(s))

FairSpec == Spec /\ Fairness

-----------------------------------------------------------------------------
TypeOK ==
  /\ steerable \in BOOLEAN /\ lock \in BOOLEAN
  /\ control \in Seq([from : Steerers \cup {Nobody}, cmd : {"other", "DETACH"}])
  /\ status \in Seq([kind : {"defs", "status", "DETACH"}, to : Steerers \cup {Nobody}])
  /\ Len(control) <= MaxControl + 2 /\ Len(status) <= MaxStatus + 2
  /\ apc \in {"down", "start", "cleared", "run", "report", "detach", "unlocked",
              "confirm", "close", "sweep"}
  /\ active \in BOOLEAN /\ untold \in BOOLEAN
  /\ pc \in [Steerers -> {"idle", "check", "test", "take", "attached", "leave"}]
  /\ told \in [Steerers -> BOOLEAN]
  /\ attempts \in 0 .. MaxAttach /\ starts \in 0 .. MaxStart
  /\ holder \in Steerers \cup {Nobody} /\ served \in Steerers \cup {Nobody}
  /\ stale \subseteq Steerers /\ raced \in BOOLEAN /\ crossed \in BOOLEAN

\* The application never works for a client that the lock file does not show:
\* the next client would be let in and find a session it did not open.
ActiveMeansLocked == apc \in {"run", "report"} /\ active => lock

\* Two clients are attached at once only if one of them created the lock although it had
\* been created since that client looked for it, or was there when the application was
\* started: in every other order of attempts to attach, detaches, closes, crashes and
\* restarts the later one hears "already being steered".
ExclusiveSession == ~raced => Cardinality(Attached) <= 1

\* The same without the exception.  This does not hold: see the README.
AlwaysExclusive == Cardinality(Attached) <= 1

\* What is in the directory belongs to the session: the application reads no
\* command of an earlier client, a client no status meant for another, unless sessions
\* have crossed.
OwnMessages ==
  ~crossed =>
    /\ active => \A i \in 1 .. Len(control) : control[i].from = holder
    /\ \A s \in Attached : \A i \in 1 .. Len(status) : status[i].to = s

\* The definitions reach the client before any status does, and they are
\* there to be read as soon as the application has sent them.
DefsFirst ==
  \A s \in Steerers :
    pc[s] = "attached" /\ holder = s /\ ~told[s] /\ apc = "run" /\ active /\ ~untold
      => status # << >> /\ status[1].kind = "defs"

DetachSent == \E i \in 1 .. Len(control) : control[i].cmd = "DETACH"

\* Once a client has sent its DETACH the next one can attach.  (One that arrives while the
\* application still lets another client go is removed with the rest.)
DetachReleases ==
  DetachSent /\ lock /\ apc \in {"run", "report"} ~> ~lock \/ apc = "down"
=============================================================================
