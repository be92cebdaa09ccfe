---------------------------- MODULE ServiceSteering ----------------------------
(***************************************************************************)
(* Steering through a web service (ReG_Steer_Steering_Transport_WSRF.c,    *)
(* parseResourceProperties and Msg_already_received in ReG_Steer_XML.c).   *)
(* The service stamps every message with a UID, keeps the last status and  *)
(* control messages and the definitions in a document, and notes when the  *)
(* document was modified other than by status and control messages.        *)
(* Neither side is told that it has read a message: each remembers the     *)
(* UIDs it has seen.                                                       *)
(*                                                                         *)
(* A document is taken to show a property only with its message:           *)
(* parseResourceProperties stops at one without, and drops what follows.   *)
(*                                                                         *)
(* The service is external; doc/ReG_Steering_Web_Service.tex describes it. *)
(***************************************************************************)
EXTENDS Integers, Sequences, Functions

CONSTANTS
  History,      \* REG_UID_HISTORY_BUFFER_SIZE
  Buffered,     \* maxNumStatusMsg, maxNumControlMsg of the service
  SameSecond,   \* whether definitions may change twice in a second
  MaxStatus, MaxControl, MaxDefs, MaxFaults   \* bounds

ASSUME ServiceAssumption ==
  /\ History \in Nat \ {0} /\ Buffered \in 1 .. History /\ SameSecond \in BOOLEAN
  /\ {MaxStatus, MaxControl, MaxDefs, MaxFaults} \subseteq Nat

VARIABLES
  statusMsg, controlMsg,     \* resource properties: the last Buffered messages
  defs,                      \* paramDefinitions: none or one message
  modified,                  \* lastModifiedTime, in seconds
  uid,                       \* UIDs given so far
  statuses, controls, versions,   \* messages sent so far, of each kind
  appSeen, appStore,         \* Msg_uid_store and Msg_store of the application
  simSeen, simStore,         \* Msg_uid_store and Msg_store of the client
  lastModTime,               \* what the client knows of modified
  acted,                     \* history: control messages this application acted on
  shown,                     \* history: status messages this client was given
  known,                     \* history: definitions this client was given last
  faults

service == <<statusMsg, controlMsg, defs, modified, uid>>
counts  == <<statuses, controls, versions>>
app     == <<appSeen, appStore, acted>>
sim     == <<simSeen, simStore, lastModTime, shown, known>>
serviceVars == <<service, counts, app, sim, faults>>

ServiceInit ==
  /\ statusMsg = << >> /\ controlMsg = << >> /\ defs = << >>
  /\ modified = 1 /\ uid = 0
  /\ statuses = 0 /\ controls = 0 /\ versions = 0
  /\ appSeen = << >> /\ appStore = << >> /\ acted = << >>
  /\ simSeen = << >> /\ simStore = << >> /\ lastModTime = 0
  /\ shown = << >> /\ known = 0
  /\ faults = 0

-----------------------------------------------------------------------------
(* What the service does with what it is sent.                             *)

Message(kind, n) == [uid |-> uid + 1, kind |-> kind, n |-> n]

Buffer(B, m) == Append(IF Len(B) = Buffered THEN Tail(B) ELSE B, m)

\* Send_status_msg with a status message. The call may fail; after eleven deadlocks
\* between coupled services the message is given up.
SendStatus ==
  /\ statuses < MaxStatus /\ statuses' = statuses + 1
  /\ \/ /\ statusMsg' = Buffer(statusMsg, Message("status", statuses + 1))
        /\ uid' = uid + 1 /\ UNCHANGED faults
     \/ /\ faults < MaxFaults /\ faults' = faults + 1
        /\ UNCHANGED <<statusMsg, uid>>
  /\ UNCHANGED <<controlMsg, defs, modified, controls, versions, app, sim>>

\* Send_status_msg with definitions, which replace those of before. Whether or not it
\* fails or gives them up, Steering_control does not send these again.
SendDefs ==
  /\ versions < MaxDefs
  /\ versions' = versions + 1
  /\ \/ /\ defs' = <<Message("defs", versions + 1)>> /\ uid' = uid + 1
        /\ modified' \in {modified + 1} \cup (IF SameSecond THEN {modified} ELSE {})
        /\ UNCHANGED faults
     \/ /\ faults < MaxFaults /\ faults' = faults + 1
        /\ UNCHANGED <<defs, uid, modified>>
  /\ UNCHANGED <<statusMsg, controlMsg, statuses, controls, app, sim>>

\* Send_control_msg.
SendControl ==
  /\ controls < MaxControl /\ controls' = controls + 1
  /\ controlMsg' = Buffer(controlMsg, Message("control", controls + 1)) /\ uid' = uid + 1
  /\ UNCHANGED <<statusMsg, defs, modified, statuses, versions, app, sim, faults>>

-----------------------------------------------------------------------------
(* Parsing.                                                                *)

\* The array of UIDs starts again one entry early.
RememberFewer(H, u) == Append(IF Len(H) >= History - 1 THEN Tail(H) ELSE H, u)

\* The new UID replaces the oldest.
Remember(H, u) == Append(IF Len(H) = History THEN Tail(H) ELSE H, u)

\* Msg_already_received and what parseResourceProperties does with the answer.
Take(r, m) ==
  IF m.uid \in Range(r.seen) THEN r
  ELSE [seen |-> Remember(r.seen, m.uid), new |-> Append(r.new, m)]

\* The messages of a document, in turn. (The choice from a set of one element makes TLC
\* evaluate each step once.)
ParseProperties(H, doc) ==
  LET upTo[i \in 0 .. Len(doc)] ==
        IF i = 0 THEN [seen |-> H, new |-> << >>]
        ELSE CHOOSE r \in {Take(before, doc[i]) : before \in {upTo[i - 1]}} : TRUE
  IN upTo[Len(doc)]

\* Nothing is left in the store.
RestNone(S) == << >>

\* get_next_stored_msg takes the first message and leaves these.
Rest(S) == Tail(S)

-----------------------------------------------------------------------------
(* The application.                                                        *)

\* Get_control_msg: from the store, else from the service.
GetControl ==
  /\ \E P \in {IF appStore # << >> THEN [seen |-> appSeen, new |-> appStore]
              ELSE ParseProperties(appSeen, controlMsg)} :
       /\ P.new # << >>
       /\ appSeen' = P.seen /\ appStore' = Rest(P.new)
       /\ acted' = Append(acted, Head(P.new).n)
  /\ UNCHANGED <<service, counts, sim, faults>>

\* The application was killed and starts again, with the same service.
Restart ==
  /\ faults < MaxFaults /\ faults' = faults + 1
  /\ appSeen' = << >> /\ appStore' = << >> /\ acted' = << >>
  /\ UNCHANGED <<service, counts, sim>>

-----------------------------------------------------------------------------
(* The client.                                                             *)

Document == controlMsg \o defs \o statusMsg

\* Consume_status, Consume_param_defs; a control message in the document is not for it.
Deliver(m) ==
  /\ shown' = IF m.kind = "status" THEN Append(shown, m.n) ELSE shown
  /\ known' = IF m.kind = "defs" THEN m.n ELSE known

\* Get_status_msg: from the store; else the whole document if it was modified; else the
\* latest status message.
GetStored ==
  /\ simStore # << >>
  /\ Deliver(Head(simStore)) /\ simStore' = Rest(simStore)
  /\ UNCHANGED <<simSeen, lastModTime>>

GetDocument ==
  /\ simStore = << >> /\ modified # lastModTime
  /\ lastModTime' = modified
  /\ \E P \in {ParseProperties(simSeen, Document)} :
       /\ simSeen' = P.seen
       /\ IF P.new = << >> THEN UNCHANGED <<simStore, shown, known>>
          ELSE Deliver(Head(P.new)) /\ simStore' = Rest(P.new)

GetLatest ==
  /\ simStore = << >> /\ modified = lastModTime /\ statusMsg # << >>
  /\ \E P \in {ParseProperties(simSeen, <<statusMsg[Len(statusMsg)]>>)} :
       /\ P.new # << >>
       /\ simSeen' = P.seen /\ Deliver(Head(P.new))
  /\ UNCHANGED <<simStore, lastModTime>>

GetStatus ==
  /\ GetStored \/ GetDocument \/ GetLatest
  /\ UNCHANGED <<service, counts, app, faults>>

\* The time of the connection before is kept.
NewTimeKept == lastModTime

NewTime == 0

\* Sim_attach by another client, or by the same one after a detach or its end.
Attach ==
  /\ faults < MaxFaults /\ faults' = faults + 1
  /\ simSeen' = << >> /\ simStore' = << >> /\ lastModTime' = NewTime
  /\ shown' = << >> /\ known' = 0
  /\ UNCHANGED <<service, counts, app>>

-----------------------------------------------------------------------------
ServiceNext ==
  \/ SendStatus \/ SendDefs \/ SendControl
  \/ GetControl \/ Restart
  \/ GetStatus \/ Attach

\* Steering_control and the client's loop go on asking.
ServiceSpec ==
  ServiceInit /\ [][ServiceNext]_serviceVars
    /\ WF_serviceVars(GetControl) /\ WF_serviceVars(GetStatus)

-----------------------------------------------------------------------------
(* Properties.                                                             *)

\* How many UIDs, other than of newer status messages, a client may have come to know
\* after a message: each document that it read has at most this many others.
Cost(t) == (t - 1) * (2 * Buffered)

\* "so we don't act upon them again" (ReG_Steer_XML.h): an application acts on control
\* messages in the order sent and on none twice, although the service goes on showing
\* them and the memory of UIDs is finite; and a client is given no status message twice
\* as long as the documents it has read since it attached fit in its memory.
OnceOnly ==
  /\ \A i, j \in DOMAIN acted : i < j => acted[i] < acted[j]
  /\ Cost(lastModTime) < History => IsInjective(shown)

Shows == {controlMsg[i].n : i \in DOMAIN controlMsg}

\* A control message is acted on unless the service has dropped it for newer ones,
\* whatever was read at once with it.
ControlActed ==
  \A n \in 1 .. MaxControl :
    n \in Shows ~> n \in Range(acted) \/ n \notin Shows

\* Every client gets to know the definitions that the service has, those from before it
\* attached too: the time of modification tells it when to look.
DefsKnown == \A v \in 1 .. MaxDefs : (defs # << >> /\ defs[1].n = v) ~> known >= v

\* The same of the definitions the application tried to send. This does not hold: see
\* the README.
DefsWhateverFails == \A v \in 1 .. MaxDefs : versions = v ~> known >= v

\* A client is given no status message twice, however many documents it reads. This does
\* not hold: see the README.
OnceForever == IsInjective(shown)

\* Status messages come in the order in which the application sent them. This does not
\* hold: see the README.
StatusInOrder == \A i, j \in DOMAIN shown : i < j => shown[i] < shown[j]
=============================================================================
