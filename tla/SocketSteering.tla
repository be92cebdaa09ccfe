---------------------------- MODULE SocketSteering ----------------------------
(***************************************************************************)
(* The steering transport over sockets                                     *)
(* (ReG_Steer_Steering_Transport_Sockets.c), with as much of               *)
(* Steering_control and of the client as it takes to see a session.        *)
(*                                                                         *)
(* The application listens and takes one client at a time.  The operating  *)
(* system completes the connections of others meanwhile: they wait in the  *)
(* backlog of the listener, and their Sim_attach waits for the message of  *)
(* supported commands.  A message is a header and a body, sent one after   *)
(* the other; both sides read with calls that wait for the whole of each. A *)
(* body that is cut short is not parsed, as if it had not been sent.       *)
(***************************************************************************)
EXTENDS Integers, Sequences

CONSTANTS
  Clients,
  Cap,         \* status messages that fit in the buffers of a connection
  ResetLoses,  \* a connection that is reset loses what was not read from it
  MaxSend, MaxAttach, MaxKills, MaxFaults   \* bounds

ASSUME SocketAssumption ==
  /\ Cap \in Nat \ {0} /\ ResetLoses \in BOOLEAN
  /\ MaxSend \in Nat /\ MaxAttach \in Nat /\ MaxKills \in Nat /\ MaxFaults \in Nat

Conns == 1 .. MaxAttach   \* connections, by the attempt that made them
None  == 0

VARIABLES
  life,      \* of the application: "on" or "ended"
  listener,  \* listener_status
  comms,     \* comms_status
  cur,       \* the connection behind connector_handle
  active,    \* ReG_SteeringActive
  changed,   \* ReG_ParamsChanged and the like: definitions must be sent
  apc,       \* how far a call of Steering_control has got
  backlog,   \* connections that wait to be accepted
  pc,        \* what each client is doing
  at,        \* its connection
  seen,      \* the kinds of messages it has read from that
  srv, cli,  \* the ends of connections that are open
  toApp, toClient,
  nsent, got,           \* control messages sent, and those read
  attempts, kills, faults

app    == <<life, listener, comms, cur, active, changed, apc, backlog>>
net    == <<srv, cli, toApp, toClient>>
client == <<pc, at, seen, nsent, attempts>>
vars   == <<app, net, client, got, kills, faults>>

Init ==
  /\ life = "on" /\ listener = "listening" /\ comms = "listening"
  /\ cur = None /\ active = FALSE /\ changed = TRUE /\ apc = "idle"
  /\ backlog = << >>
  /\ pc = [c \in Clients |-> "out"] /\ at = [c \in Clients |-> None]
  /\ seen = [c \in Clients |-> {}]
  /\ srv = [k \in Conns |-> FALSE] /\ cli = srv
  /\ toApp = [k \in Conns |-> << >>] /\ toClient = toApp
  /\ nsent = 0 /\ got = << >> /\ attempts = 0 /\ kills = 0 /\ faults = 0

-----------------------------------------------------------------------------
(* The application.                                                        *)

\* send_steering_msg: waits while the buffers are full, fails when the client
\* has closed its end.  The result is not looked at.
CanSend == ~cli[cur] \/ Len(toClient[cur]) < Cap

SendTo(k, m) ==
  toClient' = IF cli[k] THEN [toClient EXCEPT ![k] = Append(@, m)] ELSE toClient

\* create_steering_listener.
Relisten ==
  /\ life = "on" /\ apc = "idle" /\ ~active
  /\ comms # "connected" /\ listener # "listening"
  /\ \/ listener' = "listening" /\ comms' = "listening" /\ UNCHANGED faults
     \/ /\ faults < MaxFaults /\ faults' = faults + 1
        /\ listener' = "failure" /\ comms' = "failure"
  /\ UNCHANGED <<life, cur, active, changed, apc, backlog, net, client, got, kills>>

\* The commands are sent to the first client only.
GreetFirst(k) == IF got = << >> THEN SendTo(k, "supp") ELSE UNCHANGED toClient

\* The supported commands are the first message.
Greet(k) == SendTo(k, "supp")

\* poll_steering_socket accepts.  A client that has gone by now is
\* accepted like any other.
Accept ==
  /\ life = "on" /\ apc = "idle" /\ ~active
  /\ listener = "listening" /\ comms = "listening" /\ backlog # << >>
  /\ cur' = Head(backlog) /\ backlog' = Tail(backlog)
  /\ comms' = "connected" /\ active' = TRUE /\ apc' = "defs"
  /\ Greet(cur')
  /\ UNCHANGED <<life, listener, changed, srv, cli, toApp, client, got, kills, faults>>

\* A call of Steering_control with a client attached.
Call ==
  /\ life = "on" /\ apc = "idle" /\ active
  /\ apc' = "defs"
  /\ UNCHANGED <<life, listener, comms, cur, active, changed, backlog, net, client, got, kills, faults>>

\* Whether they could be sent or not, definitions count as sent.
EmitDefs ==
  /\ apc = "defs" /\ (changed => CanSend)
  /\ IF changed THEN SendTo(cur, "defs") ELSE UNCHANGED toClient
  /\ changed' = FALSE /\ apc' = "read"
  /\ UNCHANGED <<life, listener, comms, cur, active, backlog, srv, cli, toApp, client, got, kills, faults>>

\* poll_steering_msg and a receive that returns data.
Readable == toApp[cur] # << >>

\* Get_control_msg without a message: nothing has arrived, or the stream has
\* ended, which changes nothing.
NoMessage ==
  /\ apc \in {"read", "body"} /\ ~Readable
  /\ apc = "body" => ~cli[cur]
  /\ apc' = "report"
  /\ UNCHANGED <<life, listener, comms, cur, active, changed, backlog, net, client, got, kills, faults>>

\* consume_steering_msg reads a header, and then waits for the body.
ReadHeader ==
  /\ apc = "read" /\ Readable
  /\ toApp' = [toApp EXCEPT ![cur] = Tail(@)]
  /\ apc' = "body"
  /\ UNCHANGED <<life, listener, comms, cur, active, changed, backlog, srv, cli, toClient, client, got, kills, faults>>

Closed(which) == [k \in Conns |-> srv[k] /\ k \notin which]
Pending == {backlog[i] : i \in DOMAIN backlog}

\* Only the connection is closed: clients in the backlog go on waiting.
DetachKeepsListener ==
  /\ comms' = "null" /\ srv' = Closed({cur})
  /\ cur' = None /\ active' = FALSE /\ changed' = TRUE /\ apc' = "idle"
  /\ UNCHANGED <<listener, backlog>>

\* Detach_from_steerer: closing the listener resets the connections of all
\* clients in its backlog.  Nothing more is reported.
Detach ==
  /\ listener' = "null" /\ comms' = "null"
  /\ srv' = Closed({cur} \cup Pending) /\ backlog' = << >>
  /\ cur' = None /\ active' = FALSE /\ changed' = TRUE /\ apc' = "idle"

\* The end of the stream leaves the previous message in the buffer.
ReadBodyAgain ==
  /\ apc = "body" /\ (toApp[cur] # << >> \/ (~cli[cur] /\ got # << >>))
  /\ LET msg == IF toApp[cur] # << >> THEN Head(toApp[cur]) ELSE [n |-> got[Len(got)], cmd |-> "edit"] IN
       /\ got' = Append(got, msg.n)
       /\ toApp' = [toApp EXCEPT ![cur] = IF @ = << >> THEN @ ELSE Tail(@)]
       /\ IF msg.cmd = "detach" THEN Detach
          ELSE apc' = "report" /\ UNCHANGED <<listener, comms, cur, active, changed, backlog, srv>>
  /\ UNCHANGED <<life, cli, toClient, client, kills, faults>>

\* The body arrives and the message is acted on.
ReadBody ==
  /\ apc = "body" /\ toApp[cur] # << >>
  /\ LET msg == Head(toApp[cur]) IN
       /\ got' = Append(got, msg.n)
       /\ toApp' = [toApp EXCEPT ![cur] = Tail(@)]
       /\ IF msg.cmd = "detach" THEN Detach
          ELSE apc' = "report" /\ UNCHANGED <<listener, comms, cur, active, changed, backlog, srv>>
  /\ UNCHANGED <<life, cli, toClient, client, kills, faults>>

\* Emit_status.
Report ==
  /\ apc = "report" /\ CanSend
  /\ SendTo(cur, "status") /\ apc' = "idle"
  /\ UNCHANGED <<life, listener, comms, cur, active, changed, backlog, srv, cli, toApp, client, got, kills, faults>>

Ended ==
  /\ life' = "ended" /\ apc' = "idle" /\ active' = FALSE
  /\ listener' = "null" /\ comms' = "null" /\ cur' = None /\ backlog' = << >>
  /\ srv' = Closed(Conns)
  /\ UNCHANGED <<changed, cli, toApp, toClient, client, got, faults>>

\* Finalize_steering_connection, between two calls.
Finalize == life = "on" /\ apc = "idle" /\ Ended /\ UNCHANGED kills

AppKilled == life = "on" /\ kills < MaxKills /\ Ended /\ kills' = kills + 1

-----------------------------------------------------------------------------
(* The clients.                                                            *)

\* create_steering_connector, when somebody listens.
Connect(c) ==
  /\ pc[c] = "out" /\ attempts < MaxAttach /\ listener = "listening"
  /\ attempts' = attempts + 1
  /\ at' = [at EXCEPT ![c] = attempts'] /\ pc' = [pc EXCEPT ![c] = "wait"]
  /\ srv' = [srv EXCEPT ![attempts'] = TRUE] /\ cli' = [cli EXCEPT ![attempts'] = TRUE]
  /\ seen' = [seen EXCEPT ![c] = {}]
  /\ backlog' = Append(backlog, attempts')
  /\ UNCHANGED <<life, listener, comms, cur, active, changed, apc, toApp, toClient, nsent, got, kills, faults>>

Take(c) ==
  /\ toClient[at[c]] # << >>
  /\ seen' = [seen EXCEPT ![c] = @ \cup {Head(toClient[at[c]])}]
  /\ toClient' = [toClient EXCEPT ![at[c]] = Tail(@)]
  /\ UNCHANGED <<app, srv, cli, toApp, at, nsent, got, attempts, kills, faults>>

\* consume_supp_cmds waits for a message, whatever it is.
Greeted(c) == pc[c] = "wait" /\ Take(c) /\ pc' = [pc EXCEPT ![c] = "in"]

\* The connection was closed instead: Sim_attach fails.
Refused(c) ==
  /\ pc[c] = "wait" /\ toClient[at[c]] = << >> /\ ~srv[at[c]]
  /\ pc' = [pc EXCEPT ![c] = "out"] /\ cli' = [cli EXCEPT ![at[c]] = FALSE]
  /\ UNCHANGED <<app, srv, toApp, toClient, at, seen, nsent, got, attempts, kills, faults>>

\* Get_next_message.
Read(c) == pc[c] = "in" /\ Take(c) /\ UNCHANGED pc

Put(k, piece) ==
  toApp' = IF srv[k] THEN [toApp EXCEPT ![k] = Append(@, piece)] ELSE toApp

\* send_steering_msg: the header, ...
SendHeader(c) ==
  /\ pc[c] = "in" /\ nsent < MaxSend
  /\ Put(at[c], [n |-> 0, cmd |-> "header"]) /\ pc' = [pc EXCEPT ![c] = "sending"]
  /\ UNCHANGED <<app, srv, cli, toClient, at, seen, nsent, got, attempts, kills, faults>>

\* ... and the body: what Emit_control or Sim_detach send.
SendBody(c) ==
  /\ pc[c] = "sending"
  /\ nsent' = nsent + 1
  /\ \E cmd \in {"edit", "detach"} :
       /\ Put(at[c], [n |-> nsent', cmd |-> cmd])
       /\ pc' = [pc EXCEPT ![c] = IF cmd = "detach" THEN "leaving" ELSE "in"]
  /\ UNCHANGED <<app, srv, cli, toClient, at, seen, got, attempts, kills, faults>>

\* Closing a connection with unread messages resets it.
CloseEnd(k) ==
  /\ cli' = [cli EXCEPT ![k] = FALSE] /\ toClient' = [toClient EXCEPT ![k] = << >>]
  /\ \/ UNCHANGED toApp
     \/ /\ ResetLoses /\ toClient[k] # << >>
        /\ toApp' = [toApp EXCEPT ![k] = << >>]

\* Finalize_connection, the second half of Sim_detach.
Close(c) ==
  /\ pc[c] = "leaving" /\ pc' = [pc EXCEPT ![c] = "out"]
  /\ CloseEnd(at[c])
  /\ UNCHANGED <<app, srv, at, seen, nsent, got, attempts, kills, faults>>

Kill(c) ==
  /\ pc[c] \in {"wait", "in", "sending", "leaving"} /\ kills < MaxKills
  /\ pc' = [pc EXCEPT ![c] = "dead"] /\ kills' = kills + 1
  /\ CloseEnd(at[c])
  /\ UNCHANGED <<app, srv, at, seen, nsent, got, attempts, faults>>

-----------------------------------------------------------------------------
Working   == Relisten \/ Accept \/ Call \/ EmitDefs \/ NoMessage \/ ReadHeader \/ ReadBody \/ Report
Goes(c)   == Greeted(c) \/ Refused(c) \/ SendBody(c) \/ Close(c)
Next      == \/ Working
             \/ Finalize
             \/ AppKilled
             \/ \E c \in Clients : Goes(c) \/ Connect(c) \/ Read(c) \/ SendHeader(c) \/ Kill(c)

\* The application goes on calling Steering_control; a client finishes what it
\* has begun and goes on reading.  Nobody has to send or to leave.
Spec == /\ Init /\ [][Next]_vars
        /\ WF_vars(Working)
        /\ \A c \in Clients : WF_vars(Goes(c)) /\ WF_vars(Read(c))

-----------------------------------------------------------------------------
(* Properties.                                                             *)

Attached(c) == pc[c] \in {"in", "sending", "leaving"} /\ srv[at[c]]

\* The control messages of all sessions, one after the other, form one FIFO
\* channel: none is lost between two that are read, none is read twice or in part,
\* whoever dies and whatever was sent of a message by then.
Channel == INSTANCE MessageChannel WITH sent <- nsent, received <- got
ControlChannel == Channel!Spec

\* Every client gets first the supported commands, without which consume_supp_cmds
\* would follow a null pointer, then the definitions, and a status message only after
\* those, also when another client had them before; and nobody else is steering.
Welcome ==
  \A c \in Clients :
    /\ at[c] # None /\ toClient[at[c]] # << >> =>
         CASE Head(toClient[at[c]]) = "supp" -> pc[c] = "wait"
           [] Head(toClient[at[c]]) = "defs" -> seen[c] = {"supp"}
           [] OTHER -> "defs" \in seen[c]
    /\ \A d \in Clients \ {c} : ~(Attached(c) /\ Attached(d))

\* A client that tries to attach is told yes or no, unless the client that is being
\* served never detaches, or died without detaching.
AttachAnswered ==
  \A c \in Clients :
    <>[](pc[c] = "wait") =>
      <>[](\E d \in Clients \ {c} : at[d] = cur /\ pc[d] \in {"in", "sending", "dead"})

\* "will this block? we never want it to!" (Get_control_msg_sockets): the
\* application never waits for a client inside Get_control_msg.
NeverBlocks == apc = "body" => toApp[cur] # << >> \/ ~cli[cur]
=============================================================================
