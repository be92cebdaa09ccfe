------------------------- MODULE SocketSteering_proofs -------------------------
(***************************************************************************)
(* Theorems about SocketSteering, for any clients and any size of buffers, *)
(* whoever is killed and whatever a reset loses.                           *)
(*                                                                         *)
(* LinkInv says which connection is in which hands, StreamInv what is on   *)
(* its way to the application, GreetInv what is on its way to a client.    *)
(***************************************************************************)
EXTENDS SocketSteering, SequenceTheorems, TLAPS

Piece == [n : Nat, cmd : {"header", "edit", "detach"}]
Kind  == {"supp", "defs", "status"}

TypeInv ==
  /\ life \in {"on", "ended"}
  /\ cur \in 0 .. MaxAttach /\ active \in BOOLEAN /\ changed \in BOOLEAN
  /\ apc \in {"idle", "defs", "read", "body", "report"}
  /\ backlog \in Seq(Conns)
  /\ pc \in [Clients -> {"out", "wait", "in", "sending", "leaving", "dead"}]
  /\ at \in [Clients -> 0 .. MaxAttach] /\ seen \in [Clients -> SUBSET Kind]
  /\ srv \in [Conns -> BOOLEAN] /\ cli \in [Conns -> BOOLEAN]
  /\ toApp \in [Conns -> Seq(Piece)] /\ toClient \in [Conns -> Seq(Kind)]
  /\ nsent \in Nat /\ got \in Seq(Nat) /\ attempts \in 0 .. MaxAttach

Up(c)   == pc[c] \in {"wait", "in", "sending", "leaving"}
In(c)   == pc[c] \in {"in", "sending", "leaving"}
Writes(c) == pc[c] \in {"in", "sending"}

\* Every client has a connection of its own, open as long as it uses it.
OwnInv ==
  \A c \in Clients :
    /\ at[c] <= attempts
    /\ Up(c) => at[c] \in Conns /\ cli[at[c]]
    /\ ~Up(c) /\ at[c] # None => ~cli[at[c]]
    /\ \A d \in Clients : at[c] = at[d] /\ at[c] # None => c = d

\* The application serves one connection; others wait in the backlog, untouched.
EndsInv ==
  /\ \A k \in Conns :
       /\ srv[k] => k = cur \/ k \in Pending
       /\ k \in Pending => toApp[k] = << >> /\ toClient[k] = << >> /\ k # cur /\ k <= attempts
       /\ k > attempts => toApp[k] = << >> /\ toClient[k] = << >> /\ k # cur
       /\ ~cli[k] => toClient[k] = << >>
       /\ k \in Pending \/ (active /\ k = cur) => srv[k]
  /\ \A i, j \in 1 .. Len(backlog) : backlog[i] = backlog[j] => i = j

StateInv ==
  /\ active <=> cur # None
  /\ ~active => apc = "idle"
  /\ life = "ended" => ~active

\* A client that may write is the one that is served.
ServedInv ==
  \A c \in Clients :
    /\ In(c) => at[c] \notin Pending
    /\ life = "on" /\ (Writes(c) \/ (pc[c] = "wait" /\ toClient[at[c]] # << >>)) => at[c] = cur

LinkInv == OwnInv /\ EndsInv /\ StateInv /\ ServedInv

\* A header that has been read already.
Ahead == IF apc = "body" THEN 1 ELSE 0
Left  == Len(toApp[cur])

\* All that has been sent has been read or is on its way.
Even == \E m \in Nat : Left + Ahead = 2 * m /\ Len(got) + m = nsent
Odd  == \E m \in Nat : Left + Ahead = 2 * m + 1 /\ Len(got) + m = nsent

\* Headers and bodies take turns; the bodies have the numbers that come next; a request
\* to detach is the last of a client.
StreamInv ==
  /\ life = "on" /\ ~active => Len(got) = nsent
  /\ active =>
       /\ \A m \in Nat :
            /\ \A i \in 1 .. Left :
                 /\ i + Ahead = 2 * m => toApp[cur][i].n = Len(got) + m
                 /\ i + Ahead = 2 * m + 1 => toApp[cur][i].cmd = "header"
            /\ Left + Ahead >= 2 * m => Len(got) + m <= nsent
       /\ \A c \in Clients : at[c] = cur =>
            /\ pc[c] \in {"wait", "in"} => Even
            /\ pc[c] = "sending" => Odd
       /\ \A i \in 1 .. Left : toApp[cur][i].cmd = "detach" =>
            /\ i = Left /\ Even
            /\ \A c \in Clients : at[c] = cur => pc[c] \notin {"wait", "in", "sending"}

\* What is on its way to a client that has not left: the supported commands, then
\* definitions, then the rest.
Told(c) ==
  LET Q == toClient[at[c]] IN
    /\ pc[c] = "wait" => seen[c] = {} /\ (Q # << >> => Q[1] = "supp")
    /\ \A i \in 1 .. Len(Q) :
         /\ Q[i] = "supp" => i = 1 /\ pc[c] = "wait"
         /\ Q[i] = "defs" => IF pc[c] = "wait" THEN i = 2 ELSE i = 1 /\ seen[c] = {"supp"}
         /\ Q[i] = "status" => "defs" \in seen[c] \/ \E j \in 1 .. i - 1 : Q[j] = "defs"
    /\ at[c] = cur /\ changed =>
         IF pc[c] = "wait" THEN Q = <<"supp">> ELSE Q = << >> /\ seen[c] = {"supp"}
    /\ at[c] = cur /\ ~changed => "defs" \in seen[c] \/ \E j \in 1 .. Len(Q) : Q[j] = "defs"

GreetInv ==
  /\ life = "on" /\ ~active => changed
  /\ active /\ changed => apc = "defs"
  /\ \A c \in Clients : Up(c) => Told(c)

-----------------------------------------------------------------------------
(* Sequences.                                                              *)

LEMMA Longer ==
  ASSUME NEW T, NEW q \in Seq(T), NEW x \in T
  PROVE  /\ Append(q, x) \in Seq(T) /\ Len(q) \in Nat
         /\ Len(Append(q, x)) = Len(q) + 1 /\ Append(q, x) # << >>
         /\ \A i \in 1 .. Len(q) : Append(q, x)[i] = q[i]
         /\ Append(q, x)[Len(q) + 1] = x
  OBVIOUS

LEMMA Shorter ==
  ASSUME NEW T, NEW q \in Seq(T), q # << >>
  PROVE  /\ Tail(q) \in Seq(T) /\ Len(q) \in Nat /\ Len(q) >= 1
         /\ Len(Tail(q)) = Len(q) - 1
         /\ \A i \in 1 .. Len(Tail(q)) : Tail(q)[i] = q[i + 1]
         /\ Head(q) = q[1] /\ Head(q) \in T
<1>1. Len(q) \in Nat /\ Len(q) >= 1
  BY EmptySeq
<1> QED BY <1>1

-----------------------------------------------------------------------------
(* Types.                                                                  *)

LEMMA InitType == Init => TypeInv
<1> SUFFICES ASSUME Init PROVE TypeInv
  OBVIOUS
<1>1. [k \in Conns |-> << >>] \in [Conns -> Seq(Piece)]
  OBVIOUS
<1>2. [k \in Conns |-> << >>] \in [Conns -> Seq(Kind)]
  OBVIOUS
<1>3. toApp = [k \in Conns |-> << >>] /\ toClient = [k \in Conns |-> << >>]
  BY DEF Init
<1>4. active \in BOOLEAN /\ changed \in BOOLEAN
  BY Zenon DEF Init
<1>5. srv \in [Conns -> BOOLEAN] /\ cli \in [Conns -> BOOLEAN]
  BY DEF Init
<1> QED BY <1>1, <1>2, <1>3, <1>4, <1>5, SocketAssumption DEF Init, TypeInv, None

LEMMA SendType ==
  ASSUME NEW T, NEW K, NEW f \in [K -> Seq(T)], NEW k \in K, NEW x \in T
  PROVE  [f EXCEPT ![k] = Append(@, x)] \in [K -> Seq(T)]
<1>1. Append(f[k], x) \in Seq(T)
  BY Longer
<1> QED BY <1>1

LEMMA StepType ==
  ASSUME TypeInv, LinkInv, [Next]_vars
  PROVE  TypeInv'
<1> USE SocketAssumption DEF Conns, None
<1>1. CASE Relisten
  BY <1>1 DEF TypeInv, Relisten, net, client
<1>2. CASE Accept
  <2>1. Head(backlog) \in Conns /\ Tail(backlog) \in Seq(Conns)
    BY <1>2, Shorter DEF Accept, TypeInv
  <2>2. toClient' \in [Conns -> Seq(Kind)]
    <3>1. [toClient EXCEPT ![cur'] = Append(@, "supp")] \in [Conns -> Seq(Kind)]
      <4>1. cur' \in Conns
        BY <1>2, <2>1 DEF Accept
      <4> QED BY <4>1, SendType DEF TypeInv, Kind, Kind
    <3>2. toClient' = [toClient EXCEPT ![cur'] = Append(@, "supp")] \/ toClient' = toClient
      BY <1>2 DEF Accept, Greet, SendTo
    <3> QED BY <3>1, <3>2 DEF TypeInv
  <2>3. active' \in BOOLEAN
    BY <1>2, Zenon DEF Accept
  <2>4. cur' \in 0 .. MaxAttach /\ backlog' \in Seq(Conns) /\ apc' \in {"idle", "defs", "read", "body", "report"}
    BY <1>2, <2>1 DEF Accept
  <2>5. UNCHANGED <<life, changed, srv, cli, toApp, pc, at, seen, nsent, attempts, got>>
    BY <1>2 DEF Accept, client
  <2> QED BY ONLY TypeInv, <2>2, <2>3, <2>4, <2>5 DEF TypeInv
<1>3. CASE Call
  BY <1>3 DEF TypeInv, Call, net, client
<1>4. CASE EmitDefs
  <2>1. cur \in Conns
    BY <1>4 DEF EmitDefs, TypeInv, LinkInv, StateInv
  <2>2. toClient' \in [Conns -> Seq(Kind)]
    <3>1. [toClient EXCEPT ![cur] = Append(@, "defs")] \in [Conns -> Seq(Kind)]
      BY <2>1, SendType DEF TypeInv, Kind
    <3>2. toClient' = [toClient EXCEPT ![cur] = Append(@, "defs")] \/ toClient' = toClient
      BY <1>4 DEF EmitDefs, SendTo
    <3> QED BY <3>1, <3>2 DEF TypeInv
  <2> QED BY <1>4, <2>2 DEF TypeInv, EmitDefs, client
<1>5. CASE NoMessage
  BY <1>5 DEF TypeInv, NoMessage, net, client
<1>6. CASE ReadHeader
  <2>1. cur \in Conns
    BY <1>6 DEF ReadHeader, TypeInv, LinkInv, StateInv
  <2>2. Tail(toApp[cur]) \in Seq(Piece)
    BY <1>6, <2>1, Shorter DEF ReadHeader, Readable, TypeInv
  <2> QED BY <1>6, <2>1, <2>2 DEF TypeInv, ReadHeader, client
<1>7. CASE ReadBody
  <2>1. cur \in Conns
    BY <1>7 DEF ReadBody, TypeInv, LinkInv, StateInv
  <2>2. Tail(toApp[cur]) \in Seq(Piece) /\ Head(toApp[cur]) \in Piece
    BY <1>7, <2>1, Shorter DEF ReadBody, TypeInv
  <2>3. toApp' \in [Conns -> Seq(Piece)]
    BY <1>7, <2>1, <2>2 DEF TypeInv, ReadBody
  <2>4. got' \in Seq(Nat)
    BY <1>7, <2>2, Longer DEF TypeInv, ReadBody, Piece
  <2>5. CASE Detach
    <3>1. srv' \in [Conns -> BOOLEAN]
      BY <2>5 DEF Detach, Closed, TypeInv
    <3>2. active' \in BOOLEAN /\ changed' \in BOOLEAN
      BY <2>5, Zenon DEF Detach
    <3>5. cur' \in 0 .. MaxAttach
      BY <2>5, SocketAssumption DEF Detach
    <3>3. UNCHANGED <<life, cli, toClient, pc, at, seen, nsent, attempts>>
      BY <1>7 DEF ReadBody, client
    <3>4. backlog' \in Seq(Conns) /\ apc' \in {"idle", "defs", "read", "body", "report"}
      BY <2>5 DEF Detach
    <3> QED BY ONLY TypeInv, <2>3, <2>4, <3>1, <3>2, <3>3, <3>4, <3>5 DEF TypeInv
  <2>6. CASE UNCHANGED <<listener, comms, cur, active, changed, backlog, srv>> /\ apc' = "report"
    BY <1>7, <2>3, <2>4, <2>6 DEF TypeInv, ReadBody, client
  <2> QED BY <1>7, <2>5, <2>6 DEF ReadBody
<1>8. CASE Report
  <2>1. cur \in Conns
    BY <1>8 DEF Report, TypeInv, LinkInv, StateInv
  <2>2. toClient' \in [Conns -> Seq(Kind)]
    <3>1. [toClient EXCEPT ![cur] = Append(@, "status")] \in [Conns -> Seq(Kind)]
      BY <2>1, SendType DEF TypeInv, Kind
    <3>2. toClient' = [toClient EXCEPT ![cur] = Append(@, "status")] \/ toClient' = toClient
      BY <1>8 DEF Report, SendTo
    <3> QED BY <3>1, <3>2 DEF TypeInv
  <2> QED BY <1>8, <2>2 DEF TypeInv, Report, client
<1>9. CASE Ended
  <2>1. srv' \in [Conns -> BOOLEAN]
    BY <1>9 DEF Ended, Closed, TypeInv
  <2>2. active' \in BOOLEAN
    BY <1>9, Zenon DEF Ended
  <2>3. cur' \in 0 .. MaxAttach
    BY <1>9, SocketAssumption DEF Ended
  <2> QED BY <1>9, <2>1, <2>2, <2>3 DEF TypeInv, Ended, client
<1>10. ASSUME NEW c \in Clients, Take(c), at[c] \in Conns,
              pc' = [pc EXCEPT ![c] = "in"] \/ UNCHANGED pc
       PROVE  TypeInv'
  <2>1. Tail(toClient[at[c]]) \in Seq(Kind) /\ Head(toClient[at[c]]) \in Kind
    BY <1>10, Shorter DEF Take, TypeInv
  <2>2. toClient' \in [Conns -> Seq(Kind)] /\ seen' \in [Clients -> SUBSET Kind]
    BY <1>10, <2>1 DEF Take, TypeInv
  <2>3. pc' \in [Clients -> {"out", "wait", "in", "sending", "leaving", "dead"}]
    BY <1>10 DEF TypeInv
  <2> QED BY <1>10, <2>2, <2>3 DEF TypeInv, Take, app
<1>11. ASSUME NEW c \in Clients, at[c] \in Conns, CloseEnd(at[c])
       PROVE  /\ cli' \in [Conns -> BOOLEAN] /\ toClient' \in [Conns -> Seq(Kind)]
              /\ toApp' \in [Conns -> Seq(Piece)]
  <2>1. cli' \in [Conns -> BOOLEAN]
    BY <1>11 DEF CloseEnd, TypeInv
  <2>2. toClient' \in [Conns -> Seq(Kind)]
    BY <1>11 DEF CloseEnd, TypeInv
  <2>3. toApp' \in [Conns -> Seq(Piece)]
    <3>1. toApp' = toApp \/ toApp' = [toApp EXCEPT ![at[c]] = << >>]
      BY <1>11 DEF CloseEnd
    <3>2. << >> \in Seq(Piece)
      OBVIOUS
    <3> QED BY <1>11, <3>1, <3>2 DEF TypeInv
  <2> QED BY <2>1, <2>2, <2>3
<1>12. ASSUME NEW c \in Clients, Connect(c)
       PROVE  TypeInv'
  <2>1. attempts + 1 \in Conns
    BY <1>12 DEF Connect, TypeInv
  <2>2. backlog' \in Seq(Conns)
    BY <1>12, <2>1, Longer DEF Connect, TypeInv
  <2> QED BY <1>12, <2>1, <2>2 DEF TypeInv, Connect
<1>13. ASSUME NEW c \in Clients, Refused(c)
       PROVE  TypeInv'
  BY <1>13 DEF TypeInv, Refused, app
<1>14. ASSUME NEW c \in Clients, SendHeader(c)
       PROVE  TypeInv'
  <2>1. at[c] \in Conns /\ [n |-> 0, cmd |-> "header"] \in Piece
    BY <1>14 DEF SendHeader, LinkInv, OwnInv, Up, Piece
  <2>2. toApp' \in [Conns -> Seq(Piece)]
    <3>1. toApp' = [toApp EXCEPT ![at[c]] = Append(@, [n |-> 0, cmd |-> "header"])] \/ toApp' = toApp
      BY <1>14 DEF SendHeader, Put
    <3>2. [toApp EXCEPT ![at[c]] = Append(@, [n |-> 0, cmd |-> "header"])] \in [Conns -> Seq(Piece)]
      BY <2>1, SendType DEF TypeInv
    <3> QED BY <3>1, <3>2 DEF TypeInv
  <2> QED BY <1>14, <2>2 DEF TypeInv, SendHeader, app
<1>15. ASSUME NEW c \in Clients, SendBody(c)
       PROVE  TypeInv'
  <2>1. at[c] \in Conns /\ nsent' \in Nat
    BY <1>15 DEF SendBody, LinkInv, OwnInv, Up, TypeInv
  <2>2. [n |-> nsent', cmd |-> "edit"] \in Piece /\ [n |-> nsent', cmd |-> "detach"] \in Piece
    BY <2>1 DEF Piece
  <2>3. \/ toApp' = toApp
        \/ toApp' = [toApp EXCEPT ![at[c]] = Append(@, [n |-> nsent', cmd |-> "edit"])]
        \/ toApp' = [toApp EXCEPT ![at[c]] = Append(@, [n |-> nsent', cmd |-> "detach"])]
    BY <1>15 DEF SendBody, Put
  <2>4. toApp' \in [Conns -> Seq(Piece)]
    <3>1. [toApp EXCEPT ![at[c]] = Append(@, [n |-> nsent', cmd |-> "edit"])] \in [Conns -> Seq(Piece)]
      BY <2>1, <2>2, SendType DEF TypeInv
    <3>2. [toApp EXCEPT ![at[c]] = Append(@, [n |-> nsent', cmd |-> "detach"])] \in [Conns -> Seq(Piece)]
      BY <2>1, <2>2, SendType DEF TypeInv
    <3> QED BY <2>3, <3>1, <3>2 DEF TypeInv
  <2>5. pc' \in [Clients -> {"out", "wait", "in", "sending", "leaving", "dead"}]
    BY <1>15 DEF SendBody, TypeInv
  <2> QED BY <1>15, <2>1, <2>4, <2>5 DEF TypeInv, SendBody, app
<1>16. ASSUME NEW c \in Clients, Close(c) \/ Kill(c)
       PROVE  TypeInv'
  <2>1. at[c] \in Conns /\ CloseEnd(at[c])
    BY <1>16 DEF Close, Kill, LinkInv, OwnInv, Up
  <2> QED BY <1>11, <1>16, <2>1 DEF TypeInv, Close, Kill, app
<1>17. CASE UNCHANGED vars
  BY <1>17 DEF TypeInv, vars, app, net, client
<1>18. ASSUME NEW c \in Clients, Greeted(c) \/ Read(c)
       PROVE  TypeInv'
  BY <1>10, <1>18 DEF Greeted, Read, LinkInv, OwnInv, Up
<1> QED
  BY <1>1, <1>2, <1>3, <1>4, <1>5, <1>6, <1>7, <1>8, <1>9, <1>12, <1>13, <1>14, <1>15, <1>16,
     <1>17, <1>18 DEF Next, Working, Goes, Finalize, AppKilled

-----------------------------------------------------------------------------
(* Connections.                                                            *)

LEMMA InitLink == Init => LinkInv
<1> SUFFICES ASSUME Init PROVE LinkInv
  OBVIOUS
<1> USE SocketAssumption DEF Init, None
<1>1. OwnInv
  <2>1. attempts = 0 /\ \A c \in Clients : at[c] = 0 /\ pc[c] = "out"
    OBVIOUS
  <2>2. \A c \in Clients : ~Up(c)
    BY <2>1 DEF Up
  <2>3. \A c \in Clients : at[c] <= attempts /\ at[c] = None
    <3> TAKE c \in Clients
    <3>1. at[c] = 0 /\ attempts = 0
      BY <2>1
    <3>2. 0 <= 0
      OBVIOUS
    <3>3. at[c] <= attempts
      BY ONLY <3>1, <3>2
    <3> QED BY <3>1, <3>3
  <2> QED BY ONLY <2>2, <2>3, Zenon DEF OwnInv
<1>2. Pending = {}
  BY DEF Pending
<1>3. EndsInv
  BY <1>2 DEF EndsInv
<1>4. StateInv
  BY Zenon DEF StateInv
<1>5. ServedInv
  BY DEF ServedInv, In, Writes
<1> QED BY <1>1, <1>3, <1>4, <1>5 DEF LinkInv

LEMMA StepOwn ==
  ASSUME TypeInv, TypeInv', LinkInv, [Next]_vars
  PROVE  OwnInv'
<1> USE SocketAssumption DEF Conns, None
<1>1. CASE UNCHANGED <<at, attempts, pc, cli>>
  BY <1>1 DEF LinkInv, OwnInv, Up
<1>2. ASSUME NEW c \in Clients, Greeted(c) \/ SendHeader(c) \/ SendBody(c)
      PROVE  OwnInv'
  <2>1. Up(c) /\ UNCHANGED <<at, attempts, cli>>
    BY <1>2 DEF Greeted, Take, SendHeader, SendBody, Up, app
  <2>2. pc' \in {[pc EXCEPT ![c] = x] : x \in {"in", "sending", "leaving"}}
    BY <1>2 DEF Greeted, SendHeader, SendBody
  <2>3. \A d \in Clients : Up(d)' <=> Up(d)
    BY <2>1, <2>2 DEF Up, TypeInv
  <2> QED BY <2>1, <2>3 DEF LinkInv, OwnInv
<1>3. ASSUME NEW c \in Clients, Refused(c) \/ Close(c) \/ Kill(c)
      PROVE  OwnInv'
  <2>1. Up(c) /\ UNCHANGED <<at, attempts>> /\ cli' = [cli EXCEPT ![at[c]] = FALSE]
    BY <1>3 DEF Refused, Close, Kill, CloseEnd, Up
  <2>2. pc' \in {[pc EXCEPT ![c] = x] : x \in {"out", "dead"}}
    BY <1>3 DEF Refused, Close, Kill
  <2>3. ~Up(c)' /\ \A d \in Clients \ {c} : Up(d)' <=> Up(d)
    BY <2>2 DEF Up, TypeInv
  <2>4. at[c] \in Conns /\ \A d \in Clients \ {c} : at[d] # at[c]
    BY <2>1 DEF LinkInv, OwnInv
  <2>5. ~cli'[at[c]] /\ \A k \in Conns \ {at[c]} : cli'[k] = cli[k]
    BY <2>1, <2>4 DEF TypeInv
  <2>6. \A d \in Clients \ {c} : at[d] # None => cli'[at[d]] = cli[at[d]]
    <3> SUFFICES ASSUME NEW d \in Clients \ {c}, at[d] # None
                 PROVE  at[d] \in Conns \ {at[c]}
      BY <2>5
    <3> QED BY <2>4 DEF TypeInv
  <2>7. OwnInv
    BY DEF LinkInv
  <2> QED BY ONLY <2>1, <2>3, <2>4, <2>5, <2>6, <2>7 DEF OwnInv, Conns, None
<1>4. ASSUME NEW c \in Clients, Connect(c)
      PROVE  OwnInv'
  <2>1. /\ attempts' = attempts + 1 /\ attempts' \in Conns
        /\ at' = [at EXCEPT ![c] = attempts'] /\ cli' = [cli EXCEPT ![attempts'] = TRUE]
    BY <1>4 DEF Connect, TypeInv
  <2>2. Up(c)' /\ \A d \in Clients \ {c} : Up(d)' <=> Up(d)
    BY <1>4 DEF Connect, Up, TypeInv
  <2>3. at'[c] = attempts' /\ \A d \in Clients \ {c} : at'[d] = at[d] /\ at[d] < attempts'
    BY <2>1 DEF TypeInv, LinkInv, OwnInv
  <2>4. cli'[attempts'] /\ \A k \in Conns \ {attempts'} : cli'[k] = cli[k]
    BY <2>1 DEF TypeInv
  <2>5. ASSUME NEW d \in Clients \ {c}, at[d] # None
        PROVE  at[d] \in Conns \ {attempts'}
    <3>1. at[d] \in 0 .. MaxAttach /\ at[d] < attempts' /\ attempts' \in Int
      BY <2>1, <2>3 DEF TypeInv
    <3> QED BY <2>5, <3>1
  <2>6. \A d \in Clients \ {c} : at[d] # None => cli'[at[d]] = cli[at[d]]
    BY <2>4, <2>5
  <2>7. OwnInv /\ attempts \in Int /\ \A d \in Clients : at[d] \in Int
    BY DEF LinkInv, TypeInv
  <2> QED BY ONLY <2>1, <2>2, <2>3, <2>4, <2>6, <2>7 DEF OwnInv, Conns, None
<1>5. \/ UNCHANGED <<at, attempts, pc, cli>>
      \/ \E c \in Clients : Greeted(c) \/ SendHeader(c) \/ SendBody(c)
      \/ \E c \in Clients : Refused(c) \/ Close(c) \/ Kill(c)
      \/ \E c \in Clients : Connect(c)
  <2>1. CASE UNCHANGED vars
    BY <2>1 DEF vars, net, client
  <2>2. CASE Working
    BY <2>2 DEF Working, Relisten, Accept, Call, EmitDefs, NoMessage, ReadHeader, ReadBody, Report,
                net, client
  <2>3. CASE Finalize \/ AppKilled
    BY <2>3 DEF Finalize, AppKilled, Ended, client
  <2>4. ASSUME NEW c \in Clients, Read(c)
        PROVE  UNCHANGED <<at, attempts, pc, cli>>
    BY <2>4 DEF Read, Take
  <2> QED BY <2>1, <2>2, <2>3, <2>4 DEF Next, Goes
<1> QED BY <1>1, <1>2, <1>3, <1>4, <1>5

LEMMA StepState ==
  ASSUME TypeInv, LinkInv, [Next]_vars
  PROVE  StateInv'
<1> USE SocketAssumption DEF None
<1>0. StateInv
  BY DEF LinkInv
<1>1. CASE Accept
  <2>1. Head(backlog) # 0
    BY <1>1, Shorter DEF Accept, TypeInv, Conns
  <2> QED BY <1>0, <1>1, <2>1 DEF Accept, StateInv
<1>2. CASE ReadBody
  BY <1>0, <1>2 DEF ReadBody, Detach, StateInv
<1>3. CASE Ended
  BY <1>3 DEF Ended, StateInv
<1>4. CASE Relisten \/ Call \/ EmitDefs \/ NoMessage \/ ReadHeader \/ Report
  BY <1>0, <1>4 DEF Relisten, Call, EmitDefs, NoMessage, ReadHeader, Report, StateInv
<1>5. CASE UNCHANGED <<life, active, cur, apc>>
  BY <1>0, <1>5 DEF StateInv
<1>6. ASSUME NEW c \in Clients, Goes(c) \/ Connect(c) \/ Read(c) \/ SendHeader(c) \/ Kill(c)
      PROVE  UNCHANGED <<life, active, cur, apc>>
  BY <1>6 DEF Goes, Greeted, Refused, SendBody, Close, Connect, Read, SendHeader, Kill, Take, app
<1> QED
  BY <1>1, <1>2, <1>3, <1>4, <1>5, <1>6 DEF Next, Working, Finalize, AppKilled, vars, app

LEMMA FirstPending ==
  ASSUME TypeInv, EndsInv, backlog # << >>
  PROVE  /\ Head(backlog) \in Conns /\ Head(backlog) \in Pending
         /\ {Tail(backlog)[i] : i \in DOMAIN Tail(backlog)} = Pending \ {Head(backlog)}
         /\ \A i, j \in 1 .. Len(Tail(backlog)) : Tail(backlog)[i] = Tail(backlog)[j] => i = j
<1> DEFINE n == Len(backlog)
           T == Tail(backlog)
<1>1. /\ n \in Nat /\ n >= 1 /\ Len(T) = n - 1 /\ DOMAIN T = 1 .. n - 1 /\ DOMAIN backlog = 1 .. n
      /\ \A i \in 1 .. n - 1 : T[i] = backlog[i + 1]
      /\ Head(backlog) = backlog[1] /\ Head(backlog) \in Conns
  BY Shorter DEF TypeInv
<1>2. \A i, j \in 1 .. n : backlog[i] = backlog[j] => i = j
  BY DEF EndsInv
<1>3. Pending = {backlog[i] : i \in 1 .. n}
  BY <1>1 DEF Pending
<1> HIDE DEF n, T
<1>4. {T[i] : i \in 1 .. n - 1} \subseteq Pending \ {backlog[1]}
  <2> SUFFICES ASSUME NEW i \in 1 .. n - 1
               PROVE  T[i] \in Pending /\ T[i] # backlog[1]
    OBVIOUS
  <2>1. i + 1 \in 1 .. n /\ i + 1 # 1 /\ 1 \in 1 .. n /\ T[i] = backlog[i + 1]
    BY <1>1
  <2> QED BY <1>2, <1>3, <2>1
<1>5. Pending \ {backlog[1]} \subseteq {T[i] : i \in 1 .. n - 1}
  <2> SUFFICES ASSUME NEW k \in 1 .. n, backlog[k] # backlog[1]
               PROVE  \E i \in 1 .. n - 1 : backlog[k] = T[i]
    BY <1>3
  <2>1. k - 1 \in 1 .. n - 1 /\ T[k - 1] = backlog[(k - 1) + 1] /\ (k - 1) + 1 = k
    BY <1>1
  <2> QED BY <2>1
<1>6. \A i, j \in 1 .. n - 1 : T[i] = T[j] => i = j
  <2> TAKE i, j \in 1 .. n - 1
  <2>1. i + 1 \in 1 .. n /\ j + 1 \in 1 .. n /\ T[i] = backlog[i + 1] /\ T[j] = backlog[j + 1]
    BY <1>1
  <2>2. T[i] = T[j] => i + 1 = j + 1
    BY <1>2, <2>1
  <2>3. i + 1 = j + 1 => i = j
    OBVIOUS
  <2> QED BY ONLY <2>2, <2>3
<1>7. backlog[1] \in Pending
  BY <1>1, <1>3
<1> QED BY <1>1, <1>4, <1>5, <1>6, <1>7 DEF T

LEMMA EndsKept ==
  ASSUME EndsInv, UNCHANGED <<srv, cur, active, backlog, attempts>>,
         \A k \in Conns : toApp'[k] \in {toApp[k], << >>} \/ (k \notin Pending /\ k <= attempts),
         \A k \in Conns : toClient'[k] \in {toClient[k], << >>} \/ (k \notin Pending /\ k <= attempts),
         \A k \in Conns : ~cli'[k] => toClient'[k] = << >>,
         attempts \in Int, Conns \subseteq Int
  PROVE  EndsInv'
<1>1. Pending' = Pending
  BY DEF Pending
<1>2. ASSUME NEW k \in Conns
      PROVE  /\ srv'[k] => k = cur \/ k \in Pending
             /\ k \in Pending => toApp'[k] = << >> /\ toClient'[k] = << >> /\ k # cur /\ k <= attempts
             /\ k > attempts => toApp'[k] = << >> /\ toClient'[k] = << >> /\ k # cur
             /\ k \in Pending \/ (active /\ k = cur) => srv'[k]
  <2>1. ~(k > attempts /\ k <= attempts)
    BY <1>2
  <2> QED BY <1>2, <2>1 DEF EndsInv
<1> QED BY <1>1, <1>2 DEF EndsInv

LEMMA StepEnds ==
  ASSUME TypeInv, TypeInv', LinkInv, [Next]_vars
  PROVE  EndsInv'
<1> USE SocketAssumption DEF None
<1>0. /\ OwnInv /\ EndsInv /\ StateInv /\ ServedInv
      /\ attempts \in Int /\ Conns \subseteq Int
      /\ active => cur \in Conns /\ cur \notin Pending /\ cur <= attempts
  <2>1. OwnInv /\ EndsInv /\ StateInv /\ ServedInv
    BY DEF LinkInv
  <2>2. attempts \in Int /\ Conns \subseteq Int
    BY DEF TypeInv, Conns
  <2>3. active => cur \in Conns
    BY <2>1 DEF StateInv, TypeInv, Conns
  <2>4. ASSUME active PROVE cur \notin Pending /\ cur <= attempts
    <3>1. cur \in Conns
      BY <2>3, <2>4
    <3>2. cur \notin Pending /\ ~(cur > attempts)
      BY <2>1, <3>1 DEF EndsInv
    <3> QED BY <2>2, <3>1, <3>2
  <2> QED BY <2>1, <2>2, <2>3, <2>4
<1>1. CASE UNCHANGED <<srv, cli, toApp, toClient, cur, active, backlog, attempts>>
  <2>1. \A k \in Conns : ~cli'[k] => toClient'[k] = << >>
    BY <1>0, <1>1 DEF EndsInv
  <2> QED BY <1>0, <1>1, <2>1, EndsKept
<1>2. CASE Accept
  <2>1. /\ backlog # << >> /\ backlog' = Tail(backlog) /\ cur' = Head(backlog) /\ cur = 0
        /\ UNCHANGED <<srv, cli, toApp, attempts>>
    BY <1>0, <1>2 DEF Accept, StateInv, client
  <2>2. /\ cur' \in Conns /\ cur' \in Pending /\ Pending' = Pending \ {cur'}
        /\ \A i, j \in 1 .. Len(backlog') : backlog'[i] = backlog'[j] => i = j
    <3>1. Pending' = {Tail(backlog)[i] : i \in DOMAIN Tail(backlog)}
      BY <2>1 DEF Pending
    <3> QED BY <1>0, <2>1, <3>1, FirstPending
  <2>3. \A k \in Conns : k # cur' \/ ~cli[k] => toClient'[k] = toClient[k]
    BY <1>2, <2>2 DEF Accept, Greet, SendTo, TypeInv
  <2>4. ASSUME NEW k \in Conns
        PROVE  /\ srv'[k] => k = cur' \/ k \in Pending'
               /\ k \in Pending' => toApp'[k] = << >> /\ toClient'[k] = << >> /\ k # cur' /\ k <= attempts'
               /\ k > attempts' => toApp'[k] = << >> /\ toClient'[k] = << >> /\ k # cur'
               /\ ~cli'[k] => toClient'[k] = << >>
               /\ k \in Pending' \/ (active' /\ k = cur') => srv'[k]
    <3>1. k \notin Conns \/ k # 0
      BY DEF Conns
    <3>2. cur' <= attempts /\ (k > attempts => k # cur')
      BY <1>0, <2>2 DEF EndsInv
    <3>3. k # cur' => toClient'[k] = toClient[k]
      BY <2>3
    <3> QED BY <1>0, <2>1, <2>2, <2>3, <2>4, <3>1, <3>2, <3>3 DEF EndsInv
  <2> QED BY <2>2, <2>4 DEF EndsInv
<1>3. CASE EmitDefs \/ Report
  <2>1. /\ active /\ UNCHANGED <<srv, cli, toApp, cur, active, backlog, attempts>>
        /\ \A k \in Conns : k # cur \/ ~cli[k] => toClient'[k] = toClient[k]
    BY <1>0, <1>3 DEF EmitDefs, Report, SendTo, StateInv, client, TypeInv
  <2>2. \A k \in Conns : ~cli'[k] => toClient'[k] = << >>
    BY <1>0, <2>1 DEF EndsInv
  <2> QED BY <1>0, <2>1, <2>2, EndsKept
<1>4. CASE ReadHeader \/ ReadBody
  <2>1. /\ active /\ UNCHANGED <<cli, toClient, attempts>>
        /\ \A k \in Conns : k # cur => toApp'[k] = toApp[k]
    BY <1>0, <1>4 DEF ReadHeader, ReadBody, StateInv, client, TypeInv
  <2>2. \A k \in Conns : ~cli'[k] => toClient'[k] = << >>
    BY <1>0, <2>1 DEF EndsInv
  <2>3. CASE UNCHANGED <<srv, cur, active, backlog>>
    BY <1>0, <2>1, <2>2, <2>3, EndsKept
  <2>4. CASE Detach
    <3>1. backlog' = << >> /\ Pending' = {} /\ cur' = 0 /\ ~active' /\ \A k \in Conns : ~srv'[k]
      <4>1. backlog' = << >> /\ cur' = 0 /\ ~active' /\ srv' = [k \in Conns |-> srv[k] /\ k \notin {cur} \cup Pending]
        BY <2>4 DEF Detach, Closed
      <4>2. Pending' = {}
        BY <4>1 DEF Pending
      <4>3. ASSUME NEW k \in Conns PROVE ~srv'[k]
        <5>1. srv'[k] = (srv[k] /\ k \notin {cur} \cup Pending)
          BY <4>1
        <5>2. srv[k] => k \in {cur} \cup Pending
          BY <1>0 DEF EndsInv
        <5> QED BY <5>1, <5>2
      <4> QED BY <4>1, <4>2, <4>3
    <3>2. \A k \in Conns : k > attempts => toApp'[k] = << >> /\ toClient'[k] = << >> /\ k # 0
      BY <1>0, <2>1 DEF EndsInv, Conns
    <3> QED BY <2>1, <2>2, <3>1, <3>2 DEF EndsInv
  <2> QED BY <1>4, <2>3, <2>4 DEF ReadHeader, ReadBody
<1>5. CASE Ended
  <2>1. /\ backlog' = << >> /\ Pending' = {} /\ cur' = 0 /\ ~active' /\ \A k \in Conns : ~srv'[k]
        /\ UNCHANGED <<cli, toApp, toClient, attempts>>
    <3>1. /\ backlog' = << >> /\ cur' = 0 /\ ~active' /\ srv' = [k \in Conns |-> srv[k] /\ k \notin Conns]
          /\ UNCHANGED <<cli, toApp, toClient, attempts>>
      BY <1>5 DEF Ended, Closed, client
    <3>2. Pending' = {}
      BY <3>1 DEF Pending
    <3>3. ASSUME NEW k \in Conns PROVE ~srv'[k]
      <4>1. srv'[k] = (srv[k] /\ k \notin Conns)
        BY <3>1
      <4> QED BY <3>3, <4>1
    <3> QED BY <3>1, <3>2, <3>3
  <2>2. \A k \in Conns : k > attempts => toApp'[k] = << >> /\ toClient'[k] = << >> /\ k # 0
    BY <1>0, <2>1 DEF EndsInv, Conns
  <2>3. \A k \in Conns : (~cli[k] => toClient[k] = << >>) /\ k # 0
    BY <1>0 DEF EndsInv, Conns
  <2>4. 1 .. Len(backlog') = {}
    BY <2>1
  <2>5. ASSUME NEW k \in Conns
        PROVE  /\ srv'[k] => k = cur' \/ k \in Pending'
               /\ k \in Pending' => toApp'[k] = << >> /\ toClient'[k] = << >> /\ k # cur' /\ k <= attempts'
               /\ k > attempts' => toApp'[k] = << >> /\ toClient'[k] = << >> /\ k # cur'
               /\ ~cli'[k] => toClient'[k] = << >>
               /\ k \in Pending' \/ (active' /\ k = cur') => srv'[k]
    BY ONLY <2>1, <2>2, <2>3, <2>5
  <2> QED BY ONLY <2>4, <2>5 DEF EndsInv
<1>6. ASSUME NEW c \in Clients, Connect(c)
      PROVE  EndsInv'
  <2> DEFINE new == attempts + 1
  <2>1. /\ attempts' = new /\ new \in Conns /\ backlog' = Append(backlog, new)
        /\ srv' = [srv EXCEPT ![new] = TRUE] /\ cli' = [cli EXCEPT ![new] = TRUE]
        /\ UNCHANGED <<cur, active, toApp, toClient>>
    BY <1>6 DEF Connect, TypeInv, Conns
  <2>2. /\ Len(backlog) \in Nat /\ Len(backlog') = Len(backlog) + 1
        /\ DOMAIN backlog = 1 .. Len(backlog) /\ DOMAIN backlog' = 1 .. Len(backlog) + 1
        /\ \A i \in 1 .. Len(backlog) : backlog'[i] = backlog[i]
        /\ backlog'[Len(backlog) + 1] = new
    BY <2>1, Longer DEF TypeInv
  <2>3. Pending' = Pending \cup {new}
    <3>1. Pending' = {backlog'[i] : i \in 1 .. Len(backlog) + 1}
      BY <2>2 DEF Pending
    <3>2. Pending = {backlog[i] : i \in 1 .. Len(backlog)}
      BY <2>2 DEF Pending
    <3>3. 1 .. Len(backlog) + 1 = (1 .. Len(backlog)) \cup {Len(backlog) + 1}
      BY <2>2
    <3> QED BY <2>2, <3>1, <3>2, <3>3
  <2>4. new \notin Pending /\ new > attempts /\ new # cur
    BY <1>0, <2>1 DEF EndsInv
  <2>5. \A i, j \in 1 .. Len(backlog') : backlog'[i] = backlog'[j] => i = j
    <3>1. \A i \in 1 .. Len(backlog) : backlog[i] # new
      BY <2>2, <2>4 DEF Pending
    <3>2. \A i \in 1 .. Len(backlog') : i \in 1 .. Len(backlog) \/ i = Len(backlog) + 1
      BY <2>2
    <3> QED BY <1>0, <2>2, <3>1, <3>2 DEF EndsInv
  <2>6. ASSUME NEW k \in Conns
        PROVE  /\ srv'[k] => k = cur' \/ k \in Pending'
               /\ k \in Pending' => toApp'[k] = << >> /\ toClient'[k] = << >> /\ k # cur' /\ k <= attempts'
               /\ k > attempts' => toApp'[k] = << >> /\ toClient'[k] = << >> /\ k # cur'
               /\ ~cli'[k] => toClient'[k] = << >>
               /\ k \in Pending' \/ (active' /\ k = cur') => srv'[k]
    <3>1. CASE k = new
      BY <1>0, <2>1, <2>3, <2>4, <3>1 DEF EndsInv, TypeInv
    <3>2. CASE k # new
      <4>1. srv'[k] = srv[k] /\ cli'[k] = cli[k]
        BY <2>1, <3>2 DEF TypeInv
      <4>2. (k <= attempts => k <= attempts') /\ (k > attempts' => k > attempts)
        BY <1>0, <2>1
      <4> QED BY <1>0, <2>1, <2>3, <2>6, <3>2, <4>1, <4>2 DEF EndsInv
    <3> QED BY <3>1, <3>2
  <2> QED BY <2>5, <2>6 DEF EndsInv
<1>7. ASSUME NEW c \in Clients, Take(c), Up(c)
      PROVE  EndsInv'
  <2>1. /\ at[c] \in Conns /\ cli[at[c]] /\ toClient[at[c]] # << >>
        /\ UNCHANGED <<srv, cli, toApp, cur, active, backlog, attempts>>
        /\ \A k \in Conns \ {at[c]} : toClient'[k] = toClient[k]
    BY <1>0, <1>7 DEF OwnInv, Take, app, TypeInv
  <2>2. at[c] \notin Pending /\ at[c] <= attempts
    BY <1>0, <1>7, <2>1 DEF EndsInv, OwnInv
  <2>3. \A k \in Conns : ~cli'[k] => toClient'[k] = << >>
    BY <1>0, <2>1 DEF EndsInv
  <2> QED BY <1>0, <2>1, <2>2, <2>3, EndsKept
<1>8. ASSUME NEW c \in Clients, Refused(c)
      PROVE  EndsInv'
  <2>1. /\ toClient[at[c]] = << >> /\ cli' = [cli EXCEPT ![at[c]] = FALSE]
        /\ UNCHANGED <<srv, toApp, toClient, cur, active, backlog, attempts>>
    BY <1>8 DEF Refused, app
  <2>2. \A k \in Conns : ~cli'[k] => toClient'[k] = << >>
    <3>1. \A k \in Conns : k # at[c] => cli'[k] = cli[k]
      BY <2>1 DEF TypeInv
    <3>2. \A k \in Conns : ~cli[k] => toClient[k] = << >>
      BY <1>0 DEF EndsInv
    <3> QED BY ONLY <2>1, <3>1, <3>2
  <2> QED BY <1>0, <2>1, <2>2, EndsKept
<1>9. ASSUME NEW c \in Clients, SendHeader(c) \/ SendBody(c)
      PROVE  EndsInv'
  <2>1. /\ In(c) /\ UNCHANGED <<srv, cli, toClient, cur, active, backlog, attempts>>
        /\ \A k \in Conns : k # at[c] => toApp'[k] = toApp[k]
    BY <1>9 DEF SendHeader, SendBody, Put, In, app, TypeInv
  <2>2. at[c] \notin Pending /\ at[c] <= attempts
    BY <1>0, <2>1 DEF ServedInv, OwnInv
  <2>3. \A k \in Conns : ~cli'[k] => toClient'[k] = << >>
    BY <1>0, <2>1 DEF EndsInv
  <2> QED BY <1>0, <2>1, <2>2, <2>3, EndsKept
<1>10. ASSUME NEW c \in Clients, Close(c) \/ Kill(c)
       PROVE  EndsInv'
  <2>1. at[c] \in Conns /\ CloseEnd(at[c]) /\ UNCHANGED <<srv, cur, active, backlog, attempts>>
    BY <1>0, <1>10 DEF Close, Kill, OwnInv, Up, app
  <2>2. \A k \in Conns : /\ ~cli'[k] => toClient'[k] = << >>
                         /\ toClient'[k] \in {toClient[k], << >>} /\ toApp'[k] \in {toApp[k], << >>}
    <3>1. \A k \in Conns : ~cli[k] => toClient[k] = << >>
      BY <1>0 DEF EndsInv
    <3>2. /\ toClient'[at[c]] = << >> /\ \A k \in Conns : k # at[c] => cli'[k] = cli[k] /\ toClient'[k] = toClient[k]
          /\ \A k \in Conns : toApp'[k] \in {toApp[k], << >>}
      BY <2>1 DEF CloseEnd, TypeInv
    <3> QED BY ONLY <2>1, <3>1, <3>2
  <2> QED BY <1>0, <2>1, <2>2, EndsKept
<1>11. CASE UNCHANGED vars \/ Relisten \/ Call \/ NoMessage
  BY <1>1, <1>11 DEF Relisten, Call, NoMessage, vars, app, net, client
<1>12. ASSUME NEW c \in Clients, Greeted(c) \/ Read(c)
       PROVE  EndsInv'
  BY <1>7, <1>12 DEF Greeted, Read, Up
<1> QED
  BY <1>2, <1>3, <1>4, <1>5, <1>6, <1>8, <1>9, <1>10, <1>11, <1>12
  DEF Next, Working, Goes, Finalize, AppKilled

-----------------------------------------------------------------------------
(* Control messages.                                                       *)

LEMMA InitStream == Init => StreamInv
<1> SUFFICES ASSUME Init PROVE StreamInv
  OBVIOUS
<1>1. ~active /\ Len(got) = nsent
  BY DEF Init
<1> QED BY <1>1 DEF StreamInv

\* Nothing happens to what is on its way.
LEMMA StreamKept ==
  ASSUME StreamInv, active, UNCHANGED <<active, cur, nsent, got>>, toApp'[cur] = toApp[cur], Ahead' = Ahead,
         \A c \in Clients : at'[c] = cur /\ pc'[c] \in {"wait", "in", "sending"} =>
           /\ at[c] = cur
           /\ pc'[c] \in {"wait", "in"} => pc[c] \in {"wait", "in"}
           /\ pc'[c] = "sending" => pc[c] = "sending"
  PROVE  StreamInv'
<1>0. cur' = cur /\ toApp'[cur'] = toApp[cur]
  OBVIOUS
<1>1. Left' = Left /\ Even' = Even /\ Odd' = Odd
  BY DEF Left, Even, Odd
<1>2. \A m \in Nat :
        /\ \A i \in 1 .. Left' :
             /\ i + Ahead' = 2 * m => toApp'[cur'][i].n = Len(got') + m
             /\ i + Ahead' = 2 * m + 1 => toApp'[cur'][i].cmd = "header"
        /\ Left' + Ahead' >= 2 * m => Len(got') + m <= nsent'
  <2>1. \A m \in Nat :
          /\ \A i \in 1 .. Left :
               /\ i + Ahead = 2 * m => toApp[cur][i].n = Len(got) + m
               /\ i + Ahead = 2 * m + 1 => toApp[cur][i].cmd = "header"
          /\ Left + Ahead >= 2 * m => Len(got) + m <= nsent
    BY DEF StreamInv
  <2>2. Left' = Left /\ Ahead' = Ahead /\ toApp'[cur'] = toApp[cur] /\ got' = got /\ nsent' = nsent
    BY <1>0, <1>1
  <2> QED BY ONLY <2>1, <2>2
<1>3. \A c \in Clients : at'[c] = cur' =>
        /\ pc'[c] \in {"wait", "in"} => Even'
        /\ pc'[c] = "sending" => Odd'
  BY <1>1 DEF StreamInv
<1>4. \A i \in 1 .. Left' : toApp'[cur'][i].cmd = "detach" =>
        /\ i = Left' /\ Even'
        /\ \A c \in Clients : at'[c] = cur' => pc'[c] \notin {"wait", "in", "sending"}
  <2> SUFFICES ASSUME NEW i \in 1 .. Left', toApp'[cur'][i].cmd = "detach"
               PROVE  /\ i = Left' /\ Even'
                      /\ \A c \in Clients : at'[c] = cur' => pc'[c] \notin {"wait", "in", "sending"}
    BY Zenon
  <2>1. i \in 1 .. Left /\ toApp[cur][i].cmd = "detach"
    BY ONLY <1>0, <1>1, i \in 1 .. Left', toApp'[cur'][i].cmd = "detach"
  <2>2. /\ i = Left /\ Even
        /\ \A c \in Clients : at[c] = cur => pc[c] \notin {"wait", "in", "sending"}
    BY <2>1 DEF StreamInv
  <2> QED BY <1>1, <2>2
<1> QED BY <1>2, <1>3, <1>4 DEF StreamInv

\* The connection that is served has nothing more to say, and its client has gone.
LEMMA StreamDry ==
  ASSUME TypeInv', active', Len(toApp'[cur']) = 0, Len(got') <= nsent',
         \A c \in Clients : at'[c] = cur' => pc'[c] \notin {"wait", "in", "sending"}
  PROVE  StreamInv'
<1>1. Left' = 0 /\ Ahead' \in {0, 1} /\ Len(got') \in Nat
  BY DEF Left, Ahead, TypeInv
<1>2. \A m \in Nat : 0 + Ahead' >= 2 * m => Len(got') + m <= nsent'
  <2> SUFFICES ASSUME NEW m \in Nat, 0 + Ahead' >= 2 * m
               PROVE  Len(got') + m <= nsent'
    OBVIOUS
  <2>1. CASE Ahead' = 0
    <3>1. m = 0
      BY <2>1
    <3> QED BY <1>1, <3>1
  <2>2. CASE Ahead' = 1
    <3>1. m = 0
      BY <2>2
    <3> QED BY <1>1, <3>1
  <2> QED BY <1>1, <2>1, <2>2
<1>3. 1 .. Left' = {}
  BY <1>1
<1> QED BY <1>1, <1>2, <1>3 DEF StreamInv

LEMMA StepStream ==
  ASSUME TypeInv, TypeInv', LinkInv, LinkInv', StreamInv, [Next]_vars
  PROVE  StreamInv'
<1> USE SocketAssumption DEF None
<1>0. /\ OwnInv /\ EndsInv /\ StateInv /\ ServedInv
      /\ \A k \in Conns : toApp[k] \in Seq(Piece)
      /\ Len(got) \in Nat /\ nsent \in Nat /\ Ahead \in {0, 1}
      /\ active => cur \in Conns
  <2>1. active => cur \in Conns
    BY DEF LinkInv, StateInv, TypeInv, Conns
  <2> QED BY <2>1 DEF LinkInv, TypeInv, Ahead
<1>a. ASSUME active
      PROVE  /\ Left \in Nat /\ life = "on"
             /\ \A m \in Nat :
                  /\ \A i \in 1 .. Left :
                       /\ i + Ahead = 2 * m => toApp[cur][i].n = Len(got) + m
                       /\ i + Ahead = 2 * m + 1 => toApp[cur][i].cmd = "header"
                  /\ Left + Ahead >= 2 * m => Len(got) + m <= nsent
             /\ \A c \in Clients : at[c] = cur =>
                  /\ pc[c] \in {"wait", "in"} => Even
                  /\ pc[c] = "sending" => Odd
             /\ \A i \in 1 .. Left : toApp[cur][i].cmd = "detach" =>
                  /\ i = Left /\ Even
                  /\ \A c \in Clients : at[c] = cur => pc[c] \notin {"wait", "in", "sending"}
  <2>1. life = "on"
    BY <1>0, <1>a DEF StateInv, TypeInv
  <2>2. Left \in Nat
    BY <1>0, <1>a DEF Left
  <2> QED BY <1>a, <2>1, <2>2 DEF StreamInv
<1>1. CASE ~active /\ ~active' /\ UNCHANGED <<got, nsent, life>>
  BY <1>1 DEF StreamInv
<1>2. CASE life' = "ended"
  <2>1. ~active'
    BY <1>2 DEF LinkInv, StateInv
  <2> QED BY <1>2, <2>1 DEF StreamInv
<1>3. CASE active /\ UNCHANGED <<active, cur, nsent, got, toApp, at, pc>> /\ Ahead' = Ahead
  BY <1>3, StreamKept
<1>4. CASE Accept
  <2>1. /\ cur = 0 /\ life = "on" /\ Len(got) = nsent /\ active' /\ apc' = "defs"
        /\ cur' \in Conns /\ cur' \in Pending /\ UNCHANGED <<toApp, at, pc, got, nsent>>
    BY <1>0, <1>4, FirstPending DEF Accept, StateInv, StreamInv, client
  <2>2. toApp'[cur'] = << >> /\ Left' = 0 /\ Ahead' = 0
    BY <1>0, <2>1 DEF EndsInv, Left, Ahead
  <2>3. \A c \in Clients : at[c] = cur' => pc[c] # "sending"
    BY <1>0, <2>1 DEF ServedInv, Writes, Conns
  <2>4. Even'
    BY <1>0, <2>1, <2>2 DEF Even
  <2>5. \A m \in Nat : 0 + 0 >= 2 * m => Len(got) + m <= nsent
    <3> SUFFICES ASSUME NEW m \in Nat, 0 + 0 >= 2 * m PROVE Len(got) + m <= nsent
      OBVIOUS
    <3>1. m = 0
      OBVIOUS
    <3> QED BY <1>0, <2>1, <3>1
  <2>6. 1 .. Left' = {}
    BY <2>2
  <2> QED BY <2>1, <2>2, <2>3, <2>4, <2>5, <2>6 DEF StreamInv
<1>5. CASE NoMessage
  <2>1. /\ active /\ UNCHANGED <<active, cur, nsent, got, toApp, at, pc>> /\ toApp[cur] = << >>
    BY <1>0, <1>5 DEF NoMessage, Readable, StateInv, net, client
  <2>2. CASE apc = "read"
    <3>1. Ahead' = Ahead
      BY <1>5, <2>2 DEF NoMessage, Ahead
    <3> QED BY <1>3, <2>1, <3>1
  <2>3. CASE apc = "body"
    <3>1. ~cli[cur]
      BY <1>5, <2>3 DEF NoMessage
    <3>2. \A c \in Clients : at[c] = cur => pc[c] \notin {"wait", "in", "sending"}
      BY <1>0, <3>1 DEF OwnInv, Up
    <3>3. Len(toApp[cur]) = 0
      BY <2>1
    <3>4. Len(got) <= nsent
      <4>1. Left + Ahead >= 2 * 0 => Len(got) + 0 <= nsent
        BY <1>a, <2>1
      <4> QED BY <1>0, <1>a, <2>1, <4>1
    <3> QED BY <2>1, <3>2, <3>3, <3>4, StreamDry
  <2> QED BY <1>5, <2>2, <2>3 DEF NoMessage
<1>6. CASE EmitDefs \/ Report \/ Call
  <2>1. active /\ UNCHANGED <<active, cur, nsent, got, toApp, at, pc>> /\ Ahead' = Ahead
    BY <1>0, <1>6 DEF EmitDefs, Report, Call, StateInv, Ahead, client, net
  <2> QED BY <1>3, <2>1
<1>7. CASE ReadHeader
  <2>1. /\ active /\ active' /\ UNCHANGED <<cur, nsent, got, at, pc>>
        /\ apc = "read" /\ apc' = "body" /\ toApp[cur] # << >> /\ toApp'[cur] = Tail(toApp[cur])
    BY <1>0, <1>7 DEF ReadHeader, Readable, StateInv, client, TypeInv
  <2>2. Ahead = 0 /\ Ahead' = 1 /\ Left' = Left - 1 /\ Left' + Ahead' = Left + Ahead
    BY <1>0, <1>a, <2>1, Shorter DEF Ahead, Left
  <2>3. \A i \in 1 .. Left' : /\ i + 1 \in 1 .. Left /\ toApp'[cur'][i] = toApp[cur][i + 1]
                              /\ i + Ahead' = (i + 1) + Ahead
    BY <1>0, <1>a, <2>1, <2>2, Shorter DEF Left
  <2>4. Even' = Even /\ Odd' = Odd
    BY <2>1, <2>2 DEF Even, Odd
  <2>5. \A m \in Nat :
          /\ \A i \in 1 .. Left' :
               /\ i + Ahead' = 2 * m => toApp'[cur'][i].n = Len(got') + m
               /\ i + Ahead' = 2 * m + 1 => toApp'[cur'][i].cmd = "header"
          /\ Left' + Ahead' >= 2 * m => Len(got') + m <= nsent'
    <3> SUFFICES ASSUME NEW m \in Nat
                 PROVE  /\ \A i \in 1 .. Left' :
                             /\ i + Ahead' = 2 * m => toApp'[cur'][i].n = Len(got') + m
                             /\ i + Ahead' = 2 * m + 1 => toApp'[cur'][i].cmd = "header"
                        /\ Left' + Ahead' >= 2 * m => Len(got') + m <= nsent'
      BY Zenon
    <3>1. /\ \A i \in 1 .. Left :
               /\ i + Ahead = 2 * m => toApp[cur][i].n = Len(got) + m
               /\ i + Ahead = 2 * m + 1 => toApp[cur][i].cmd = "header"
          /\ Left + Ahead >= 2 * m => Len(got) + m <= nsent
      BY <1>a, <2>1
    <3>2. ASSUME NEW i \in 1 .. Left'
          PROVE  /\ i + Ahead' = 2 * m => toApp'[cur'][i].n = Len(got') + m
                 /\ i + Ahead' = 2 * m + 1 => toApp'[cur'][i].cmd = "header"
      <4>1. /\ i + 1 \in 1 .. Left /\ toApp'[cur'][i] = toApp[cur][i + 1]
            /\ i + Ahead' = (i + 1) + Ahead /\ got' = got
        BY <2>1, <2>3
      <4> QED BY ONLY <3>1, <4>1
    <3>3. Left' + Ahead' >= 2 * m => Len(got') + m <= nsent'
      <4>1. Left' + Ahead' = Left + Ahead /\ got' = got /\ nsent' = nsent
        BY <2>1, <2>2
      <4> QED BY ONLY <3>1, <4>1
    <3> QED BY ONLY <3>2, <3>3
  <2>6. \A c \in Clients : at'[c] = cur' =>
          /\ pc'[c] \in {"wait", "in"} => Even'
          /\ pc'[c] = "sending" => Odd'
    BY <1>a, <2>1, <2>4
  <2>7. \A i \in 1 .. Left' : toApp'[cur'][i].cmd = "detach" =>
          /\ i = Left' /\ Even'
          /\ \A c \in Clients : at'[c] = cur' => pc'[c] \notin {"wait", "in", "sending"}
    <3> SUFFICES ASSUME NEW i \in 1 .. Left', toApp'[cur'][i].cmd = "detach"
                 PROVE  /\ i = Left' /\ Even'
                        /\ \A c \in Clients : at'[c] = cur' => pc'[c] \notin {"wait", "in", "sending"}
      BY Zenon
    <3>1. i + 1 \in 1 .. Left /\ toApp[cur][i + 1].cmd = "detach"
      BY <2>3
    <3>2. /\ i + 1 = Left /\ Even
          /\ \A c \in Clients : at[c] = cur => pc[c] \notin {"wait", "in", "sending"}
      BY <1>a, <2>1, <3>1
    <3> QED BY <1>a, <2>1, <2>2, <2>4, <3>2
  <2> QED BY <2>1, <2>5, <2>6, <2>7 DEF StreamInv
<1>8. CASE ReadBody
  <2>1. /\ active /\ UNCHANGED <<nsent, at, pc, life>> /\ apc = "body"
        /\ toApp[cur] # << >> /\ toApp'[cur] = Tail(toApp[cur])
        /\ got' = Append(got, Head(toApp[cur]).n)
    BY <1>0, <1>8 DEF ReadBody, StateInv, client, TypeInv
  <2>2. /\ Ahead = 1 /\ Left >= 1 /\ Left \in Nat /\ 1 \in 1 .. Left
        /\ Head(toApp[cur]) = toApp[cur][1] /\ Len(got') = Len(got) + 1
        /\ Len(toApp'[cur]) = Left - 1
        /\ \A i \in 1 .. Left - 1 : i + 1 \in 1 .. Left /\ toApp'[cur][i] = toApp[cur][i + 1]
    <3>1. Len(got') = Len(got) + 1
      BY <2>1 DEF TypeInv
    <3> QED BY <1>0, <2>1, <3>1, Shorter DEF Ahead, Left
  <2>3. CASE Detach /\ Head(toApp[cur]).cmd = "detach"
    <3>1. 1 = Left /\ Even
      BY <1>a, <2>1, <2>2, <2>3
    <3>2. PICK m \in Nat : Left + Ahead = 2 * m /\ Len(got) + m = nsent
      BY <3>1 DEF Even
    <3>3. m = 1
      BY <2>2, <3>1, <3>2
    <3>4. ~active' /\ Len(got') = nsent'
      BY <1>0, <2>1, <2>2, <2>3, <3>2, <3>3 DEF Detach
    <3> QED BY <3>4 DEF StreamInv
  <2>4. CASE UNCHANGED <<listener, comms, cur, active, changed, backlog, srv>> /\ apc' = "report"
    <3>1. Left' = Left - 1 /\ Ahead' = 0 /\ cur' = cur
      BY <2>2, <2>4 DEF Left, Ahead
    <3>2. Even => Even'
      <4>0. SUFFICES ASSUME NEW m \in Nat, Left + Ahead = 2 * m, Len(got) + m = nsent
                     PROVE  \E n \in Nat : Left' + Ahead' = 2 * n /\ Len(got') + n = nsent'
        BY DEF Even
      <4>1. /\ Left \in Nat /\ Left >= 1 /\ Ahead = 1 /\ Left' = Left - 1 /\ Ahead' = 0
            /\ Len(got) \in Nat /\ Len(got') = Len(got) + 1 /\ nsent' = nsent
        <5>1. Len(got) \in Nat
          BY DEF TypeInv
        <5> QED BY <2>1, <2>2, <3>1, <5>1
      <4>2. Left' + Ahead' = Left - 1 /\ Len(got') + (m - 1) = Len(got) + m
        BY ONLY <4>1, m \in Nat
      <4>3. Left + 1 = 2 * m
        BY ONLY <4>0, <4>1
      <4>4. m - 1 \in Nat /\ Left - 1 = 2 * (m - 1)
        BY ONLY <4>1, <4>3, m \in Nat
      <4> QED BY ONLY <4>0, <4>1, <4>2, <4>4
    <3>3. Odd => Odd'
      <4>0. SUFFICES ASSUME NEW m \in Nat, Left + Ahead = 2 * m + 1, Len(got) + m = nsent
                     PROVE  \E n \in Nat : Left' + Ahead' = 2 * n + 1 /\ Len(got') + n = nsent'
        BY DEF Odd
      <4>1. /\ Left \in Nat /\ Left >= 1 /\ Ahead = 1 /\ Left' = Left - 1 /\ Ahead' = 0
            /\ Len(got) \in Nat /\ Len(got') = Len(got) + 1 /\ nsent' = nsent
        <5>1. Len(got) \in Nat
          BY DEF TypeInv
        <5> QED BY <2>1, <2>2, <3>1, <5>1
      <4>2. Left' + Ahead' = Left - 1 /\ Len(got') + (m - 1) = Len(got) + m
        BY ONLY <4>1, m \in Nat
      <4>3. Left + 1 = 2 * m + 1
        BY ONLY <4>0, <4>1
      <4>4. m - 1 \in Nat /\ Left - 1 = 2 * (m - 1) + 1
        BY ONLY <4>1, <4>3, m \in Nat
      <4> QED BY ONLY <4>0, <4>1, <4>2, <4>4
    <3>4. \A m \in Nat :
            /\ \A i \in 1 .. Left' :
                 /\ i + Ahead' = 2 * m => toApp'[cur'][i].n = Len(got') + m
                 /\ i + Ahead' = 2 * m + 1 => toApp'[cur'][i].cmd = "header"
            /\ Left' + Ahead' >= 2 * m => Len(got') + m <= nsent'
      <4> SUFFICES ASSUME NEW m \in Nat
                   PROVE  /\ \A i \in 1 .. Left' :
                               /\ i + Ahead' = 2 * m => toApp'[cur'][i].n = Len(got') + m
                               /\ i + Ahead' = 2 * m + 1 => toApp'[cur'][i].cmd = "header"
                          /\ Left' + Ahead' >= 2 * m => Len(got') + m <= nsent'
        BY Zenon
      <4>1. /\ \A i \in 1 .. Left :
                 /\ i + Ahead = 2 * (m + 1) => toApp[cur][i].n = Len(got) + (m + 1)
                 /\ i + Ahead = 2 * (m + 1) + 1 => toApp[cur][i].cmd = "header"
            /\ Left + Ahead >= 2 * (m + 1) => Len(got) + (m + 1) <= nsent
        <5>1. m + 1 \in Nat
          OBVIOUS
        <5> QED BY <1>a, <2>1, <5>1
      <4>2. ASSUME NEW i \in 1 .. Left'
            PROVE  /\ i + Ahead' = 2 * m => toApp'[cur'][i].n = Len(got') + m
                   /\ i + Ahead' = 2 * m + 1 => toApp'[cur'][i].cmd = "header"
        <5>1. i + 1 \in 1 .. Left /\ toApp'[cur'][i] = toApp[cur][i + 1]
          BY <2>2, <3>1
        <5>2. /\ i + Ahead' = 2 * m => (i + 1) + Ahead = 2 * (m + 1)
              /\ i + Ahead' = 2 * m + 1 => (i + 1) + Ahead = 2 * (m + 1) + 1
          BY <2>2, <3>1
        <5>3. Len(got') + m = Len(got) + (m + 1)
          BY <1>0, <2>2
        <5> QED BY <4>1, <5>1, <5>2, <5>3
      <4>3. Left' + Ahead' >= 2 * m => Len(got') + m <= nsent'
        BY <1>0, <2>1, <2>2, <3>1, <4>1
      <4> QED BY <4>2, <4>3
    <3>5. \A c \in Clients : at'[c] = cur' =>
            /\ pc'[c] \in {"wait", "in"} => Even'
            /\ pc'[c] = "sending" => Odd'
      BY <1>a, <2>1, <3>1, <3>2, <3>3
    <3>6. \A i \in 1 .. Left' : toApp'[cur'][i].cmd = "detach" =>
            /\ i = Left' /\ Even'
            /\ \A c \in Clients : at'[c] = cur' => pc'[c] \notin {"wait", "in", "sending"}
      <4> SUFFICES ASSUME NEW i \in 1 .. Left', toApp'[cur'][i].cmd = "detach"
                   PROVE  /\ i = Left' /\ Even'
                          /\ \A c \in Clients : at'[c] = cur' => pc'[c] \notin {"wait", "in", "sending"}
        BY Zenon
      <4>1. i + 1 \in 1 .. Left /\ toApp[cur][i + 1].cmd = "detach"
        BY <2>2, <3>1
      <4>2. /\ i + 1 = Left /\ Even
            /\ \A c \in Clients : at[c] = cur => pc[c] \notin {"wait", "in", "sending"}
        BY <1>a, <2>1, <4>1
      <4> QED BY <2>1, <2>2, <3>1, <3>2, <4>2
    <3> QED BY <3>4, <3>5, <3>6, <2>1, <2>4 DEF StreamInv
  <2> QED BY <1>8, <2>3, <2>4 DEF ReadBody
<1>9. ASSUME NEW c \in Clients, SendHeader(c) \/ SendBody(c), life = "on"
      PROVE  StreamInv'
  <2>1. /\ Writes(c) /\ at[c] = cur /\ cur \in Conns /\ active /\ active' /\ srv[cur]
        /\ UNCHANGED <<cur, at, got, apc>> /\ Ahead' = Ahead /\ Left \in Nat
        /\ \A d \in Clients \ {c} : pc'[d] = pc[d] /\ at[d] # cur
    <3>1. Writes(c) /\ at[c] = cur
      BY <1>0, <1>9 DEF SendHeader, SendBody, Writes, ServedInv
    <3>2. cur \in Conns /\ active
      BY <1>0, <3>1 DEF Writes, OwnInv, Up, StateInv, Conns
    <3>3. srv[cur] /\ \A d \in Clients \ {c} : at[d] # cur
      BY <1>0, <3>1, <3>2 DEF EndsInv, OwnInv, Conns
    <3>4. active' /\ UNCHANGED <<cur, at, got, apc>> /\ \A d \in Clients \ {c} : pc'[d] = pc[d]
      BY <1>9, <3>2 DEF SendHeader, SendBody, app, TypeInv
    <3>5. Ahead' = Ahead /\ Left \in Nat
      BY <1>a, <3>2, <3>4 DEF Ahead
    <3> QED BY <3>1, <3>2, <3>3, <3>4, <3>5
  <2>2. PICK piece \in Piece : toApp'[cur] = Append(toApp[cur], piece) /\
          \/ /\ pc[c] = "in" /\ pc'[c] = "sending" /\ piece.cmd = "header" /\ nsent' = nsent
          \/ /\ pc[c] = "sending" /\ piece.n = nsent + 1 /\ nsent' = nsent + 1
             /\ \/ piece.cmd = "edit" /\ pc'[c] = "in"
                \/ piece.cmd = "detach" /\ pc'[c] = "leaving"
    <3>1. CASE SendHeader(c)
      <4>1. [n |-> 0, cmd |-> "header"] \in Piece
        BY DEF Piece
      <4>2. /\ toApp'[cur] = Append(toApp[cur], [n |-> 0, cmd |-> "header"])
            /\ pc[c] = "in" /\ pc'[c] = "sending" /\ nsent' = nsent
        BY <2>1, <3>1 DEF SendHeader, Put, TypeInv
      <4> QED BY <4>1, <4>2
    <3>2. CASE SendBody(c)
      <4>1. [n |-> nsent + 1, cmd |-> "edit"] \in Piece /\ [n |-> nsent + 1, cmd |-> "detach"] \in Piece
        BY <1>0 DEF Piece
      <4>2. /\ pc[c] = "sending" /\ nsent' = nsent + 1
            /\ \/ toApp'[cur] = Append(toApp[cur], [n |-> nsent + 1, cmd |-> "edit"]) /\ pc'[c] = "in"
               \/ toApp'[cur] = Append(toApp[cur], [n |-> nsent + 1, cmd |-> "detach"]) /\ pc'[c] = "leaving"
        BY <2>1, <3>2 DEF SendBody, Put, TypeInv
      <4> QED BY <4>1, <4>2
    <3> QED BY <1>9, <3>1, <3>2
  <2>3. /\ Left' = Left + 1 /\ toApp'[cur'] = toApp'[cur] /\ toApp'[cur][Left + 1] = piece
        /\ \A i \in 1 .. Left : toApp'[cur][i] = toApp[cur][i]
        /\ \A i \in 1 .. Left' : i \in 1 .. Left \/ i = Left + 1
    BY <1>0, <2>1, <2>2, Longer DEF Left
  <2>4. \A i \in 1 .. Left : toApp[cur][i].cmd # "detach"
    BY <1>a, <2>1 DEF Writes
  <2>5. CASE pc[c] = "in" /\ pc'[c] = "sending" /\ piece.cmd = "header" /\ nsent' = nsent
    <3>1. PICK e \in Nat : Left + Ahead = 2 * e /\ Len(got) + e = nsent
      BY <1>a, <2>1, <2>5 DEF Even
    <3>2. Odd'
      BY <1>0, <2>1, <2>3, <2>5, <3>1 DEF Odd
    <3>3. ASSUME NEW m \in Nat
          PROVE  /\ \A i \in 1 .. Left' :
                      /\ i + Ahead' = 2 * m => toApp'[cur'][i].n = Len(got') + m
                      /\ i + Ahead' = 2 * m + 1 => toApp'[cur'][i].cmd = "header"
                 /\ Left' + Ahead' >= 2 * m => Len(got') + m <= nsent'
      <4>1. (Left + 1) + Ahead # 2 * m
        BY <1>0, <2>1, <3>1
      <4>2. \A i \in 1 .. Left :
              /\ i + Ahead = 2 * m => toApp[cur][i].n = Len(got) + m
              /\ i + Ahead = 2 * m + 1 => toApp[cur][i].cmd = "header"
        BY <1>a, <2>1
      <4>3. Left + 1 + Ahead >= 2 * m => Len(got) + m <= nsent
        BY <1>0, <2>1, <3>1
      <4>4. \A i \in 1 .. Left' :
              /\ i + Ahead' = 2 * m => toApp'[cur'][i].n = Len(got') + m
              /\ i + Ahead' = 2 * m + 1 => toApp'[cur'][i].cmd = "header"
        <5> SUFFICES ASSUME NEW i \in 1 .. Left'
                     PROVE  /\ i + Ahead' = 2 * m => toApp'[cur'][i].n = Len(got') + m
                            /\ i + Ahead' = 2 * m + 1 => toApp'[cur'][i].cmd = "header"
          BY Zenon
        <5>1. CASE i \in 1 .. Left
          BY <2>1, <2>3, <4>2, <5>1
        <5>2. CASE i = Left + 1
          BY <2>1, <2>3, <2>5, <4>1, <5>2
        <5> QED BY <2>3, <5>1, <5>2
      <4> QED BY <2>1, <2>3, <2>5, <4>3, <4>4
    <3>4. \A d \in Clients : at'[d] = cur' =>
            /\ pc'[d] \in {"wait", "in"} => Even'
            /\ pc'[d] = "sending" => Odd'
      BY <2>1, <2>5, <3>2
    <3>5. \A i \in 1 .. Left' : toApp'[cur'][i].cmd # "detach"
      BY <2>3, <2>4, <2>5
    <3> QED BY <3>3, <3>4, <3>5, <2>1 DEF StreamInv
  <2>6. CASE /\ pc[c] = "sending" /\ piece.n = nsent + 1 /\ nsent' = nsent + 1
             /\ \/ piece.cmd = "edit" /\ pc'[c] = "in"
                \/ piece.cmd = "detach" /\ pc'[c] = "leaving"
    <3>1. PICK e \in Nat : Left + Ahead = 2 * e + 1 /\ Len(got) + e = nsent
      BY <1>a, <2>1, <2>6 DEF Odd
    <3>2. Even'
      <4>1. e + 1 \in Nat /\ Left' + Ahead' = 2 * (e + 1) /\ Len(got') + (e + 1) = nsent'
        BY <1>0, <2>1, <2>3, <2>6, <3>1
      <4> QED BY <4>1 DEF Even
    <3>3. ASSUME NEW m \in Nat
          PROVE  /\ \A i \in 1 .. Left' :
                      /\ i + Ahead' = 2 * m => toApp'[cur'][i].n = Len(got') + m
                      /\ i + Ahead' = 2 * m + 1 => toApp'[cur'][i].cmd = "header"
                 /\ Left' + Ahead' >= 2 * m => Len(got') + m <= nsent'
      <4>1. /\ (Left + 1) + Ahead # 2 * m + 1
            /\ (Left + 1) + Ahead = 2 * m => nsent + 1 = Len(got) + m
        BY <1>0, <2>1, <3>1
      <4>2. \A i \in 1 .. Left :
              /\ i + Ahead = 2 * m => toApp[cur][i].n = Len(got) + m
              /\ i + Ahead = 2 * m + 1 => toApp[cur][i].cmd = "header"
        BY <1>a, <2>1
      <4>3. Left + 1 + Ahead >= 2 * m => Len(got) + m <= nsent + 1
        BY <1>0, <2>1, <3>1
      <4>4. \A i \in 1 .. Left' :
              /\ i + Ahead' = 2 * m => toApp'[cur'][i].n = Len(got') + m
              /\ i + Ahead' = 2 * m + 1 => toApp'[cur'][i].cmd = "header"
        <5> SUFFICES ASSUME NEW i \in 1 .. Left'
                     PROVE  /\ i + Ahead' = 2 * m => toApp'[cur'][i].n = Len(got') + m
                            /\ i + Ahead' = 2 * m + 1 => toApp'[cur'][i].cmd = "header"
          BY Zenon
        <5>1. CASE i \in 1 .. Left
          BY <2>1, <2>3, <4>2, <5>1
        <5>2. CASE i = Left + 1
          BY <2>1, <2>3, <2>6, <4>1, <5>2
        <5> QED BY <2>3, <5>1, <5>2
      <4> QED BY <2>1, <2>3, <2>6, <4>3, <4>4
    <3>4. \A d \in Clients : at'[d] = cur' => d = c /\ pc'[d] # "sending" /\ pc'[d] # "wait"
      BY <2>1, <2>6
    <3>5. \A i \in 1 .. Left' : toApp'[cur'][i].cmd = "detach" => i = Left' /\ pc'[c] = "leaving"
      BY <2>3, <2>4, <2>6
    <3> QED BY <3>2, <3>3, <3>4, <3>5, <2>1 DEF StreamInv
  <2> QED BY <2>2, <2>5, <2>6
<1>10. ASSUME NEW c \in Clients, Greeted(c) \/ Read(c) \/ Refused(c)
       PROVE  StreamInv'
  <2>1. /\ UNCHANGED <<life, active, cur, nsent, got, apc, toApp, at>> /\ Ahead' = Ahead
        /\ \A d \in Clients : pc'[d] \in {"wait", "in"} => pc[d] \in {"wait", "in"}
        /\ \A d \in Clients : pc'[d] = "sending" => pc[d] = "sending"
    BY <1>10 DEF Greeted, Read, Refused, Take, app, Ahead, TypeInv
  <2>2. CASE active
    BY <2>1, <2>2, StreamKept
  <2> QED BY <1>1, <2>1, <2>2
<1>11. ASSUME NEW c \in Clients, Connect(c)
       PROVE  StreamInv'
  <2>1. /\ UNCHANGED <<life, active, cur, nsent, got, apc, toApp>> /\ Ahead' = Ahead
        /\ at'[c] = attempts + 1 /\ attempts + 1 \in Conns
        /\ \A d \in Clients \ {c} : at'[d] = at[d] /\ pc'[d] = pc[d]
    BY <1>11 DEF Connect, Ahead, TypeInv, Conns
  <2>2. CASE active
    <3>1. attempts + 1 # cur
      BY <1>0, <2>1, <2>2 DEF EndsInv, TypeInv
    <3> QED BY <2>1, <2>2, <3>1, StreamKept
  <2> QED BY <1>1, <2>1, <2>2
<1>12. ASSUME NEW c \in Clients, Close(c) \/ Kill(c)
       PROVE  StreamInv'
  <2>1. /\ UNCHANGED <<life, active, cur, nsent, got, apc, at>> /\ Ahead' = Ahead
        /\ at[c] \in Conns /\ pc'[c] \in {"out", "dead"}
        /\ \A d \in Clients \ {c} : pc'[d] = pc[d]
        /\ \A k \in Conns : toApp'[k] = toApp[k] \/ (k = at[c] /\ toApp'[k] = << >>)
    <3>1. at[c] \in Conns /\ CloseEnd(at[c])
      BY <1>0, <1>12 DEF Close, Kill, OwnInv, Up
    <3>2. \A k \in Conns : toApp'[k] = toApp[k] \/ (k = at[c] /\ toApp'[k] = << >>)
      BY <3>1 DEF CloseEnd, TypeInv
    <3>3. /\ UNCHANGED <<life, active, cur, nsent, got, apc, at>>
          /\ pc'[c] \in {"out", "dead"} /\ \A d \in Clients \ {c} : pc'[d] = pc[d]
      BY <1>12 DEF Close, Kill, app, TypeInv
    <3>4. Ahead' = Ahead
      BY <3>3 DEF Ahead
    <3> QED BY <3>1, <3>2, <3>3, <3>4
  <2>2. CASE active /\ toApp'[cur] = toApp[cur]
    BY <2>1, <2>2, StreamKept
  <2>3. CASE active /\ cur = at[c] /\ toApp'[cur] = << >>
    <3>1. \A d \in Clients : at'[d] = cur' => pc'[d] \notin {"wait", "in", "sending"}
      BY <1>0, <2>1, <2>3 DEF OwnInv, Conns
    <3>2. Len(toApp'[cur']) = 0
      BY <2>1, <2>3
    <3>3. Len(got) <= nsent
      <4>1. Left + Ahead >= 2 * 0 => Len(got) + 0 <= nsent
        BY <1>a, <2>3
      <4> QED BY <1>0, <1>a, <2>3, <4>1
    <3> QED BY <2>1, <2>3, <3>1, <3>2, <3>3, StreamDry
  <2> QED BY <1>0, <1>1, <2>1, <2>2, <2>3
<1>13. CASE Relisten \/ UNCHANGED vars
  <2>1. UNCHANGED <<life, active, cur, nsent, got, apc, toApp, at, pc>> /\ Ahead' = Ahead
    BY <1>13 DEF Relisten, vars, app, net, client, Ahead
  <2> QED BY <1>1, <1>3, <2>1
<1>14. CASE Finalize \/ AppKilled
  BY <1>2, <1>14 DEF Finalize, AppKilled, Ended
<1>15. ASSUME NEW c \in Clients, SendHeader(c) \/ SendBody(c)
       PROVE  StreamInv'
  <2>1. UNCHANGED life
    BY <1>15 DEF SendHeader, SendBody, app
  <2> QED BY <1>2, <1>9, <1>15, <2>1 DEF TypeInv
<1> QED
  BY <1>4, <1>5, <1>6, <1>7, <1>8, <1>10, <1>11, <1>12, <1>13, <1>14, <1>15 DEF Next, Working, Goes

-----------------------------------------------------------------------------
(* Who may write.                                                          *)

LEMMA StepServed ==
  ASSUME TypeInv, TypeInv', LinkInv, OwnInv', StateInv', StreamInv, [Next]_vars
  PROVE  ServedInv'
<1> USE SocketAssumption DEF None
<1>0. /\ OwnInv /\ EndsInv /\ StateInv /\ ServedInv /\ 0 \notin Conns
      /\ active => cur \in Conns
  <2>1. active => cur \in Conns
    BY DEF LinkInv, StateInv, TypeInv, Conns
  <2> QED BY <2>1 DEF LinkInv, Conns
<1>1. ASSUME UNCHANGED <<life, cur, backlog, pc, at>>,
             \A k \in Conns : toClient'[k] # << >> => toClient[k] # << >> \/ k = cur
      PROVE  ServedInv'
  <2>1. Pending' = Pending
    BY <1>1 DEF Pending
  <2>2. \A c \in Clients : Up(c) => at[c] \in Conns
    BY <1>0 DEF OwnInv
  <2> QED BY <1>0, <1>1, <2>1, <2>2 DEF ServedInv, In, Writes, Up
<1>2. CASE UNCHANGED <<life, cur, backlog, pc, at, toClient>>
  BY <1>1, <1>2
<1>3. CASE Accept
  <2>1. /\ cur = 0 /\ life = "on" /\ backlog # << >> /\ backlog' = Tail(backlog)
        /\ cur' = Head(backlog) /\ UNCHANGED <<at, pc>>
    BY <1>0, <1>3 DEF Accept, StateInv, client
  <2>2. Pending' \subseteq Pending /\ cur' \in Conns
    <3>1. Pending' = {Tail(backlog)[i] : i \in DOMAIN Tail(backlog)}
      BY <2>1 DEF Pending
    <3> QED BY <1>0, <2>1, <3>1, FirstPending
  <2>3. \A k \in Conns : k # cur' => toClient'[k] = toClient[k]
    BY <1>3, <2>2 DEF Accept, Greet, SendTo, TypeInv
  <2>4. ASSUME NEW c \in Clients
        PROVE  /\ In(c)' => at'[c] \notin Pending'
               /\ Writes(c)' \/ (pc'[c] = "wait" /\ toClient'[at'[c]] # << >>) => at'[c] = cur'
    <3>1. Up(c) => at[c] \in Conns /\ at[c] # cur
      BY <1>0, <2>1 DEF OwnInv
    <3>2. ~Writes(c) /\ ~(pc[c] = "wait" /\ toClient[at[c]] # << >>)
      BY <1>0, <2>1, <3>1 DEF ServedInv, Up, Writes
    <3>3. In(c) => at[c] \notin Pending
      BY <1>0 DEF ServedInv
    <3> QED BY <2>1, <2>2, <2>3, <3>1, <3>2, <3>3 DEF In, Writes, Up
  <2> QED BY <2>4 DEF ServedInv
<1>4. CASE EmitDefs \/ Report
  <2>1. UNCHANGED <<life, cur, backlog, pc, at>> /\ cur \in Conns
    BY <1>0, <1>4 DEF EmitDefs, Report, StateInv, client
  <2>2. \A k \in Conns : k # cur => toClient'[k] = toClient[k]
    BY <1>4, <2>1 DEF EmitDefs, Report, SendTo, TypeInv
  <2> QED BY <1>1, <2>1, <2>2
<1>5. CASE ReadBody
  <2>1. CASE Detach /\ Head(toApp[cur]).cmd = "detach"
    <3>1. /\ active /\ cur \in Conns /\ toApp[cur] # << >> /\ UNCHANGED <<life, pc, at, toClient>>
          /\ toApp[cur] \in Seq(Piece)
      BY <1>0, <1>5 DEF ReadBody, StateInv, client, TypeInv
    <3>2. 1 \in 1 .. Left /\ toApp[cur][1].cmd = "detach"
      BY <2>1, <3>1, Shorter DEF Left
    <3>3. \A c \in Clients : at[c] = cur => pc[c] \notin {"wait", "in", "sending"}
      BY <3>1, <3>2 DEF StreamInv
    <3>4. Pending' = {}
      BY <2>1 DEF Detach, Pending
    <3>5. life = "on"
      BY <1>0, <3>1 DEF StateInv, TypeInv
    <3>6. \A c \in Clients : ~Writes(c) /\ ~(pc[c] = "wait" /\ toClient[at[c]] # << >>)
      BY <1>0, <3>3, <3>5 DEF ServedInv, Writes
    <3> QED BY <3>1, <3>4, <3>6 DEF ServedInv, Writes
  <2>2. CASE UNCHANGED <<listener, comms, cur, active, changed, backlog, srv>> /\ apc' = "report"
    BY <1>2, <1>5, <2>2 DEF ReadBody, client
  <2> QED BY <1>5, <2>1, <2>2 DEF ReadBody
<1>6. CASE Ended
  <2>1. Pending' = {} /\ life' # "on"
    BY <1>6 DEF Ended, Pending
  <2> QED BY <2>1 DEF ServedInv
<1>7. ASSUME NEW c \in Clients, Connect(c)
      PROVE  ServedInv'
  <2>1. /\ at'[c] = attempts + 1 /\ attempts + 1 \in Conns /\ pc'[c] = "wait"
        /\ backlog' = Append(backlog, attempts + 1) /\ UNCHANGED <<life, cur, toClient>>
        /\ \A d \in Clients \ {c} : at'[d] = at[d] /\ pc'[d] = pc[d]
    BY <1>7 DEF Connect, TypeInv, Conns
  <2>2. Pending' \subseteq Pending \cup {attempts + 1}
    <3>1. /\ Len(backlog) \in Nat /\ DOMAIN backlog = 1 .. Len(backlog) /\ DOMAIN backlog' = 1 .. Len(backlog) + 1
          /\ \A i \in 1 .. Len(backlog) : backlog'[i] = backlog[i]
          /\ backlog'[Len(backlog) + 1] = attempts + 1
      BY <2>1, Longer DEF TypeInv
    <3>2. \A i \in 1 .. Len(backlog) + 1 : i \in 1 .. Len(backlog) \/ i = Len(backlog) + 1
      BY <3>1
    <3> QED BY <3>1, <3>2 DEF Pending
  <2>3. toClient'[attempts + 1] = << >>
    BY <1>0, <2>1 DEF EndsInv, TypeInv
  <2>4. \A d \in Clients : at[d] # attempts + 1
    BY <1>0 DEF OwnInv, TypeInv
  <2> QED BY <1>0, <2>1, <2>2, <2>3, <2>4 DEF ServedInv, In, Writes
<1>8. ASSUME NEW c \in Clients, Take(c),
             (pc[c] = "wait" /\ pc' = [pc EXCEPT ![c] = "in"]) \/ (pc[c] = "in" /\ UNCHANGED pc)
      PROVE  ServedInv'
  <2>1. /\ at[c] \in Conns /\ toClient[at[c]] # << >> /\ UNCHANGED <<life, cur, backlog, at>>
        /\ \A k \in Conns : toClient'[k] # << >> => toClient[k] # << >>
        /\ \A d \in Clients \ {c} : pc'[d] = pc[d]
        /\ pc'[c] = "in"
    <3>1. at[c] \in Conns
      BY <1>0, <1>8 DEF OwnInv, Up
    <3> QED BY <1>8, <3>1 DEF Take, app, TypeInv
  <2>2. Pending' = Pending /\ at[c] \notin Pending
    BY <1>0, <2>1 DEF EndsInv, Pending
  <2>3. life = "on" => at[c] = cur
    BY <1>0, <1>8, <2>1 DEF ServedInv, Writes
  <2>4. \A d \in Clients : Up(d) => at[d] \in Conns
    BY <1>0 DEF OwnInv
  <2>5. ASSUME NEW d \in Clients
        PROVE  /\ In(d)' => at'[d] \notin Pending'
               /\ life' = "on" /\ (Writes(d)' \/ (pc'[d] = "wait" /\ toClient'[at'[d]] # << >>)) => at'[d] = cur'
    <3>1. CASE d = c
      BY <2>1, <2>2, <2>3, <3>1 DEF In, Writes
    <3>2. CASE d # c
      BY <1>0, <2>1, <2>2, <2>4, <3>2 DEF ServedInv, In, Writes, Up
    <3> QED BY <3>1, <3>2
  <2> QED BY <2>5 DEF ServedInv
<1>9. ASSUME NEW c \in Clients, SendHeader(c) \/ SendBody(c) \/ Refused(c) \/ Close(c) \/ Kill(c)
      PROVE  ServedInv'
  <2>1. UNCHANGED <<life, cur, backlog, at>> /\ Pending' = Pending
    BY <1>9 DEF SendHeader, SendBody, Refused, Close, Kill, app, Pending
  <2>2. /\ \A d \in Clients : In(d)' => In(d)
        /\ \A d \in Clients : Writes(d)' => Writes(d)
        /\ \A d \in Clients : pc'[d] = "wait" => pc[d] = "wait"
    BY <1>9 DEF SendHeader, SendBody, Refused, Close, Kill, In, Writes, TypeInv
  <2>3. \A k \in Conns : toClient'[k] # << >> => toClient[k] # << >>
    BY <1>9 DEF SendHeader, SendBody, Refused, Close, Kill, CloseEnd, TypeInv
  <2>4. \A d \in Clients : pc[d] = "wait" => at[d] \in Conns
    BY <1>0 DEF OwnInv, Up
  <2> QED BY <1>0, <2>1, <2>2, <2>3, <2>4 DEF ServedInv
<1>10. CASE Relisten \/ Call \/ NoMessage \/ ReadHeader \/ UNCHANGED vars
  BY <1>2, <1>10 DEF Relisten, Call, NoMessage, ReadHeader, vars, app, net, client
<1>11. ASSUME NEW c \in Clients, Greeted(c) \/ Read(c)
       PROVE  ServedInv'
  BY <1>8, <1>11 DEF Greeted, Read
<1> QED
  BY <1>3, <1>4, <1>5, <1>6, <1>7, <1>9, <1>10, <1>11 DEF Next, Working, Goes, Finalize, AppKilled

\* The inductive invariant.
IInv == TypeInv /\ LinkInv /\ StreamInv

LEMMA StepIInv == IInv /\ [Next]_vars => IInv'
<1> SUFFICES ASSUME TypeInv, LinkInv, StreamInv, [Next]_vars
             PROVE  IInv'
  BY DEF IInv
<1>1. TypeInv'
  BY StepType
<1>2. LinkInv'
  BY <1>1, StepOwn, StepState, StepEnds, StepServed DEF LinkInv
<1> QED BY <1>1, <1>2, StepStream DEF IInv

THEOREM Streams == Spec => []IInv
<1>1. Init => IInv
  BY InitType, InitLink, InitStream DEF IInv
<1> QED BY <1>1, StepIInv, PTL DEF Spec

-----------------------------------------------------------------------------

\* ControlChannel: the socket implements the FIFO channel, over all sessions, whoever is
\* killed (Get_control_msg_sockets, consume_steering_msg, Detach_from_steerer_sockets).
THEOREM OneChannel == Spec => ControlChannel
<1>1. Init => Channel!Init
  BY DEF Init, Channel!Init
<1>2. IInv /\ [Next]_vars => [Channel!Next]_Channel!chanVars
  <2> SUFFICES ASSUME IInv, [Next]_vars
               PROVE  Channel!Send \/ Channel!Deliver \/ UNCHANGED <<nsent, got>>
    BY DEF Channel!Next, Channel!chanVars
  <2>1. CASE ReadBody
    <3>1. /\ active /\ toApp[cur] # << >> /\ apc = "body" /\ toApp[cur] \in Seq(Piece)
          /\ nsent' = nsent /\ got' = Append(got, Head(toApp[cur]).n)
      <4>1. active /\ toApp[cur] # << >> /\ apc = "body"
        BY <2>1 DEF ReadBody, IInv, LinkInv, StateInv
      <4>2. cur \in Conns
        BY <4>1 DEF IInv, LinkInv, StateInv, TypeInv, None, Conns
      <4>3. nsent' = nsent /\ got' = Append(got, Head(toApp[cur]).n)
        BY <2>1 DEF ReadBody, client
      <4> QED BY <4>1, <4>2, <4>3 DEF IInv, TypeInv
    <3>2. Ahead = 1 /\ Left \in Nat /\ 1 \in 1 .. Left /\ Left >= 1 /\ Head(toApp[cur]) = toApp[cur][1]
      BY <3>1, Shorter DEF Ahead, Left
    <3>3. /\ 1 + Ahead = 2 * 1 => toApp[cur][1].n = Len(got) + 1
          /\ Left + Ahead >= 2 * 1 => Len(got) + 1 <= nsent
      BY <3>1, <3>2 DEF IInv, StreamInv
    <3>4. toApp[cur][1].n = Len(got) + 1 /\ Len(got) < nsent
      BY <3>2, <3>3 DEF IInv, TypeInv
    <3> QED BY <3>1, <3>2, <3>4 DEF Channel!Deliver
  <2>2. ASSUME NEW c \in Clients, SendBody(c)
        PROVE  Channel!Send
    BY <2>2 DEF SendBody, Channel!Send
  <2>3. CASE \/ Relisten \/ Accept \/ Call \/ EmitDefs \/ NoMessage \/ ReadHeader \/ Report
             \/ Finalize \/ AppKilled \/ UNCHANGED vars
    BY <2>3 DEF Relisten, Accept, Call, EmitDefs, NoMessage, ReadHeader, Report, Finalize, AppKilled,
                Ended, vars, client
  <2>4. ASSUME NEW c \in Clients, \/ Greeted(c) \/ Refused(c) \/ Close(c) \/ Connect(c)
                                  \/ Read(c) \/ SendHeader(c) \/ Kill(c)
        PROVE  UNCHANGED <<nsent, got>>
    BY <2>4 DEF Greeted, Refused, Close, Connect, Read, SendHeader, Kill, Take
  <2> QED BY <2>1, <2>2, <2>3, <2>4 DEF Next, Working, Goes
<1> QED BY <1>1, <1>2, Streams, PTL DEF Spec, ControlChannel, Channel!Spec

-----------------------------------------------------------------------------
(* What a client is told.                                                  *)

LEMMA InitGreet == Init => GreetInv
<1> SUFFICES ASSUME Init PROVE GreetInv
  OBVIOUS
<1>1. \A c \in Clients : ~Up(c)
  BY DEF Init, Up
<1>2. changed /\ ~active
  BY Zenon DEF Init
<1> QED BY <1>1, <1>2 DEF GreetInv

LEMMA ToldKept ==
  ASSUME NEW c \in Clients, Told(c), at'[c] = at[c], seen'[c] = seen[c], pc'[c] = "wait" <=> pc[c] = "wait",
         toClient'[at[c]] = toClient[at[c]], at[c] = cur' => at[c] = cur /\ (changed' <=> changed)
  PROVE  Told(c)'
BY DEF Told

LEMMA StepGreet ==
  ASSUME TypeInv, TypeInv', LinkInv, LinkInv', GreetInv, [Next]_vars
  PROVE  GreetInv'
<1> USE SocketAssumption DEF None
<1>0. /\ OwnInv /\ EndsInv /\ StateInv /\ ServedInv /\ 0 \notin Conns /\ StateInv'
      /\ active => cur \in Conns /\ life = "on"
      /\ \A c \in Clients : Up(c) => at[c] \in Conns /\ cli[at[c]] /\ Told(c)
      /\ \A c, d \in Clients : Up(c) /\ at[c] = at[d] => c = d
  <2>1. active => cur \in Conns /\ life = "on"
    BY DEF LinkInv, StateInv, TypeInv, Conns
  <2> QED BY <2>1 DEF LinkInv, GreetInv, OwnInv, Conns
<1>1. ASSUME UNCHANGED <<life, active, cur, changed>>,
             active /\ changed => apc' = "defs",
             \A c \in Clients : Up(c)' =>
               /\ Up(c) /\ at'[c] = at[c] /\ seen'[c] = seen[c] /\ toClient'[at[c]] = toClient[at[c]]
               /\ pc'[c] = "wait" <=> pc[c] = "wait"
      PROVE  GreetInv'
  <2>1. \A c \in Clients : Up(c)' => Told(c)'
    BY <1>0, <1>1, ToldKept
  <2> QED BY <1>1, <2>1 DEF GreetInv
<1>2. CASE Accept
  <2>1. /\ ~active /\ cur = 0 /\ life = "on" /\ backlog # << >> /\ cur' = Head(backlog)
        /\ active' /\ apc' = "defs" /\ changed /\ UNCHANGED <<at, pc, seen, changed, life>>
    BY <1>0, <1>2 DEF Accept, StateInv, GreetInv, client
  <2>2. cur' \in Conns /\ cur' \in Pending
    BY <1>0, <2>1, FirstPending
  <2>3. /\ \A k \in Conns : k # cur' => toClient'[k] = toClient[k]
        /\ cli[cur'] => toClient'[cur'] = Append(toClient[cur'], "supp")
    BY <1>2, <2>2 DEF Accept, Greet, SendTo, TypeInv
  <2>4. ASSUME NEW c \in Clients, Up(c)'
        PROVE  Told(c)'
    <3>1. Up(c) /\ at[c] \in Conns /\ cli[at[c]] /\ Told(c)
      BY <1>0, <2>1, <2>4 DEF Up
    <3>2. CASE at[c] = cur'
      <4>1. pc[c] = "wait" /\ toClient[at[c]] = << >>
        BY <1>0, <2>2, <3>1, <3>2 DEF EndsInv, ServedInv, In, Up
      <4>2. toClient'[at[c]] = <<"supp">>
        BY <2>3, <3>1, <3>2, <4>1
      <4>3. Len(<<"supp">>) = 1 /\ <<"supp">>[1] = "supp" /\ \A i \in 1 .. 1 : i = 1
        OBVIOUS
      <4> QED BY <2>1, <3>1, <4>1, <4>2, <4>3 DEF Told
    <3>3. CASE at[c] # cur'
      BY <2>1, <2>3, <3>1, <3>3, ToldKept
    <3> QED BY <3>2, <3>3
  <2> QED BY <2>1, <2>4 DEF GreetInv
<1>3. CASE EmitDefs
  <2>1. /\ active /\ active' /\ cur \in Conns /\ ~changed' /\ UNCHANGED <<life, cur, at, pc, seen>>
        /\ \A k \in Conns : k # cur => toClient'[k] = toClient[k]
        /\ ~changed => toClient' = toClient
        /\ changed /\ cli[cur] => toClient'[cur] = Append(toClient[cur], "defs")
    BY <1>0, <1>3 DEF EmitDefs, SendTo, StateInv, client, TypeInv
  <2>2. ASSUME NEW c \in Clients, Up(c)'
        PROVE  Told(c)'
    <3>1. Up(c) /\ at[c] \in Conns /\ cli[at[c]] /\ Told(c)
      BY <1>0, <2>1, <2>2 DEF Up
    <3>2. CASE at[c] = cur /\ changed /\ pc[c] = "wait"
      <4>1. toClient[at[c]] = <<"supp">> /\ seen[c] = {}
        BY <3>1, <3>2 DEF Told
      <4>2. toClient'[at[c]] = <<"supp", "defs">>
        BY <2>1, <3>1, <3>2, <4>1
      <4>3. /\ Len(<<"supp", "defs">>) = 2 /\ <<"supp", "defs">>[1] = "supp" /\ <<"supp", "defs">>[2] = "defs"
            /\ \A i \in 1 .. 2 : i = 1 \/ i = 2
        OBVIOUS
      <4> QED BY <2>1, <3>2, <4>1, <4>2, <4>3 DEF Told
    <3>3. CASE at[c] = cur /\ changed /\ pc[c] # "wait"
      <4>1. toClient[at[c]] = << >> /\ seen[c] = {"supp"}
        BY <3>1, <3>3 DEF Told
      <4>2. toClient'[at[c]] = <<"defs">>
        BY <2>1, <3>1, <3>3, <4>1
      <4>3. Len(<<"defs">>) = 1 /\ <<"defs">>[1] = "defs" /\ \A i \in 1 .. 1 : i = 1
        OBVIOUS
      <4> QED BY <2>1, <3>3, <4>1, <4>2, <4>3 DEF Told
    <3>4. CASE at[c] # cur \/ ~changed
      <4>1. toClient'[at[c]] = toClient[at[c]]
        BY <2>1, <3>1, <3>4
      <4> QED BY <2>1, <3>1, <3>4, <4>1, ToldKept
    <3> QED BY <3>2, <3>3, <3>4
  <2> QED BY <2>1, <2>2 DEF GreetInv
<1>4. CASE Report
  <2>1. /\ active /\ active' /\ cur \in Conns /\ ~changed /\ ~changed' /\ UNCHANGED <<life, cur, changed, at, pc, seen>>
        /\ \A k \in Conns : k # cur => toClient'[k] = toClient[k]
        /\ cli[cur] => toClient'[cur] = Append(toClient[cur], "status")
    BY <1>0, <1>4 DEF Report, SendTo, StateInv, GreetInv, client, TypeInv
  <2>2. ASSUME NEW c \in Clients, Up(c)'
        PROVE  Told(c)'
    <3>1. Up(c) /\ at[c] \in Conns /\ cli[at[c]] /\ Told(c)
      BY <1>0, <2>1, <2>2 DEF Up
    <3>2. CASE at[c] = cur
      <4> DEFINE Q == toClient[at[c]]
                 R == toClient'[at[c]]
      <4>1. /\ Len(Q) \in Nat /\ Len(R) = Len(Q) + 1 /\ R[Len(Q) + 1] = "status"
            /\ \A i \in 1 .. Len(Q) : R[i] = Q[i]
            /\ \A i \in 1 .. Len(R) : i \in 1 .. Len(Q) \/ i = Len(Q) + 1
        <5>1. R = Append(Q, "status") /\ Q \in Seq(Kind) /\ "status" \in Kind
          BY <2>1, <3>1, <3>2 DEF TypeInv, Kind
        <5> QED BY <5>1, Longer
      <4>2. "defs" \in seen[c] \/ \E j \in 1 .. Len(Q) : Q[j] = "defs"
        BY <2>1, <3>1, <3>2 DEF Told
      <4>3. Q # << >> => Len(Q) >= 1
        BY <3>1 DEF TypeInv
      <4>4. pc[c] = "wait" => seen[c] = {} /\ Q # << >> /\ Q[1] = "supp"
        BY <3>1, <4>2 DEF Told
      <4>5. \A i \in 1 .. Len(Q) :
              /\ Q[i] = "supp" => i = 1 /\ pc[c] = "wait"
              /\ Q[i] = "defs" => IF pc[c] = "wait" THEN i = 2 ELSE i = 1 /\ seen[c] = {"supp"}
              /\ Q[i] = "status" => "defs" \in seen[c] \/ \E j \in 1 .. i - 1 : Q[j] = "defs"
        BY <3>1 DEF Told
      <4> HIDE DEF Q, R
      <4>6. \A i \in 1 .. Len(R) :
              /\ R[i] = "supp" => i = 1 /\ pc[c] = "wait"
              /\ R[i] = "defs" => IF pc[c] = "wait" THEN i = 2 ELSE i = 1 /\ seen[c] = {"supp"}
              /\ R[i] = "status" => "defs" \in seen[c] \/ \E j \in 1 .. i - 1 : R[j] = "defs"
        <5> TAKE i \in 1 .. Len(R)
        <5>1. CASE i = Len(Q) + 1
          BY <4>1, <4>2, <5>1
        <5>2. CASE i \in 1 .. Len(Q)
          <6>1. \A j \in 1 .. i - 1 : j \in 1 .. Len(Q)
            BY <4>1, <5>2
          <6> QED BY <4>1, <4>5, <5>2, <6>1
        <5> QED BY <4>1, <5>1, <5>2
      <4>7. pc[c] = "wait" => R[1] = "supp"
        BY <4>1, <4>3, <4>4
      <4>8. "defs" \in seen[c] \/ \E j \in 1 .. Len(R) : R[j] = "defs"
        BY <4>1, <4>2
      <4> QED BY <2>1, <4>4, <4>6, <4>7, <4>8 DEF Told, R
    <3>3. CASE at[c] # cur
      BY <2>1, <3>1, <3>3, ToldKept
    <3> QED BY <3>2, <3>3
  <2> QED BY <2>1, <2>2 DEF GreetInv
<1>5. CASE Relisten
  <2>1. /\ UNCHANGED <<life, active, cur, changed, pc, at, seen, toClient>> /\ ~active
    BY <1>5 DEF Relisten, net, client
  <2> QED BY <1>1, <2>1 DEF Up
<1>6. CASE Call
  <2>1. /\ UNCHANGED <<life, active, cur, changed, pc, at, seen, toClient>> /\ apc' = "defs"
    BY <1>6 DEF Call, net, client
  <2> QED BY <1>1, <2>1 DEF Up
<1>7. CASE NoMessage \/ ReadHeader
  <2>1. UNCHANGED <<life, active, cur, changed, pc, at, seen, toClient>> /\ apc # "defs"
    BY <1>7 DEF NoMessage, ReadHeader, net, client
  <2>2. ~(active /\ changed)
    BY <2>1 DEF GreetInv
  <2> QED BY <1>1, <2>1, <2>2 DEF Up
<1>8. CASE ReadBody
  <2>1. UNCHANGED <<life, pc, at, seen, toClient>> /\ apc # "defs"
    BY <1>8 DEF ReadBody, client
  <2>2. ~(active /\ changed)
    BY <2>1 DEF GreetInv
  <2>3. CASE UNCHANGED <<cur, active, changed>>
    BY <1>1, <2>1, <2>2, <2>3 DEF Up
  <2>4. CASE Detach
    <3>1. cur' = 0
      BY <2>4 DEF Detach
    <3>2. ~active' /\ changed'
      BY <2>4, Zenon DEF Detach
    <3>3. \A c \in Clients : Up(c)' => Told(c)'
      <4> SUFFICES ASSUME NEW c \in Clients, Up(c)' PROVE Told(c)'
        BY Zenon
      <4>1. Up(c) /\ at[c] \in Conns /\ Told(c) /\ at[c] # cur'
        BY <1>0, <2>1, <3>1 DEF Up
      <4> QED BY <2>1, <4>1, ToldKept
    <3> QED BY <3>2, <3>3 DEF GreetInv
  <2> QED BY <1>8, <2>3, <2>4 DEF ReadBody
<1>9. CASE Ended
  <2>1. UNCHANGED <<pc, at, seen, toClient>> /\ life' = "ended" /\ cur' = 0
    BY <1>9 DEF Ended, client
  <2>2. ~active'
    BY <1>9, Zenon DEF Ended
  <2>3. \A c \in Clients : Up(c)' => Told(c)'
    <3> SUFFICES ASSUME NEW c \in Clients, Up(c)' PROVE Told(c)'
      BY Zenon
    <3>1. Up(c) /\ at[c] \in Conns /\ Told(c) /\ at[c] # cur'
      BY <1>0, <2>1 DEF Up
    <3> QED BY <2>1, <3>1, ToldKept
  <2> QED BY <2>1, <2>2, <2>3 DEF GreetInv
<1>10. ASSUME NEW c \in Clients, Connect(c)
       PROVE  GreetInv'
  <2> DEFINE k == attempts + 1
  <2>1. /\ k \in Conns /\ k > attempts /\ UNCHANGED <<life, active, cur, changed, apc, toClient>>
        /\ at' = [at EXCEPT ![c] = k] /\ pc' = [pc EXCEPT ![c] = "wait"] /\ seen' = [seen EXCEPT ![c] = {}]
    BY <1>10 DEF Connect, TypeInv, Conns
  <2>2. toClient[k] = << >> /\ k # cur
    BY <1>0, <2>1 DEF EndsInv
  <2>3. at'[c] = k /\ pc'[c] = "wait" /\ seen'[c] = {}
    BY <2>1 DEF TypeInv
  <2>4. Told(c)'
    <3>1. Len(<< >>) = 0 /\ 1 .. 0 = {}
      OBVIOUS
    <3> QED BY <2>1, <2>2, <2>3, <3>1 DEF Told
  <2>5. \A d \in Clients : Up(d)' => Told(d)'
    <3> SUFFICES ASSUME NEW d \in Clients, Up(d)' PROVE Told(d)'
      BY Zenon
    <3>1. CASE d = c
      BY <2>4, <3>1
    <3>2. CASE d # c
      <4>1. pc'[d] = pc[d] /\ at'[d] = at[d] /\ seen'[d] = seen[d]
        BY <2>1, <3>2 DEF TypeInv
      <4>2. Told(d)
        BY <1>0, <4>1 DEF Up
      <4> QED BY <2>1, <4>1, <4>2, ToldKept
    <3> QED BY <3>1, <3>2
  <2> QED BY <2>1, <2>5 DEF GreetInv
<1>11. ASSUME NEW c \in Clients, Greeted(c) \/ Read(c)
       PROVE  GreetInv'
  <2> DEFINE Q == toClient[at[c]]
             R == toClient'[at[c]]
  <2>1. /\ pc[c] \in {"wait", "in"} /\ Q # << >> /\ UNCHANGED <<life, active, cur, changed, apc, at>>
        /\ toClient' = [toClient EXCEPT ![at[c]] = Tail(@)]
        /\ seen' = [seen EXCEPT ![c] = @ \cup {Head(Q)}]
        /\ pc'[c] = "in" /\ \A d \in Clients \ {c} : pc'[d] = pc[d]
    BY <1>11 DEF Greeted, Read, Take, app, TypeInv
  <2>2. Up(c) /\ at[c] \in Conns /\ Told(c)
    BY <1>0, <2>1 DEF Up
  <2>3. /\ Len(Q) \in Nat /\ Len(Q) >= 1 /\ Len(R) = Len(Q) - 1 /\ Head(Q) = Q[1]
        /\ \A i \in 1 .. Len(R) : R[i] = Q[i + 1]
        /\ Q \in Seq(Kind) /\ R \in Seq(Kind)
    <3>1. R = Tail(Q) /\ Q \in Seq(Kind)
      BY <2>1, <2>2 DEF TypeInv
    <3> HIDE DEF Q, R
    <3>2. Q # << >>
      BY <2>1
    <3>3. R \in Seq(Kind) /\ Len(R) = Len(Q) - 1 /\ \A i \in 1 .. Len(R) : R[i] = Q[i + 1]
      BY <3>1, <3>2, Shorter
    <3> QED BY <3>1, <3>2, <3>3, Shorter
  <2>4. seen'[c] = seen[c] \cup {Q[1]}
    BY <2>1, <2>3 DEF TypeInv
  <2>5. /\ pc[c] = "wait" => seen[c] = {} /\ Q[1] = "supp"
        /\ \A i \in 1 .. Len(Q) :
             /\ Q[i] = "supp" => i = 1 /\ pc[c] = "wait"
             /\ Q[i] = "defs" => IF pc[c] = "wait" THEN i = 2 ELSE i = 1 /\ seen[c] = {"supp"}
             /\ Q[i] = "status" => "defs" \in seen[c] \/ \E j \in 1 .. i - 1 : Q[j] = "defs"
        /\ at[c] = cur /\ changed => pc[c] = "wait" /\ Q = <<"supp">>
        /\ at[c] = cur /\ ~changed => "defs" \in seen[c] \/ \E j \in 1 .. Len(Q) : Q[j] = "defs"
    BY <2>1, <2>2 DEF Told
  <2> HIDE DEF Q, R
  <2>6. \A n \in Nat : n <= Len(Q) /\ (\E j \in 1 .. n : Q[j] = "defs") =>
          "defs" \in seen'[c] \/ \E j \in 1 .. n - 1 : R[j] = "defs"
    <3> TAKE n \in Nat
    <3> SUFFICES ASSUME n <= Len(Q), NEW j \in 1 .. n, Q[j] = "defs"
                 PROVE  "defs" \in seen'[c] \/ \E i \in 1 .. n - 1 : R[i] = "defs"
      BY Zenon
    <3>1. CASE j = 1
      BY <2>4, <3>1
    <3>2. CASE j # 1
      <4>1. j - 1 \in 1 .. n - 1 /\ j - 1 \in 1 .. Len(R) /\ (j - 1) + 1 = j
        BY <2>3, <3>2
      <4> QED BY <2>3, <4>1
    <3> QED BY <3>1, <3>2
  <2>7. \A i \in 1 .. Len(R) :
          /\ R[i] # "supp"
          /\ R[i] = "defs" => i = 1 /\ seen'[c] = {"supp"}
          /\ R[i] = "status" => "defs" \in seen'[c] \/ \E j \in 1 .. i - 1 : R[j] = "defs"
    <3> TAKE i \in 1 .. Len(R)
    <3>1. i + 1 \in 1 .. Len(Q) /\ i + 1 # 1 /\ R[i] = Q[i + 1] /\ (i + 1) - 1 = i /\ i \in Nat /\ i <= Len(Q)
      BY <2>3
    <3>2. R[i] # "supp"
      BY <2>5, <3>1
    <3>3. R[i] = "defs" => i = 1 /\ seen'[c] = {"supp"}
      <4> SUFFICES ASSUME R[i] = "defs" PROVE i = 1 /\ seen'[c] = {"supp"}
        OBVIOUS
      <4>1. pc[c] = "wait" /\ i + 1 = 2
        BY <2>5, <3>1
      <4> QED BY <2>4, <2>5, <3>1, <4>1
    <3>4. R[i] = "status" => "defs" \in seen'[c] \/ \E j \in 1 .. i - 1 : R[j] = "defs"
      <4> SUFFICES ASSUME R[i] = "status" PROVE "defs" \in seen'[c] \/ \E j \in 1 .. i - 1 : R[j] = "defs"
        OBVIOUS
      <4>1. "defs" \in seen[c] \/ \E j \in 1 .. i : Q[j] = "defs"
        BY <2>5, <3>1
      <4> QED BY <2>4, <2>6, <3>1, <4>1
    <3> QED BY <3>2, <3>3, <3>4
  <2>8. at[c] = cur /\ changed => R = << >> /\ seen'[c] = {"supp"}
    <3>1. Len(<<"supp">>) = 1 /\ \A q \in Seq(Kind) : Len(q) = 0 => q = << >>
      OBVIOUS
    <3>2. at[c] = cur /\ changed => Len(R) = 0
      BY <2>3, <2>5, <3>1
    <3>3. at[c] = cur /\ changed => seen'[c] = {"supp"}
      BY <2>4, <2>5
    <3> QED BY <2>3, <3>1, <3>2, <3>3
  <2>9. at[c] = cur /\ ~changed => "defs" \in seen'[c] \/ \E j \in 1 .. Len(R) : R[j] = "defs"
    BY <2>3, <2>4, <2>5, <2>6
  <2>10. Told(c)'
    <3>1. /\ at'[c] = at[c] /\ cur' = cur /\ (changed' <=> changed) /\ pc'[c] # "wait"
          /\ toClient'[at'[c]] = R
      BY <2>1 DEF R
    <3>2. at'[c] = cur' /\ changed' => R = << >> /\ seen'[c] = {"supp"}
      BY <2>8, <3>1
    <3>3. at'[c] = cur' /\ ~changed' => "defs" \in seen'[c] \/ \E j \in 1 .. Len(R) : R[j] = "defs"
      BY <2>9, <3>1
    <3> QED BY <2>7, <3>1, <3>2, <3>3 DEF Told
  <2>11. \A d \in Clients : Up(d)' => Told(d)'
    <3> SUFFICES ASSUME NEW d \in Clients, Up(d)' PROVE Told(d)'
      BY Zenon
    <3>1. CASE d = c
      BY <2>10, <3>1
    <3>2. CASE d # c
      <4>1. pc'[d] = pc[d] /\ seen'[d] = seen[d] /\ d \in Clients \ {c}
        BY <2>1, <3>2 DEF TypeInv
      <4>2. Up(d) /\ Told(d) /\ at[d] # at[c] /\ at[d] \in Conns
        BY <1>0, <2>2, <3>2, <4>1 DEF Up
      <4>3. toClient'[at[d]] = toClient[at[d]]
        BY <2>1, <4>2 DEF TypeInv
      <4> QED BY <2>1, <4>1, <4>2, <4>3, ToldKept
    <3> QED BY <3>1, <3>2
  <2> QED BY <2>1, <2>11 DEF GreetInv
<1>12. ASSUME NEW c \in Clients, SendHeader(c) \/ SendBody(c)
       PROVE  GreetInv'
  <2>1. /\ UNCHANGED <<life, active, cur, changed, apc, at, seen, toClient>>
        /\ pc[c] \in {"in", "sending"} /\ pc'[c] # "wait" /\ \A d \in Clients \ {c} : pc'[d] = pc[d]
    <3>1. CASE SendHeader(c)
      BY <3>1 DEF SendHeader, app, TypeInv
    <3>2. CASE SendBody(c)
      BY <3>2 DEF SendBody, app, TypeInv
    <3> QED BY <1>12, <3>1, <3>2
  <2> QED BY <1>1, <2>1 DEF Up, GreetInv
<1>13. ASSUME NEW c \in Clients, Refused(c) \/ Close(c) \/ Kill(c)
       PROVE  GreetInv'
  <2>1. /\ UNCHANGED <<life, active, cur, changed, apc, at, seen>>
        /\ Up(c) /\ pc'[c] \in {"out", "dead"} /\ \A d \in Clients \ {c} : pc'[d] = pc[d]
        /\ \A k \in Conns \ {at[c]} : toClient'[k] = toClient[k]
    <3>1. CASE Refused(c)
      BY <3>1 DEF Refused, app, TypeInv, Up
    <3>2. CASE Close(c)
      BY <3>2 DEF Close, CloseEnd, app, TypeInv, Up
    <3>3. CASE Kill(c)
      BY <3>3 DEF Kill, CloseEnd, app, TypeInv, Up
    <3> QED BY <1>13, <3>1, <3>2, <3>3
  <2>2. ~Up(c)'
    BY <2>1 DEF Up
  <2>3. ASSUME NEW d \in Clients, Up(d)'
        PROVE  /\ Up(d) /\ toClient'[at[d]] = toClient[at[d]]
               /\ pc'[d] = "wait" <=> pc[d] = "wait"
    <3>1. d \in Clients \ {c} /\ pc'[d] = pc[d]
      BY <2>1, <2>2, <2>3
    <3>2. Up(d)
      BY <2>3, <3>1 DEF Up
    <3>3. at[d] \in Conns \ {at[c]}
      BY <1>0, <3>1, <3>2
    <3> QED BY <2>1, <3>1, <3>2, <3>3
  <2> QED BY <1>1, <2>1, <2>3 DEF GreetInv
<1>14. CASE UNCHANGED vars
  <2>1. UNCHANGED <<life, active, cur, changed, apc, pc, at, seen, toClient>>
    BY <1>14 DEF vars, app, net, client
  <2> QED BY <1>1, <2>1 DEF Up, GreetInv
<1> QED
  BY <1>2, <1>3, <1>4, <1>5, <1>6, <1>7, <1>8, <1>9, <1>10, <1>11, <1>12, <1>13, <1>14
  DEF Next, Working, Goes, Finalize, AppKilled

\* The first client is told what it can do and what there is to steer before it is told
\* anything about the state, and so is every later one; two are never attached at once.
THEOREM EveryClientWelcome == Spec => []Welcome
<1>1. IInv /\ GreetInv => Welcome
  <2> SUFFICES ASSUME IInv, GreetInv PROVE Welcome
    OBVIOUS
  <2> USE DEF None
  <2>0. TypeInv /\ OwnInv /\ EndsInv /\ ServedInv
    BY DEF IInv, LinkInv
  <2>1. ASSUME NEW c \in Clients, at[c] # 0, toClient[at[c]] # << >>
        PROVE  CASE Head(toClient[at[c]]) = "supp" -> pc[c] = "wait"
                 [] Head(toClient[at[c]]) = "defs" -> seen[c] = {"supp"}
                 [] OTHER -> "defs" \in seen[c]
    <3> DEFINE Q == toClient[at[c]]
    <3>1. at[c] \in Conns
      BY <2>0, <2>1, SocketAssumption DEF TypeInv, Conns
    <3>2. Up(c) /\ Told(c)
      BY <2>0, <2>1, <3>1 DEF OwnInv, EndsInv, GreetInv
    <3>3. Q \in Seq(Kind) /\ Len(Q) \in Nat /\ Len(Q) >= 1 /\ Head(Q) = Q[1] /\ Q[1] \in Kind
      BY <2>0, <2>1, <3>1, Shorter DEF TypeInv
    <3>4. 1 \in 1 .. Len(Q) /\ 1 .. 1 - 1 = {}
      BY <3>3
    <3>5. /\ pc[c] = "wait" => Q[1] = "supp"
          /\ Q[1] = "supp" => pc[c] = "wait"
          /\ Q[1] = "defs" => seen[c] = {"supp"}
          /\ Q[1] = "status" => "defs" \in seen[c]
      BY <2>1, <3>2, <3>4 DEF Told
    <3> QED BY <3>3, <3>5 DEF Kind
  <2>2. ASSUME NEW c \in Clients, NEW d \in Clients \ {c}, Attached(c), Attached(d)
        PROVE  FALSE
    <3>1. In(c) /\ In(d) /\ at[c] \in Conns /\ at[d] \in Conns /\ srv[at[c]] /\ srv[at[d]]
      BY <2>0, <2>2 DEF Attached, In, OwnInv, Up
    <3>2. at[c] = cur /\ at[d] = cur
      BY <2>0, <3>1 DEF EndsInv, ServedInv
    <3> QED BY <2>0, <3>1, <3>2, SocketAssumption DEF OwnInv, Conns
  <2> QED BY <2>1, <2>2 DEF Welcome
<1>2. Init => GreetInv
  BY InitGreet
<1>3. IInv /\ IInv' /\ GreetInv /\ [Next]_vars => GreetInv'
  BY StepGreet DEF IInv
<1>4. Spec => []IInv
  BY Streams
<1> QED BY <1>1, <1>2, <1>3, <1>4, PTL DEF Spec
=============================================================================
