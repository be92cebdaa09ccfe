---------------------------- MODULE SampleStream ----------------------------
(***************************************************************************)
(* How samples of one IOType travel over a socket                          *)
(* (ReG_Steer_Samples_Transport_Sockets.c and ..._Shared.c, with what      *)
(* Emit_start to Emit_stop and Consume_start to Consume_stop do).          *)
(*                                                                         *)
(* The emitter listens, the consumer connects; each notices only when it   *)
(* uses the connection that it is gone, and then looks for another.  A     *)
(* sample is a packet that begins it, slices and a packet that ends it;    *)
(* acknowledgements come back on the same connection and arrive whole: of  *)
(* one that arrives in two parts (16 bytes), Consume_ack would take the    *)
(* first part for the end of the stream.                                   *)
(***************************************************************************)
EXTENDS Integers, Sequences

CONSTANTS
  UseAck,      \* use_ack: Disable_IOType_acks makes it FALSE
  Impatient,   \* the consumer may stop before the end of a sample
  PortTaken,   \* somebody else has the first port of the emitter's range
  Cap,         \* packets and slices that fit in the buffers of a connection
  LastSeq, MaxSlices, MaxConns, MaxFaults   \* bounds

ASSUME StreamAssumption ==
  /\ UseAck \in BOOLEAN /\ Impatient \in BOOLEAN /\ PortTaken \in BOOLEAN
  /\ Cap \in Nat \ {0} /\ LastSeq \in Nat /\ MaxSlices \in Nat
  /\ MaxConns \in Nat /\ MaxFaults \in Nat

Conns == 1 .. MaxConns   \* connections, in the order in which they are made
Seqs  == 1 .. LastSeq
None  == 0

VARIABLES
  eon,      \* emitter: is_enabled; FALSE while its process is dead
  lst,      \* listener_status
  ecomms,   \* comms_status
  ecur,     \* the connection behind connector_handle
  eack,     \* ack_needed
  epc,      \* how far a sample has got
  eseq,     \* the last sample that was begun
  nslices,  \* slices of it sent
  con, ccomms, ccur, cack, cpc,   \* consumer: the same
  retried,  \* ~attempt_reconnect
  aligned,  \* the next packet begins where the next read does
  cseq,     \* the last sample that was found
  ngot,     \* slices of it read
  backlog,  \* connections that wait to be accepted
  eup, cup, \* which connections the emitter and the consumer have not left
  down, up, \* what is on its way to the consumer, and to the emitter
  nconn, faults,
  on,       \* history: the connection each sample was begun on
  emitted,  \* history: samples for which Emit_stop returned REG_SUCCESS
  taken,    \* history: samples for which Consume_start returned REG_SUCCESS
  acked,    \* history: samples for which Emit_ack was called
  torn,     \* history: Consume_data_slice returned part of a slice as a slice
  early     \* history: Consume_stop was called before the end of a sample

esocket  == <<lst, ecomms, ecur>>
emission == <<eack, epc, eseq, nslices, on, emitted>>
csocket  == <<ccomms, ccur>>
reading  == <<cack, cpc, retried, aligned, cseq, ngot, taken, acked, torn, early>>
emitter  == <<eon, esocket, emission>>
consumer == <<con, csocket, reading>>
net      == <<backlog, eup, cup, down, up, nconn>>
vars     == <<emitter, consumer, net, faults>>

\* Registered, with enable_on_registration; nobody has connected yet.
Init ==
  /\ eon = TRUE /\ lst = "listening" /\ ecomms = "listening" /\ ecur = None
  /\ eack = FALSE /\ epc = "idle" /\ eseq = 0 /\ nslices = 0
  /\ con = TRUE /\ ccomms = "waiting" /\ ccur = None
  /\ cack = FALSE /\ cpc = "idle" /\ retried = FALSE /\ aligned = TRUE
  /\ cseq = 0 /\ ngot = 0
  /\ backlog = << >> /\ nconn = 0 /\ faults = 0
  /\ eup = [k \in Conns |-> FALSE] /\ cup = eup
  /\ down = [k \in Conns |-> << >>] /\ up = down
  /\ on = [n \in Seqs |-> None] /\ emitted = {} /\ taken = << >> /\ acked = {}
  /\ torn = FALSE /\ early = FALSE

Fault   == faults < MaxFaults /\ faults' = faults + 1
NoFault == UNCHANGED faults

-----------------------------------------------------------------------------
(* Connections.                                                            *)

Pending == {backlog[i] : i \in DOMAIN backlog}

\* What arrives of q when the rest is lost; a slice may be cut in two.
Parts(q) ==
  LET prefix(i) == SubSeq(q, 1, i)
  IN {prefix(i) : i \in 0 .. Len(q)}
     \cup {Append(prefix(i - 1), [kind |-> "cut", n |-> q[i].n, i |-> q[i].i]) :
             i \in {j \in DOMAIN q : q[j].kind = "slice"}}

\* Closing an end with something unread resets the connection, and the other
\* side may not see all that was sent to it.
EmitterLeaves(ks) ==
  /\ eup' = [k \in Conns |-> eup[k] /\ k \notin ks]
  /\ up' = [k \in Conns |-> IF k \in ks THEN << >> ELSE up[k]]
  /\ \/ UNCHANGED down
     \/ \E k \in ks : up[k] # << >> /\ \E q \in Parts(down[k]) : down' = [down EXCEPT ![k] = q]

ConsumerLeaves(k) ==
  IF k = None THEN UNCHANGED <<cup, down, up>>
  ELSE /\ cup' = [cup EXCEPT ![k] = FALSE]
       /\ down' = [down EXCEPT ![k] = << >>]
       /\ \/ UNCHANGED up
          \/ down[k] # << >> /\ \E i \in 0 .. Len(up[k]) : up' = [up EXCEPT ![k] = SubSeq(@, 1, i)]

\* The network, or the machine in between, fails.
Break ==
  /\ \E k \in Conns :
       /\ eup[k] /\ cup[k]
       /\ eup' = [eup EXCEPT ![k] = FALSE] /\ cup' = [cup EXCEPT ![k] = FALSE]
       /\ \E q \in Parts(down[k]) : down' = [down EXCEPT ![k] = q]
       /\ \E i \in 0 .. Len(up[k]) : up' = [up EXCEPT ![k] = SubSeq(@, 1, i)]
  /\ Fault /\ UNCHANGED <<emitter, consumer, backlog, nconn>>

-----------------------------------------------------------------------------
(* The emitter.                                                            *)

Room(k) == Len(down[k]) < Cap

\* What does not fit is dropped.
SendOrDrop(k, kind, n, i) ==
  down' = IF cup[k] /\ Room(k) THEN [down EXCEPT ![k] = Append(@, [kind |-> kind, n |-> n, i |-> i])]
                               ELSE down

\* send() waits for room; what is sent to somebody who has left is lost,
\* and sooner or later the call fails.
Send(k, kind, n, i) ==
  IF cup[k] THEN /\ Room(k)
                 /\ down' = [down EXCEPT ![k] = Append(@, [kind |-> kind, n |-> n, i |-> i])]
            ELSE UNCHANGED down

\* The first part of Emit_start, Consume_ack: the end of the stream counts as
\* an answer, but not for this call.
EmitStart ==
  /\ eon /\ epc = "idle" /\ eseq < LastSeq
  /\ \/ ~eack /\ epc' = "connect" /\ UNCHANGED <<up, eack>>
     \/ /\ eack /\ up[ecur] # << >> /\ epc' = "connect"
        /\ up' = [up EXCEPT ![ecur] = Tail(@)] /\ UNCHANGED eack
     \/ /\ eack /\ up[ecur] = << >> /\ eack' = cup[ecur]
        /\ epc' = IF UseAck THEN "idle" ELSE "connect"
        /\ UNCHANGED up
  /\ UNCHANGED <<eon, esocket, eseq, nslices, on, emitted, consumer,
                 backlog, eup, cup, down, nconn, faults>>

\* create_listener: it looks for a port until comms_status says that it has
\* one, even if that is left from the last listener.
Listen ==
  \/ /\ lst' = IF PortTaken /\ ecomms = "listening" THEN lst ELSE "listening"
     /\ ecomms' = "listening" /\ NoFault
  \/ Fault /\ lst' = "failure" /\ ecomms' = "failure"

\* poll_socket.
Accept ==
  /\ lst = "listening" /\ backlog # << >>
  /\ ecur' = Head(backlog) /\ backlog' = Tail(backlog) /\ ecomms' = "connected"

\* Emit_start returns REG_FAILURE.
NotStarted == epc' = "idle" /\ eack' = FALSE

\* The branch for a connection that has broken is missing.
EmitConnectOnce ==
  /\ epc = "connect"
  /\ \/ /\ ecomms = "connected" /\ epc' = "header" /\ NoFault
        /\ UNCHANGED <<esocket, backlog, eack>>
     \/ /\ ecomms = "listening" /\ Accept /\ epc' = "header" /\ NoFault
        /\ UNCHANGED <<lst, eack>>
     \/ /\ ecomms # "connected" /\ NotStarted
        /\ IF lst = "listening" THEN NoFault /\ UNCHANGED <<lst, ecomms>> ELSE Listen
        /\ UNCHANGED <<ecur, backlog>>
  /\ UNCHANGED <<eon, eseq, nslices, on, emitted, consumer, eup, cup, down, up, nconn>>

\* attempt_listener_connect.
EmitConnect ==
  /\ epc = "connect"
  /\ \/ /\ ecomms = "connected" /\ epc' = "header" /\ NoFault
        /\ UNCHANGED <<esocket, backlog, eack>>
     \/ /\ ecomms # "connected" /\ Accept /\ epc' = "header" /\ NoFault
        /\ UNCHANGED <<lst, eack>>
     \/ /\ ecomms # "connected" /\ NotStarted
        /\ IF lst = "listening" THEN backlog = << >> /\ NoFault /\ UNCHANGED <<lst, ecomms>>
                                ELSE Listen
        /\ UNCHANGED <<ecur, backlog>>
  /\ UNCHANGED <<eon, eseq, nslices, on, emitted, consumer, eup, cup, down, up, nconn>>

Begun(k) ==
  /\ Send(k, "head", eseq + 1, 0)
  /\ epc' = "open" /\ eseq' = eseq + 1 /\ nslices' = 0
  /\ on' = [on EXCEPT ![eseq + 1] = k]

\* Emit_header: the packet is sent only if there is room for it.  If not, or if
\* the connection is gone, it is closed (retry_accept_connect).
EmitHeader ==
  /\ epc = "header"
  /\ \/ Begun(ecur) /\ UNCHANGED <<eack, esocket, backlog, eup, up>>
     \/ /\ cup[ecur] => ~Room(ecur)
        /\ EmitterLeaves({ecur})
        /\ \/ Accept /\ epc' = "again" /\ UNCHANGED eack
           \/ /\ lst # "listening" \/ backlog = << >>
              /\ ecomms' = "null" /\ NotStarted /\ UNCHANGED <<ecur, backlog>>
        /\ UNCHANGED <<lst, eseq, nslices, on>>
  /\ UNCHANGED <<eon, emitted, consumer, cup, nconn, faults>>

\* The next connection in the backlog.
EmitHeaderAgain ==
  /\ epc = "again"
  /\ \/ Begun(ecur) /\ UNCHANGED eack
     \/ ~cup[ecur] /\ NotStarted /\ UNCHANGED <<eseq, nslices, on, down>>
  /\ UNCHANGED <<eon, esocket, emitted, consumer, backlog, eup, cup, up, nconn, faults>>

\* Emit_data_slice.
EmitSlice ==
  /\ epc = "open" /\ nslices < MaxSlices
  /\ Send(ecur, "slice", eseq, nslices + 1) /\ nslices' = nslices + 1
  /\ UNCHANGED eack \/ (~cup[ecur] /\ eack' = FALSE)
  /\ UNCHANGED <<eon, esocket, epc, eseq, on, emitted, consumer,
                 backlog, eup, cup, up, nconn, faults>>

\* The two values of ack_needed are swapped.
EmitStopSwapped ==
  /\ epc = "open" /\ epc' = "idle"
  /\ Send(ecur, "foot", eseq, nslices)
  /\ \/ eack' = FALSE /\ emitted' = emitted \cup {eseq}
     \/ ~cup[ecur] /\ eack' = TRUE /\ UNCHANGED emitted
  /\ UNCHANGED <<eon, esocket, eseq, nslices, on, consumer,
                 backlog, eup, cup, up, nconn, faults>>

\* Emit_stop.
EmitStop ==
  /\ epc = "open" /\ epc' = "idle"
  /\ Send(ecur, "foot", eseq, nslices)
  /\ \/ eack' = TRUE /\ emitted' = emitted \cup {eseq}
     \/ ~cup[ecur] /\ eack' = FALSE /\ UNCHANGED emitted
  /\ UNCHANGED <<eon, esocket, eseq, nslices, on, consumer,
                 backlog, eup, cup, up, nconn, faults>>

\* Disable_IOType: comms_status is left alone unless there is a connection.  The calls
\* that would go on with a sample that was begun fail from now on.
EmitterDisable ==
  /\ eon /\ eon' = FALSE /\ Fault
  /\ epc \in {"idle", "open"} /\ epc' = "idle"
  /\ EmitterLeaves(Pending \cup (IF ecomms = "connected" THEN {ecur} ELSE {}))
  /\ lst' = IF lst = "listening" THEN "null" ELSE lst
  /\ ecomms' = IF ecomms = "connected" THEN "null" ELSE ecomms
  /\ backlog' = << >>
  /\ UNCHANGED <<ecur, eack, eseq, nslices, on, emitted, consumer, cup, nconn>>

\* The emitter dies; what it was sending may have gone in part.
EmitterKilled ==
  /\ eon /\ eon' = FALSE /\ Fault
  /\ lst' = "null" /\ ecomms' = "null" /\ ecur' = None /\ backlog' = << >>
  /\ eup' = [k \in Conns |-> FALSE] /\ up' = [k \in Conns |-> << >>]
  /\ \/ UNCHANGED down
     \/ /\ ecur # None /\ cup[ecur] /\ epc = "open"
        /\ down' = [down EXCEPT ![ecur] = Append(@, [kind |-> "cut", n |-> eseq, i |-> nslices + 1])]
     \/ \E k \in Conns : up[k] # << >> /\ \E q \in Parts(down[k]) : down' = [down EXCEPT ![k] = q]
  /\ epc' = "idle" /\ eack' = FALSE
  /\ UNCHANGED <<eseq, nslices, on, emitted, consumer, cup, nconn>>

\* Enable_IOType, or registration in a new process; the result of
\* create_listener is not looked at.
EmitterEnable ==
  /\ ~eon /\ eon' = TRUE /\ Listen /\ eack' = FALSE
  /\ UNCHANGED <<ecur, epc, eseq, nslices, on, emitted, consumer, net>>

-----------------------------------------------------------------------------
(* The consumer.                                                           *)

\* The first part of Consume_start: Emit_ack, whose result is not looked at.
ConsumeStart ==
  /\ con /\ cpc = "idle" /\ cpc' = "connect"
  /\ cack' = FALSE /\ retried' = FALSE
  /\ IF cack
     THEN /\ acked' = acked \cup {cseq}
          /\ up' = IF eup[ccur] THEN [up EXCEPT ![ccur] = Append(@, [kind |-> "ack", n |-> cseq])] ELSE up
     ELSE UNCHANGED <<acked, up>>
  /\ UNCHANGED <<con, csocket, aligned, cseq, ngot, taken, torn, early, emitter,
                 backlog, eup, cup, down, nconn, faults>>

\* create_connector and connect_connector: a connection is made when somebody
\* listens, long before it is accepted.
Connected ==
  /\ lst = "listening" /\ nconn < MaxConns /\ NoFault
  /\ nconn' = nconn + 1 /\ ccur' = nconn' /\ ccomms' = "connected"
  /\ backlog' = Append(backlog, nconn') /\ aligned' = TRUE

\* Nobody listens there; or the address is out of date, as it is kept when an IOType
\* is disabled.
NotConnected ==
  /\ \/ /\ lst # "listening" \/ ccomms \in {"null", "failure"}
        /\ NoFault /\ ccomms' = "waiting"
     \/ Fault /\ ccomms' \in {"waiting", "failure"}
  /\ UNCHANGED <<nconn, ccur, backlog, aligned>>

Establish(cpcYes) ==
  \/ /\ Connected /\ cpc' = cpcYes
     /\ eup' = [eup EXCEPT ![nconn'] = TRUE] /\ cup' = [cup EXCEPT ![nconn'] = TRUE]
  \/ NotConnected /\ cpc' = "idle" /\ UNCHANGED <<eup, cup>>

\* attempt_connector_connect.
ConsumeConnect ==
  /\ cpc = "connect"
  /\ IF ccomms = "connected"
     THEN cpc' = "search" /\ NoFault /\ UNCHANGED <<csocket, aligned, backlog, eup, cup, nconn>>
     ELSE Establish("search")
  /\ UNCHANGED <<con, cack, retried, cseq, ngot, taken, acked, torn, early, emitter, down, up>>

\* Consume_start_data_check reads the next packet and it begins a sample.
ConsumeHead ==
  /\ cpc = "search" /\ down[ccur] # << >> /\ aligned
  /\ LET m == Head(down[ccur]) IN
       /\ m.kind = "head" /\ cseq' = m.n /\ taken' = Append(taken, m.n)
  /\ down' = [down EXCEPT ![ccur] = Tail(@)] /\ ngot' = 0 /\ cpc' = "reading"
  /\ UNCHANGED <<con, csocket, cack, retried, aligned, acked, torn, early, emitter,
                 backlog, eup, cup, up, nconn, faults>>

\* A packet that begins a sample is passed over when there is more to read.
ConsumeDrainAny ==
  /\ cpc = "search" /\ down[ccur] # << >>
  /\ down' = [down EXCEPT ![ccur] = Tail(@)]
  /\ UNCHANGED <<con, csocket, cack, cpc, retried, aligned, cseq, ngot, taken, acked, torn, early, emitter,
                 backlog, eup, cup, up, nconn, faults>>

\* It reads something else, 128 bytes at a time.  When they are not those of a
\* packet, the packet that ends a sample comes with the beginning of the next, and
\* strstr stops at the null character between the two.  Reading all there is puts
\* this right.
ConsumeDrain ==
  /\ cpc = "search" /\ down[ccur] # << >>
  /\ LET m    == Head(down[ccur])
         rest == Tail(down[ccur])
     IN /\ ~(m.kind = "head" /\ aligned)
        /\ down' = [down EXCEPT ![ccur] = rest]
        /\ IF rest = << >> THEN aligned' = TRUE
           ELSE IF m.kind = "slice" THEN aligned' \in BOOLEAN
           ELSE UNCHANGED aligned
  /\ UNCHANGED <<con, csocket, cack, cpc, retried, cseq, ngot, taken, acked, torn, early, emitter,
                 backlog, eup, cup, up, nconn, faults>>

\* There is nothing to read: Consume_start returns REG_FAILURE.
ConsumeNothing ==
  /\ cpc = "search" /\ down[ccur] = << >> /\ (eup[ccur] \/ retried)
  /\ cpc' = "idle"
  /\ UNCHANGED <<con, csocket, cack, retried, aligned, cseq, ngot, taken, acked, torn, early, emitter,
                 net, faults>>

\* The connection is gone: retry_connect, once for each call.
ConsumeRetry ==
  /\ cpc = "search" /\ down[ccur] = << >> /\ ~eup[ccur] /\ ~retried
  /\ retried' = TRUE
  /\ \/ /\ Connected /\ cpc' = cpc
        /\ eup' = [eup EXCEPT ![nconn'] = TRUE]
        /\ cup' = [cup EXCEPT ![ccur] = FALSE, ![nconn'] = TRUE]
     \/ /\ NotConnected /\ cpc' = "idle"
        /\ cup' = [cup EXCEPT ![ccur] = FALSE] /\ UNCHANGED eup
  /\ UNCHANGED <<con, cack, cseq, ngot, taken, acked, torn, early, emitter, down, up>>

\* Consume_msg_header: what comes next, a slice or the end of the sample.
MsgHeader == Head(down[ccur]).kind

\* Consume_data_slice_header and Consume_data_slice: when the header is cut off, or
\* all of the data, this is an error; when part of the data is, it is not.
ConsumeSlice ==
  /\ cpc = "reading" /\ down[ccur] # << >>
  /\ \/ MsgHeader = "slice" /\ ngot' = ngot + 1 /\ UNCHANGED torn
     \/ MsgHeader = "cut" /\ ngot' = ngot + 1 /\ torn' = TRUE
     \/ MsgHeader = "cut" /\ UNCHANGED <<ngot, torn>>
  /\ down' = [down EXCEPT ![ccur] = Tail(@)]
  /\ UNCHANGED <<con, csocket, cack, cpc, retried, aligned, cseq, taken, acked, early, emitter,
                 backlog, eup, cup, up, nconn, faults>>

Done == cpc' = "idle" /\ cack' = TRUE

\* Consume_stop after the end of the sample, or of the stream, or earlier.
ConsumeStop ==
  /\ cpc = "reading" /\ Done
  /\ \/ /\ down[ccur] # << >> /\ MsgHeader = "foot"
        /\ down' = [down EXCEPT ![ccur] = Tail(@)] /\ UNCHANGED early
     \/ down[ccur] = << >> /\ ~eup[ccur] /\ UNCHANGED <<down, early>>
     \/ Impatient /\ early' = TRUE /\ UNCHANGED down
  /\ UNCHANGED <<con, csocket, retried, aligned, cseq, ngot, taken, acked, torn, emitter,
                 backlog, eup, cup, up, nconn, faults>>

\* Disable_IOType, or the consumer dies.
ConsumerOff ==
  /\ con /\ con' = FALSE /\ Fault
  /\ ConsumerLeaves(ccur)
  /\ ccomms' = "null" /\ ccur' = None /\ cpc' = "idle" /\ cack' = FALSE
  /\ UNCHANGED <<retried, aligned, cseq, ngot, taken, acked, torn, early, emitter, backlog, eup, nconn>>

\* Enable_IOType, or registration in a new process.
ConsumerEnable ==
  /\ ~con /\ con' = TRUE /\ Establish("idle")
  /\ UNCHANGED <<cack, retried, cseq, ngot, taken, acked, torn, early, emitter, down, up>>

-----------------------------------------------------------------------------
Emit    == EmitStart \/ EmitConnect \/ EmitHeader \/ EmitHeaderAgain \/ EmitSlice \/ EmitStop
Consume == \/ ConsumeStart \/ ConsumeConnect \/ ConsumeHead \/ ConsumeDrain
           \/ ConsumeNothing \/ ConsumeRetry \/ ConsumeSlice \/ ConsumeStop
Next    == \/ Emit \/ EmitterDisable \/ EmitterKilled \/ EmitterEnable
           \/ Consume \/ ConsumerOff \/ ConsumerEnable
           \/ Break

\* Both sides go on trying; nobody has to come back.
Spec == Init /\ [][Next]_vars /\ WF_vars(Emit) /\ WF_vars(Consume)

-----------------------------------------------------------------------------
(* Properties.                                                             *)

Taken(n)    == \E i \in DOMAIN taken : taken[i] = n
BegunOn(k)  == {n \in Seqs : on[n] = k}
Lost(k)     == k = None \/ ~(eup[k] /\ cup[k])

\* The variables have their types, each side holds a connection while its status
\* says so, and a connection has one place: the backlog, the emitter, or neither.
TypeOK ==
  /\ eon \in BOOLEAN /\ lst \in {"listening", "null", "failure"}
  /\ ecomms \in {"listening", "connected", "null", "failure"} /\ ecur \in Conns \cup {None}
  /\ eack \in BOOLEAN /\ epc \in {"idle", "connect", "header", "again", "open"}
  /\ eseq \in 0 .. LastSeq /\ nslices \in 0 .. MaxSlices
  /\ con \in BOOLEAN /\ ccomms \in {"waiting", "connected", "null", "failure"}
  /\ ccur \in Conns \cup {None} /\ cack \in BOOLEAN
  /\ cpc \in {"idle", "connect", "search", "reading"}
  /\ retried \in BOOLEAN /\ aligned \in BOOLEAN /\ cseq \in 0 .. LastSeq /\ ngot \in Nat
  /\ backlog \in Seq(Conns) /\ nconn \in 0 .. MaxConns /\ faults \in 0 .. MaxFaults
  /\ eup \in [Conns -> BOOLEAN] /\ cup \in [Conns -> BOOLEAN]
  /\ down \in [Conns -> Seq([kind : {"head", "slice", "cut", "foot"}, n : Seqs, i : Nat])]
  /\ up \in [Conns -> Seq([kind : {"ack"}, n : Seqs])]
  /\ on \in [Seqs -> Conns \cup {None}] /\ emitted \subseteq Seqs
  /\ taken \in Seq(Seqs) /\ acked \subseteq Seqs /\ torn \in BOOLEAN /\ early \in BOOLEAN
  /\ ecomms = "connected" => ecur # None /\ ecur \notin Pending
  /\ ccomms = "connected" => ccur # None
  /\ eack /\ eon => ecomms = "connected"
  /\ cack => ccomms = "connected"

\* Samples are taken in the order in which they were emitted, none of them twice; a
\* consumer that reads them to their ends misses none between two of one connection,
\* however often the sides have lost and found each other.
NoGaps ==
  /\ \A i, j \in DOMAIN taken : i < j => taken[i] < taken[j]
  /\ ~early =>
       \A i \in DOMAIN taken : \A n \in BegunOn(on[taken[i]]) : n < taken[i] => Taken(n)

\* The consumer sees the end of the sample that it is reading, and only
\* after all of its slices, whatever broke off before.
EndMeansWhole ==
  cpc = "reading" /\ down[ccur] # << >> /\ Head(down[ccur]).kind = "foot" =>
    Head(down[ccur]).n = cseq /\ Head(down[ccur]).i = ngot

\* With acknowledgements, no sample is begun on a connection before the consumer is done
\* with those that were emitted on it.
Backpressure ==
  UseAck /\ epc = "open" /\ ~Lost(ecur) =>
    \A n \in BegunOn(ecur) \cap emitted : n < eseq => n \in acked

\* What Emit_stop reports as emitted is taken, unless the connection is lost, or the
\* consumer has left a sample early and may pass over the beginning of the next.
Delivered ==
  \A n \in Seqs : n \in emitted ~> (Taken(n) \/ Lost(on[n]) \/ early)

\* After the last failure the two sides find each other again, if nobody else has the
\* emitter's first port: it can begin all its samples, whatever connections of clients that
\* have gone are pending, and whatever acknowledgement was lost with a connection.
Reunited == <>[](eon /\ con /\ ~early) => <>(eseq = LastSeq)

-----------------------------------------------------------------------------
\* "For a socket-based IOType this corresponds to creation of the socket"
\* (Enable_IOType).
EnableListens == [][~eon /\ eon' /\ NoFault => lst' = "listening"]_vars

\* Without acknowledgements "this can result in the emitter blocking if the consumer
\* is unable to keep up" (Disable_IOType_acks): a slow consumer is not cut off.
SlowNotCutOff == [][epc = "header" /\ epc' # "header" /\ eon' /\ cup[ecur] => eup'[ecur]]_vars

\* Consume_data_slice "BLOCKS until the requested amount of data has been consumed".
SlicesWhole == ~torn
=============================================================================
