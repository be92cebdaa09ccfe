--------------------------- MODULE SampleExchange ---------------------------
(***************************************************************************)
(* How an application hands data sets (samples) to another component       *)
(* through files: Emit_start .. Emit_stop on one side, Consume_start ..    *)
(* Consume_stop on the other.  Sample n is written to <label>_<n>, gets    *)
(* <label>_<n>.lock when it is complete, and <label>_<n>_ACK when the      *)
(* consumer is done with it and asks for the next one.                     *)
(*                                                                         *)
(* The slices between start and stop matter for whether the file turns out *)
(* to be readable; that is decided when the emitter stops.                 *)
(***************************************************************************)
EXTENDS Integers, Sequences, FiniteSets

CONSTANTS FirstSeq, LastSeq, \* sequence numbers that the emitter may use, < 100
          UseAck,            \* use_ack: Disable_IOType_acks makes it FALSE
          Faults,            \* what may fail: a subset of FaultKinds
          MaxFaults          \* bound: failures

FaultKinds == {"open",    \* Emit_start_files cannot create the file
               "header",  \* Emit_header cannot write to it
               "slice",   \* a slice is incomplete in the file
               "footer",  \* Emit_footer reports that it cannot write
               "flush",   \* nothing of the file gets to the disk
               "ack"}     \* Emit_ack_files cannot create the file

ASSUME ExchangeAssumption ==
  /\ FirstSeq \in Nat \ {0} /\ LastSeq \in Nat /\ LastSeq < 100
  /\ UseAck \in BOOLEAN /\ Faults \subseteq FaultKinds /\ MaxFaults \in Nat

VARIABLES
  data, lock, acks,   \* the files: content, and for which n the others exist
  epc, ename, eack,   \* emitter: progress, number in filename, ack_needed
  cpc, cname, cack,   \* consumer: the same
  faults,
  stopped,   \* history: the last n for which Emit_stop was called
  emitted,   \* history: samples for which Emit_stop returned REG_SUCCESS
  taken,     \* history: samples for which Consume_start returned REG_SUCCESS
  acked      \* history: samples that were acknowledged

emitter  == <<epc, ename, eack, stopped, emitted>>
consumer == <<cpc, cname, cack, taken, acked>>
vars     == <<data, lock, acks, emitter, consumer, faults>>

Seqs   == FirstSeq .. LastSeq
NoName == 0

Init ==
  /\ data = [n \in Seqs |-> "none"] /\ lock = {} /\ acks = {}
  /\ epc = "idle" /\ ename = NoName /\ eack = FALSE
  /\ cpc = "idle" /\ cname = NoName /\ cack = FALSE
  /\ faults = 0 /\ stopped = NoName /\ emitted = << >> /\ taken = << >> /\ acked = {}

Fault(kind) == kind \in Faults /\ faults < MaxFaults /\ faults' = faults + 1
NoFault     == UNCHANGED faults

-----------------------------------------------------------------------------
(* The emitter.                                                            *)

\* Any acknowledgement will do.
AckedAny == ~eack \/ acks # {}

\* Consume_ack_files returns REG_SUCCESS.
Acked == ~eack \/ ename \in acks

\* SeqNum grows; it may stay the same after a call of Emit_start that failed.
Later(n) == n >= ename /\ n > stopped

\* The header goes unwritten and the flag is left as it is.
EmitStartKeepsFlag(n) ==
  /\ epc = "idle" /\ Later(n)
  /\ UseAck => Acked
  /\ acks' = IF eack THEN acks \ {ename} ELSE acks
  /\ ename' = n
  /\ \/ NoFault /\ epc' = "writing" /\ data' = [data EXCEPT ![n] = "open"]
     \/ Fault("header") /\ data' = [data EXCEPT ![n] = "open"] /\ UNCHANGED epc
     \/ Fault("open") /\ UNCHANGED <<epc, data>>
  /\ UNCHANGED <<lock, eack, stopped, emitted, consumer>>

\* Emit_start.  It changes nothing when it returns REG_NOT_READY.
EmitStart(n) ==
  /\ epc = "idle" /\ Later(n)
  /\ UseAck => Acked
  /\ acks' = IF eack THEN acks \ {ename} ELSE acks
  /\ ename' = n
  /\ \/ NoFault /\ epc' = "writing" /\ data' = [data EXCEPT ![n] = "open"]
        /\ UNCHANGED eack
     \/ Fault("header") /\ data' = [data EXCEPT ![n] = "open"]
        /\ eack' = FALSE /\ UNCHANGED epc
     \/ Fault("open") /\ UNCHANGED <<epc, data, eack>>
  /\ UNCHANGED <<lock, stopped, emitted, consumer>>

\* No acknowledgement is asked for.
EmitStopNoFlag ==
  /\ epc = "writing" /\ epc' = "idle" /\ NoFault
  /\ data' = [data EXCEPT ![ename] = "whole"] /\ lock' = lock \cup {ename}
  /\ stopped' = ename /\ emitted' = Append(emitted, ename)
  /\ eack' = FALSE
  /\ UNCHANGED <<acks, ename, consumer>>

\* Emit_stop: the footer, the lock file whatever came of it, and the flag.
EmitStop ==
  /\ epc = "writing" /\ epc' = "idle"
  /\ \E content \in {"whole", "broken", "empty"}, ok \in BOOLEAN :
       /\ \/ content = "whole" /\ ok /\ NoFault
          \/ content = "broken" /\ Fault(IF ok THEN "slice" ELSE "footer")
          \/ content = "empty" /\ ok /\ Fault("flush")
       /\ data' = [data EXCEPT ![ename] = content]
       /\ eack' = ok
       /\ emitted' = IF ok THEN Append(emitted, ename) ELSE emitted
  /\ lock' = lock \cup {ename} /\ stopped' = ename
  /\ UNCHANGED <<acks, ename, consumer>>

-----------------------------------------------------------------------------
(* The consumer.  It may call Consume_start whenever it is not reading.    *)

\* Consume_start: Emit_ack, whose result is not looked at, ...
ConsumeAck ==
  /\ cpc = "idle" /\ cpc' = "list"
  /\ \/ ~cack /\ NoFault /\ UNCHANGED <<acks, acked>>
     \/ cack /\ NoFault /\ acks' = acks \cup {cname} /\ acked' = acked \cup {cname}
     \/ cack /\ Fault("ack") /\ UNCHANGED <<acks, acked>>
  /\ cack' = FALSE
  /\ UNCHANGED <<data, lock, emitter, cname, taken>>

ConsumeNothing ==
  /\ cpc = "list" /\ cpc' = "idle" /\ lock = {}
  /\ UNCHANGED <<data, lock, acks, emitter, cname, cack, taken, acked, faults>>

\* cmpstrs: the order of the names "<n>.lock", as '.' sorts before digits.
Key(n) == IF n < 10 THEN 20 * n - 1 ELSE 2 * n

FirstFile == CHOOSE n \in lock : \A m \in lock : Key(n) <= Key(m)

\* ... and Consume_start_data_check_files: take the first file that has a
\* lock, remove the lock, open the file and read its header.
ConsumeTake ==
  /\ cpc = "list" /\ lock # {}
  /\ cname' = FirstFile /\ lock' = lock \ {FirstFile}
  /\ IF data[FirstFile] \in {"none", "empty"}
     THEN cpc' = "idle" /\ data' = [data EXCEPT ![FirstFile] = "none"] /\ UNCHANGED taken
     ELSE cpc' = "reading" /\ taken' = Append(taken, FirstFile) /\ UNCHANGED data
  /\ UNCHANGED <<acks, emitter, cack, acked, faults>>

\* The consumer forgets that it owes an acknowledgement.
ConsumeStopNoFlag ==
  /\ cpc = "reading" /\ cpc' = "idle"
  /\ data' = [data EXCEPT ![cname] = "none"]
  /\ UNCHANGED <<lock, acks, emitter, cname, cack, taken, acked, faults>>

\* The slices, up to the end of the data or the first that cannot be read
\* (either removes the file in the end), and Consume_stop.
ConsumeStop ==
  /\ cpc = "reading" /\ cpc' = "idle" /\ cack' = TRUE
  /\ data' = [data EXCEPT ![cname] = "none"]
  /\ UNCHANGED <<lock, acks, emitter, cname, taken, acked, faults>>

-----------------------------------------------------------------------------
Consume == ConsumeAck \/ ConsumeNothing \/ ConsumeTake \/ ConsumeStop

Next == (\E n \in Seqs : EmitStart(n)) \/ EmitStop \/ Consume

Spec == Init /\ [][Next]_vars

\* Who has started to emit finishes; the consumer goes on consuming.
FairSpec == Spec /\ WF_vars(EmitStop) /\ WF_vars(Consume)

-----------------------------------------------------------------------------
\* The variables have their types, a lock file has its data file, and only
\* the sample that the emitter began last has not been closed.
TypeOK ==
  /\ data \in [Seqs -> {"none", "open", "whole", "broken", "empty"}]
  /\ lock \subseteq {n \in Seqs : data[n] # "none"} /\ acks \subseteq Seqs
  /\ epc \in {"idle", "writing"} /\ ename \in Seqs \cup {NoName} /\ eack \in BOOLEAN
  /\ cpc \in {"idle", "list", "reading"} /\ cname \in Seqs \cup {NoName}
  /\ cack \in BOOLEAN /\ faults \in 0 .. MaxFaults
  /\ stopped \in Seqs \cup {NoName} /\ emitted \in Seq(Seqs) /\ taken \in Seq(Seqs) /\ acked \subseteq Seqs
  /\ epc = "writing" => data[ename] = "open"

Emitted(n) == \E i \in 1 .. Len(emitted) : emitted[i] = n

\* Samples arrive in the order in which they were emitted, each once and none
\* left out, although the consumer goes by the alphabetical order of file names:
\* what it took before it takes a sample are just those emitted before that one.
InOrder ==
  \A i \in 1 .. Len(taken) : Emitted(taken[i]) =>
    {taken[j] : j \in {j \in 1 .. i - 1 : Emitted(taken[j])}}
      = {emitted[k] : k \in {k \in 1 .. Len(emitted) : emitted[k] < taken[i]}}

\* No sample is begun before the consumer is done with all that were emitted.
Backpressure == epc = "writing" => \A i \in 1 .. Len(emitted) : emitted[i] \in acked

\* Nobody reads a file that is being written.
NoTorn == cpc = "reading" => data[cname] # "open"

\* "A return value of REG_NOT_READY indicates that no acknowledgement of the
\* last data set that was (successfully) emitted has been received": the
\* emitter never waits for what it has been given already.
Waiting == UseAck /\ epc = "idle" /\ ~Acked

NotReadyHonest ==
  Waiting => /\ emitted # << >>
             /\ emitted[Len(emitted)] \notin acked

\* An emitter that has to wait for an acknowledgement gets it.
EmitterFreed == Waiting ~> ~Waiting
=============================================================================
