------------------------------ MODULE LogDelivery ------------------------------
(***************************************************************************)
(* The logs of checkpoints and of parameters (ReG_Steer_Logging.c,         *)
(* Record_Chkpt): entries are kept in memory, written to a file when the   *)
(* memory is full, and sent to the client that is attached, packed into    *)
(* messages.  A new client gets what is in the file, then what is in       *)
(* memory; after that, entries that are not marked as sent.                *)
(*                                                                         *)
(* An entry is its key.  What has been handed to the transport for a       *)
(* client is what the client gets (MessageChannel).  The file can be       *)
(* opened and there is memory enough to convert the entries; what a killed *)
(* application had in the buffer of the file is lost by whole entries.     *)
(***************************************************************************)
EXTENDS Integers, Sequences, FiniteSets

CONSTANTS
  Handles,      \* parameters that are logged
  MaxMem,       \* REG_INITIAL_CHK_LOG_SIZE: entries in memory
  PerMsg,       \* entries that fit in a message
  MaxLogMsg,    \* REG_MAX_NUM_LOG_MSG
  MaxKey, MaxFails, MaxLives   \* bounds

ASSUME LogAssumption ==
  /\ MaxMem \in Nat \ {0} /\ PerMsg \in Nat \ {0} /\ MaxLogMsg \in Nat
  /\ MaxKey \in Nat /\ MaxFails \in Nat /\ MaxLives \in Nat

VARIABLES
  chk, par,     \* Chk_log, Param_log: mem (entry), file, key (primary_key_value)
  flushed,      \* entries of the checkpoints' file that are not only in its buffer
  sendAll,      \* Chk_log.send_all
  paramSendAll, \* Param_log.param_send_all
  unsent,       \* Chk_log.num_unsent
  active,       \* ReG_SteeringActive
  retry,        \* what Emit_log_entries goes on sending, for which parameter
  view,         \* checkpoint entries sent to this client
  pview,        \* parameter entries sent to this client
  asked,        \* history: how long the log was when this client first asked for it
  failed,       \* history: a message to this client could not be sent
  spilled,      \* history: entries this client had not got were saved to the file
  fails, lives

told    == <<view, pview, asked, failed>>
flags   == <<sendAll, paramSendAll>>
logVars == <<chk, par, flushed, flags, unsent, active, retry, told, spilled, fails, lives>>

NotAsked == -1
NoRetry == [h |-> 0, rest |-> << >>]
Empty   == [mem |-> << >>, file |-> << >>, key |-> 0]

LogInit ==
  /\ chk = Empty /\ par = Empty /\ flushed = 0
  /\ sendAll = TRUE /\ paramSendAll = Handles
  /\ unsent = 0 /\ active = FALSE /\ retry = NoRetry
  /\ view = << >> /\ pview = [h \in Handles |-> << >>]
  /\ asked = [h \in Handles |-> NotAsked] /\ failed = FALSE
  /\ spilled = FALSE /\ fails = 0 /\ lives = 1

-----------------------------------------------------------------------------
(* The logs.                                                               *)

Keys(mem)   == [i \in DOMAIN mem |-> mem[i].key]
Unsent(mem) ==
  LET U == {i \in DOMAIN mem : ~mem[i].sent}
  IN  [k \in 1 .. Cardinality(U) |->
         mem[CHOOSE i \in U : Cardinality({j \in U : j < i}) = k - 1]]
Marked(log) == [log EXCEPT !.mem = [i \in DOMAIN @ |-> [@[i] EXCEPT !.sent = TRUE]]]

\* The memory is not cleared.
SaveKeeps(log) == [log EXCEPT !.file = @ \o Keys(log.mem)]

\* Save_log.
Save(log) == [log EXCEPT !.file = @ \o Keys(log.mem), !.mem = << >>]

MakeRoom(log) == IF Len(log.mem) = MaxMem THEN Save(log) ELSE log

AddEntry(log, sent) ==
  [MakeRoom(log) EXCEPT !.mem = Append(@, [key |-> log.key, sent |-> sent]), !.key = @ + 1]

Idle == retry = NoRetry /\ lives > 0

\* Entries that the client has not got leave memory, after it has been sent the file.
Spills ==
  active /\ ~sendAll /\ Len(chk.mem) = MaxMem /\ \E i \in DOMAIN chk.mem : ~chk.mem[i].sent

\* Record_Chkpt, by the application between two calls of Steering_control.
RecordChkpt ==
  /\ Idle /\ chk.key < MaxKey
  /\ chk' = AddEntry(chk, FALSE) /\ unsent' = unsent + 1
  /\ spilled' = (spilled \/ Spills)
  /\ UNCHANGED <<par, flushed, flags, active, retry, told, fails, lives>>

\* Log_param_values, in Steering_control: an attached client is told the values
\* in a status message anyway.
LogParams ==
  /\ Idle /\ par.key < MaxKey
  /\ par' = AddEntry(par, active)
  /\ UNCHANGED <<chk, flushed, flags, unsent, active, retry, told, spilled, fails, lives>>

\* Steering_control finds a client.
Attach ==
  /\ Idle /\ ~active /\ active' = TRUE
  /\ par' = Save(par)
  /\ view' = << >> /\ pview' = [h \in Handles |-> << >>]
  /\ asked' = [h \in Handles |-> NotAsked] /\ failed' = FALSE /\ spilled' = FALSE
  /\ UNCHANGED <<chk, flushed, flags, unsent, retry, fails, lives>>

\* The flags of single parameters are left alone.
DetachFlagsOne == sendAll' = TRUE /\ UNCHANGED paramSendAll

\* The flag of the log of checkpoints is left alone.
DetachFlagsParams == paramSendAll' = Handles /\ UNCHANGED sendAll

DetachFlags == sendAll' = TRUE /\ paramSendAll' = Handles

\* Detach_from_steerer.
Detach ==
  /\ Idle /\ active /\ active' = FALSE
  /\ DetachFlags
  /\ UNCHANGED <<chk, par, flushed, unsent, retry, told, spilled, fails, lives>>

-----------------------------------------------------------------------------
(* Packing entries into messages.                                          *)

Part(E, from, to) == SubSeq(E, from, IF to < Len(E) THEN to ELSE Len(E))
Messages(E)       == (Len(E) + PerMsg - 1) \div PerMsg

\* Pack_send_log_entries when every message can be sent.  When one message more
\* than the limit has been sent and two more entries are there, it gives up: the
\* next message, which has been begun, and the entry after it are passed over.
LimitAt == (MaxLogMsg + 1) * PerMsg
Packed(E) ==
  IF Len(E) >= LimitAt + 2
  THEN [sent |-> Part(E, 1, LimitAt), rest |-> Part(E, LimitAt + 3, Len(E))]
  ELSE [sent |-> E, rest |-> << >>]

\* ... when message j cannot be sent: its entries are passed over, except, in the
\* last message, for the last of them.
PackFails(E, j) ==
  [sent |-> Part(E, 1, (j - 1) * PerMsg),
   rest |-> IF j < Messages(E) THEN Part(E, j * PerMsg + 1, Len(E)) ELSE <<E[Len(E)]>>]

Failing(E) == {PackFails(E, j) : j \in {j \in 1 .. Messages(E) : j <= MaxLogMsg + 1}}

\* What Pack_send_log_entries may do with E, and whether a message failed.
Pack(E, r, failing) ==
  \/ r = Packed(E) /\ ~failing
  \/ r \in Failing(E) /\ failing

PackChoices(E) == {Packed(E)} \cup Failing(E)

Failed(fail) ==
  /\ fail => fails < MaxFails
  /\ fails' = IF fail THEN fails + 1 ELSE fails
  /\ failed' = (failed \/ fail)

\* What is to be sent: the file only when all is, then the memory.
ToSend(log, all) ==
  IF all THEN <<log.file, Keys(log.mem)>> ELSE << << >>, Keys(Unsent(log.mem))>>

\* Emit_log for checkpoints, once in every call of Steering_control with a client.
\* The file holds XML: what Pack_send_log_entries leaves is not sent. To be read it is
\* closed and opened again.
EmitChkLog ==
  /\ Idle /\ active
  /\ LET S == ToSend(chk, sendAll) IN
       \E f1, f2 \in BOOLEAN : \E r1 \in PackChoices(S[1]), r2 \in PackChoices(S[2]) :
         /\ Pack(S[1], r1, f1) /\ Pack(S[2], r2, f2) /\ ~(f1 /\ f2)
         /\ Failed(f1 \/ f2)
         /\ view' = view \o r1.sent \o r2.sent
  /\ flushed' = IF sendAll THEN Len(chk.file) ELSE flushed
  /\ chk' = Marked(chk) /\ sendAll' = FALSE /\ unsent' = 0
  /\ UNCHANGED <<par, paramSendAll, active, retry, pview, asked, spilled, lives>>

\* The second half of Emit_log for a parameter, on top of what was sent already:
\* entries in memory.
RestOfParam(h, done) ==
  /\ LET S == ToSend(par, h \in paramSendAll)[2] IN
       \E f \in BOOLEAN : \E r \in PackChoices(S) :
         /\ Pack(S, r, f) /\ Failed(f)
         /\ pview' = [pview EXCEPT ![h] = @ \o done \o r.sent]
  /\ par' = Marked(par) /\ paramSendAll' = paramSendAll \ {h}
  /\ retry' = NoRetry

\* Emit_log for a parameter that the client asks for (REG_STR_EMIT_PARAM_LOG).
\* The file holds columns: Emit_log_entries does not return before
\* Pack_send_log_entries has got to the end.
EmitParamLog(h) ==
  /\ Idle /\ active
  /\ asked' = IF asked[h] = NotAsked THEN [asked EXCEPT ![h] = par.key] ELSE asked
  /\ LET F == ToSend(par, h \in paramSendAll)[1] IN
       \/ Packed(F).rest = << >> /\ RestOfParam(h, F)
       \/ \E r \in PackChoices(F) : \E f \in BOOLEAN :
            /\ Pack(F, r, f) /\ r.rest # << >> /\ Failed(f)
            /\ pview' = [pview EXCEPT ![h] = @ \o r.sent]
            /\ retry' = [h |-> h, rest |-> r.rest]
            /\ UNCHANGED <<par, paramSendAll>>
  /\ UNCHANGED <<chk, flushed, sendAll, unsent, active, view, spilled, lives>>

\* ... tries again every half second.
Retry ==
  /\ retry # NoRetry
  /\ \/ Packed(retry.rest).rest = << >> /\ RestOfParam(retry.h, retry.rest)
     \/ \E r \in PackChoices(retry.rest) : \E f \in BOOLEAN :
          /\ Pack(retry.rest, r, f) /\ r.rest # << >> /\ Failed(f)
          /\ pview' = [pview EXCEPT ![retry.h] = @ \o r.sent]
          /\ retry' = [retry EXCEPT !.rest = r.rest]
          /\ UNCHANGED <<par, paramSendAll>>
  /\ UNCHANGED <<chk, flushed, sendAll, unsent, active, view, asked, spilled, lives>>

-----------------------------------------------------------------------------
(* The end of the application, and another start.                          *)

\* Set_log_primary_key.
NextKey(file) == IF file = << >> THEN 0 ELSE file[Len(file)] + 1

\* Initialize_log: the log of checkpoints goes on from what is in the file, the file of
\* the log of parameters is put aside.
Restart(file) ==
  /\ lives < MaxLives /\ lives' = lives + 1
  /\ chk' = [mem |-> << >>, file |-> file, key |-> NextKey(file)]
  /\ par' = Empty /\ flushed' = Len(file)
  /\ sendAll' = TRUE /\ paramSendAll' = Handles /\ unsent' = 0
  /\ active' = FALSE /\ retry' = NoRetry
  /\ view' = << >> /\ pview' = [h \in Handles |-> << >>]
  /\ asked' = [h \in Handles |-> NotAsked] /\ failed' = FALSE /\ spilled' = FALSE
  /\ UNCHANGED fails

\* After Steering_finalize, which closes the file, or after the application was killed.
Finalize == Idle /\ Restart(Save(chk).file)
Killed   == \E n \in flushed .. Len(chk.file) : Restart(SubSeq(chk.file, 1, n))

-----------------------------------------------------------------------------
LogNext ==
  \/ RecordChkpt \/ LogParams \/ Attach \/ Detach
  \/ EmitChkLog \/ Retry \/ Finalize \/ Killed
  \/ \E h \in Handles : EmitParamLog(h)

LogSpec == LogInit /\ [][LogNext]_logVars

-----------------------------------------------------------------------------
(* Properties.                                                             *)

Before(n)    == [i \in 1 .. n |-> i - 1]
Rising(S)    == \A i, j \in DOMAIN S : i < j => S[i] < S[j]
Written(log) == log.file \o Keys(log.mem)

\* File and memory together hold every entry once and in order, whatever was saved
\* when; and a client gets entries in that order, none twice, even when messages
\* fail or the limit cuts a log short.
LogInOrder ==
  /\ Written(chk) = Before(chk.key) /\ Written(par) = Before(par.key)
  /\ Rising(view) /\ \A h \in Handles : Rising(pview[h])

\* "we've just told steerer all about any log entries it hadn't got" (Emit_log): when
\* nothing is counted as unsent, the client has the whole log of checkpoints, including
\* what was saved before it came, unless a message failed or Record_Chkpt made room by
\* saving entries that the client had not got.
ToldAll ==
  active /\ ~sendAll /\ unsent = 0 /\ ~failed /\ ~spilled => view = Before(chk.key)

\* The same whatever was saved. This does not hold: see the README.
ToldWhateverSaved == active /\ ~sendAll /\ unsent = 0 /\ ~failed => view = Before(chk.key)

\* A client that has asked for the log of a parameter has got all that had been logged
\* by then: from before it came, from the file and from memory, and whatever was
\* asked for another parameter or by another client.
AnswerComplete ==
  \A h \in Handles :
    active /\ asked[h] # NotAsked /\ retry.h # h /\ ~failed => pview[h] = Before(asked[h])
=============================================================================
