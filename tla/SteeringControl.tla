-------------------------- MODULE SteeringControl --------------------------
(***************************************************************************)
(* The application side of the steering library: Steering_control, called  *)
(* by the application once per simulation step, with Consume_control,      *)
(* Unpack_control_msg, Auto_generate_steer_cmds, Steering_pause,           *)
(* Detach_from_steerer and the store of control messages that are not yet  *)
(* valid.                                                                  *)
(*                                                                         *)
(* The library is single-threaded.  What the steering client does between  *)
(* two calls shows only in the lock file that says it is connected and in  *)
(* the control messages it has sent, so a call that returns is one step.   *)
(* A call that pauses is a step for its first half and one step for every  *)
(* message that Steering_pause reads.                                      *)
(*                                                                         *)
(* Control messages arrive in the order in which they were sent (the       *)
(* MessageChannel).  Parameter values, the text of the messages and the    *)
(* logs are left out; labels of edited parameters and arguments of         *)
(* commands are kept, because the caller receives them in arrays that the  *)
(* library shuffles.                                                       *)
(***************************************************************************)
EXTENDS Integers, Sequences, FiniteSets

CONSTANTS
  Messages,      \* what a client may send: [after, cmds, edits] records, with
                 \*   cmds a sequence of [c, a]: command code and argument
  AutoTypes,     \* registered IO and checkpoint types, a sequence of
                 \*   [handle, freq, arg]
  Internal,      \* labels of parameters the library created for itself
  SteerInterval, \* Steerer_connection.steer_interval
  HandlePause,   \* Steerer_connection.handle_pause_cmd
  MaxCmds,       \* REG_MAX_NUM_STR_CMDS
  MaxParams,     \* REG_MAX_NUM_STR_PARAMS
  CmdSlots,      \* bound: entries of SteerCmdParams that the model keeps, those
                 \*   behind the MaxCmds that the caller has provided included
  Period,        \* bound: SeqNum is kept modulo this
  MaxTime,       \* bound: ReG_TotalSimTimeSecs stops here
  MaxSent        \* bound: messages sent in a behaviour

\* The commands that the library knows; no handle is one of them.
Predefined == {"STOP", "PAUSE", "RESUME", "DETACH", "LOG"}

ASSUME ControlAssumption ==
  /\ SteerInterval \in Nat \ {0}
  /\ Period \in Nat \ {0} /\ Period % SteerInterval = 0
  /\ HandlePause \in BOOLEAN
  /\ Messages \subseteq [after : Nat, cmds : Seq([c : STRING, a : STRING]), edits : Seq(STRING)]
  /\ AutoTypes \in Seq([handle : STRING \ Predefined, freq : Nat, arg : STRING])
  /\ MaxCmds \in Nat /\ MaxParams \in Nat /\ MaxTime \in Nat
  /\ CmdSlots \in Nat /\ MaxCmds <= CmdSlots

NoArg   == " "
Garbage == "uninitialised"
Kinds   == {"params", "iotypes", "chktypes"}

VARIABLES
  connected,  \* the lock file that a steering client creates
  client,     \* "attached": a client uses the connection
  inbox,      \* control messages sent and not yet read
  sent,       \* how many messages have been sent
  pc,         \* "sim": the application computes; "paused"; "done"
  active,     \* ReG_SteeringActive
  changed,    \* ReG_ParamsChanged, ReG_IOTypesChanged, ReG_ChkTypesChanged
  seqNum, simTime,  \* SeqNum and ReG_TotalSimTimeSecs of the last call
  store,      \* the messages reachable from ReG_ctrl_msg_first
  frame,      \* the locals of a Steering_control that is paused
  result,     \* what the last call returned: commands, arguments, labels
  \* history
  told,       \* kinds of definitions sent since the client was noticed
  lost,       \* kinds of definitions that were to be sent and could not be
  emitted,    \* the status messages emitted by the last step
  reused,     \* the arrays of the current call were too short for its commands,
              \*   or were filled again in a pause
  edited,     \* labels of the parameters edited during the current call
  delivered,  \* numbers of the client's commands returned so far
  mislaid     \* messages put in the store and no longer to be found there

clientVars == <<client, sent>>
historyVars == <<told, lost, emitted, reused, edited, delivered, mislaid>>
vars == <<connected, clientVars, inbox, pc, active, changed, seqNum, simTime,
          store, frame, result, historyVars>>

Nothing == [cmds |-> << >>, args |-> << >>, labels |-> << >>]
NoFrame == [kept |-> << >>, args |-> [i \in 1 .. CmdSlots |-> NoArg],
            before |-> << >>, inPause |-> << >>, doSteer |-> FALSE]

Init ==
  /\ connected = FALSE /\ client = "none" /\ inbox = << >> /\ sent = 0
  \* Steering_initialize has run and a type of each kind is registered
  /\ pc = "sim" /\ active = FALSE /\ changed = [k \in Kinds |-> TRUE]
  /\ seqNum = 0 /\ simTime = 0
  /\ store = << >> /\ frame = NoFrame /\ result = Nothing
  /\ told = {} /\ lost = {} /\ emitted = << >> /\ reused = FALSE /\ edited = << >>
  /\ delivered = << >> /\ mislaid = {}

-----------------------------------------------------------------------------
(* Reading messages.                                                       *)

\* What a loop over indices that skips all but those in I visits: the indices
\* in turn, and the elements of s there.
InTurn(I) ==
  [k \in 1 .. Cardinality(I) |-> CHOOSE i \in I : Cardinality({j \in I : j < i}) = k - 1]

Only(s, I) == [k \in 1 .. Cardinality(I) |-> s[InTurn(I)[k]]]

AtMost(n, s) == SubSeq(s, 1, IF Len(s) < n THEN Len(s) ELSE n)

\* A message that is valid at one time step only.
NowValidOnce(m, now) == m.after = 0 \/ m.after + 1 = now

\* Control_msg_now_valid; after = 0 when the message has no valid_after.
NowValid(m, now) == m.after = 0 \/ m.after < now

\* A list of commands that has been built from its end.
UnpackReversed(m) ==
  AtMost(MaxCmds, [i \in 1 .. Len(m.cmds) |-> m.cmds[Len(m.cmds) + 1 - i]])

\* Unpack_control_msg: at most MaxCmds commands of a message are read.
Unpack(m) == AtMost(MaxCmds, m.cmds)

Labels(m) == Only(m.edits, {i \in DOMAIN m.edits : m.edits[i] \notin Internal})

\* Consume_control, when the message is not yet valid.  The second message to
\* be stored is not linked to the first one.
StoreMsg(s, m) == IF s = << >> THEN <<m>> ELSE s

\* Auto_generate_steer_cmds, first half: automatic emission and consumption.
AutoCmds(n) ==
  LET due == Only(AutoTypes, {i \in DOMAIN AutoTypes :
                     AutoTypes[i].freq # 0 /\ n % AutoTypes[i].freq = 0})
  IN  AtMost(MaxCmds, [i \in 1 .. Len(due) |->
                         [c |-> due[i].handle, a |-> due[i].arg, id |-> 0]])

\* Arguments written by the library from position off + 1 on.
Place(args, off, cmds) ==
  [i \in DOMAIN args |-> IF i - off \in 1 .. Len(cmds) THEN cmds[i - off].a
                                                      ELSE args[i]]

-----------------------------------------------------------------------------
(* The loop over the commands in Steering_control.                         *)

EndsLoop(c) == c \in {"DETACH", "STOP"} \/ (HandlePause /\ c = "PAUSE")

\* The loop that goes on to the end after a DETACH.
CutNoDetach(cmds) ==
  LET ends == {i \in 1 .. Len(cmds) :
                  EndsLoop(cmds[i].c) /\ cmds[i].c # "DETACH"}
  IN  IF ends = {} THEN Len(cmds) + 1
                   ELSE CHOOSE i \in ends : \A j \in ends : i <= j

\* Index of the command at which the loop ends or is restarted.
Cut(cmds) ==
  LET ends == {i \in 1 .. Len(cmds) : EndsLoop(cmds[i].c)}
  IN  IF ends = {} THEN Len(cmds) + 1
                   ELSE CHOOSE i \in ends : \A j \in ends : i <= j

\* Arguments that stay where they were unpacked.
CopyNot(args, n, idx) == args

\* The default case, for the commands at the indices idx in turn: copy the
\* argument to the end of what the caller gets.  Behind a pause the place it
\* goes to may be that of a command that is yet to be copied.
Copy(args, n, idx) ==
  LET arg[k \in 1 .. Len(idx)] ==
        IF idx[k] - n \in 1 .. k - 1 THEN arg[idx[k] - n] ELSE args[idx[k]]
  IN  [i \in DOMAIN args |-> IF i - n \in 1 .. Len(idx) THEN arg[i - n]
                                                        ELSE args[i]]

\* One pass of the loop.  A STOP is passed on and ends the pass; an
\* EMIT_PARAM_LOG is dealt with here.
Pass(cmds, kept, args) ==
  LET cut  == Cut(cmds)
      why  == IF cut > Len(cmds) THEN "END" ELSE cmds[cut].c
      last == IF why = "STOP" THEN cut ELSE cut - 1
      idx  == InTurn({i \in 1 .. last : cmds[i].c # "LOG"})
  IN  [why  |-> why,
       kept |-> kept \o [k \in 1 .. Len(idx) |-> cmds[idx[k]]],
       args |-> Copy(args, Len(kept), idx)]

\* Emit_status; its result is not looked at, so that it is the same for the
\* library whether the message has been sent.
Status(c) == [kind |-> "status", cmds |-> c]

\* Labels returned: those edited while paused, then, from the same index on,
\* the array of those edited before.
LabelsOut(inPause, before) ==
  AtMost(MaxParams,
         inPause \o [i \in 1 .. Len(before) |->
                       IF Len(inPause) + i <= Len(before)
                       THEN before[Len(inPause) + i] ELSE Garbage])

ClientIds(cmds) ==
  LET own == Only(cmds, {i \in DOMAIN cmds : cmds[i].id > 0})
  IN  [i \in 1 .. Len(own) |-> own[i].id]

\* The status messages at the end of the call: a confirmation, or a report of
\* the commands that are returned.
EndStatus(r, doSteer) ==
  CASE r.why \in {"DETACH", "STOP"} -> <<Status(<<r.why>>)>>
    [] r.why = "END" /\ doSteer ->
         <<Status([i \in 1 .. Len(r.kept) |-> r.kept[i].c])>>
    [] OTHER -> << >>

\* What happens after a pass: another pause, or the end of the call.
Finish(r, out, doSteer, before, inPause) ==
  IF r.why = "PAUSE"
  THEN /\ pc' = "paused"
       /\ frame' = [kept |-> r.kept, args |-> r.args, before |-> before,
                    inPause |-> << >>, doSteer |-> doSteer]
       /\ emitted' = out \o <<Status(<<"PAUSE">>)>>
       /\ result' = Nothing
       /\ UNCHANGED delivered
  ELSE /\ pc' = "sim" /\ frame' = NoFrame
       /\ result' = [cmds   |-> r.kept,
                     args   |-> SubSeq(r.args, 1, Len(r.kept)),
                     labels |-> LabelsOut(inPause, before)]
       /\ emitted' = out \o EndStatus(r, doSteer)
       /\ delivered' = delivered \o ClientIds(r.kept)

\* A Detach_from_steerer that does not ask for the definitions again.
DetachIfQuiet(detach, box, act, chg, tld, lst) ==
  /\ connected' = (connected /\ ~detach)
  /\ inbox'     = IF detach THEN << >> ELSE box
  /\ active'    = (act /\ ~detach)
  /\ changed'   = chg
  /\ told'      = IF detach THEN {} ELSE tld
  /\ lost'      = IF detach THEN {} ELSE lst

\* Detach_from_steerer, when detach is true.
DetachIf(detach, box, act, chg, tld, lst) ==
  /\ connected' = (connected /\ ~detach)
  /\ inbox'     = IF detach THEN << >> ELSE box
  /\ active'    = (act /\ ~detach)
  /\ changed'   = IF detach THEN [k \in Kinds |-> TRUE] ELSE chg
  /\ told'      = IF detach THEN {} ELSE tld
  /\ lost'      = IF detach THEN {} ELSE lst

-----------------------------------------------------------------------------
\* Throttling off by one.
SteersOffByOne(act, n) == act /\ n % SteerInterval = 1

\* do_steer.
Steers(act, n) == act /\ n % SteerInterval = 0

\* Steering_control, up to its return or to its pause.  poll: the polling
\* interval has passed, so the library looks for a client.  Some of the
\* definitions may fail to be sent (failed): the flags are cleared all the same.
Control(poll) ==
  /\ pc = "sim"
  /\ LET n      == (seqNum % Period) + 1
         now    == IF simTime < MaxTime THEN simTime + 1 ELSE simTime
         act    == active \/ (poll /\ connected)
         steer  == Steers(act, n)
         due    == store # << >> /\ NowValid(Head(store), now)
         left   == IF due THEN Tail(store) ELSE store
         reads  == steer /\ inbox # << >>
         valid  == reads /\ NowValid(Head(inbox), now)
         auto   == AutoCmds(n)
         stored == IF due THEN Unpack(Head(store)) ELSE << >>
         fresh  == IF valid THEN Unpack(Head(inbox)) ELSE << >>
         cmds   == auto \o stored \o fresh
         labels == (IF due THEN Labels(Head(store)) ELSE << >>)
                     \o (IF valid THEN Labels(Head(inbox)) ELSE << >>)
         r      == Pass(cmds, << >>, Place(NoFrame.args, 0, cmds))
         defs   == {k \in Kinds : steer /\ changed[k]}
     IN  /\ seqNum' = n /\ simTime' = now
         /\ store' = IF reads /\ ~valid THEN StoreMsg(left, Head(inbox)) ELSE left
         /\ mislaid' = IF reads /\ ~valid /\ Head(inbox) \notin {store'[i] : i \in 1 .. Len(store')}
                       THEN mislaid \cup {Head(inbox).no} ELSE mislaid
         /\ edited' = labels
         /\ reused' = (Len(cmds) > MaxCmds \/ r.why = "PAUSE")
         /\ \E failed \in SUBSET defs :
              DetachIf(r.why = "DETACH", IF reads THEN Tail(inbox) ELSE inbox, act,
                       [k \in Kinds |-> changed[k] /\ k \notin defs],
                       told \cup (defs \ failed), lost \cup failed)
         /\ Finish(r, << >>, steer, labels, << >>)
  /\ UNCHANGED clientVars

EndsPause == {"RESUME", "DETACH", "STOP"}

\* A DETACH that is left to the code behind the loop.
PauseGoesOnDetached(why) == why \in {"NONE", "DETACH"}

\* paused is left TRUE.
PauseGoesOn(why) == why = "NONE"

\* One message read by Steering_pause, and the rest of Steering_control when
\* it ends the pause.
PausePoll ==
  /\ pc = "paused" /\ inbox # << >>
  /\ LET m      == Head(inbox)
         valid  == NowValid(m, simTime)
         cmds   == IF valid THEN Unpack(m) ELSE << >>
         labels == IF valid THEN Labels(m) ELSE << >>
         n      == Len(cmds)
         args   == Place(frame.args, 0, cmds)
         ends   == {i \in 1 .. n : cmds[i].c \in EndsPause}
         first  == CHOOSE i \in ends : \A j \in ends : i <= j
         why    == IF ends = {} THEN "NONE" ELSE cmds[first].c
         rest   == CASE why = "RESUME" -> SubSeq(cmds, first + 1, n)
                     [] why = "STOP"   -> <<cmds[first]>>
                     [] OTHER          -> << >>
         moved  == IF why = "RESUME"
                   THEN [i \in DOMAIN args |-> IF i <= Len(rest) THEN args[i + first]
                                                                ELSE args[i]]
                   ELSE args
         inPause == AtMost(MaxParams, frame.inPause \o labels)
         r      == Pass(rest, frame.kept, moved)
     IN  /\ store' = IF valid THEN store ELSE StoreMsg(store, m)
         /\ mislaid' = IF valid \/ store = << >> THEN mislaid
                                                 ELSE mislaid \cup {m.no}
         /\ edited' = edited \o labels
         /\ DetachIf(why \in {"DETACH", "STOP"}, Tail(inbox), active, changed, told, lost)
         /\ IF PauseGoesOn(why)
            THEN /\ frame' = [frame EXCEPT !.args = args, !.inPause = inPause]
                 /\ emitted' = << >>
                 /\ UNCHANGED <<pc, result, delivered>>
            ELSE Finish(r, <<Status(<<why>>)>>, frame.doSteer, frame.before, inPause)
  /\ UNCHANGED <<clientVars, seqNum, simTime, reused>>

\* Register_param, Register_IOType, Register_ChkType and the like.
Register(k) ==
  /\ pc = "sim"
  /\ changed' = [changed EXCEPT ![k] = TRUE]
  /\ told' = told \ {k} /\ lost' = lost \ {k} /\ emitted' = << >>
  /\ UNCHANGED <<connected, clientVars, inbox, pc, active, seqNum, simTime,
                 store, frame, result, reused, edited, delivered, mislaid>>

\* Steering_finalize.  The connection is taken down and the messages that no
\* one will read any more are removed; the store is freed.
Finalize ==
  /\ pc = "sim"
  /\ pc' = "done"
  /\ connected' = FALSE /\ inbox' = << >> /\ active' = FALSE
  /\ changed' = [k \in Kinds |-> FALSE]
  /\ store' = << >>
  /\ UNCHANGED <<clientVars, seqNum, simTime, frame, result, historyVars>>

-----------------------------------------------------------------------------
(* The steering client, as far as this side can see it.                    *)

libVars == <<pc, active, changed, seqNum, simTime, store, frame, result, historyVars>>

Attach ==
  /\ client = "none" /\ ~connected /\ pc # "done" /\ sent < MaxSent
  /\ client' = "attached" /\ connected' = TRUE
  /\ UNCHANGED <<inbox, sent, libVars>>

\* A message gets a number, and so does each of its commands.
Stamp(m) ==
  [no |-> sent + 1, after |-> m.after, edits |-> m.edits,
   cmds |-> [i \in 1 .. Len(m.cmds) |->
               [c |-> m.cmds[i].c, a |-> m.cmds[i].a,
                id |-> sent * CmdSlots + i]]]

Send(m) ==
  /\ client = "attached" /\ connected /\ sent < MaxSent
  /\ inbox' = Append(inbox, Stamp(m))
  /\ sent' = sent + 1
  /\ UNCHANGED <<connected, client, libVars>>

\* Sim_detach: a last message with the command DETACH.
Leave ==
  /\ client = "attached" /\ connected
  /\ inbox' = Append(inbox, Stamp([after |-> 0, edits |-> << >>,
                                   cmds |-> <<[c |-> "DETACH", a |-> NoArg]>>]))
  /\ client' = "none"
  /\ sent' = sent + 1
  /\ UNCHANGED <<connected, libVars>>

\* The client reads that the application has detached from it.
Noticed ==
  /\ client = "attached" /\ ~connected
  /\ client' = "none"
  /\ UNCHANGED <<connected, inbox, sent, libVars>>

Call == \E poll \in BOOLEAN : Control(poll)
Client == Attach \/ (\E m \in Messages : Send(m)) \/ Leave \/ Noticed

\* A finished application takes no more steps.
Next == Call \/ PausePoll \/ (\E k \in Kinds : Register(k)) \/ Finalize \/ Client

Spec == Init /\ [][Next]_vars

\* The effect by which a step of the library is known: a call that has looked
\* for the client if it did not know of one, and a message read in a pause.
\* (ENABLED of these is cheap; that of the actions themselves is not.)
Called == /\ pc = "sim"
          /\ seqNum' = (seqNum % Period) + 1
          /\ ~connected \/ active' = TRUE \/ connected' = FALSE
PauseRead == /\ pc = "paused" /\ inbox # << >>
             /\ inbox' \in {Tail(inbox), << >>}

\* The application goes on calling Steering_control until it finalizes, polls
\* for a client again and again, and a pause goes on reading messages.
Fairness == WF_seqNum(Called) /\ WF_inbox(PauseRead)

FairSpec == Spec /\ Fairness

-----------------------------------------------------------------------------
Command == [c : STRING, a : STRING, id : Nat]
Message == [no : Nat, after : Nat, edits : Seq(STRING), cmds : Seq(Command)]

TypeOK ==
  /\ connected \in BOOLEAN /\ active \in BOOLEAN
  /\ client \in {"none", "attached"} /\ sent \in Nat
  /\ pc \in {"sim", "paused", "done"}
  /\ inbox \in Seq(Message) /\ store \in Seq(Message) /\ Len(store) <= 1
  /\ changed \in [Kinds -> BOOLEAN] /\ told \subseteq Kinds /\ lost \subseteq Kinds
  /\ reused \in BOOLEAN /\ seqNum \in 0 .. Period /\ simTime \in 0 .. MaxTime
  /\ frame.args \in [1 .. CmdSlots -> STRING]
  /\ edited \in Seq(STRING) /\ mislaid \subseteq Nat

\* Commands reach the caller in the order in which the client gave them, and
\* none twice, even when a pause holds some of them back: the caller must act
\* on them "in the order in which they occur in the list".
CommandsInOrder ==
  \A i, j \in 1 .. Len(delivered) : i < j => delivered[i] < delivered[j]

\* The argument returned beside a command is the argument that came with it,
\* although those behind a command that the library keeps for itself move up:
\* unless the call paused or had more commands than the caller's array has
\* room for.
ArgsFaithful ==
  ~reused => \A i \in 1 .. Len(result.cmds) : result.args[i] = result.cmds[i].a

\* The labels returned name the parameters edited during the call and nothing
\* else, as far as there is room for them.
LabelsFaithful ==
  pc = "sim" /\ Len(edited) <= MaxParams =>
    /\ Len(result.labels) = Len(edited)
    /\ {result.labels[i] : i \in 1 .. Len(edited)}
         = {edited[i] : i \in 1 .. Len(edited)}

\* A message put aside until its time comes can be found again when it does.
NothingMislaid == mislaid = {}

\* A message that was put aside is taken up again when its time has come: the
\* first one, whatever else arrives in the meantime, with a client or without.
\* It must not wait for ever because a call came too late for its time.
DeferredActed ==
  \A n \in 1 .. MaxSent + 1 :
    store # << >> /\ Head(store).no = n
      ~> store = << >> \/ Head(store).no # n

\* A message is valid as soon as its time is reached within a tenth of a time
\* step (the time step is 1 here), as the declaration of
\* Control_msg_now_valid says.
ValidWhenDue ==
  pc = "sim" => \A i \in 1 .. Len(store) : 10 * store[i].after >= 10 * simTime + 1

\* A pause ends only on a word of the client, so there must be one: the
\* library never waits in Steering_pause when no client is connected, whoever
\* has left or been detached, in the pause or with commands outstanding.
PausedHasSteerer == pc = "paused" => active /\ connected

\* A client is not told the state of an application whose definitions it has
\* not been sent, or not since they last changed: nothing but a failure to send
\* them, which Steering_control does not look at, can leave it without.
DefsBeforeStatus == emitted # << >> /\ active => told \cup lost = Kinds

\* The same whatever fails.
DefsWhateverFails == emitted # << >> /\ active => told = Kinds

\* The confirmation of a DETACH is the last thing that a client gets.
QuietAfterDetach ==
  \A i \in 1 .. Len(emitted) - 1 : emitted[i] # Status(<<"DETACH">>)

\* What is returned fits into the arrays that the caller got from
\* Alloc_string_arrays.
CommandsFit ==
  Len(result.cmds) <= MaxCmds /\ Len(result.labels) <= MaxParams

\* As long as the application runs, every message that a client sends is
\* taken from the connection.
MessagesRead ==
  \A n \in 1 .. MaxSent + 1 :
    inbox # << >> /\ Head(inbox).no = n
      ~> inbox = << >> \/ Head(inbox).no # n

\* A client that leaves is let go, so that the next one can attach.
DetachHonoured == client = "none" /\ connected ~> ~connected
=============================================================================
