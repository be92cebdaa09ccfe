---------------------------- MODULE ParamSteering ----------------------------
(***************************************************************************)
(* How the value of a steered parameter travels.  The client edits its     *)
(* copy of the table (Set_param_values) and sends what it edited           *)
(* (Emit_control); the application applies each control message and        *)
(* reports every parameter (Emit_status); the client overwrites its copy   *)
(* with the report (Consume_status).  Reports and edits cross.             *)
(*                                                                         *)
(* A value is the number of the edit that produced it, 0 being the value   *)
(* at start-up.  For a monitored parameter it counts the changes that the  *)
(* application made.                                                       *)
(***************************************************************************)
EXTENDS Integers, Sequences, FiniteSets

CONSTANTS
  N,            \* parameters: entries of the table
  Steerable,    \* those registered as steered; the others are monitored
  MaxPerMsg,    \* REG_MAX_NUM_STR_PARAMS: parameters in one message
  MaxEdits,     \* bound: accepted edits
  MaxChanges,   \* bound: changes of monitored parameters
  MaxLost,      \* bound: calls of Send_control_msg that fail
  MaxCut,       \* bound: reports that are broken off
  MaxQueue      \* bound: messages on their way in one direction

Params == 1 .. N

ASSUME ParamAssumption ==
  /\ N \in Nat /\ Steerable \subseteq Params
  /\ MaxPerMsg \in Nat \ {0} /\ MaxEdits \in Nat /\ MaxChanges \in Nat
  /\ MaxLost \in Nat /\ MaxCut \in Nat /\ MaxQueue \in Nat

VARIABLES
  app,        \* the application's variables
  value,      \* client: param[].value
  modified,   \* client: param[].modified
  up, down,   \* control and status messages on their way
  edits, changes, lost, cut,
  edit,       \* history: the last edit of each parameter that was accepted
  replaced    \* history: its last edit that a report replaced before it was sent, or 0

client == <<value, modified, edits, edit, replaced>>
vars   == <<app, up, down, changes, lost, cut, client>>

Bad == -1   \* any value outside the limits of a parameter

Init ==
  /\ app = [p \in Params |-> 0] /\ value = app /\ edit = app /\ replaced = app
  /\ modified = [p \in Params |-> FALSE]
  /\ up = << >> /\ down = << >>
  /\ edits = 0 /\ changes = 0 /\ lost = 0 /\ cut = 0

-----------------------------------------------------------------------------
(* The client.                                                             *)

Modified == {p \in Params : modified[p]}

\* Set_param_values for one parameter.  A value outside the limits is skipped,
\* as is a parameter that is not steerable: nothing changes then.
Edit(p, inRange) ==
  /\ p \in Steerable /\ inRange /\ edits < MaxEdits
  /\ edits' = edits + 1
  /\ edit'  = [edit EXCEPT ![p] = edits + 1]
  /\ value' = [value EXCEPT ![p] = edits + 1]
  /\ modified' = [modified EXCEPT ![p] = TRUE]
  /\ UNCHANGED <<app, up, down, changes, lost, cut, replaced>>

\* The entries that the search finds before the message is full.
FirstModified == {p \in Modified : Cardinality({q \in Modified : q < p}) < MaxPerMsg}

\* Every flag is cleared, the ones of entries that did not fit included.
EmitControlClearsAll ==
  /\ Modified # {} /\ Len(up) < MaxQueue
  /\ modified' = [p \in Params |-> FALSE]
  /\ \/ up' = Append(up, [p \in FirstModified |-> value[p]]) /\ UNCHANGED lost
     \/ lost < MaxLost /\ lost' = lost + 1 /\ UNCHANGED up
  /\ UNCHANGED <<app, value, down, edits, changes, cut, edit, replaced>>

\* Emit_control without commands.  The flags are cleared while the message is
\* put together; that it cannot be sent does not set them again.
EmitControl ==
  /\ Modified # {} /\ Len(up) < MaxQueue
  /\ modified' = [p \in Params |-> modified[p] /\ p \notin FirstModified]
  /\ \/ up' = Append(up, [p \in FirstModified |-> value[p]]) /\ UNCHANGED lost
     \/ lost < MaxLost /\ lost' = lost + 1 /\ UNCHANGED up
  /\ UNCHANGED <<app, value, down, edits, changes, cut, edit, replaced>>

\* Consume_status: the report replaces the value whether it was edited or not.
ReadStatus ==
  /\ down # << >>
  /\ LET msg == Head(down) IN
       /\ value' = [p \in Params |-> IF p \in DOMAIN msg THEN msg[p] ELSE value[p]]
       /\ replaced' = [p \in Params |-> IF p \in DOMAIN msg /\ modified[p] THEN edit[p]
                                                                        ELSE replaced[p]]
  /\ down' = Tail(down)
  /\ UNCHANGED <<app, modified, up, edits, changes, lost, cut, edit>>

-----------------------------------------------------------------------------
(* The application: one step of its main loop.                             *)

\* The simulation computes: monitored parameters change.
Compute ==
  /\ changes < MaxChanges /\ changes' = changes + 1
  /\ \E p \in Params \ Steerable : app' = [app EXCEPT ![p] = @ + 1]
  /\ UNCHANGED <<up, down, lost, cut, client>>

\* The most recent message is applied first.
ReadControlLast ==
  /\ up # << >>
  /\ LET msg == up[Len(up)] IN
       app' = [p \in Params |-> IF p \in DOMAIN msg THEN msg[p] ELSE app[p]]
  /\ up' = SubSeq(up, 1, Len(up) - 1)
  /\ UNCHANGED <<down, changes, lost, cut, client>>

\* Consume_control and Unpack_control_msg: each call of Steering_control takes
\* one message and applies all of it.
ReadControl ==
  /\ up # << >>
  /\ LET msg == Head(up) IN
       app' = [p \in Params |-> IF p \in DOMAIN msg THEN msg[p] ELSE app[p]]
  /\ up' = Tail(up)
  /\ UNCHANGED <<down, changes, lost, cut, client>>

NumReports == (N + MaxPerMsg - 1) \div MaxPerMsg
Report(i)  == [p \in {q \in Params : (q - 1) \div MaxPerMsg = i - 1} |-> app[p]]

\* Only the first message of a report is written.
EmitStatusOnce ==
  /\ Len(down) + NumReports <= MaxQueue
  /\ down' = Append(down, Report(1))
  /\ UNCHANGED <<app, up, changes, lost, cut, client>>

\* Emit_status: every parameter, in as many messages as that takes. When values do not
\* fit in one of them, the call fails and the rest of the report is not sent. Every
\* entry has a variable behind it (Get_ptr_value does not fail).
EmitStatus ==
  /\ Len(down) + NumReports <= MaxQueue
  /\ \E n \in 0 .. NumReports :
       /\ down' = down \o [i \in 1 .. n |-> Report(i)]
       /\ IF n = NumReports THEN UNCHANGED cut ELSE cut < MaxCut /\ cut' = cut + 1
  /\ UNCHANGED <<app, up, changes, lost, client>>

Next ==
  \/ \E p \in Params, inRange \in BOOLEAN : Edit(p, inRange)
  \/ EmitControl \/ ReadStatus
  \/ Compute \/ ReadControl \/ EmitStatus

Spec == Init /\ [][Next]_vars

\* The client sends its edits and reads, the application calls Steering_control
\* again and again; neither owes the other an edit or a change.
Fairness == /\ WF_vars(EmitControl) /\ WF_vars(ReadStatus)
            /\ WF_vars(ReadControl) /\ WF_vars(EmitStatus)

FairSpec == Spec /\ Fairness

-----------------------------------------------------------------------------
(* What steering of parameters promises.                                   *)

\* The values of some parameters.
IsMessage(m) == DOMAIN m \subseteq Params /\ \A p \in DOMAIN m : m[p] \in Int

\* The range of every variable; messages name parameters of the table.
TypeOK ==
  /\ app \in [Params -> Int] /\ value \in [Params -> Int] /\ edit \in [Params -> Int]
  /\ modified \in [Params -> BOOLEAN]
  /\ \A i \in DOMAIN up : IsMessage(up[i])
  /\ \A i \in DOMAIN down : IsMessage(down[i])
  /\ replaced \in [Params -> Int]
  /\ edits \in 0 .. MaxEdits /\ changes \in 0 .. MaxChanges
  /\ lost \in 0 .. MaxLost /\ cut \in 0 .. MaxCut

\* What an edit marked is what the next message carries (Emit_control sends the
\* value field of every entry whose flag is set, whoever wrote it last). This does not
\* hold: see the README.
NextControlCarries == \A p \in Params : modified[p] => value[p] = edit[p]

\* The application, which does not look at the limits itself
\* (Unpack_control_msg), never has a steered value outside them.
RangeKept == \A p \in Steerable : app[p] # Bad

\* A steered variable never falls back to a value it had before a later edit,
\* however reports and edits cross, unless a report has replaced an edit of it.
NeverBack ==
  [][\A p \in Steerable : replaced[p] = 0 => app'[p] >= app[p]]_vars

\* The client's view of a monitored parameter never goes back in time.
ViewForward == [][\A p \in Params \ Steerable : value'[p] >= value[p]]_vars

\* Unless a send failed, the last accepted edit of every parameter is in force in the
\* end, those that did not fit in one message included, except one that a report
\* replaced before it was sent.
EditDelivered ==
  <>[](lost > 0 \/ \A p \in Steerable : app[p] = edit[p] \/ replaced[p] = edit[p])

\* The client's table shows what the application has in the end, also when an
\* edit was lost on the way.
ViewConverges == <>[](\A p \in Params : value[p] = app[p])
=============================================================================
