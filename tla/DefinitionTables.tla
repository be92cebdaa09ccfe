--------------------------- MODULE DefinitionTables ---------------------------
(***************************************************************************)
(* Who knows what.  Every application keeps tables of its parameters,      *)
(* IOTypes and checkpoint types (Register_*, ReG_Steer_Appside.c) and      *)
(* publishes them in messages of definitions; a client that steers several *)
(* simulations keeps a copy of the tables of each, in an entry of its own  *)
(* table of simulations (ReG_Steer_Steerside.c), and reads their messages  *)
(* in turn (Get_next_message).                                             *)
(*                                                                         *)
(* The frequency of an IOType or checkpoint type is a parameter that the   *)
(* library registers itself: its pointer leads into the table of types.    *)
(* Values of other parameters are in ParamSteering; how messages travel is *)
(* in MessageFiles and how sessions begin and end in FilesSession.         *)
(***************************************************************************)
EXTENDS Integers, Sequences, FiniteSets, FiniteSetsExt

CONSTANTS
  Sims,         \* simulations
  Slots,        \* entries of the client's table of simulations
  InitTypes,    \* REG_INITIAL_NUM_IOTYPES: entries of a table of types before it grows
  MaxTypes,     \* bound: calls of Register_IOType and Register_ChkType
  MaxEdits,     \* bound: frequencies asked for
  MaxAttach,    \* bound: calls of Sim_attach
  MaxQueue      \* bound: messages on their way when one more is sent

ASSUME TablesAssumption ==
  /\ "none" \notin Sims
  /\ Slots \in Nat \ {0} /\ InitTypes \in Nat \ {0}
  /\ MaxTypes \in Nat /\ MaxEdits \in Nat /\ MaxAttach \in Nat /\ MaxQueue \in Nat

Kinds  == {"io", "chk"}      \* IOTypes_table, ChkTypes_table
NotSet == -1                 \* REG_IODEF_HANDLE_NOTSET, REG_PARAM_HANDLE_NOTSET
NoSim  == "none"             \* the handle of an entry is not set
Junk   == [h |-> -2, fh |-> -2]  \* a row nobody wrote

VARIABLES
  types,      \* per simulation and kind: the registered rows [h, fh]
  freq,       \* io_def[].frequency, also of the row a failed registration left
  target,     \* Params_table: which frequency the parameter with handle p - 1 points to
  nextType,   \* Next_IO_Chk_handle
  calls,      \* registrations tried
  changed,    \* ReG_ParamsChanged, ReG_IOTypesChanged, ReG_ChkTypesChanged
  conn,       \* ReG_SteeringActive
  up, down,   \* control and status messages on their way
  entry,      \* Sim_table.sim
  numReg,     \* Sim_table.num_registered
  last,       \* last_sim
  edits,
  want,       \* history: the frequency last asked for, per handle of a type
  missed,     \* history: kinds of definitions the client lacks since they failed to be sent
  skips       \* history: messages read from others while an entry had one waiting

app    == <<types, freq, target, nextType, calls, changed>>
client == <<entry, numReg, last>>
vars   == <<app, conn, up, down, client, want, edits, skips, missed>>

FreeEntry == [sim |-> NoSim, params |-> {}, io |-> {}, chk |-> {}]
All       == {"param"} \cup Kinds

Init ==
  /\ types = [s \in Sims |-> [k \in Kinds |-> << >>]]
  /\ freq = [s \in Sims |-> [k \in Kinds |-> << >>]]
  /\ target = [s \in Sims |-> << >>]
  /\ nextType = [s \in Sims |-> 0] /\ calls = 0 /\ edits = 0
  /\ changed = [s \in Sims |-> {"param"}]
  /\ conn = [s \in Sims |-> FALSE]
  /\ up = [s \in Sims |-> << >>] /\ down = up
  /\ entry = [i \in 0 .. Slots - 1 |-> FreeEntry]
  /\ numReg = 0 /\ last = -1
  /\ want = [s \in Sims |-> << >>]
  /\ skips = [i \in 0 .. Slots - 1 |-> 0] /\ missed = [s \in Sims |-> {}]

-----------------------------------------------------------------------------
(* Registration, by the application.                                       *)

Put(seq, i, x) == [j \in 1 .. IF i > Len(seq) THEN i ELSE Len(seq) |-> IF j = i THEN x ELSE seq[j]]

\* The handle the parameter will have that is registered next.
FreqHandleNext(s) == Len(target[s]) + 1

\* Params_table.next_handle - 1, after Register_param.
FreqHandle(s) == Len(target[s])

\* What both kinds of registration do: the frequency and its parameter first,
\* then the handle and the count.  The caller asks for frequency 0.
Enter(s, k, fh) ==
  /\ types' = [types EXCEPT ![s][k] = Append(@, [h |-> nextType[s], fh |-> fh])]
  /\ nextType' = [nextType EXCEPT ![s] = @ + 1]
  /\ want' = [want EXCEPT ![s] = Append(@, 0)]

\* Register_IOType.  When the transport for samples cannot be set up (~ok) it
\* returns early: the parameter stays registered, the row is used again.
RegisterIOType(s, ok) ==
  /\ calls < MaxTypes /\ calls' = calls + 1
  /\ LET i == Len(types[s]["io"]) + 1 IN
       /\ freq' = [freq EXCEPT ![s]["io"] = Put(@, i, 0)]
       /\ target' = [target EXCEPT ![s] = Append(@, <<"io", i>>)]
  /\ changed' = [changed EXCEPT ![s] = @ \cup IF ok THEN {"param", "io"} ELSE {"param"}]
  /\ IF ok THEN Enter(s, "io", FreqHandle(s)) ELSE UNCHANGED <<types, nextType, want>>
  /\ UNCHANGED <<conn, up, down, client, edits, skips, missed>>

\* Register_ChkType.  A checkpoint that is only read has no frequency.
RegisterChkType(s, in) ==
  /\ calls < MaxTypes /\ calls' = calls + 1
  /\ freq' = [freq EXCEPT ![s]["chk"] = Append(@, 0)]
  /\ target' = IF in THEN target
               ELSE [target EXCEPT ![s] = Append(@, <<"chk", Len(freq[s]["chk"]) + 1>>)]
  /\ changed' = [changed EXCEPT ![s] = @ \cup IF in THEN {"chk"} ELSE {"param", "chk"}]
  /\ Enter(s, "chk", IF in THEN NotSet ELSE FreqHandle(s))
  /\ UNCHANGED <<conn, up, down, client, edits, skips, missed>>

-----------------------------------------------------------------------------
(* Messages of definitions.                                                *)

Rows(s, k) == {types[s][k][i] : i \in DOMAIN types[s][k]}

\* The table was moved to a larger block: the rows that are not in use yet hold
\* whatever was there before.
Grown(s, k) == Len(types[s][k]) >= InitTypes

\* What a message of definitions of types may say, beside the rows in use.
Extra(s, k) == IF Grown(s, k) THEN {{}, {Junk}} ELSE {{}}

ParamDefs(s)       == [type |-> "param", rows |-> 0 .. Len(target[s]) - 1]
TypeDefs(s, k, x)  == IF types[s][k] = << >> THEN << >>
                      ELSE <<[type |-> k, rows |-> Rows(s, k) \cup x]>>
Status             == [type |-> "status", rows |-> {}]

\* A client is attached, or has left and the application has not noticed yet.
Locked(s) == up[s] # << >> \/ \E i \in DOMAIN entry : entry[i].sim = s

If(b, seq) == IF b THEN seq ELSE << >>

\* Steering_control finds that a client is attached.
Notice(s) ==
  /\ ~conn[s] /\ Locked(s)
  /\ conn' = [conn EXCEPT ![s] = TRUE]
  /\ UNCHANGED <<app, up, down, client, want, edits, skips, missed>>

\* What is told of kind k.
Defs(s, k, x) == IF k = "param" THEN <<ParamDefs(s)>> ELSE TypeDefs(s, k, x)

\* A call of Steering_control with a client attached: what has changed is
\* published, then the state of the parameters.  Any Emit_*_defs may fail, with a
\* message too long for its buffer or not sent; nobody looks at the result, and
\* what has changed is forgotten all the same.
Publish(s) ==
  /\ conn[s] /\ Len(down[s]) < MaxQueue
  /\ \E failed \in SUBSET {k \in changed[s] : Defs(s, k, {}) # << >>},
        x \in Extra(s, "io"), y \in Extra(s, "chk") :
       LET Told(k, z) == If(k \in changed[s] \ failed, Defs(s, k, z)) IN
       /\ down' = [down EXCEPT ![s] =
                     @ \o (Told("param", {}) \o Told("io", x) \o Told("chk", y) \o <<Status>>)]
       /\ missed' = [missed EXCEPT ![s] = (@ \ changed[s]) \cup failed]
  /\ changed' = [changed EXCEPT ![s] = {}]
  /\ UNCHANGED <<types, freq, target, nextType, calls, conn, up, client, want, edits, skips>>

\* Enable_IOType and Disable_IOType publish the IOTypes at once, outside
\* Steering_control and whatever else has changed.  What is sent while no client
\* is there is removed when one attaches.
Republish(s) ==
  /\ Locked(s) /\ types[s]["io"] # << >> /\ Len(down[s]) < MaxQueue
  /\ \/ /\ \E x \in Extra(s, "io") : down' = [down EXCEPT ![s] = @ \o TypeDefs(s, "io", x)]
        /\ missed' = [missed EXCEPT ![s] = @ \ {"io"}]
     \/ UNCHANGED <<down, missed>>
  /\ UNCHANGED <<app, conn, up, client, want, edits, skips>>

\* Unpack_control_msg and Update_ptr_value.  A pointer into a table that has
\* been moved since may lead nowhere.
ApplyControl(s) ==
  /\ conn[s] /\ up[s] # << >> /\ Head(up[s]).type = "edit"
  /\ LET msg == Head(up[s]) IN
       IF msg.p + 1 \in DOMAIN target[s]
       THEN LET cell == target[s][msg.p + 1] IN
            freq' \in {[freq EXCEPT ![s][cell[1]] = Put(@, cell[2], msg.v)]}
                      \cup IF Grown(s, cell[1]) /\ cell[2] <= InitTypes THEN {freq} ELSE {}
       ELSE UNCHANGED freq
  /\ up' = [up EXCEPT ![s] = Tail(@)]
  /\ UNCHANGED <<types, target, nextType, calls, changed, conn, down, client, want, edits, skips, missed>>

\* Detach_from_steerer that takes the next client for the last one.
AppDetachKeeps(s) ==
  /\ conn[s] /\ up[s] # << >> /\ Head(up[s]).type = "detach"
  /\ conn' = [conn EXCEPT ![s] = FALSE]
  /\ up' = [up EXCEPT ![s] = << >>]
  /\ UNCHANGED <<app, down, client, want, edits, skips, missed>>

\* Detach_from_steerer: the next client knows nothing.
AppDetach(s) ==
  /\ conn[s] /\ up[s] # << >> /\ Head(up[s]).type = "detach"
  /\ conn' = [conn EXCEPT ![s] = FALSE]
  /\ changed' = [changed EXCEPT ![s] = All]
  /\ up' = [up EXCEPT ![s] = << >>] /\ missed' = [missed EXCEPT ![s] = {}]
  /\ UNCHANGED <<types, freq, target, nextType, calls, down, client, want, edits, skips>>

-----------------------------------------------------------------------------
(* The client.                                                             *)

Free     == {i \in DOMAIN entry : entry[i].sim = NoSim}
Held(s)  == {i \in DOMAIN entry : entry[i].sim = s}

\* Sim_attach.  The handle is the index of the first entry whose handle is not
\* set.  When the transport refuses, the entry stays free.
Attach(s) ==
  /\ ~Locked(s) /\ ~conn[s] /\ Free # {} /\ numReg < MaxAttach
  /\ entry' = [entry EXCEPT ![Min(Free)] = [FreeEntry EXCEPT !.sim = s]]
  /\ numReg' = numReg + 1
  /\ down' = [down EXCEPT ![s] = << >>]
  /\ UNCHANGED <<app, conn, up, last, want, edits, skips, missed>>

\* Sim_detach: Emit_detach_cmd, then Delete_sim_table_entry, which does not
\* count the entry off.
Detach(i) ==
  /\ entry[i].sim # NoSim
  /\ up' = [up EXCEPT ![entry[i].sim] = Append(@, [type |-> "detach"])]
  /\ entry' = [entry EXCEPT ![i] = FreeEntry]
  /\ skips' = [skips EXCEPT ![i] = 0]
  /\ UNCHANGED <<app, conn, down, numReg, last, want, edits, missed>>

\* Consume_param_defs: parameters are never taken out of the table.
ConsumeParamDefs(e, rows) == [e EXCEPT !.params = @ \cup rows]

\* Consume_IOType_defs, Consume_ChkType_defs: a row is known by its handle and
\* stays as it was first read; rows that the message does not name are removed.
Merged(old, rows) ==
  {r \in old : \E m \in rows : m.h = r.h} \cup {m \in rows : \A r \in old : r.h # m.h}

Consume(e, msg) ==
  CASE msg.type = "param" -> ConsumeParamDefs(e, msg.rows)
    [] msg.type = "io"    -> [e EXCEPT !.io = Merged(@, msg.rows)]
    [] msg.type = "chk"   -> [e EXCEPT !.chk = Merged(@, msg.rows)]
    [] OTHER              -> e

\* The entry that the k-th round of the loop in Get_next_message looks at.
Slot(k)   == (last + 1 + k) % Slots
Active(k) == entry[Slot(k)].sim # NoSim

\* count_active after round k found no message.
Tried(k) == Cardinality({j \in 0 .. k : Active(j)})

\* The count is compared before the entry is asked for a message.
GoesLess(k) == \A j \in 0 .. k : Active(j) => Tried(j) # numReg

\* The loop ends early when as many entries have been tried as were registered.
Goes(k) == \A j \in 0 .. k - 1 : Active(j) => Tried(j) # numReg

\* Rounds in which a message is found.
Finds == {k \in 0 .. Slots - 1 : Active(k) /\ down[entry[Slot(k)].sim] # << >> /\ Goes(k)}

Waiting(i) == entry[i].sim # NoSim /\ down[entry[i].sim] # << >>

Skip(i) == skips' = [j \in DOMAIN skips |-> IF j # i /\ Waiting(j) THEN skips[j] + 1 ELSE 0]

\* The message is put into the entry that was served before.
ReadNextStale ==
  /\ Finds # {}
  /\ LET i == Slot(Min(Finds))
         s == entry[i].sim
     IN /\ entry' = [entry EXCEPT ![IF last = -1 THEN i ELSE last] = Consume(@, Head(down[s]))]
        /\ down' = [down EXCEPT ![s] = Tail(@)]
        /\ last' = i /\ Skip(i)
  /\ UNCHANGED <<app, conn, up, numReg, want, edits, missed>>

\* Get_next_message and the Consume_* that belongs to the message.
ReadNext ==
  /\ Finds # {}
  /\ LET i == Slot(Min(Finds))
         s == entry[i].sim
     IN /\ last' = i /\ Skip(i)
        /\ entry' = [entry EXCEPT ![i] = Consume(@, Head(down[s]))]
        /\ down' = [down EXCEPT ![s] = Tail(@)]
  /\ UNCHANGED <<app, conn, up, numReg, want, edits, missed>>

\* Get_next_message that finds nothing.
ReadNone ==
  /\ Finds = {} /\ last' = -1
  /\ UNCHANGED <<app, conn, up, down, entry, numReg, want, edits, skips, missed>>

\* Set_iotype_freq or Set_chktype_freq for one type, and Emit_control.  The
\* parameter has to be known, too.  The frequency is the number of the request.
SetFreq(i, r) ==
  /\ entry[i].sim # NoSim
  /\ r \in entry[i].io \cup entry[i].chk /\ r.fh \in entry[i].params
  /\ edits < MaxEdits /\ edits' = edits + 1
  /\ LET s == entry[i].sim IN
       /\ up' = [up EXCEPT ![s] = Append(@, [type |-> "edit", p |-> r.fh, v |-> edits + 1])]
       /\ want' = [want EXCEPT ![s][r.h + 1] = edits + 1]
  /\ UNCHANGED <<app, conn, down, client, skips, missed>>

-----------------------------------------------------------------------------
Next ==
  \/ \E s \in Sims :
       \/ \E b \in BOOLEAN : RegisterIOType(s, b) \/ RegisterChkType(s, b)
       \/ Notice(s) \/ Publish(s) \/ Republish(s) \/ ApplyControl(s) \/ AppDetach(s)
       \/ Attach(s)
  \/ \E i \in DOMAIN entry :
       \/ Detach(i)
       \/ \E r \in entry[i].io \cup entry[i].chk : SetFreq(i, r)
  \/ ReadNext \/ ReadNone

Spec == Init /\ [][Next]_vars

-----------------------------------------------------------------------------
(* Properties.                                                             *)

Row == [h : Int, fh : Int]

TypeOK ==
  /\ \A s \in Sims, k \in Kinds :
       /\ types[s][k] \in Seq(Row) /\ freq[s][k] \in Seq(Nat)
       /\ Len(freq[s][k]) \in Len(types[s][k]) .. Len(types[s][k]) + 1
  /\ \A s \in Sims : target[s] \in Seq(Kinds \X Nat) /\ changed[s] \subseteq All
  /\ \A i \in DOMAIN entry : entry[i].sim \in Sims \cup {NoSim}
  /\ conn \in [Sims -> BOOLEAN] /\ numReg \in 0 .. MaxAttach /\ last \in -1 .. Slots - 1

\* Whatever the client lists as an IOType or checkpoint type of a simulation was
\* registered there, with that frequency parameter ("the number of valid IO types
\* currently registered with the simulation", Get_iotype_number), or is a row
\* nobody wrote of a table that was moved: messages of one simulation never reach
\* the entry of another, entries are used again clean.
OnlyRegistered ==
  \A s \in Sims : \A i \in Held(s) :
    /\ entry[i].io \subseteq Rows(s, "io") \cup UNION Extra(s, "io")
    /\ entry[i].chk \subseteq Rows(s, "chk") \cup UNION Extra(s, "chk")

\* When nothing is on its way, and nothing is left to publish, the client's copy
\* is complete: whatever was registered before or after it attached, by a
\* registration that failed half-way, or told to an earlier client.  Excepted are
\* the kinds that failed to be sent and have not been sent since, and tables that
\* were moved.
CopyComplete ==
  \A s \in Sims : \A i \in Held(s) :
    conn[s] /\ changed[s] = {} /\ down[s] = << >> /\ up[s] = << >>
      => /\ "io" \in missed[s] \/ Grown(s, "io") \/ entry[i].io = Rows(s, "io")
         /\ "chk" \in missed[s] \/ Grown(s, "chk") \/ entry[i].chk = Rows(s, "chk")
         /\ "param" \in missed[s] \/ entry[i].params = 0 .. Len(target[s]) - 1

\* When no control message is on its way, every type has the frequency that was
\* last asked for, by any client or at registration, and no other type's: handles
\* of types, of their parameters and rows of the table stay in step, as long as
\* the table of that kind has not been moved.
FrequencyFollows ==
  \A s \in Sims : up[s] = << >> =>
    \A k \in Kinds : \A i \in DOMAIN types[s][k] :
      Grown(s, k) \/ freq[s][k][i] = want[s][types[s][k][i].h + 1]

\* Get_next_message reports that there is no message only if no simulation has
\* one: its count of simulations, which is never decreased, does not end the
\* search too early. And a simulation that sends without pause does not keep the
\* client from the messages of another, whichever simulations come and go: while a
\* message waits, every other entry is served once at most.
ServedInTurn ==
  /\ (\E i \in DOMAIN entry : Waiting(i)) => Finds # {}
  /\ \A i \in DOMAIN entry : skips[i] < Slots
=============================================================================
