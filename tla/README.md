# A verification project for the RealityGrid steering library

The library (`src/src`, C) lets a *steering client* watch and change a running
*application* and lets applications hand data sets ("samples") to other
components. Application and client are different processes. Each of them is
single-threaded inside the library: the application calls `Steering_control`
once per simulation step, the client calls `Get_next_message` when it likes.
What makes the library hard to test is what happens *between* such calls: the
other process changes files or queues, messages cross, wait or get lost, and a
process stops half-way.

The TLA+ modules here are translated from the C source. TLC checks them on
small instances; TLAPS proves theorems about them for all values of the
constants.

## 1. Inventory

| Part | State it keeps | Operations | Where it is hard |
|---|---|---|---|
| `Steering_control` and helpers (`ReG_Steer_Appside.c`) | steering active?, which definitions must be sent, the store of messages that are not yet valid, arrays returned to the caller, sequence number and simulation time | `Steering_control`, `Steering_pause`, `Consume_control`, `Auto_generate_steer_cmds`, `Detach_from_steerer`, `Emit_*_defs`, `Emit_status`, `Steering_finalize` | a pause inside a call reuses the arrays of the call; commands that end the call; messages that wait for their time |
| Registration and tables (`Appside.c`, `Common.c`) | parameter, command, IOType and checkpoint tables, handles | `Register_*`, `Enable_*`, `Next_free_*` | tables move when they grow, handles are reused |
| File steering transport (`..Steering_Transport_Files.c`, `ReG_Steer_Files_Common.c`) | the files in a shared directory, two index counters | send, receive, attach, detach, start, finalize | two processes, no atomic step longer than a system call, stale files after a crash |
| Client side (`ReG_Steer_Steerside.c`) | table of simulations, each with tables of parameters, commands, IOTypes; `modified` flags | `Sim_attach`, `Get_next_message`, `Consume_*`, `Set_param_values`, `Emit_control`, `Sim_detach`, `Delete_sim_table_entry` | reports and edits cross; handles are indices |
| Sample exchange (`Appside.c`, `..Samples_Transport_*.c`) | per IOType: file name or socket, `ack_needed`, buffer | `Emit_start/data_slice/stop`, `Consume_start/data_slice/stop`, acknowledgements | order by file name, one of several steps fails, each side waits for the other |
| Checkpoints and logs (`Appside.c`, `ReG_Steer_Logging.c`) | two logs: entries in memory, a file, a key, who has been sent what | `Record_Chkpt`, `Log_param_values`, `Save_log`, `Emit_log`, `Record_checkpoint_set` | memory full while a client attaches; messages of entries that fail |
| Sockets steering transport | one listening and one connected socket; the backlog of the listener in the system | listen, accept, connect, poll, framing of messages, detach | a message is cut; clients wait in the backlog while another is served |
| Sockets samples transport (`..Samples_Transport_Sockets*.c`) | per IOType: a listening and a connected socket with a status each | listen, accept, connect, retry, framing of samples, acknowledge in the stream | partners come and go, each notices late; retries drop what was on its way |
| Proxy samples transport, `ioProxy` | as above, to a proxy | register, forward | – |
| WSRF steering transport | history of UIDs, store of messages read at once, time of modification | put and get of messages as resource properties | the service goes on showing messages and forgets old ones; restarts |
| XML, Base64, dynamic loading, Fortran wrappers | none that others depend on | conversions | – |

Interaction: the application side calls the steering transport through a table
of function pointers (`Get_control_msg`, `Send_status_msg`,
`Steerer_connected`, ...), the client side likewise, and `Emit_*`/`Consume_*`
call the samples transport. The transports share nothing in memory with the
other process: everything goes through files, sockets or a remote service.

What makes each part correct, in one line each: *control*: commands and edits
reach the caller in order, with their arguments, and nobody waits for a client
that is gone; *messages*: FIFO, whole, once; *sessions*: one client at a time,
never the messages of another session; *parameters*: what was entered is what is
applied, and both sides agree in the end; *samples*: in order, whole, paced by
the consumer, and no side waits for ever; *tables*: a client's copy is what was
registered, and handles lead where they should; *logs*: every entry once, in order, to every
client; *sockets*: FIFO over all sessions, everybody answered; *service*: nothing acted on twice, nothing
missed that was not dropped.

## 2. Modules

| Module | Models | Composes / implements |
|---|---|---|
| `MessageChannel` | what callers of the transport rely on: a FIFO channel | abstract specification |
| `MessageFiles` | one direction of messages in files, one file operation per step | implements `MessageChannel` |
| `SteeringControl`, `MCSteeringControl` | `Steering_control` and everything it calls; the client as far as this side sees it | relies on `MessageChannel` |
| `SteeringControl_proofs` | theorems about it | |
| `FilesSession`, `FilesSession_proofs` | attaching, detaching, starting, finishing and crashing, over shared files | relies on whole-file messages |
| `ParamSteering` | values of parameters between client and application | relies on `MessageChannel` |
| `SampleExchange`, `SampleExchange_proofs` | one IOType through files | |
| `SampleStream`, `SampleStream_proofs` | one IOType through sockets | |
| `DefinitionTables`, `MCDefinitionTables`, `DefinitionTables_proofs` | registration, publishing and copying of parameters and types; the client's table of simulations; several simulations and one client | relies on `MessageChannel` |
| `LogDelivery` | the logs of checkpoints and parameters, from recording to the client | relies on `MessageChannel` |
| `SocketSteering`, `SocketSteering_proofs` | sessions and messages over sockets | implements `MessageChannel` |
| `ServiceSteering` | messages through a web service | |
| `FilesAndService_proofs` | theorems about `MessageFiles` and `ServiceSteering`, the transports where the reader finds out for itself what it has read | |
| `ParamsAndLogs_proofs` | theorems about `ParamSteering` and `LogDelivery`, what both sides know of values, present and past | |

Below an action in a module there stands a whole handler of the code; which
lines each definition translates is in `PROJECT.json` under `map`. Definitions
whose comment describes a plausible mistake (`EmitControlClearsAll`, `CutNoDetach`,
`Attach2Blind`, ...) are not part of any `Next`: each is a wrong variant of the definition
that follows it, and a property has been seen to fail when it is put in its place.

### MessageFiles

State: `content[i]` and `lock[i]` are the data file and the modification time
of the lock file with index `i`; `next` is `output_file_index`; `rpc`, `pos`,
`low`, `time1`, `pick` are the locals of `open_next_file`. The writer opens,
writes and locks in three steps (`OpenOut`, `WriteOut`, `LockOut`). The reader
looks at one name per step, upwards (`UpMiss`, `UpHit`) and downwards
(`DownMiss`, `DownHit`), decides with `Older`, parses (`Parse`) and deletes the lock
file and then the data file. Times are whole seconds, so ties happen.

The code has no flow control: a writer that is `REG_MAX_NUM_FILES` ahead
overwrites. `Policy` names how far it gets, `QuietScan` forbids new lock files
during a scan. Neither is something the code does; they separate the reasons
for which order is lost:

- `Policy = "single"`: the files are a FIFO channel. **Proved** (`Refinement`).
- `"drained"` with `QuietScan`: still FIFO (run `files_quiet`, as a refinement).
- `"drained"` without `QuietScan`: a lock file created behind the scan can make a
  younger file the first candidate; order is lost (seen with TLC).
- `"lagging"`: order is lost (section 5), but every message is still
  read, whole and once (run `files_lagging`). **Proved** (`ReadOnceAndWhole`).
- `"overrun"`: messages are lost.

### SteeringControl

A call that returns is one step (`Control`), because the library is single-threaded
and the client acts only through the lock file and its messages. A call that
pauses is a step up to the pause and a step for every message that `Steering_pause`
reads (`PausePoll`). The command loop is `Pass`: `Cut` finds the command that
ends it, `Copy` moves the arguments the way the code's `strcpy` calls do (they may overwrite
arguments that are yet to be copied), `Finish` is the rest of the call,
`LabelsOut` the loop that appends the labels of edited parameters. `store` is
what is reachable from `ReG_ctrl_msg_first`. Any kinds of definitions may fail to be sent (`failed` in `Control`): the code
does not look at the results of `Emit_param_defs`, `Emit_IOType_defs` and `Emit_ChkType_defs` and clears the flags that ask for
them. `told` and `lost` are history: what has been sent to this client, and what was to be and could not be. `reused` says that
the arrays of the current call were too short or were filled a second time in a pause. Left out: values of parameters
(they are in `ParamSteering`), texts, logs.

### FilesSession

The files that say *the application can be steered* and *a client is connected*, and
both queues of messages. One step is one operation on one of these;
`remove_files`, which repeats until nothing is left, is one step. Clients may die anywhere, the
application may be killed anywhere once it runs; both leave their files. The definitions, and the `DETACH` of a client,
may fail to be sent, and nobody looks at that.
Nothing in the code keeps a client from attaching while another one does, or while the application lets one go or
starts, and nothing does so here. Two history variables say when that has happened: `raced`, that a client created the lock
although it had been created since that client looked for it, or was attached when the application was started; `crossed`, that
an attempt to attach fell together with another attempt or with the end of a session, or that the application was started
a second time. `stale` and `holder` serve to know the first, `served` is the client that the application writes its messages for.

### ParamSteering

`value[p]` and `modified[p]` are the client's table, `app[p]` the registered
variable. A value is the number of the edit that made it, so "older" means
"smaller". `Edit` is `Set_param_values` with its check of limits, `EmitControl`
takes the first `MaxPerMsg` marked entries and clears their marks before it
sends (a send may fail), `ReadStatus` overwrites the value whatever the mark
says, `ReadControl` applies one message, `EmitStatus` reports all
parameters in as many messages as that takes, or breaks off after some of them, when values do not fit in a
message (`cut` counts these). The client sends and reads in any order: `replaced[p]` is history and remembers the last edit that a
report replaced before it was sent. The application does not change a
steered variable itself. Left out: an entry of the table without a variable, which `Emit_status` passes
over (`ReG_Steer_Appside.c:3924`).

### SampleExchange

`data[n]`, `lock`, `acks` are the files of sample `n`. `EmitStart` includes
`Consume_ack` and the header, `EmitStop` the slices as far as they decide what is
in the file, the footer, the lock file and `ack_needed`. The consumer
acknowledges the last sample when it asks for the next (`ConsumeAck`), takes the
alphabetically first locked file (`Key` is the order of `cmpstrs`),
removes the lock and reads the header (`ConsumeTake`). `Faults` says which
operations may fail: in each the code returns early in a different place.

### SampleStream

Both sides of one IOType: `lst` and `ecomms` are `listener_status` and `comms_status` of the emitter, `ecur` and
`ccur` the connections behind the two `connector_handle`s, `eack` and `cack` the two `ack_needed`. A connection is a
number; `down[k]` and `up[k]` are what is on its way, `eup` and `cup` say which end is open. It exists when the
consumer has connected (`Connected`) and waits in `backlog` until the emitter polls (`Accept`), so dead connections may
wait there before live ones. `Emit_start` is `EmitStart` (the acknowledgement), `EmitConnect`, `EmitHeader` and
`EmitHeaderAgain`, with the other side acting in between; `Consume_start` is `ConsumeStart`, `ConsumeConnect` and the search for the
beginning of a sample (`ConsumeHead`, `ConsumeDrain`, `ConsumeNothing`, `ConsumeRetry`). Only the first packet of a sample is
sent if there is room; everything after it waits (`Send`). A lost connection delivers a beginning of what was sent, and
the last slice of it may be a part of one (`Parts`, kind `"cut"`). `aligned` says whether the next read of 128 bytes
meets the beginning of a packet; after a slice that was drained it need not. `Listen` keeps the stale status that the code
looks at. `UseAck` is `use_ack`, `PortTaken` says that the first port is busy, `Impatient` that the consumer may call
`Consume_stop` before the end. `on`, `emitted`, `taken`, `acked`, `torn`, `early` are history variables. Left out: the
data; types, XDR and the order of arrays; data that happens to contain the text that begins a sample;
a peer that vanishes so that no end of the connection is ever seen; an acknowledgement of which less than its 16 bytes have
arrived, which `Consume_ack` takes for a whole one. Either side may be disabled in the middle of a sample.

### DefinitionTables

Per simulation: `types[s][k]` the registered rows of `IOTypes_table` and
`ChkTypes_table`, each with its handle and that of its frequency parameter,
`target` where the pointer of each parameter leads, `freq` the values there,
`changed` the three flags that make definitions be sent. `RegisterIOType(s, FALSE)` is
a registration whose transport fails: the parameter stays, the row is used again.
A table that has grown (`Grown`) was moved: a pointer into it may lead nowhere
(`ApplyControl`), and rows that are not in use hold what was there (`Extra`).
Each kind of definitions may fail to be sent (`Publish`, `Republish`) and is no longer marked as changed afterwards, as in the
code; `missed` is history and says which kinds the client lacks for that reason.
`entry` is the client's table of simulations, the handle of a simulation is its
index; a client that uses all its entries attaches to no other simulation (the branch of `Next_free_sim_index` that enlarges
the table is not modelled). `Merged` is how `Consume_IOType_defs` brings its copy up to date, `Slot`, `Goes` and `Finds` are the
loop of `Get_next_message`. `want` and `skips` are history variables.

### LogDelivery

A log is `mem` (entries with a mark that they were sent), `file`, `key`; an entry
is its key. `AddEntry` saves to the file when the memory is full, `ToSend` says what
`Emit_log` takes: file and memory for a client that is new, else what is not marked. `Packed`,
`PackFails` say what `Pack_send_log_entries` sends and what it leaves or passes over
when it meets its limit, or when message `j` cannot be sent. The checkpoint log
sends each buffer once; the parameter log, whose file has columns, tries
again (`Retry`), and nothing else happens meanwhile. The application records any number of checkpoints between two calls
of `Steering_control`; `spilled` is history and says that `Record_Chkpt` has made room by saving entries that the client had
not got. What has been written to the file and not been read again since is in its buffer: an application that is killed loses
any number of these entries (`flushed`, `Killed`). Left out: the values in the entries, entries of which the buffer held a part,
a file that cannot be opened and entries that cannot be converted (`ReG_Steer_Logging.c:223`),
the log of steering commands, `Record_checkpoint_set`.

### SocketSteering

A connection is the number of the attempt that made it; `srv[k]` and `cli[k]` say
whether its two ends are open, `toApp[k]` and `toClient[k]` are its buffers.
The system completes connections (`Connect`) before the application accepts them
(`Accept`), so a client can be connected, wait for the supported commands (`pc = "wait"`) and stand in
`backlog`. A call of `Steering_control` is `Accept` or `Call`, `EmitDefs`,
`ReadHeader`, `ReadBody`, `Report`, with the client acting in between: each of these may wait for the other side.
`Detach` closes both sockets, which resets whoever waits in the backlog. `ResetLoses` allows the
system to throw away what was not read when a connection is reset. A body arrives whole or not
at all: `consume_steering_msg` (line 952) takes a body that the end of the stream cuts short for a whole one,
and it is `Parse_xml_buf` that refuses it.

### ServiceSteering

`statusMsg`, `controlMsg`, `defs` and `modified` are resource properties of the
external service, which keeps the last `Buffered` messages of a kind. `Take` is `Msg_already_received` with its finite
ring of UIDs, `ParseProperties` reads a document message by message, `Rest` is what is
kept in the store for later calls. `GetStored`, `GetDocument`, `GetLatest` are the three ways through
`Get_status_msg_wsrf`. `SendStatus` and `SendDefs` may fail, or give up after eleven deadlocks between services, which
returns `REG_SUCCESS`: either way `Steering_control` does not send the definitions again. `Restart` and `Attach` are new processes that begin with an empty memory.
Left out: a document with a property that holds no message, at which `parseResourceProperties` returns
and drops what follows (`ReG_Steer_XML.c:370`); the property `steererStatus`, which stands for a detach; logs, addresses of samples and checkpoint trees at the
service, registries, security.

## 3. Runs

| Run | Question | Bounds, and why they are enough |
|---|---|---|
| `files_quiet` | Do the files implement the FIFO channel when the wrap is clean? | 3 files, 7 messages: the counter wraps twice; 2 ticks: equal and different times |
| `files_lagging` | Is every message read, whole, once, when files are pending at the wrap and the scan is disturbed? | 3 files, 6 messages, weak fairness of both processes |
| `ctl_internal` | Order of commands, definitions before status, no pause without a client, every message read, every detach honoured, when the library implements the pause | three messages out of eight kinds (pause in the middle of a list, two pauses, detach followed by a command, ...), an automatic command every second step; any definitions may fail to be sent, whenever that is |
| `ctl_external` | Arguments of commands, and messages that wait for their time, when the application implements the pause | steering every second step, messages valid after 2 and 4 of 5 time steps: earlier, equal and later than "now"; three commands to a message, and room for an automatic command, a stored message and a new one |
| `session` | Who is attached, whose messages are in the directory, does a client that leaves let the next one in? | two clients, three attempts: both may be between looking for the lock and creating it, and one client may replace another and come back; two starts of the application, one message of each kind waiting |
| `samples` | Order, back pressure, no waiting for ever | samples 8 to 12: "10" sorts before "9"; two faults among header, slice, footer |
| `params` | Do edits arrive, in order, and do both sides agree? | four parameters, two to a message: edits and reports need two messages; three edits, sent and overtaken by reports in any order, one failed send, one report broken off, two reports on their way |
| `tables` | Is the client's copy what was registered, does a frequency get where it should, is everybody served? | two simulations and two entries: entries are given again and to another simulation; tables of two rows that grow when both are used; a failed registration among two, failed definitions whenever they are sent; both kinds of types, one edit, three attempts; simulations are alike (symmetry, no liveness) |
| `sockets` | Is it one FIFO channel over all sessions, what is each client told first, is everybody answered? | two clients, three connections: one waits while another is served, and one comes back; buffers for one message; a death, a failure to listen |
| `stream` | Are samples paced, does the end that is met belong to the sample, do emitted ones arrive, do the two sides find each other again? | three samples of one slice, so that a sample has one before and one after it; a consumer that may stop early; buffers for two packets, so that the sender waits inside a sample; two faults (break, disable, also inside a sample, death, failed listen or connect) and four connections, as many as that needs |
| `logs` | Is every entry kept, and does every client get it once and in order? | memory of two, messages of two entries, five keys: saving at every second entry, also twice between two calls with a client, and a log of three messages, below the limit at which it is cut short; one failed message, one restart |
| `service` | Nothing twice, nothing missed that was not dropped, definitions get through | two messages of a kind kept of up to three, two versions of the definitions, a ring of five UIDs, so that UIDs are pushed out of it and one document costs less than it has places; one restart, failed call or new client; definitions that change twice within a second are excluded (`SameSecond`) |

`CHECK_DEADLOCK FALSE` stands where a behaviour really ends: bounds on messages
are used up, an application has finished, clients have gone. In `params` the
application reports for ever and deadlock is checked.

Counters that would grow without end are capped by the constants marked
"bound" in the modules. `Period` keeps the sequence number modulo a
multiple of all frequencies in use; `MaxTime` stops the clock when every message
that waits is due, which in `ctl_internal`, where none waits, is at once.

### Fairness

- `MessageFiles`: both processes go on with what they have begun, and the
  reader keeps polling; the code polls on every call.
- `SteeringControl`: the application goes on calling `Steering_control`, looks
  for a client again and again (`polling_interval`), and `Steering_pause` goes on
  reading, which is its loop. Nothing is assumed of the client. The conditions are stated on the
  effect of a step (`Called`, `PauseRead`), whose ENABLED TLC evaluates quickly.
- `FilesSession`: an application that runs goes on calling `Steering_control`;
  whoever has begun to start, finish, attach or leave completes it unless it is killed.
- `SampleExchange`: an emitter that has begun a sample finishes it and the
  consumer goes on asking. The emitter owes no further sample.
- `ParamSteering`: both main loops go on; no edit is owed.
- `SocketSteering`: the application goes on calling `Steering_control`; a client finishes a
  message it has begun, closes when it is leaving, notices that its
  connection was closed, and goes on reading. Nobody has to attach, send or leave.
- `SampleStream`: both sides go on trying (`Emit`, `Consume`): the code that calls `Emit_start` and `Consume_start` does so in its main loop.
  A side that was disabled or has died need not come back.
- `ServiceSteering`: both sides go on asking for messages.
- `DefinitionTables`, `LogDelivery`: safety only.

## 4. What is proved

TLAPS checks these for every value of the constants, under the assumptions
named in the modules (`NumFilesAssumption`, `ControlAssumption`,
`ExchangeAssumption`, `ParamAssumption`, `SocketAssumption`, `StreamAssumption`, `TablesAssumption`, `LogAssumption`, `ServiceAssumption`), which TLC evaluates in the runs.
Some theorems have a further hypothesis about the constants; what happens without it is in section 5. The run that checks the property
has constants that satisfy it, so that no theorem is about nothing (only `Refinement` is about less than its run, `files_quiet`).

**MessageFiles.** `Typing`, for every policy: `TypeInv` adds to the types that the
search upwards has found a lock that stays until the reader deletes it (`SearchInv`), which is
what keeps the search downwards inside the table. `ReadOnceAndWhole`, from `ParsedOnce`,
`KeptUntilRead` and `NoPartialRead`, unless a pending file is overwritten (`Policy # "overrun"`):
`SafeInv` says which files the writer and the reader
may be at, that a locked file is complete and that a received number is not in
a file any more unless the reader is just deleting it. `Refinement`, for
`Policy = "single"`: at most one file exists, so the candidates of the search coincide, and the
step `Parse` is the channel's `Deliver`.

**SampleExchange.** `Typing` and `ReadsClosed`, for any faults, with or without
acknowledgements: `SafeInv` adds `PlaceInv` to the types, which says that a locked name, or one that the consumer
has, is not later than the last `Emit_stop` and that the emitter is past it. That the consumer's choice
exists needs a least element of a set of numbers (`Least`). `Paced`, with acknowledgements:
`AckInv` says that every emitted sample is acknowledged except the one the
emitter waits for. `WaitsHonestly`, unless creating a file fails: `HonestInv`; the excluded
failure is described in section 5. `ArriveInOrder`, with acknowledgements, whatever fails: samples are taken in the
order in which they were emitted, although the consumer chooses among file names by the alphabet. `OrderInv` says why the
alphabet does no harm: when a sample is taken, every earlier one that was emitted has been taken (`Sorted`), since
the emitter was allowed to go on, and what was acknowledged has been taken.

**ParamSteering.** `Typing`. `Limits`, however client and application
interleave: no value outside the limits is anywhere in the system (`LimitInv`).
`Forward`, for a client that sends and reads in any order: `OrderInv` says that for each
steered parameter of which no report has replaced an edit (`Unreplaced`) what is on its way lies between what the application has and
the last edit, in the order of the edits. The order alone is not inductive without `MarkInv`:
what is appended next must be the last edit, and so it is where a mark is set and nothing has been replaced.

**LogDelivery.** For any sizes of memory, messages and logs, any number of failures and lives:

- `LogsInOrder`, without a hypothesis: file and memory hold every entry once and in order, and what a client is sent rises,
  whichever message fails and wherever the limit cuts a log short. `Within(S, a, b)` says that the numbers of `S` rise from `a` on
  and stay below `b`; `PackSplits` is the lemma that what `Pack_send_log_entries` sends ends where what it keeps begins. `ChkInv` has
  the marked entries at the front of the memory (`SentUpTo`) and the client's before the rest. `ParInv` says that everything in memory
  is marked while a client is attached, and where `Emit_log_entries` is when it has to try again (`Retrying`).
- `ToldWhenNothingUnsent`, for any number of checkpoints between two calls, and logs
  below the limit (`MaxKey < LimitAt + 2`): when nothing is counted as unsent, no message has failed and no entry was saved that the client had not
  got (`spilled`), it has the whole log of checkpoints. `ToldInv` relates three things
  that the code keeps apart: the count `num_unsent`, the marks in memory and what the client has.
- `AnswersComplete`, for logs below the limit: a client that has asked for the log of a parameter has what had been logged by
  then. `AnswerInv` says that a parameter's flag is up until the client first asks, and that nothing is tried again as long as nothing has failed.

`ToldAll` and `AnswerComplete` fail in TLC without the hypothesis (section 5). That unmarked entries are counted and taken in order is a fact about
cardinalities of initial segments; no induction over sequences is needed.

**ServiceSteering.** For any sizes of the service's buffer and of the ring of UIDs, any number of messages, restarts and attachments:

- `ActedInOrder`, without a hypothesis beyond `Buffered <= History`: an application acts on control messages in the order sent and on none twice.
- `NothingTwice`, which is `OnceOnly`: a client is given no status message twice either, as long as the documents it has read again
  fit in its ring (`Cost(lastModTime) < History`).

Both rest on what one reading of a document does (`ParseProgress`, by a least counterexample over the positions of the document): each message that is
returned was not remembered (`Safe`), those returned keep their order, and a message stays in memory as long as fewer than `History` UIDs have come
after it (`Tracked`). `ServInv` says that the queues of the service rise in number and UID. `AppInv` says that the application has the first `t` messages of the queue,
for some `t`: after the UID of each only those of later messages in the queue have come, and these are fewer than the ring has places. A
client also reads the other queue and the definitions, so after the UID of a status message others come, which the service may drop and replace.
`SimInv` counts them: only a document brings any, at most `2 * Buffered` besides the message itself, and a client reads at most one
document for each value of `lastModTime` (`Cost`). After a document that is the last one to fit only the latest status message is
asked for, so only that one has still to be remembered (`Holding`).

The condition is part of the property because nothing in the library ensures it: the ring has 64 places, nothing bounds how often definitions change
while a client is attached, so no size is enough for a long session in which
an old status message stays with the service while commands and definitions go on. Without it `OnceForever` fails (section 5).

**FilesSession.** For any clients, attempts, deaths, and starts of the application, in any order of their steps:

- `LockedWhileActive`: clients only create the lock, and the application that removes it is on a path that clears `active`.
- `Exclusive`: two clients are attached at once only after one of the two events that `raced` names. `FreeInv` says when the
  way is free (`Free`: nobody is attached and nobody is about to be let go): when there is no lock and the application can be steered or is starting,
  and for a client that has seen that, as long as no other has created the lock since. A `DETACH` is the last word of the client that was attached.
- `MessagesOfTheSession`: what a client or the application reads was written for this
  session, until sessions have crossed (`crossed`). `SessionInv` has a part for each file. `PhaseInv` is the state of the lock at each step of the
  application. `ClientInv` says that one client at a time is between looking for the lock and creating it, that nobody is
  attached meanwhile, and that a client that is attached has the lock. `ControlInv` says that every control message is
  the holder's, and that nobody is attached once it has sent its `DETACH`, until the application has let it
  go and removed the rest. `StatusInv` says that what a new client finds has been removed before it creates the lock. All of it holds
  under `~crossed` only, and since `crossed` never falls (`CrossedStays`) that is what is proved.

**SteeringControl.** For any messages, types, limits and automatic commands:

- `DefinitionsFirst`, when every call steers (`SteerInterval = 1`, which the library starts with): no status message leaves before the library has tried to send
  every kind of definitions since it last changed. `DefsInv` says that every kind is marked as changed, has been sent to the client or could not be,
  and that a pause begins only when none is marked. That the code does not see a failure is why no more than an attempt can be promised (section 5).
- `ArgumentsOfCommands`, without a hypothesis: beside each command that is returned stands its own argument, for every call that does not pause and whose
  automatic commands, stored message and new message fit in the array (`reused` names the others; the code ensures neither).
  The theorem follows the copying of arguments within one array (`Copy`), where the source of a move is never before its
  target (`CopyMoves`, `PassOnce`).
- `OrderOfCommands`, whether the library or the application implements the pause, when all messages are
  valid at once (`NoWaiting`): the caller gets the commands in the order in which the client sent them. `OrderInv` says that what was delivered, what the interrupted
  call has kept, and what is in the inbox are in line (`InLine`).
- `SomeoneToResume`, under `NoWaiting` too: the library never waits in a pause without a client that is connected and that it knows of. `SteererInv`
  adds that nothing is in the inbox without a client, so that the message with the `PAUSE` comes from one that is still there.

**SocketSteering.** `OneChannel` and `EveryClientWelcome`, for any number of clients and attempts, buffers
of any size, kills anywhere, whether resets lose messages or not. The invariant has three parts
that need each other. `LinkInv` says who holds which connection: each client has one of its own,
the application serves one, those in the backlog have nothing in their buffers, and a client that may
write is the one that is served. With that, `StreamInv` can say what is on its way to the application:
headers and bodies take turns, the bodies carry the numbers that come next, as many as were
sent and not read, and a request to detach is the last; whoever comes next starts with an empty
connection and nothing outstanding. These two are inductive together (`Streams`), and
`ReadBody` is then the channel's `Deliver`. Messages that are lost with a client that dies do not contradict this:
they are behind all that are read, and no client can send before the application has given up the connection.
`GreetInv` says what is on its way to a client: the commands, then definitions, then the state;
while `changed` holds nothing but the commands has been sent.

**SampleStream.** `BackpressureHolds`, for any number of samples and connections, any buffers and failures, and for a
consumer that stops early. `AckInv` says that on a connection that lives only the last sample that was begun can lack its
acknowledgement, and then the sample is on its way, or the consumer has it, or its acknowledgement is on its way back: never
two of these, or an acknowledgement could be counted for the next sample. That needs to know that the consumer only
acknowledges on the connection that brought the sample (`HeldInv`), that nothing has happened on a connection before it is accepted
(`FreshInv`), so that a new one starts with nothing owed, and that connections are accepted in the order in which they were made
(`Ordered`), so that the emitter never gets one twice.

`EndOfTheSample`, for the same: when the consumer meets the packet that ends a sample, it is in that
sample and has read all of it. `TidyInv` makes a sentence of what is on its way: each packet may follow the one before it
(`Follows`), the first one may follow what the consumer has read last, and what the emitter sends next may follow the last one. A slice that a
lost connection has cut can only be at the end of what is on its way. That nothing is sent behind it needs `OpenInv`: the
emitter leaves a connection before it takes another, so the one it sends on is open at its end as well.

**DefinitionTables.** For any simulations, registrations, edits and attachments, and any size of the client's table, for tables of types that grow, and whichever definitions fail to be sent. `BaseInv` has the
types and, for each simulation, `TableInv` (the rows have handles of their own, each frequency parameter points to its
row), `KnownInv` (what is known or on its way to the client was registered, or is a row of a moved table that nobody wrote: `Shown`), `AskedInv` (requests name parameters of the
simulation), and `HeldOnce`: a simulation has one entry.

- `Listed`: a client lists of a simulation only what was registered there, also when an entry is given to
  another simulation.
- `FrequencyOfTheRow`: when no request is on its way, each type has the frequency that was asked for, except the rows of a table that was moved
  (`Grown`): the pointers of their parameters lead to where it was. `EditInv` says
  that the requests on their way will make it so (`Settles`); that a request reaches the right row is `TableInv`.
- `CompleteCopy`: when no definitions are on their way and none are due, the client's copy is complete, except the kinds that failed to be sent
  and have not been sent since (`missed`) and tables that were moved (`Exact` names the others). `PublishInv` says that the
  messages on their way turn what is known into what there is, for each kind that is not marked as changed (`Updates`), and that what is not marked
  while nobody is attached is empty.
- `TurnsAreKept`: a simulation that waits is passed over fewer times than the table has
  entries. `SeatInv` bounds the used entries by `numReg`, which is when the loop of `Get_next_message` gives up; `TurnInv` says that each time an entry is
  passed over it comes closer to being next. That the loop has then looked far enough is a pigeonhole.

Only model-checked:

- everything temporal beyond safety (`EventuallyDelivered`, `MessagesRead`, `DetachHonoured`, `DeferredActed`, `DetachReleases`, `EmitterFreed`, `Delivered`,
  `Reunited`, `EditDelivered`, `ViewConverges`, `AttachAnswered`, `ControlActed`, `DefsKnown`): liveness under fairness and ENABLED
  are out of the prover's reach;
- the refinement of the channel by `"drained"` files.

Every invariant that a run checks is stated by a theorem.

## 5. What does not hold

Seen by changing constants or the property of a run, kept here so that nobody takes the
bounds for a promise. The first eight contradict what the code or its headers say:

- **Messages put aside.** `SteeringControl` with `Messages <- Deferring` and the other constants of `ctl_external` violates
  `NothingMislaid`: when a message already waits, a second one is assigned to `ReG_ctrl_msg_current` without being linked to
  the list (`ReG_Steer_Appside.c:3584`) and is never found. `ReG_Steer_Appside.c:3574` says "Don't read this message yet - store it.
  This message store is checked in Auto_generate_steer_cmds."
- **Enabling an IOType.** `stream` with `PortTaken = TRUE` violates `EnableListens` and `Reunited`: `create_listener_samples` takes
  `comms_status == LISTENING` for a port it has bound (`ReG_Steer_Samples_Transport_Sockets_Shared.c:665`), but that value is left
  from before when the IOType was disabled while nobody was connected. If the first port is taken then, `REG_SUCCESS` is returned without a listener, and
  no later attempt gets further. `ReG_Steer_Appside.h:181` says "For a socket-based IOType this corresponds to creation of the socket."
- **Slow consumers.** `stream` with `UseAck = FALSE` violates `SlowNotCutOff`: when there is no room for the packet that begins a
  sample, `Emit_header_sockets` closes the connection of a live consumer, which loses what it has not read
  (`ReG_Steer_Samples_Transport_Sockets.c:354`). `ReG_Steer_Appside.h:203` says that "this can result in the emitter blocking if the
  consumer is unable to keep up".
- **Torn slices.** `stream` violates `SlicesWhole`: `Consume_data_read` only looks whether it got nothing, so the part of
  a slice that arrived before a connection was lost is returned with `REG_SUCCESS` (`..Sockets_Shared.c:455`).
  `ReG_Steer_Appside.h:723` says "This routine BLOCKS until the requested amount of data has been consumed."
- **Order of files.** `MessageFiles` with `Spec`, `NumFiles = 3`, `MaxSent = 7`, `MaxClock = 2`,
  `Policy = "lagging"`, `QuietScan = TRUE` violates `InOrder`: with files on both sides of a wrap, the
  first and the last lock file need not include the oldest, or have the same time. `ReG_Steer_Files_Common.c:165`
  says "We want to open the oldest file that we've found...".
- **Labels of edited parameters.** The constants of `ctl_internal` with `Spec` violate `LabelsFaithful`: with edits before and
  inside a pause, the loop at `ReG_Steer_Appside.c:2764` starts at the wrong index, skips labels and reads pointers that
  were never set. `ReG_Steer_Appside.h:485` promises "a list of labels identifying which of the steered
  parameters have been changed".
- **REG_NOT_READY.** `samples` with `Faults = {"open"}` violates `NotReadyHonest`: when the file cannot
  be created, `Emit_start` returns with the acknowledgement used up and `ack_needed` still set
  (`ReG_Steer_Appside.c:1677`), and waits for that of a sample that was never emitted. `ReG_Steer_Appside.h:531` says that it
  means "no acknowledgement of the last data set that was (successfully) emitted".
- **Edited values.** `params` violates `NextControlCarries`: a status message read
  between `Set_param_values` and `Emit_control` replaces the new value (`ReG_Steer_Steerside.c:1267`).
  `ReG_Steer_Steerside.h:385` says "The new values are sent to the simulation on the next call of Emit_control()".

- `DefsWhateverFails` of `SteeringControl` fails: `Steering_control` ignores the results of `Emit_param_defs`, `Emit_IOType_defs` and `Emit_ChkType_defs`
  and clears its flags (`ReG_Steer_Appside.c:2558-2591`), so that a client is told the state of an application whose definitions it will
  not get before they change again. For the same reason `CopyComplete` fails without the exception `missed`, and `DefsWhateverFails` of
  `ServiceSteering`, where a call may be given up and return `REG_SUCCESS`.
- `QuietAfterDetach` fails with `HandlePause = TRUE`: a detach inside a pause is followed by a report. A second
  pause copies over arguments, which is why `ArgsFaithful` excepts calls that pause (`reused`).
- `CommandsFit` (nothing returned exceeds the caller's arrays) fails with
  `Messages <- Filling`, `MaxCmds = 3`: automatic commands are
  followed by a full message.
- `ValidWhenDue` fails: the tolerance of a tenth of a time step that the declaration of
  `Control_msg_now_valid` describes is commented out in the code (`ReG_Steer_Appside.c:5201`).
- `DefsBeforeStatus` fails with `HandlePause = TRUE`, `Messages <- DeferringPause`, `SteerInterval = 2`: a stored pause that falls
  due in a call that does not steer is carried out and confirmed there, while definitions are only sent by calls that steer.
- `PausedHasSteerer` fails with `Messages <- DeferringPause`: a pause that
  waited for its time is carried out after its client has gone, and nothing
  ends it until another attaches and resumes.
- `AlwaysExclusive` of `FilesSession` fails: two clients pass the test for the lock before either
  creates it, or one survives a restart of the application without noticing (`raced`). `OwnMessages` fails without the exception `crossed`:
  a client that attaches between removal of the lock and of the
  control messages loses its messages; it can read the `DETACH` meant for its
  predecessor; a late `Finalize_connection_files` removes its status messages. And a client whose `DETACH` arrives while the application still lets another
  go is not let go: its message is removed with the rest, which is why `DetachReleases` speaks of an application that runs.
- `DefsFirst` fails even when one client attaches at a time and nothing fails to be sent: an attempt to attach removes
  all status messages *before* it is refused because of the lock, so the
  attached client loses definitions that are sent once.
- `ParamSteering`: `NeverBack` (the application goes back to an old value) and `EditDelivered` fail without the exception of
  edits that a report replaced before they were sent (`replaced`).
- `SampleExchange` with `Faults = {"flush"}` or `{"ack"}`: the emitter waits
  for ever for an acknowledgement that nobody will give (`EmitterFreed`). With
  `UseAck = FALSE` samples arrive out of order, 10 before 9.

- `DefinitionTables`: a table that has grown has rows that nobody wrote; when their handle
  is not `REG_IODEF_HANDLE_NOTSET` by chance they are published (`OnlyRegistered` and `CopyComplete` except them), and the frequency parameters of
  the rows before point to where the table was (`FrequencyFollows` excepts these).
- `SampleStream`: `Delivered` and `Reunited` except a consumer that has left a sample early (`early`), and they fail without that exception. After such a sample
  `Consume_start_data_check` reads 128 bytes at a time, not in step with the packets, and `strstr` stops at the null character that ends the
  closing packet: it misses the beginning of the next sample, and the emitter waits for ever for its acknowledgement.
  (What does hold with `UseAck = FALSE`, `Impatient = FALSE`: `NoGaps`, with five connections.)
- `SocketSteering` with `ResetLoses = TRUE`: the `DETACH` of a client that closes with
  messages unread may be lost; the application, which takes the end of a stream for "no message", serves that
  connection for ever and nobody else is answered. The same holds when a client dies, which is why
  `AttachAnswered` excepts it.
- `NeverBlocks` fails: having read a header, `consume_steering_msg` waits for the body, although
  `Get_control_msg_sockets` says "will this block? we never want it to!".
- `ToldWhateverSaved` of `LogDelivery` fails: when memory fills between two calls of `Steering_control`, `Record_Chkpt` (`ReG_Steer_Appside.c:1177`) saves entries to
  the file that the attached client has not got, and it never gets them. With `MaxLogMsg = 0`, or logs longer than the limit, entries are passed over where a
  message should go on in the next call (`ToldAll`, `AnswerComplete`): `emit_in_progress`, which `ReG_Steer_Common.h:179` describes, is
  never set. So the limit stays out of reach in `logs`.
- `OnceForever` of `ServiceSteering` fails: a status message is given twice when the whole
  document is read again after other UIDs have filled the ring. With `SameSecond = TRUE`: definitions that change twice in a
  second are missed (`DefsKnown`). `StatusInOrder` fails: the latest status message is read alone, and the older ones
  with the next document. An application that restarts acts again on the control messages that the service still shows.

## 6. Not modelled, and the plan

Not modelled: generated gSOAP code, the build system, the Fortran wrappers
(they convert arguments), Base64 and dynamic loading (no state), texts and
layout of XML, `ioProxy` (a separate program).

In this order:

1. `SampleExchange` with a second IOType whose label contains the first (files are matched with `strstr`), and with
   restarts of either side.
2. Samples through the proxy, with `ioProxy` as an external partner; both sides connect to it.
3. The client's reading of logs, and the log of steering commands; `Record_checkpoint_set`.
4. The service: `steererStatus`, logs and checkpoint trees at the service, registries.
5. Several lives of the library in one process: `Steering_finalize` leaves the pointer to stored messages.
6. Theorems: `DefinitionsFirst` for applications that do not steer in every call but have no message waiting; type correctness of `SteeringControl`; the refinement by `"drained"` files.
