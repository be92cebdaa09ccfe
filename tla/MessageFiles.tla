---------------------------- MODULE MessageFiles ----------------------------
(***************************************************************************)
(* One direction of the file-based steering transport: the writer puts     *)
(* message n in the file <base>_<i> and then creates <base>_<i>.lock; the  *)
(* reader looks for lock files, opens what it takes for the oldest file,   *)
(* parses it and deletes first the lock file and then the file.  The index *)
(* i comes from a static counter that wraps at REG_MAX_NUM_FILES.          *)
(*                                                                         *)
(* The two sides are different processes.  A step is one file operation:   *)
(* the reader tries the names of the lock files one by one, upwards and    *)
(* then downwards, and the writer may create lock files behind its back.   *)
(* Times are what stat returns in st_mtime, whole seconds: many files may  *)
(* have the same time.                                                     *)
(*                                                                         *)
(* The code has no flow control.  Policy says how far the writer gets      *)
(* ahead of the reader:                                                    *)
(*   "single"   one message is under way at a time;                        *)
(*   "drained"  the reader has caught up whenever the counter wraps;       *)
(*   "lagging"  files may be pending when it wraps, but not the one that   *)
(*              is to be written;                                          *)
(*   "overrun"  anything may happen.                                       *)
(* With QuietScan no lock file is created while the reader looks for one,  *)
(* which is not what the code does: it tells the order lost by the scan    *)
(* from the order lost by the wrapping of the counter.                     *)
(***************************************************************************)
EXTENDS Integers, Sequences

CONSTANTS NumFiles,  \* REG_MAX_NUM_FILES
          MaxSent,   \* bound: messages written in a behaviour
          MaxClock,  \* bound: seconds that pass in a behaviour
          Policy, QuietScan

ASSUME NumFilesAssumption == NumFiles \in Nat \ {0}
ASSUME PolicyAssumption == Policy \in {"single", "drained", "lagging", "overrun"}

Slots == 0 .. NumFiles - 1

NoFile    == 0     \* content of a slot: no such file
Truncated == -1    \* a file opened for writing and not yet written
NoLock    == -1    \* time of a lock file that does not exist

VARIABLES
  next,      \* output_file_index
  sent,      \* number of messages the writer has begun to write
  wpc, wslot,            \* the writer's progress and its current file
  content,   \* slot -> NoFile, Truncated or the number of a message
  lock,      \* slot -> NoLock or the modification time of its lock file
  clock,     \* seconds
  rpc, pos, low, time1, pick, \* the reader's progress and locals
  received   \* history: numbers of the messages parsed

writerVars == <<next, sent, wpc, wslot>>
readerVars == <<rpc, pos, low, time1, pick, received>>
vars == <<writerVars, content, lock, clock, readerVars>>

Init ==
  /\ next = 0 /\ sent = 0
  /\ wpc = "idle" /\ wslot = 0
  /\ content = [k \in Slots |-> NoFile]
  /\ lock = [k \in Slots |-> NoLock]
  /\ clock = 0
  /\ rpc = "up" /\ pos = 0 /\ low = 0 /\ time1 = 0 /\ pick = 0
  /\ received = << >>

-----------------------------------------------------------------------------
(* The writer: Send_control_msg_files and Send_status_msg_files.           *)

MayWrite ==
  /\ Policy # "overrun" => content[next] = NoFile
  /\ Policy = "single" \/ (Policy = "drained" /\ next = 0)
       => \A k \in Slots : content[k] = NoFile

NextIndex(i) == IF i + 1 = NumFiles THEN 0 ELSE i + 1

\* generate_*_filename and fopen(filename, "w").
OpenOut ==
  /\ wpc = "idle" /\ sent < MaxSent /\ MayWrite
  /\ wpc' = "open" /\ wslot' = next
  /\ next' = NextIndex(next)
  /\ sent' = sent + 1
  /\ content' = [content EXCEPT ![next] = Truncated]
  /\ UNCHANGED <<lock, clock, readerVars>>

\* fprintf and fclose.  If the reader has unlinked the file meanwhile, the
\* text goes to a file without a name.
WriteOut ==
  /\ wpc = "open"
  /\ wpc' = "written"
  /\ content' = [content EXCEPT ![wslot] = IF @ = NoFile THEN NoFile ELSE sent]
  /\ UNCHANGED <<next, sent, wslot, lock, clock, readerVars>>

\* create_lock_file.
LockOut ==
  /\ wpc = "written"
  /\ QuietScan => (rpc = "up" /\ pos = 0) \/ rpc \notin {"up", "down"}
  /\ wpc' = "idle"
  /\ lock' = [lock EXCEPT ![wslot] = clock]
  /\ UNCHANGED <<next, sent, wslot, content, clock, readerVars>>

-----------------------------------------------------------------------------
(* The reader: open_next_file, then the body of Get_control_msg_files and  *)
(* Get_status_msg_files, with delete_file.                                 *)

\* The search upwards finds nothing at this index.
UpMiss ==
  /\ rpc = "up" /\ lock[pos] = NoLock
  /\ pos' = IF pos = NumFiles - 1 THEN 0 ELSE pos + 1
  /\ UNCHANGED <<writerVars, content, lock, clock, rpc, low, time1, pick, received>>

\* It finds a lock file: filename1 and its time.
UpHit ==
  /\ rpc = "up" /\ lock[pos] # NoLock
  /\ low' = pos /\ time1' = lock[pos]
  /\ rpc' = "down" /\ pos' = NumFiles - 1
  /\ UNCHANGED <<writerVars, content, lock, clock, pick, received>>

DownMiss ==
  /\ rpc = "down" /\ lock[pos] = NoLock
  /\ pos' = pos - 1
  /\ UNCHANGED <<writerVars, content, lock, clock, rpc, low, time1, pick, received>>

\* The choice made the other way round when the times are equal.
OlderLax(hi) == IF lock[hi] <= time1 THEN hi ELSE low

\* Of two files with the same time the one with the lower index.
Older(hi) == IF lock[hi] < time1 THEN hi ELSE low

\* The search downwards finds filename2, and the older of the two is opened.
\* The file may be gone, and then open_next_file returns NULL.
DownHit ==
  /\ rpc = "down" /\ lock[pos] # NoLock
  /\ pick' = Older(pos) /\ pos' = 0
  /\ rpc' = IF content[pick'] = NoFile THEN "up" ELSE "opened"
  /\ UNCHANGED <<writerVars, content, lock, clock, low, time1, received>>

\* A file that is not deleted once it has been parsed.
ParseKeeps ==
  /\ rpc = "opened"
  /\ rpc' = "up"
  /\ received' = IF content[pick] > 0 THEN Append(received, content[pick])
                                      ELSE received
  /\ UNCHANGED <<writerVars, content, lock, clock, pos, low, time1, pick>>

\* Parse_xml_file; a message cut short does not parse and is dropped.
Parse ==
  /\ rpc = "opened"
  /\ rpc' = "parsed"
  /\ received' = IF content[pick] > 0 THEN Append(received, content[pick])
                                      ELSE received
  /\ UNCHANGED <<writerVars, content, lock, clock, pos, low, time1, pick>>

\* delete_file that leaves the lock file behind.
DeleteLockKeeps ==
  /\ rpc = "parsed"
  /\ rpc' = "unlocked"
  /\ UNCHANGED <<writerVars, content, lock, clock, pos, low, time1, pick, received>>

\* delete_file, first half: the lock file.
DeleteLock ==
  /\ rpc = "parsed"
  /\ rpc' = "unlocked"
  /\ lock' = [lock EXCEPT ![pick] = NoLock]
  /\ UNCHANGED <<writerVars, content, clock, pos, low, time1, pick, received>>

\* delete_file, second half: the data file.
DeleteData ==
  /\ rpc = "unlocked"
  /\ rpc' = "up"
  /\ content' = [content EXCEPT ![pick] = NoFile]
  /\ UNCHANGED <<writerVars, lock, clock, pos, low, time1, pick, received>>

-----------------------------------------------------------------------------
Tick == /\ clock < MaxClock
        /\ clock' = clock + 1
        /\ UNCHANGED <<writerVars, content, lock, readerVars>>

Writer == OpenOut \/ WriteOut \/ LockOut
Reader == UpMiss \/ UpHit \/ DownMiss \/ DownHit
            \/ Parse \/ DeleteLock \/ DeleteData
Next == Writer \/ Reader \/ Tick

Spec == Init /\ [][Next]_vars

\* A writer that has opened a file finishes it, and the reader keeps polling:
\* Steering_control and Get_next_message are called over and over.
Fairness == WF_vars(WriteOut \/ LockOut) /\ WF_vars(Reader)

FairSpec == Spec /\ Fairness

-----------------------------------------------------------------------------
TypeOK ==
  /\ next \in Slots /\ wslot \in Slots /\ pos \in Slots
  /\ low \in Slots /\ pick \in Slots
  /\ sent \in Nat /\ clock \in Nat /\ time1 \in Nat
  /\ wpc \in {"idle", "open", "written"}
  /\ rpc \in {"up", "down", "opened", "parsed", "unlocked"}
  /\ content \in [Slots -> Int]
  /\ lock \in [Slots -> Nat \cup {NoLock}]
  /\ received \in Seq(Nat \ {0})

\* Messages are read in the order in which they were written, none skipped:
\* "open the oldest file that we've found" (open_next_file).
InOrder == \A i \in 1 .. Len(received) : received[i] = i

\* No message is parsed twice: once parsed, a file is gone before the next
\* scan.
NoDuplicate ==
  \A i, j \in 1 .. Len(received) : received[i] = received[j] => i = j

Delivered == {received[i] : i \in 1 .. Len(received)}

\* Every message written so far has been read or is still in a file of its
\* own: wrapping the counter loses nothing that was not overrun.
NothingLost ==
  \A m \in 1 .. sent :
     \/ m \in Delivered
     \/ \E k \in Slots : content[k] = m
     \/ m = sent /\ wpc = "open"

\* The lock file is what makes a file safe to read: the reader never holds a
\* file that the writer has truncated and not finished.
ReadsWholeFiles == rpc \in {"opened", "parsed"} => content[pick] # Truncated

\* Together: every message is in a file until it is read, whole and once, whatever
\* the order and whenever the counter wraps.
OnceAndWhole == NoDuplicate /\ NothingLost /\ ReadsWholeFiles

\* Every message is read eventually, whatever the order.
EventuallyDelivered ==
  \A m \in 1 .. MaxSent : sent >= m ~> m \in Delivered

\* The files implement the FIFO channel: when one message is under way at a
\* time, or when the reader catches up before the counter wraps and sees the
\* directory as it is at one moment.
Channel == INSTANCE MessageChannel WITH sent <- sent, received <- received
ChannelSpec == Channel!Spec
=============================================================================
