----------------------- MODULE FilesAndService_proofs -----------------------
(***************************************************************************)
(* Theorems about MessageFiles, for every number of files, every bound on  *)
(* messages and seconds, and about ServiceSteering, for every size of the  *)
(* service's buffer and of the memory of UIDs: the two transports that     *)
(* leave it to the reader to know what it has read.                        *)
(***************************************************************************)
EXTENDS MessageFiles, ServiceSteering, SequenceTheorems, FiniteSetTheorems, TLAPS

\* The lock file that the search upwards has found stays while the search
\* downwards looks for another, and stops it.
SearchInv == rpc = "down" => lock[low] # NoLock /\ low <= pos

TypeInv == TypeOK /\ SearchInv

LEMMA TypeInit == Init => TypeInv
  BY NumFilesAssumption DEF Init, TypeInv, TypeOK, SearchInv, Slots, NoFile, NoLock

LEMMA TypeStep == TypeInv /\ [Next]_vars => TypeInv'
<1> SUFFICES ASSUME TypeInv, [Next]_vars PROVE TypeInv'
  OBVIOUS
<1> USE NumFilesAssumption DEF TypeInv, TypeOK, SearchInv, Slots, NoLock, NoFile,
      Truncated, writerVars, readerVars
<1>1. CASE OpenOut
  BY <1>1 DEF OpenOut, NextIndex
<1>2. CASE WriteOut
  BY <1>2 DEF WriteOut
<1>3. CASE LockOut
  BY <1>3 DEF LockOut
<1>4. CASE UpMiss
  BY <1>4 DEF UpMiss
<1>5. CASE UpHit
  BY <1>5 DEF UpHit
<1>6. CASE DownMiss
  <2>1. pos # low
    BY <1>6 DEF DownMiss
  <2> QED BY <2>1, <1>6 DEF DownMiss
<1>7. CASE DownHit
  BY <1>7 DEF DownHit, Older
<1>8. CASE Parse
  <2>1. content[pick] > 0 => Append(received, content[pick]) \in Seq(Nat \ {0})
    OBVIOUS
  <2> QED BY <2>1, <1>8 DEF Parse
<1>9. CASE DeleteLock
  BY <1>9 DEF DeleteLock
<1>10. CASE DeleteData
  BY <1>10 DEF DeleteData
<1>11. CASE Tick
  BY <1>11 DEF Tick
<1>12. CASE UNCHANGED vars
  BY <1>12 DEF vars
<1> QED BY <1>1, <1>2, <1>3, <1>4, <1>5, <1>6, <1>7, <1>8, <1>9, <1>10, <1>11,
           <1>12 DEF Next, Writer, Reader

\* The variables keep their types and the scan stays within the names of the
\* files, whatever the policy.
THEOREM Typing == Spec => []TypeOK
<1>1. TypeInv => TypeOK
  BY DEF TypeInv
<1> QED BY TypeInit, TypeStep, <1>1, PTL DEF Spec

-----------------------------------------------------------------------------
(* What holds when no file is overwritten that is still to be read.        *)

\* The file being written has no lock file, and no other file is incomplete.
WriterInv ==
  /\ wpc # "idle" => lock[wslot] = NoLock /\ sent > 0
  /\ wpc = "open" => content[wslot] = Truncated
  /\ wpc = "written" => content[wslot] = sent
  /\ \A k \in Slots : content[k] = Truncated => wpc = "open" /\ k = wslot

\* A lock file stands beside a complete message.
LockInv == \A k \in Slots : lock[k] # NoLock => content[k] > 0

\* Files hold messages that have been written, no message is in two of them.
ContentInv ==
  /\ \A k \in Slots : content[k] \in Truncated .. sent
  /\ \A k \in Slots : wpc = "open" => content[k] # sent
  /\ \A i, j \in Slots : content[i] = content[j] /\ content[i] > 0 => i = j

\* A message that has been read is in no file but the one being deleted.
ReceivedInv ==
  \A i \in 1 .. Len(received) :
    /\ received[i] <= sent
    /\ wpc = "open" => received[i] # sent
    /\ \A k \in Slots : content[k] = received[i]
                          => rpc \in {"parsed", "unlocked"} /\ k = pick

\* The file that the reader holds.
ReaderInv ==
  /\ rpc \in {"opened", "parsed"} => lock[pick] # NoLock
  /\ rpc = "unlocked" => /\ content[pick] > 0 /\ lock[pick] = NoLock
                         /\ ~(wpc = "written" /\ wslot = pick)
  /\ rpc \in {"parsed", "unlocked"} =>
       \E i \in 1 .. Len(received) : received[i] = content[pick]

SafeInv == /\ WriterInv /\ LockInv /\ ContentInv /\ ReceivedInv /\ ReaderInv
           /\ NoDuplicate /\ NothingLost

LEMMA SafeInit == Init => SafeInv
  BY NumFilesAssumption DEF Init, SafeInv, WriterInv, LockInv, ContentInv,
    ReceivedInv, ReaderInv, NoDuplicate, NothingLost, Slots, NoFile, NoLock, Truncated

LEMMA SafeStep ==
  TypeInv /\ SafeInv /\ Policy # "overrun" /\ [Next]_vars => SafeInv'
<1> SUFFICES ASSUME TypeInv, SafeInv, Policy # "overrun", [Next]_vars
             PROVE  SafeInv'
  OBVIOUS
<1> USE NumFilesAssumption DEF TypeInv, TypeOK, SearchInv, Slots, NoLock, NoFile,
      Truncated, writerVars, readerVars, SafeInv
<1>1. CASE OpenOut
  <2> USE <1>1 DEF OpenOut, MayWrite
  <2>0. content[next] = NoFile /\ lock[next] = NoLock
    BY DEF LockInv
  <2>1. WriterInv'
    BY <2>0 DEF WriterInv, LockInv
  <2>2. LockInv'
    BY <2>0 DEF LockInv
  <2>3. ContentInv'
    BY <2>0 DEF ContentInv, WriterInv
  <2>4. ReceivedInv'
    BY <2>0 DEF ReceivedInv, ContentInv
  <2>5. ReaderInv'
    BY <2>0 DEF ReaderInv, LockInv, WriterInv
  <2>6. NothingLost'
    <3> SUFFICES ASSUME NEW m \in 1 .. sent + 1
                 PROVE  \/ m \in Delivered' \/ \E k \in Slots : content'[k] = m
                        \/ m = sent' /\ wpc' = "open"
      BY DEF NothingLost
    <3>1. CASE m = sent + 1
      BY <3>1
    <3>2. CASE m \in 1 .. sent
      <4>1. m \in Delivered \/ \E k \in Slots : content[k] = m
        BY <3>2 DEF NothingLost
      <4>2. ASSUME NEW k \in Slots, content[k] = m PROVE content'[k] = m
        BY <4>2, <2>0
      <4> QED BY <4>1, <4>2 DEF Delivered
    <3> QED BY <3>1, <3>2
  <2>7. NoDuplicate'
    BY DEF NoDuplicate
  <2> QED BY <2>1, <2>2, <2>3, <2>4, <2>5, <2>6, <2>7
<1>2. CASE WriteOut
  <2> USE <1>2 DEF WriteOut
  <2>0. content[wslot] = Truncated /\ content' = [content EXCEPT ![wslot] = sent]
    BY DEF WriterInv
  <2>1. WriterInv'
    BY <2>0 DEF WriterInv
  <2>2. LockInv'
    BY <2>0 DEF LockInv, WriterInv
  <2>3. ContentInv'
    BY <2>0 DEF ContentInv, WriterInv
  <2>4. ReceivedInv'
    BY <2>0 DEF ReceivedInv, ContentInv
  <2>5. ReaderInv'
    BY <2>0 DEF ReaderInv, WriterInv, LockInv
  <2>6. NothingLost'
    <3> SUFFICES ASSUME NEW m \in 1 .. sent
                 PROVE  m \in Delivered' \/ \E k \in Slots : content'[k] = m
      BY DEF NothingLost
    <3>1. ASSUME NEW k \in Slots, content[k] = m PROVE content'[k] = m
      BY <3>1, <2>0
    <3>2. content'[wslot] = sent
      BY <2>0
    <3>3. Delivered' = Delivered
      BY DEF Delivered
    <3> QED BY <3>1, <3>2, <3>3 DEF NothingLost
  <2>7. NoDuplicate'
    BY DEF NoDuplicate
  <2> QED BY <2>1, <2>2, <2>3, <2>4, <2>5, <2>6, <2>7
<1>3. CASE LockOut
  <2> USE <1>3 DEF LockOut
  <2>1. WriterInv'
    BY DEF WriterInv
  <2>2. LockInv'
    BY DEF LockInv, WriterInv
  <2>3. ContentInv'
    BY DEF ContentInv
  <2>4. ReceivedInv'
    BY DEF ReceivedInv
  <2>5. ReaderInv'
    BY DEF ReaderInv, WriterInv
  <2>6. NothingLost'
    BY DEF NothingLost, Delivered
  <2>7. NoDuplicate'
    BY DEF NoDuplicate
  <2> QED BY <2>1, <2>2, <2>3, <2>4, <2>5, <2>6, <2>7
<1>4. CASE UpMiss \/ UpHit \/ DownMiss \/ Tick \/ UNCHANGED vars
  <2>1. /\ UNCHANGED <<writerVars, content, lock, pick, received>>
        /\ rpc' \in {"up", "down"} \/ rpc' = rpc
    BY <1>4 DEF UpMiss, UpHit, DownMiss, Tick, vars
  <2>2. WriterInv' /\ LockInv' /\ ContentInv'
    BY <2>1 DEF WriterInv, LockInv, ContentInv
  <2>3. ReceivedInv'
    <3>1. rpc \in {"parsed", "unlocked"} => rpc' = rpc
      BY <1>4 DEF UpMiss, UpHit, DownMiss, Tick, vars
    <3> QED BY <2>1, <3>1 DEF ReceivedInv
  <2>4. ReaderInv'
    BY <2>1 DEF ReaderInv
  <2>5. NothingLost' /\ NoDuplicate'
    BY <2>1 DEF NothingLost, Delivered, NoDuplicate
  <2> QED BY <2>2, <2>3, <2>4, <2>5
<1>5. CASE DownHit
  <2> USE <1>5 DEF DownHit
  <2>1. pick' \in Slots /\ lock[pick'] # NoLock
    BY DEF Older
  <2>2. ReaderInv'
    BY <2>1 DEF ReaderInv, LockInv
  <2>3. ReceivedInv'
    BY DEF ReceivedInv
  <2>4. WriterInv' /\ LockInv' /\ ContentInv'
    BY DEF WriterInv, LockInv, ContentInv
  <2>5. NothingLost' /\ NoDuplicate'
    BY DEF NothingLost, Delivered, NoDuplicate
  <2> QED BY <2>2, <2>3, <2>4, <2>5
<1>6. CASE Parse
  <2> USE <1>6 DEF Parse
  <2>0. /\ content[pick] > 0 /\ received' = Append(received, content[pick])
        /\ Len(received') = Len(received) + 1
        /\ \A i \in 1 .. Len(received) : received'[i] = received[i]
        /\ received'[Len(received) + 1] = content[pick]
    BY DEF ReaderInv, LockInv
  <2>1. \A i \in 1 .. Len(received) : received[i] # content[pick]
    BY DEF ReceivedInv
  <2>2. ReceivedInv'
    BY <2>0 DEF ReceivedInv, ContentInv
  <2>3. ReaderInv'
    BY <2>0 DEF ReaderInv
  <2>4. WriterInv' /\ LockInv' /\ ContentInv'
    BY DEF WriterInv, LockInv, ContentInv
  <2>5. NoDuplicate'
    BY <2>0, <2>1 DEF NoDuplicate
  <2>6. NothingLost'
    <3>1. Delivered \subseteq Delivered'
      BY <2>0 DEF Delivered
    <3> QED BY <3>1 DEF NothingLost
  <2> QED BY <2>2, <2>3, <2>4, <2>5, <2>6
<1>7. CASE DeleteLock
  <2> USE <1>7 DEF DeleteLock
  <2>1. WriterInv' /\ LockInv' /\ ContentInv'
    BY DEF WriterInv, LockInv, ContentInv
  <2>2. ReaderInv'
    BY DEF ReaderInv, LockInv, WriterInv
  <2>3. ReceivedInv'
    BY DEF ReceivedInv
  <2>4. NothingLost' /\ NoDuplicate'
    BY DEF NothingLost, Delivered, NoDuplicate
  <2> QED BY <2>1, <2>2, <2>3, <2>4
<1>8. CASE DeleteData
  <2> USE <1>8 DEF DeleteData
  <2>1. WriterInv'
    BY DEF WriterInv, ReaderInv
  <2>2. LockInv'
    BY DEF LockInv, ReaderInv
  <2>3. ContentInv'
    BY DEF ContentInv, WriterInv
  <2>4. ReceivedInv'
    BY DEF ReceivedInv
  <2>5. ReaderInv'
    BY DEF ReaderInv
  <2>6. NothingLost'
    <3>1. content[pick] \in Delivered
      BY DEF ReaderInv, Delivered
    <3>2. Delivered' = Delivered
      BY DEF Delivered
    <3>3. \A k \in Slots : k # pick => content'[k] = content[k]
      OBVIOUS
    <3> QED BY <3>1, <3>2, <3>3 DEF NothingLost
  <2>7. NoDuplicate'
    BY DEF NoDuplicate
  <2> QED BY <2>1, <2>2, <2>3, <2>4, <2>5, <2>6, <2>7
<1> QED BY <1>1, <1>2, <1>3, <1>4, <1>5, <1>6, <1>7, <1>8 DEF Next, Writer, Reader

\* As long as no file that is still to be read is overwritten, no message is
\* parsed twice, whatever the order in which the scan finds the files.
THEOREM ParsedOnce == ASSUME Policy # "overrun" PROVE Spec => []NoDuplicate
<1>1. SafeInv => NoDuplicate
  BY DEF SafeInv
<1>2. TypeInv /\ SafeInv /\ [Next]_vars => SafeInv'
  BY SafeStep
<1> QED BY TypeInit, TypeStep, SafeInit, <1>1, <1>2, PTL DEF Spec

\* As long as no file that is still to be read is overwritten, no message is
\* lost: each is read or in a file.
THEOREM KeptUntilRead == ASSUME Policy # "overrun" PROVE Spec => []NothingLost
<1>1. SafeInv => NothingLost
  BY DEF SafeInv
<1>2. TypeInv /\ SafeInv /\ [Next]_vars => SafeInv'
  BY SafeStep
<1> QED BY TypeInit, TypeStep, SafeInit, <1>1, <1>2, PTL DEF Spec

\* The reader never has a file that the writer has not finished.
THEOREM NoPartialRead == ASSUME Policy # "overrun" PROVE Spec => []ReadsWholeFiles
<1>1. TypeInv /\ SafeInv => ReadsWholeFiles
  BY DEF TypeInv, TypeOK, SafeInv, ReadsWholeFiles, ReaderInv, LockInv, Truncated
<1>2. TypeInv /\ SafeInv /\ [Next]_vars => SafeInv'
  BY SafeStep
<1> QED BY TypeInit, TypeStep, SafeInit, <1>1, <1>2, PTL DEF Spec

\* The three together: whatever the order in which messages are read, each is read
\* whole and once, or still waits in its file.
THEOREM ReadOnceAndWhole == ASSUME Policy # "overrun" PROVE Spec => []OnceAndWhole
<1>1. NoDuplicate /\ NothingLost /\ ReadsWholeFiles => OnceAndWhole
  BY DEF OnceAndWhole
<1> QED BY ParsedOnce, KeptUntilRead, NoPartialRead, <1>1, PTL

-----------------------------------------------------------------------------
(* One message under way at a time: the files implement the channel.       *)

Busy == wpc # "idle" \/ \E k \in Slots : content[k] > 0 /\ rpc \notin {"parsed", "unlocked"}

\* There is at most one file, it is that of the last message, and all others
\* have been read in their order.
OneInv ==
  /\ \A i, j \in Slots : content[i] # NoFile /\ content[j] # NoFile => i = j
  /\ \A k \in Slots : content[k] \in {NoFile, Truncated, sent}
  /\ InOrder
  /\ Len(received) = IF Busy THEN sent - 1 ELSE sent

LEMMA OneInit == Init => OneInv
  BY NumFilesAssumption DEF Init, OneInv, InOrder, Busy, Slots, NoFile, Truncated

\* A step of the files is a step of the channel or none at all.
LEMMA OneStep ==
  ASSUME Policy = "single", TypeInv, SafeInv, OneInv, [Next]_vars
  PROVE  OneInv' /\ [Channel!Next]_(Channel!chanVars)
<1> USE NumFilesAssumption DEF TypeInv, TypeOK, SearchInv, Slots, NoLock, NoFile,
      Truncated, writerVars, readerVars, SafeInv
<1> USE DEF Channel!Next, Channel!Send, Channel!Deliver, Channel!chanVars
<1>0. rpc \in {"opened", "parsed", "unlocked"} => wpc = "idle" /\ content[pick] = sent
  BY DEF OneInv, WriterInv, LockInv, ReaderInv
<1>1. CASE OpenOut
  <2> USE <1>1 DEF OpenOut
  <2>1. \A k \in Slots : content[k] = NoFile
    BY DEF MayWrite
  <2>2. Len(received) = sent
    BY <2>1 DEF OneInv, Busy
  <2> QED BY <2>1, <2>2 DEF OneInv, Busy, InOrder
<1>2. CASE WriteOut
  <2> USE <1>2 DEF WriteOut
  <2>0. content[wslot] = Truncated /\ content' = [content EXCEPT ![wslot] = sent]
    BY DEF WriterInv
  <2>1. Busy /\ Busy'
    BY DEF Busy
  <2> QED BY <2>0, <2>1 DEF OneInv, InOrder
<1>3. CASE LockOut
  <2> USE <1>3 DEF LockOut
  <2>1. content[wslot] > 0 /\ rpc \notin {"parsed", "unlocked"}
    BY <1>0 DEF WriterInv
  <2>2. Busy /\ Busy'
    BY <2>1 DEF Busy
  <2> QED BY <2>2 DEF OneInv, InOrder
<1>4. CASE UpMiss \/ UpHit \/ DownMiss \/ DownHit \/ Tick \/ UNCHANGED vars
  <2>1. UNCHANGED <<writerVars, content, received>>
    BY <1>4 DEF UpMiss, UpHit, DownMiss, DownHit, Tick, vars
  <2>2. rpc \in {"parsed", "unlocked"} <=> rpc' \in {"parsed", "unlocked"}
    BY <1>4 DEF UpMiss, UpHit, DownMiss, DownHit, Tick, vars
  <2>3. Busy' <=> Busy
    BY <2>1, <2>2 DEF Busy
  <2> QED BY <2>1, <2>3 DEF OneInv, InOrder
<1>5. CASE Parse
  <2> USE <1>5 DEF Parse
  <2>1. content[pick] = sent /\ content[pick] > 0 /\ wpc = "idle"
    BY <1>0 DEF ReaderInv, LockInv
  <2>2. Len(received) = sent - 1 /\ ~Busy'
    BY <2>1 DEF OneInv, Busy
  <2>3. received' = Append(received, Len(received) + 1)
    BY <2>1, <2>2
  <2> QED BY <2>2, <2>3 DEF OneInv, InOrder
<1>6. CASE DeleteLock
  <2> USE <1>6 DEF DeleteLock
  <2>1. Busy' <=> Busy
    BY DEF Busy
  <2> QED BY <2>1 DEF OneInv, InOrder
<1>7. CASE DeleteData
  <2> USE <1>7 DEF DeleteData
  <2>1. wpc = "idle" /\ ~Busy
    BY <1>0 DEF Busy
  <2>2. \A k \in Slots : content'[k] = NoFile
    BY <1>0 DEF OneInv, ReaderInv
  <2>3. ~Busy'
    BY <2>1, <2>2 DEF Busy
  <2> QED BY <2>1, <2>2, <2>3 DEF OneInv, InOrder
<1> QED BY <1>1, <1>2, <1>3, <1>4, <1>5, <1>6, <1>7 DEF Next, Writer, Reader

\* When one message is under way at a time the files implement the channel
\* that callers of Get_control_msg and Get_status_msg expect.
THEOREM Refinement == ASSUME Policy = "single" PROVE Spec => ChannelSpec
<1>1. Init => Channel!Init
  BY DEF Init, Channel!Init
<1>2. TypeInv /\ SafeInv /\ [Next]_vars => SafeInv'
  BY SafeStep
<1>3. TypeInv /\ SafeInv /\ OneInv /\ [Next]_vars
        => OneInv' /\ [Channel!Next]_(Channel!chanVars)
  BY OneStep
<1> QED BY TypeInit, TypeStep, SafeInit, OneInit, <1>1, <1>2, <1>3,
           PTL DEF Spec, ChannelSpec, Channel!Spec

-----------------------------------------------------------------------------
(* ServiceSteering: sequences, and what may be taken from a document.      *)

LEMMA Elements ==
  ASSUME NEW T, NEW q \in Seq(T)
  PROVE  /\ Len(q) \in Nat /\ DOMAIN q = 1 .. Len(q)
         /\ \A i \in 1 .. Len(q) : q[i] \in T
  OBVIOUS

LEMMA Joined ==
  ASSUME NEW T, NEW s \in Seq(T), NEW t \in Seq(T)
  PROVE  /\ s \o t \in Seq(T) /\ Len(s \o t) = Len(s) + Len(t)
         /\ \A i \in 1 .. Len(s) : (s \o t)[i] = s[i]
         /\ \A i \in 1 .. Len(t) : (s \o t)[Len(s) + i] = t[i]
<1>1. Len(s) \in Nat /\ Len(t) \in Nat
  OBVIOUS
<1>2. \A i \in 1 .. Len(t) : Len(s) + i \in 1 .. Len(s) + Len(t) /\ Len(s) + i > Len(s)
                             /\ Len(s) + i - Len(s) = i
  BY <1>1
<1>3. \A i \in 1 .. Len(s) : i \in 1 .. Len(s) + Len(t) /\ i <= Len(s)
  BY <1>1
<1> QED BY <1>2, <1>3, ConcatProperties

\* Induction over the positions in a document.
LEMMA Counting ==
  ASSUME NEW n \in Nat, NEW G, 0 \in G, \A i \in 1 .. n : i - 1 \in G => i \in G
  PROVE  \A i \in 0 .. n : i \in G
<1> SUFFICES ASSUME NEW b \in 0 .. n, b \notin G PROVE FALSE
  OBVIOUS
<1> DEFINE B == {i \in 0 .. n : i \notin G}
           Less == {ss \in Nat \X Nat : ss[1] < ss[2]}
<1>1. IsWellFoundedOn(Less, Nat)
  BY NatLessThanWellFounded DEF OpToRel
<1>2. B \in SUBSET Nat /\ B # {}
  OBVIOUS
<1>3. PICK x \in B : \A y \in B : ~(<<y, x>> \in Less)
  BY <1>1, <1>2, WFMin
<1>4. x \in 1 .. n /\ x - 1 \in 0 .. n
  <2>1. x # 0
    BY <1>3
  <2> QED BY <1>3, <2>1
<1>5. x - 1 \in G
  <2> SUFFICES ASSUME x - 1 \notin G PROVE FALSE
    OBVIOUS
  <2>1. x - 1 \in B
    BY <1>4
  <2>2. <<x - 1, x>> \in Less
    BY <1>4
  <2> QED BY <1>3, <2>1, <2>2
<1> QED BY <1>3, <1>4, <1>5

Kinds   == {"status", "control", "defs"}
Stamped == [uid : Nat, kind : Kinds, n : Nat]

\* A memory of UIDs.
Remembered(H) ==
  /\ H \in Seq(Nat) /\ Len(H) <= History
  /\ \A i, j \in 1 .. Len(H) : H[i] = H[j] => i = j

\* The UID u is in memory, and only UIDs in A have been added since.
Tracked(H, u, A) ==
  \E p \in 1 .. Len(H) : H[p] = u /\ \A j \in 1 .. Len(H) : j > p => H[j] \in A

LEMMA TrackedMore ==
  ASSUME NEW H, NEW u, NEW A, NEW B, A \subseteq B, Tracked(H, u, A)
  PROVE  Tracked(H, u, B)
  BY DEF Tracked

LEMMA TrackedIn ==
  ASSUME NEW H \in Seq(Nat), NEW u, NEW A, Tracked(H, u, A)
  PROVE  u \in Range(H)
<1>1. DOMAIN H = 1 .. Len(H)
  BY Elements
<1> QED BY <1>1 DEF Tracked, Range

\* A buffer of at most max elements to which x is added.
LEMMA Sliding ==
  ASSUME NEW T, NEW q \in Seq(T), NEW x \in T, NEW max \in Nat \ {0}, Len(q) <= max
  PROVE  LET R == Append(IF Len(q) = max THEN Tail(q) ELSE q, x)
             d == IF Len(q) = max THEN 1 ELSE 0
         IN  /\ R \in Seq(T) /\ Len(R) = Len(q) - d + 1 /\ R[Len(R)] = x
             /\ d \in {0, 1} /\ Len(q) \in Nat /\ Len(q) >= d /\ Len(R) <= max
             /\ \A i \in 1 .. Len(q) - d : R[i] = q[i + d]
<1> DEFINE n == Len(q)
           R == Append(IF n = max THEN Tail(q) ELSE q, x)
           d == IF n = max THEN 1 ELSE 0
<1>1. q \in Seq(T) /\ n \in Nat /\ n <= max /\ max \in Nat \ {0}
  BY Elements
<1>2. CASE n = max
  <2>1. q # << >>
    BY <1>1, <1>2, EmptySeq
  <2>2. /\ Tail(q) \in Seq(T) /\ Len(Tail(q)) = n - 1
        /\ \A i \in 1 .. Len(Tail(q)) : Tail(q)[i] = q[i + 1]
    BY <1>1, <2>1, HeadTailProperties
  <2>3. R = Append(Tail(q), x) /\ d = 1
    BY <1>2
  <2> HIDE DEF R, d
  <2>4. /\ R \in Seq(T) /\ Len(R) = Len(Tail(q)) + 1
        /\ \A i \in 1 .. Len(Tail(q)) : R[i] = Tail(q)[i]
        /\ R[Len(Tail(q)) + 1] = x
    BY <2>2, <2>3, AppendProperties
  <2>5. Len(R) = n /\ n - 1 + 1 = n
    BY <1>1, <2>2, <2>4
  <2>6. \A i \in 1 .. n - d : R[i] = q[i + d]
    BY <2>2, <2>3, <2>4
  <2> HIDE DEF n
  <2>7. Len(R) = n - d + 1 /\ R[Len(R)] = x /\ d \in {0, 1} /\ n >= d /\ Len(R) <= max
    BY <1>1, <1>2, <2>2, <2>3, <2>4, <2>5
  <2> QED BY <1>1, <2>4, <2>6, <2>7 DEF R, d, n
<1>3. CASE n # max
  <2>3. R = Append(q, x) /\ d = 0
    BY <1>3
  <2> HIDE DEF R, d
  <2>4. R \in Seq(T) /\ Len(R) = n + 1 /\ (\A i \in 1 .. n : R[i] = q[i]) /\ R[n + 1] = x
    BY <1>1, <2>3, AppendProperties
  <2> HIDE DEF n
  <2>5. \A i \in 1 .. n - d : R[i] = q[i + d]
    BY <1>1, <2>3, <2>4
  <2>6. Len(R) = n - d + 1 /\ R[Len(R)] = x /\ d \in {0, 1} /\ n >= d /\ Len(R) <= max
    BY <1>1, <1>3, <2>3, <2>4
  <2> QED BY <1>1, <2>4, <2>5, <2>6 DEF R, d, n
<1> QED BY <1>2, <1>3

LEMMA RememberIs ==
  ASSUME NEW H, Remembered(H), NEW u \in Nat
  PROVE  LET R == Remember(H, u)
             d == IF Len(H) = History THEN 1 ELSE 0
         IN  /\ R \in Seq(Nat) /\ Len(R) = Len(H) - d + 1 /\ R[Len(R)] = u
             /\ d \in {0, 1} /\ Len(H) \in Nat /\ Len(H) >= d /\ Len(R) <= History
             /\ \A i \in 1 .. Len(H) - d : R[i] = H[i + d]
<1>1. H \in Seq(Nat) /\ Len(H) <= History /\ History \in Nat \ {0}
  BY ServiceAssumption DEF Remembered
<1> QED BY <1>1, Sliding DEF Remember

LEMMA RememberKeeps ==
  ASSUME NEW H, Remembered(H), NEW u \in Nat, u \notin Range(H)
  PROVE  /\ Remembered(Remember(H, u)) /\ Range(Remember(H, u)) \subseteq Range(H) \cup {u}
         /\ Tracked(Remember(H, u), u, {})
<1> DEFINE R == Remember(H, u)
           n == Len(H)
           d == IF n = History THEN 1 ELSE 0
           m == Len(R)
<1>1. /\ R \in Seq(Nat) /\ m = n - d + 1 /\ R[m] = u
      /\ d \in {0, 1} /\ n \in Nat /\ n >= d /\ m <= History
      /\ \A i \in 1 .. n - d : R[i] = H[i + d]
  BY RememberIs
<1>2. DOMAIN R = 1 .. m /\ DOMAIN H = 1 .. n /\ \A i, j \in 1 .. n : H[i] = H[j] => i = j
  BY <1>1, Elements DEF Remembered
<1>3. \A i \in 1 .. n : H[i] # u
  BY <1>2 DEF Range
<1> HIDE DEF R, n, d, m
<1>4. \A i \in 1 .. n - d : i + d \in 1 .. n
  BY <1>1
<1>5. \A i \in 1 .. m : i = m \/ i \in 1 .. n - d
  BY <1>1
<1>6. ASSUME NEW i \in 1 .. m, NEW j \in 1 .. m, R[i] = R[j] PROVE i = j
  <2>1. CASE i \in 1 .. n - d /\ j \in 1 .. n - d
    <3>1. i + d = j + d
      BY <1>1, <1>2, <1>4, <1>6, <2>1
    <3> QED BY <1>1, <2>1, <3>1
  <2>2. CASE i \in 1 .. n - d /\ j = m
    BY <1>1, <1>3, <1>4, <1>6, <2>2
  <2>3. CASE j \in 1 .. n - d /\ i = m
    BY <1>1, <1>3, <1>4, <1>6, <2>3
  <2> QED BY <1>5, <2>1, <2>2, <2>3
<1>7. Remembered(R)
  BY <1>1, <1>6 DEF Remembered, m
<1>8. Range(R) \subseteq Range(H) \cup {u}
  <2> SUFFICES ASSUME NEW i \in 1 .. m PROVE R[i] \in Range(H) \cup {u}
    BY <1>2 DEF Range
  <2>1. CASE i = m
    BY <1>1, <2>1
  <2>2. CASE i \in 1 .. n - d
    BY <1>1, <1>2, <1>4, <2>2 DEF Range
  <2> QED BY <1>5, <2>1, <2>2
<1>9. Tracked(R, u, {})
  <2>1. m \in 1 .. m /\ \A j \in 1 .. m : ~(j > m)
    BY <1>1
  <2> QED BY <1>1, <2>1 DEF Tracked, m
<1> QED BY <1>7, <1>8, <1>9 DEF R

\* With fewer UIDs around than are remembered, what is in memory is not pushed out.
LEMMA RememberTracks ==
  ASSUME NEW H, Remembered(H), NEW u, NEW A, IsFiniteSet(A), Cardinality(A) < History,
         Tracked(H, u, A), NEW w \in Nat, w \in A, w \notin Range(H)
  PROVE  Tracked(Remember(H, w), u, A)
<1> DEFINE R == Remember(H, w)
           n == Len(H)
           d == IF n = History THEN 1 ELSE 0
           m == Len(R)
<1>1. /\ R \in Seq(Nat) /\ m = n - d + 1 /\ R[m] = w
      /\ d \in {0, 1} /\ n \in Nat /\ n >= d /\ m <= History
      /\ \A i \in 1 .. n - d : R[i] = H[i + d]
  BY RememberIs
<1>2. DOMAIN H = 1 .. n /\ \A i, j \in 1 .. n : H[i] = H[j] => i = j
  BY <1>1, Elements DEF Remembered
<1>3. \A i \in 1 .. n : H[i] # w
  BY <1>2 DEF Range
<1>4. PICK p \in 1 .. n : H[p] = u /\ \A j \in 1 .. n : j > p => H[j] \in A
  BY DEF Tracked
<1>5. d = 1 => n = History
  OBVIOUS
<1> HIDE DEF R, n, d, m
<1>6. p > d
  <2> SUFFICES ASSUME p <= d PROVE FALSE
    BY <1>1
  <2>1. d = 1 /\ p = 1 /\ n = History
    BY <1>1, <1>5
  <2> DEFINE g == [i \in 1 .. n |-> IF i = 1 THEN w ELSE H[i]]
  <2>2. g \in [1 .. n -> A]
    BY <1>4, <2>1
  <2>3. \A x, y \in 1 .. n : g[x] = g[y] => x = y
    BY <1>2, <1>3
  <2>4. IsFiniteSet(1 .. n) /\ Cardinality(1 .. n) = n
    <3>1. 1 \in Int /\ n \in Int
      BY <1>1
    <3>2. Cardinality(1 .. n) = (IF 1 > n THEN 0 ELSE n - 1 + 1) /\ IsFiniteSet(1 .. n)
      BY <3>1, FS_Interval, Zenon
    <3> QED BY <1>1, <3>2
  <2> HIDE DEF g
  <2>5. Cardinality(A) < Cardinality(1 .. n)
    BY <2>1, <2>4
  <2> QED BY <2>2, <2>3, <2>4, <2>5, FS_PigeonHole
<1>7. p - d \in 1 .. m /\ p - d \in 1 .. n - d /\ (p - d) + d = p
  BY <1>1, <1>6
<1>8. R[p - d] = u
  BY <1>1, <1>4, <1>7
<1>9. ASSUME NEW j \in 1 .. m, j > p - d PROVE R[j] \in A
  <2>1. CASE j = m
    BY <1>1, <2>1
  <2>2. CASE j # m
    <3>1. j \in 1 .. n - d /\ j + d \in 1 .. n /\ j + d > p
      BY <1>1, <1>9, <2>2
    <3> QED BY <1>1, <1>4, <3>1
  <2> QED BY <2>1, <2>2
<1> QED BY <1>7, <1>8, <1>9 DEF Tracked, R, m

-----------------------------------------------------------------------------
(* Parsing, message by message.                                            *)

States == [seen : Seq(Nat), new : Seq(Stamped)]

\* f is what has been read of doc after each message.
Reads(f, H, doc, n) ==
  /\ f[0] = [seen |-> H, new |-> << >>]
  /\ \A i \in 1 .. n : f[i] = Take(f[i - 1], doc[i])

LEMMA ReadsExist ==
  ASSUME NEW H, NEW doc, NEW n \in Nat
  PROVE  \E f : Reads(f, H, doc, n)
<1> DEFINE G == {i \in Nat : \E f : Reads(f, H, doc, i)}
<1>1. 0 \in G
  <2>1. Reads([i \in {0} |-> [seen |-> H, new |-> << >>]], H, doc, 0)
    BY DEF Reads
  <2> QED BY <2>1
<1>2. ASSUME NEW i \in 1 .. n, i - 1 \in G PROVE i \in G
  <2>1. PICK f : Reads(f, H, doc, i - 1)
    BY <1>2
  <2> DEFINE r == Take(f[i - 1], doc[i])
             g == [j \in 0 .. i |-> IF j = i THEN r ELSE f[j]]
  <2>2. g[i] = r /\ g[i - 1] = f[i - 1] /\ g[0] = f[0]
    OBVIOUS
  <2>3. \A j \in 1 .. i - 1 : g[j] = f[j] /\ g[j - 1] = f[j - 1]
    OBVIOUS
  <2> HIDE DEF g
  <2>4. ASSUME NEW j \in 1 .. i PROVE g[j] = Take(g[j - 1], doc[j])
    <3>1. CASE j = i
      BY <2>2, <3>1
    <3>2. CASE j # i
      <4>1. j \in 1 .. i - 1
        BY <3>2
      <4> QED BY <2>1, <2>3, <4>1 DEF Reads
    <3> QED BY <3>1, <3>2
  <2>5. Reads(g, H, doc, i)
    BY <2>1, <2>2, <2>4 DEF Reads
  <2> QED BY <2>5
<1> HIDE DEF G
<1>3. \A i \in 0 .. n : i \in G
  BY <1>1, <1>2, Counting
<1>4. n \in G
  BY <1>3
<1> QED BY <1>4 DEF G

\* The recursive function of ParseProperties is one such reading.
LEMMA ParseReads ==
  ASSUME NEW H, NEW doc, Len(doc) \in Nat
  PROVE  \E f : Reads(f, H, doc, Len(doc)) /\ ParseProperties(H, doc) = f[Len(doc)]
<1> DEFINE n == Len(doc)
           first == [seen |-> H, new |-> << >>]
           Step(f) == [i \in 0 .. n |->
                         IF i = 0 THEN first
                         ELSE CHOOSE r \in {Take(before, doc[i]) : before \in {f[i - 1]}} : TRUE]
           upTo == CHOOSE f : f = Step(f)
<1>1. ParseProperties(H, doc) = upTo[n]
  BY DEF ParseProperties
<1>2. ASSUME NEW x, NEW m PROVE (CHOOSE r \in {Take(before, m) : before \in {x}} : TRUE) = Take(x, m)
  <2>1. {Take(before, m) : before \in {x}} = {Take(x, m)}
    OBVIOUS
  <2> QED BY <2>1
<1>3. PICK f : Reads(f, H, doc, n)
  BY ReadsExist
<1> DEFINE g == [i \in 0 .. n |-> f[i]]
<1>4. g = Step(g)
  <2>1. ASSUME NEW i \in 1 .. n PROVE g[i] = Take(g[i - 1], doc[i])
    <3>1. g[i] = f[i] /\ g[i - 1] = f[i - 1]
      OBVIOUS
    <3> QED BY <1>3, <3>1 DEF Reads
  <2>2. g[0] = first
    BY <1>3 DEF Reads
  <2>3. ASSUME NEW i \in 0 .. n PROVE g[i] = Step(g)[i]
    <3>1. CASE i = 0
      BY <2>2, <3>1
    <3>2. CASE i # 0
      <4>1. i \in 1 .. n
        BY <3>2
      <4>2. Step(g)[i] = Take(g[i - 1], doc[i])
        BY <1>2, <3>2, Zenon
      <4> QED BY <2>1, <4>1, <4>2, Zenon
    <3> QED BY <3>1, <3>2
  <2> QED BY <2>3
<1>5. upTo = Step(upTo)
  BY <1>4, Zenon
<1> HIDE DEF upTo
<1>6. upTo[0] = first
  BY <1>5
<1>7. ASSUME NEW i \in 1 .. n PROVE upTo[i] = Take(upTo[i - 1], doc[i])
  <2>1. i \in 0 .. n /\ i # 0
    OBVIOUS
  <2>2. upTo[i] = CHOOSE r \in {Take(before, doc[i]) : before \in {upTo[i - 1]}} : TRUE
    BY <1>5, <2>1, Zenon
  <2> QED BY <1>2, <2>2, Zenon
<1> QED BY <1>1, <1>6, <1>7 DEF Reads

\* The UIDs of the messages of doc after message k.
After(doc, k) == {doc[j].uid : j \in k + 1 .. Len(doc)}

LEMMA AfterSize ==
  ASSUME NEW doc \in Seq(Stamped), NEW k \in 0 .. Len(doc)
  PROVE  /\ IsFiniteSet(After(doc, k)) /\ Cardinality(After(doc, k)) \in Nat
         /\ Cardinality(After(doc, k)) <= Len(doc) - k
<1> DEFINE n == Len(doc)
           I == k + 1 .. n
           f == [j \in I |-> doc[j].uid]
<1>0. n \in Nat /\ k \in Nat
  BY Elements
<1>1. IsFiniteSet(I) /\ Cardinality(I) = n - k
  <2>1. k + 1 \in Int /\ n \in Int
    BY <1>0
  <2>2. Cardinality(I) = (IF k + 1 > n THEN 0 ELSE n - (k + 1) + 1) /\ IsFiniteSet(I)
    BY <2>1, FS_Interval, Zenon
  <2> QED BY <1>0, <2>2
<1>2. f \in Surjection(I, After(doc, k))
  BY DEF After, Surjection
<1> HIDE DEF f, I
<1>3. IsFiniteSet(After(doc, k)) /\ Cardinality(After(doc, k)) <= Cardinality(I)
  BY <1>1, <1>2, FS_Surjection
<1>4. Cardinality(After(doc, k)) \in Nat
  BY <1>3, FS_CardinalityType
<1> QED BY <1>1, <1>3, <1>4

\* Of the first i messages none is new.
Known(H, doc, i) == \A j \in 1 .. i : doc[j].uid \in Range(H)

\* What keeps u in memory while doc is read.
Safe(H, doc, u, A) ==
  /\ IsFiniteSet(A) /\ Cardinality(A) < History /\ Tracked(H, u, A)
  /\ \A i \in 1 .. Len(doc) : Known(H, doc, i) \/ doc[i].uid \in A \cup {u}

\* Message k of doc has a UID that has not been seen.
Fresh(H, doc, k) ==
  doc[k].uid \notin Range(H) /\ \A i \in 1 .. k - 1 : doc[i].uid # doc[k].uid

\* What has been read after i messages of doc.  Of the messages after position o it is
\* known that they are few.
Progress(r, H, doc, o, i) ==
  /\ r \in States /\ Remembered(r.seen) /\ (Known(H, doc, i) => r.seen = H)
  /\ Range(r.seen) \subseteq Range(H) \cup {doc[k].uid : k \in 1 .. Len(doc)}
  /\ \A u, A : Safe(H, doc, u, A) => Tracked(r.seen, u, A)
  /\ \E g \in [1 .. Len(r.new) -> 1 .. i] :
       /\ \A a, b \in 1 .. Len(r.new) : a < b => g[a] < g[b]
       /\ \A a \in 1 .. Len(r.new) :
            /\ r.new[a] = doc[g[a]]
            /\ \A A : ~Safe(H, doc, r.new[a].uid, A)
            /\ g[a] > o => Tracked(r.seen, r.new[a].uid, After(doc, g[a]))
  /\ \A k \in 1 .. Len(doc) : Fresh(H, doc, k) =>
       /\ k > i => doc[k].uid \notin Range(r.seen)
       /\ k <= i /\ k > o => Tracked(r.seen, doc[k].uid, After(doc, k))

LEMMA ProgressStarts ==
  ASSUME NEW H, Remembered(H), NEW doc, NEW o
  PROVE  Progress([seen |-> H, new |-> << >>], H, doc, o, 0)
<1> DEFINE r == [seen |-> H, new |-> << >>]
<1>1. r.seen = H /\ r.new = << >> /\ Len(r.new) = 0
  OBVIOUS
<1>2. r \in States
  <2>1. << >> \in Seq(Stamped)
    OBVIOUS
  <2> QED BY <2>1 DEF States, Remembered
<1> HIDE DEF r
<1>3. \E g \in [1 .. Len(r.new) -> 1 .. 0] : TRUE
  <2>1. 1 .. Len(r.new) = {}
    BY <1>1
  <2>2. [x \in {} |-> 0] \in [{} -> 1 .. 0]
    OBVIOUS
  <2> QED BY <2>1, <2>2
<1>4. \A a : ~(a \in 1 .. Len(r.new))
  BY <1>1
<1>5. \A u, A : Safe(H, doc, u, A) => Tracked(r.seen, u, A)
  BY <1>1 DEF Safe
<1>6. \A k \in 1 .. Len(doc) : Fresh(H, doc, k) =>
       /\ k > 0 => doc[k].uid \notin Range(r.seen)
       /\ k <= 0 /\ k > o => Tracked(r.seen, doc[k].uid, After(doc, k))
  <2>1. \A k \in 1 .. Len(doc) : ~(k <= 0)
    OBVIOUS
  <2> QED BY <1>1, <2>1 DEF Fresh
<1>7. Remembered(r.seen) /\ Range(r.seen) \subseteq Range(H) \cup {doc[k].uid : k \in 1 .. Len(doc)}
  BY <1>1
<1>8. Progress(r, H, doc, o, 0)
  BY <1>1, <1>2, <1>3, <1>4, <1>5, <1>6, <1>7 DEF Progress
<1> QED BY <1>8 DEF r

LEMMA ProgressStays ==
  ASSUME NEW H, NEW doc \in Seq(Stamped), NEW o, NEW i \in 1 .. Len(doc), NEW r,
         Progress(r, H, doc, o, i - 1), doc[i].uid \in Range(r.seen)
  PROVE  Progress(r, H, doc, o, i)
<1>1. PICK g \in [1 .. Len(r.new) -> 1 .. i - 1] :
       /\ \A a, b \in 1 .. Len(r.new) : a < b => g[a] < g[b]
       /\ \A a \in 1 .. Len(r.new) :
            /\ r.new[a] = doc[g[a]]
            /\ \A A : ~Safe(H, doc, r.new[a].uid, A)
            /\ g[a] > o => Tracked(r.seen, r.new[a].uid, After(doc, g[a]))
  BY DEF Progress
<1>2. g \in [1 .. Len(r.new) -> 1 .. i]
  OBVIOUS
<1>3. ASSUME NEW k \in 1 .. Len(doc), Fresh(H, doc, k)
      PROVE  /\ k > i => doc[k].uid \notin Range(r.seen)
             /\ k <= i /\ k > o => Tracked(r.seen, doc[k].uid, After(doc, k))
  <2>1. /\ k > i - 1 => doc[k].uid \notin Range(r.seen)
        /\ k <= i - 1 /\ k > o => Tracked(r.seen, doc[k].uid, After(doc, k))
    BY <1>3 DEF Progress
  <2>2. k # i
    BY <2>1
  <2>3. (k > i => k > i - 1) /\ (k <= i => k <= i - 1)
    BY <2>2
  <2> QED BY <2>1, <2>3
<1>4. Known(H, doc, i) => r.seen = H
  BY DEF Known, Progress
<1> QED BY <1>1, <1>2, <1>3, <1>4 DEF Progress

LEMMA ProgressAdds ==
  ASSUME NEW H, NEW doc \in Seq(Stamped), NEW o \in Nat, NEW i \in 1 .. Len(doc), NEW r,
         \A k \in 1 .. Len(doc) : k > o => Len(doc) - k < History,
         Progress(r, H, doc, o, i - 1), doc[i].uid \notin Range(r.seen)
  PROVE  Progress([seen |-> Remember(r.seen, doc[i].uid), new |-> Append(r.new, doc[i])],
                  H, doc, o, i)
<1> DEFINE m == doc[i]
           w == m.uid
           n == Len(doc)
           S == r.seen
           N == r.new
           L == Len(N)
           newS == Remember(S, w)
           newN == Append(N, m)
           q == [seen |-> newS, new |-> newN]
<1>1. m \in Stamped /\ w \in Nat /\ n \in Nat /\ i \in 1 .. n
  <2>1. n \in Nat /\ m \in Stamped /\ i \in 1 .. n
    BY Elements
  <2> HIDE DEF m, n
  <2>2. m.uid \in Nat
    BY <2>1 DEF Stamped
  <2> QED BY <2>1, <2>2
<1>2. /\ S \in Seq(Nat) /\ N \in Seq(Stamped) /\ L \in Nat /\ Remembered(S)
      /\ Range(S) \subseteq Range(H) \cup {doc[k].uid : k \in 1 .. n}
  BY Elements DEF Progress, States
<1>3. PICK g \in [1 .. L -> 1 .. i - 1] :
       /\ \A a, b \in 1 .. L : a < b => g[a] < g[b]
       /\ \A a \in 1 .. L :
            /\ N[a] = doc[g[a]]
            /\ \A A : ~Safe(H, doc, N[a].uid, A)
            /\ g[a] > o => Tracked(S, N[a].uid, After(doc, g[a]))
  BY DEF Progress
<1>4. \A u, A : Safe(H, doc, u, A) => Tracked(S, u, A)
  BY DEF Progress
<1>5. \A k \in 1 .. n : Fresh(H, doc, k) =>
       /\ k > i - 1 => doc[k].uid \notin Range(S)
       /\ k <= i - 1 /\ k > o => Tracked(S, doc[k].uid, After(doc, k))
  BY DEF Progress
<1>6. q.seen = newS /\ q.new = newN
  OBVIOUS
<1>7. ASSUME NEW k \in 1 .. n PROVE k > o => IsFiniteSet(After(doc, k)) /\ Cardinality(After(doc, k)) < History
  <2> HAVE k > o
  <2>1. k \in 0 .. Len(doc) /\ Len(doc) - k < History
    BY <1>1
  <2>2. /\ IsFiniteSet(After(doc, k)) /\ Cardinality(After(doc, k)) \in Nat
        /\ Cardinality(After(doc, k)) <= Len(doc) - k
    BY <2>1, AfterSize
  <2>3. History \in Nat /\ Len(doc) - k \in Int
    BY <1>1, ServiceAssumption
  <2> QED BY <2>1, <2>2, <2>3
<1>8. \A k \in 1 .. n : k < i => w \in After(doc, k)
  <2> SUFFICES ASSUME NEW k \in 1 .. n, k < i PROVE w \in After(doc, k)
    OBVIOUS
  <2>1. i \in k + 1 .. Len(doc)
    BY <1>1
  <2> QED BY <2>1 DEF After
<1>9. w \notin Range(S) /\ ~Known(H, doc, i)
  <2>1. Known(H, doc, i) => Known(H, doc, i - 1) /\ w \in Range(H)
    BY <1>1 DEF Known
  <2> QED BY <2>1 DEF Progress
<1> HIDE DEF S, N, L, newS, newN, n, w, m
<1>10. /\ Remembered(newS) /\ Range(newS) \subseteq Range(S) \cup {w} /\ Tracked(newS, w, {})
  BY <1>1, <1>2, <1>9, RememberKeeps DEF newS
<1>11. /\ newN \in Seq(Stamped) /\ Len(newN) = L + 1
       /\ (\A a \in 1 .. L : newN[a] = N[a]) /\ newN[L + 1] = m
  BY <1>1, <1>2, AppendProperties DEF newN, L
<1>12. ASSUME NEW u, NEW A, IsFiniteSet(A), Cardinality(A) < History, Tracked(S, u, A), w \in A
       PROVE  Tracked(newS, u, A)
  BY <1>1, <1>2, <1>9, <1>12, RememberTracks DEF newS
<1>13. ASSUME NEW u, NEW A, Safe(H, doc, u, A) PROVE Tracked(newS, u, A) /\ w # u
  <2>1. Tracked(S, u, A) /\ IsFiniteSet(A) /\ Cardinality(A) < History /\ w \in A \cup {u}
    BY <1>1, <1>4, <1>9, <1>13 DEF Safe, w, m, n
  <2>2. u \in Range(S)
    BY <1>2, <2>1, TrackedIn
  <2>3. w # u
    BY <1>9, <2>2
  <2> QED BY <1>12, <2>1, <2>3
<1>14. q \in States
  BY <1>6, <1>10, <1>11 DEF States, Remembered, q
<1>15. Range(newS) \subseteq Range(H) \cup {doc[k].uid : k \in 1 .. n}
  <2>1. w \in {doc[k].uid : k \in 1 .. n}
    BY <1>1 DEF w, m
  <2> QED BY <1>2, <1>10, <2>1
<1>16. ASSUME NEW k \in 1 .. n, Fresh(H, doc, k)
       PROVE  /\ k > i => doc[k].uid \notin Range(newS)
              /\ k <= i /\ k > o => Tracked(newS, doc[k].uid, After(doc, k))
  <2>1. CASE k > i
    <3>1. doc[i].uid # doc[k].uid
      <4>1. i \in 1 .. k - 1
        BY <1>1, <2>1
      <4> QED BY <1>16, <4>1 DEF Fresh
    <3>2. doc[k].uid \notin Range(S)
      <4>1. k > i - 1
        BY <1>1, <2>1
      <4> QED BY <1>5, <1>16, <4>1
    <3>3. ~(k <= i)
      BY <1>1, <2>1
    <3> QED BY <1>10, <3>1, <3>2, <3>3 DEF w, m
  <2>2. CASE k = i
    <3>1. Tracked(newS, doc[k].uid, After(doc, k))
      BY <1>10, <2>2, TrackedMore DEF w, m
    <3> QED BY <1>1, <2>2, <3>1
  <2>3. CASE k < i
    <3>1. k <= i - 1 /\ ~(k > i)
      BY <1>1, <2>3
    <3>2. k > o => Tracked(S, doc[k].uid, After(doc, k))
      BY <1>5, <1>16, <3>1
    <3> QED BY <1>7, <1>8, <1>12, <2>3, <3>1, <3>2
  <2> QED BY <1>1, <2>1, <2>2, <2>3
<1> DEFINE h == [a \in 1 .. L + 1 |-> IF a = L + 1 THEN i ELSE g[a]]
<1>17. /\ h \in [1 .. L + 1 -> 1 .. i] /\ h[L + 1] = i /\ \A a \in 1 .. L : h[a] = g[a]
       /\ \A a \in 1 .. L : g[a] < i /\ g[a] \in 1 .. n
  <2>1. \A a \in 1 .. L + 1 : a = L + 1 \/ a \in 1 .. L
    BY <1>2
  <2>2. \A a \in 1 .. L : a # L + 1 /\ a \in 1 .. L + 1
    BY <1>2
  <2>3. L + 1 \in 1 .. L + 1
    BY <1>2
  <2>4. \A x \in 1 .. i - 1 : x \in 1 .. i /\ x < i /\ x \in 1 .. n
    BY <1>1
  <2>5. i \in 1 .. i
    BY <1>1
  <2> QED BY <1>3, <2>1, <2>2, <2>3, <2>4, <2>5
<1> HIDE DEF h
<1>18. \A a \in 1 .. L + 1 : a = L + 1 \/ a \in 1 .. L
  BY <1>2
<1>19. ASSUME NEW a \in 1 .. L + 1, NEW b \in 1 .. L + 1, a < b PROVE h[a] < h[b]
  <2>1. a \in 1 .. L
    BY <1>2, <1>19
  <2>2. CASE b = L + 1
    BY <1>17, <2>1, <2>2
  <2>3. CASE b \in 1 .. L
    BY <1>3, <1>17, <1>19, <2>1, <2>3
  <2> QED BY <1>18, <2>2, <2>3
<1>20. ASSUME NEW a \in 1 .. L + 1
       PROVE  /\ newN[a] = doc[h[a]]
              /\ \A A : ~Safe(H, doc, newN[a].uid, A)
              /\ h[a] > o => Tracked(newS, newN[a].uid, After(doc, h[a]))
  <2>1. CASE a = L + 1
    <3>1. newN[a] = m /\ h[a] = i /\ m = doc[i] /\ m.uid = w
      BY <1>11, <1>17, <2>1 DEF m, w
    <3>2. \A A : ~Safe(H, doc, w, A)
      BY <1>13
    <3>3. Tracked(newS, w, After(doc, i))
      BY <1>10, TrackedMore
    <3> QED BY <3>1, <3>2, <3>3
  <2>2. CASE a \in 1 .. L
    <3>1. newN[a] = N[a] /\ h[a] = g[a] /\ g[a] < i /\ g[a] \in 1 .. n
      BY <1>11, <1>17, <2>2
    <3>2. /\ N[a] = doc[g[a]] /\ \A A : ~Safe(H, doc, N[a].uid, A)
          /\ g[a] > o => Tracked(S, N[a].uid, After(doc, g[a]))
      BY <1>3, <2>2
    <3>3. g[a] > o => Tracked(newS, N[a].uid, After(doc, g[a]))
      BY <1>7, <1>8, <1>12, <3>1, <3>2
    <3> QED BY <3>1, <3>2, <3>3
  <2> QED BY <1>18, <2>1, <2>2
<1>21. \E e \in [1 .. Len(q.new) -> 1 .. i] :
       /\ \A a, b \in 1 .. Len(q.new) : a < b => e[a] < e[b]
       /\ \A a \in 1 .. Len(q.new) :
            /\ q.new[a] = doc[e[a]]
            /\ \A A : ~Safe(H, doc, q.new[a].uid, A)
            /\ e[a] > o => Tracked(q.seen, q.new[a].uid, After(doc, e[a]))
  <2>1. Len(q.new) = L + 1
    BY <1>6, <1>11
  <2> HIDE DEF q
  <2> QED BY <1>6, <1>17, <1>19, <1>20, <2>1
<1> HIDE DEF q
<1>22. Progress(q, H, doc, o, i)
  BY <1>6, <1>9, <1>10, <1>13, <1>14, <1>15, <1>16, <1>21 DEF Progress, n
<1> QED BY <1>22 DEF q, newS, newN, S, N, m, w

LEMMA ParseProgress ==
  ASSUME NEW H, Remembered(H), NEW doc \in Seq(Stamped), NEW o \in Nat,
         \A k \in 1 .. Len(doc) : k > o => Len(doc) - k < History
  PROVE  Progress(ParseProperties(H, doc), H, doc, o, Len(doc))
<1> DEFINE n == Len(doc)
<1>0. n \in Nat
  BY Elements
<1>1. PICK f : Reads(f, H, doc, n) /\ ParseProperties(H, doc) = f[n]
  BY <1>0, ParseReads
<1> DEFINE G == {i \in 0 .. n : Progress(f[i], H, doc, o, i)}
<1>2. 0 \in G
  BY <1>0, <1>1, ProgressStarts DEF Reads
<1>3. ASSUME NEW i \in 1 .. n, i - 1 \in G PROVE i \in G
  <2>1. Progress(f[i - 1], H, doc, o, i - 1)
    BY <1>3
  <2>2. f[i] = Take(f[i - 1], doc[i])
    BY <1>1 DEF Reads
  <2>3. Progress(f[i], H, doc, o, i)
    <3>1. CASE doc[i].uid \in Range(f[i - 1].seen)
      BY <2>1, <2>2, <3>1, ProgressStays DEF Take
    <3>2. CASE doc[i].uid \notin Range(f[i - 1].seen)
      BY <2>1, <2>2, <3>2, ProgressAdds DEF Take
    <3> QED BY <3>1, <3>2
  <2> QED BY <2>3
<1> HIDE DEF G
<1>4. \A i \in 0 .. n : i \in G
  BY <1>0, <1>2, <1>3, Counting
<1>5. n \in G
  BY <1>0, <1>4
<1> QED BY <1>1, <1>5 DEF G

-----------------------------------------------------------------------------
(* The service.                                                            *)

\* The last messages of a kind, of which top have been sent.
Queue(B, kind, top, stamps) ==
  /\ B \in Seq(Stamped) /\ Len(B) <= Buffered
  /\ \A i \in 1 .. Len(B) : B[i].kind = kind /\ B[i].n <= top /\ B[i].uid <= stamps
  /\ \A i, j \in 1 .. Len(B) : i < j => B[i].n < B[j].n /\ B[i].uid < B[j].uid

Counts ==
  /\ uid \in Nat /\ statuses \in Nat /\ controls \in Nat
  /\ versions \in 0 .. MaxDefs /\ modified \in 1 .. versions + 1

ServInv ==
  /\ Counts
  /\ Queue(statusMsg, "status", statuses, uid) /\ Queue(controlMsg, "control", controls, uid)
  /\ defs \in Seq(Stamped) /\ Len(defs) <= 1 /\ \A i \in 1 .. Len(defs) : defs[i].kind = "defs"

LEMMA QueueLater ==
  ASSUME NEW B, NEW kind, NEW top \in Nat, NEW stamps \in Nat, NEW later \in Nat,
         Queue(B, kind, top, stamps), stamps <= later
  PROVE  Queue(B, kind, top, later)
<1>1. \A i \in 1 .. Len(B) : B[i].uid \in Nat
  <2>1. \A i \in 1 .. Len(B) : B[i] \in Stamped
    BY Elements DEF Queue
  <2> QED BY <2>1 DEF Stamped
<1>2. \A i \in 1 .. Len(B) : B[i].uid <= later
  <2> SUFFICES ASSUME NEW i \in 1 .. Len(B) PROVE B[i].uid <= later
    OBVIOUS
  <2>1. B[i].uid \in Nat /\ B[i].uid <= stamps
    BY <1>1 DEF Queue
  <2> QED BY <2>1
<1> QED BY <1>2 DEF Queue

LEMMA BufferIs ==
  ASSUME NEW B \in Seq(Stamped), Len(B) <= Buffered, NEW m \in Stamped
  PROVE  LET R == Buffer(B, m)
             d == IF Len(B) = Buffered THEN 1 ELSE 0
         IN  /\ R \in Seq(Stamped) /\ Len(R) = Len(B) - d + 1 /\ R[Len(R)] = m
             /\ d \in {0, 1} /\ Len(B) \in Nat /\ Len(B) >= d /\ Len(R) <= Buffered
             /\ \A i \in 1 .. Len(B) - d : R[i] = B[i + d]
<1>1. Buffered \in Nat \ {0}
  BY ServiceAssumption
<1> QED BY <1>1, Sliding DEF Buffer

LEMMA QueueAdds ==
  ASSUME NEW B, NEW kind \in Kinds, NEW top \in Nat, uid \in Nat, Queue(B, kind, top, uid)
  PROVE  Queue(Buffer(B, Message(kind, top + 1)), kind, top + 1, uid + 1)
<1> DEFINE m == Message(kind, top + 1)
           R == Buffer(B, m)
           n == Len(B)
           d == IF n = Buffered THEN 1 ELSE 0
           l == Len(R)
<1>1. m \in Stamped /\ m.kind = kind /\ m.n = top + 1 /\ m.uid = uid + 1
  BY DEF Message, Stamped
<1> HIDE DEF m
<1>2. /\ R \in Seq(Stamped) /\ l = n - d + 1 /\ R[l] = m
      /\ d \in {0, 1} /\ n \in Nat /\ n >= d /\ l <= Buffered
      /\ \A i \in 1 .. n - d : R[i] = B[i + d]
  BY <1>1, BufferIs DEF Queue
<1>3. /\ \A i \in 1 .. n : B[i].kind = kind /\ B[i].n <= top /\ B[i].uid <= uid
      /\ \A i, j \in 1 .. n : i < j => B[i].n < B[j].n /\ B[i].uid < B[j].uid
      /\ \A i \in 1 .. n : B[i].n \in Nat /\ B[i].uid \in Nat
  <2>1. \A i \in 1 .. n : B[i] \in Stamped
    BY Elements DEF Queue
  <2> QED BY <2>1 DEF Queue, Stamped
<1> HIDE DEF R, n, d, l
<1>4. \A i \in 1 .. n - d : i + d \in 1 .. n
  BY <1>2
<1>5. \A i \in 1 .. l : i = l \/ i \in 1 .. n - d
  BY <1>2
<1>6. ASSUME NEW i \in 1 .. n - d
      PROVE  /\ R[i].kind = kind /\ R[i].n <= top /\ R[i].uid <= uid
             /\ R[i].n < top + 1 /\ R[i].uid < uid + 1
  <2>1. R[i] = B[i + d] /\ i + d \in 1 .. n
    BY <1>2, <1>4
  <2>2. B[i + d].n \in Nat /\ B[i + d].uid \in Nat /\ B[i + d].n <= top /\ B[i + d].uid <= uid
    BY <1>3, <2>1
  <2>3. B[i + d].n < top + 1 /\ B[i + d].uid < uid + 1
    BY <2>2
  <2> QED BY <1>3, <2>1, <2>2, <2>3
<1>7. ASSUME NEW i \in 1 .. l PROVE R[i].kind = kind /\ R[i].n <= top + 1 /\ R[i].uid <= uid + 1
  <2>1. CASE i = l
    BY <1>1, <1>2, <2>1
  <2>2. CASE i \in 1 .. n - d
    <3>1. R[i] = B[i + d] /\ B[i + d].n \in Nat /\ B[i + d].uid \in Nat
      BY <1>2, <1>3, <1>4, <2>2
    <3>2. R[i].n \in Nat /\ R[i].uid \in Nat
      BY <3>1
    <3>3. R[i].n <= top + 1 /\ R[i].uid <= uid + 1
      BY <1>6, <2>2, <3>2
    <3> QED BY <1>6, <2>2, <3>3
  <2> QED BY <1>5, <2>1, <2>2
<1>8. ASSUME NEW i \in 1 .. l, NEW j \in 1 .. l, i < j PROVE R[i].n < R[j].n /\ R[i].uid < R[j].uid
  <2>1. i \in 1 .. n - d
    BY <1>2, <1>5, <1>8
  <2>2. CASE j = l
    BY <1>1, <1>2, <1>6, <2>1, <2>2
  <2>3. CASE j \in 1 .. n - d
    <3>1. i + d < j + d
      BY <1>2, <1>8
    <3> QED BY <1>2, <1>3, <1>4, <2>1, <2>3, <3>1
  <2> QED BY <1>5, <2>2, <2>3
<1>9. Queue(R, kind, top + 1, uid + 1)
  BY <1>2, <1>7, <1>8 DEF Queue, l
<1> QED BY <1>9 DEF R, m

LEMMA ServInit == ServiceInit => ServInv
<1>1. << >> \in Seq(Stamped) /\ Len(<< >>) = 0
  OBVIOUS
<1>2. Buffered \in Nat /\ MaxDefs \in Nat
  BY ServiceAssumption
<1> QED BY <1>1, <1>2 DEF ServiceInit, ServInv, Counts, Queue

LEMMA ServStep == ServInv /\ [ServiceNext]_serviceVars => ServInv'
<1> SUFFICES ASSUME ServInv, [ServiceNext]_serviceVars PROVE ServInv'
  OBVIOUS
<1>0. Counts /\ MaxDefs \in Nat /\ uid + 1 \in Nat /\ uid <= uid + 1
  BY ServiceAssumption DEF ServInv, Counts
<1>1. CASE UNCHANGED <<service, counts>>
  BY <1>1 DEF service, counts, ServInv, Counts
<1>2. CASE SendStatus
  <2>1. /\ statuses' = statuses + 1
        /\ UNCHANGED <<controlMsg, defs, modified, controls, versions>>
        /\ \/ statusMsg' = Buffer(statusMsg, Message("status", statuses + 1)) /\ uid' = uid + 1
           \/ statusMsg' = statusMsg /\ uid' = uid
    BY <1>2 DEF SendStatus
  <2>2. Queue(statusMsg', "status", statuses', uid')
    <3>1. CASE statusMsg' = Buffer(statusMsg, Message("status", statuses + 1)) /\ uid' = uid + 1
      BY <2>1, <3>1, QueueAdds DEF ServInv, Counts, Kinds
    <3>2. CASE statusMsg' = statusMsg /\ uid' = uid
      <4>1. \A i \in 1 .. Len(statusMsg) : statusMsg[i].n \in Nat /\ statusMsg[i].n <= statuses
        <5>1. \A i \in 1 .. Len(statusMsg) : statusMsg[i] \in Stamped
          BY Elements DEF ServInv, Queue
        <5> QED BY <5>1 DEF ServInv, Queue, Stamped
      <4>2. \A x \in Nat : x <= statuses => x <= statuses + 1
        BY <1>0 DEF Counts
      <4>3. \A i \in 1 .. Len(statusMsg) : statusMsg[i].n <= statuses + 1
        BY <4>1, <4>2
      <4> QED BY <2>1, <3>2, <4>3 DEF ServInv, Queue
    <3> QED BY <2>1, <3>1, <3>2
  <2>3. Queue(controlMsg', "control", controls', uid')
    <3>1. uid' \in Nat /\ uid <= uid'
      BY <1>0, <2>1 DEF Counts
    <3> QED BY <1>0, <2>1, <3>1, QueueLater DEF ServInv, Counts
  <2>4. Counts'
    BY <1>0, <2>1 DEF Counts
  <2> QED BY <2>1, <2>2, <2>3, <2>4 DEF ServInv
<1>3. CASE SendDefs
  <2>1. /\ versions < MaxDefs /\ versions' = versions + 1
        /\ UNCHANGED <<statusMsg, controlMsg, statuses, controls>>
        /\ \/ /\ uid' = uid + 1 /\ defs' = <<Message("defs", versions + 1)>>
              /\ modified' \in {modified, modified + 1}
           \/ UNCHANGED <<uid, defs, modified>>
    BY <1>3 DEF SendDefs
  <2>2. CASE UNCHANGED <<uid, defs, modified>>
    <3>1. Counts'
      BY <1>0, <2>1, <2>2 DEF Counts
    <3> QED BY <2>1, <2>2, <3>1 DEF ServInv, Queue
  <2>3. CASE /\ uid' = uid + 1 /\ defs' = <<Message("defs", versions + 1)>>
             /\ modified' \in {modified, modified + 1}
    <3>1. Counts'
      BY <1>0, <2>1, <2>3 DEF Counts
    <3>2. Message("defs", versions + 1) \in Stamped /\ Message("defs", versions + 1).kind = "defs"
      <4>1. uid + 1 \in Nat /\ versions + 1 \in Nat
        BY <1>0 DEF Counts
      <4> QED BY <4>1 DEF Message, Stamped, Kinds
    <3>3. Queue(statusMsg, "status", statuses, uid + 1) /\ Queue(controlMsg, "control", controls, uid + 1)
      BY <1>0, QueueLater DEF ServInv, Counts
    <3>4. defs' \in Seq(Stamped) /\ Len(defs') <= 1 /\ \A i \in 1 .. Len(defs') : defs'[i].kind = "defs"
      BY <2>3, <3>2
    <3> QED BY <2>1, <2>3, <3>1, <3>3, <3>4 DEF ServInv
  <2> QED BY <2>1, <2>2, <2>3
<1>4. CASE SendControl
  <2>1. /\ controls' = controls + 1 /\ uid' = uid + 1
        /\ controlMsg' = Buffer(controlMsg, Message("control", controls + 1))
        /\ UNCHANGED <<statusMsg, defs, modified, statuses, versions>>
    BY <1>4 DEF SendControl
  <2>2. Counts'
    BY <1>0, <2>1 DEF Counts
  <2>3. Queue(controlMsg', "control", controls', uid')
    BY <1>0, <2>1, QueueAdds DEF ServInv, Counts, Kinds
  <2>4. Queue(statusMsg, "status", statuses, uid + 1)
    BY <1>0, QueueLater DEF ServInv, Counts
  <2> QED BY <2>1, <2>2, <2>3, <2>4 DEF ServInv
<1> QED BY <1>1, <1>2, <1>3, <1>4
        DEF ServiceNext, GetControl, Restart, GetStatus, Attach, serviceVars

-----------------------------------------------------------------------------
(* The application.                                                        *)

\* What was acted on, and then what is stored, are in order.
Ordered(acts, store) ==
  /\ \A i, j \in 1 .. Len(acts) : i < j => acts[i] < acts[j]
  /\ \A i, j \in 1 .. Len(store) : i < j => store[i].n < store[j].n
  /\ \A i \in 1 .. Len(acts), j \in 1 .. Len(store) : acts[i] < store[j].n

Above(acts, store, x) ==
  /\ \A i \in 1 .. Len(acts) : acts[i] < x
  /\ \A j \in 1 .. Len(store) : store[j].n < x

\* The first t messages of the queue are those the application has: their UIDs are in
\* memory, and only those of newer messages have come after.
AppInv ==
  /\ acted \in Seq(Nat) /\ appStore \in Seq(Stamped) /\ Remembered(appSeen)
  /\ \A i \in 1 .. Len(appSeen) : appSeen[i] <= uid
  /\ Ordered(acted, appStore) /\ Above(acted, appStore, controls + 1)
  /\ \E t \in 0 .. Len(controlMsg) : \A k \in 1 .. Len(controlMsg) :
       /\ k <= t => Tracked(appSeen, controlMsg[k].uid, After(controlMsg, k))
       /\ k > t => /\ controlMsg[k].uid \notin Range(appSeen)
                   /\ Above(acted, appStore, controlMsg[k].n)

LEMMA StampedParts ==
  ASSUME NEW q \in Seq(Stamped)
  PROVE  \A i \in 1 .. Len(q) : q[i] \in Stamped /\ q[i].uid \in Nat /\ q[i].n \in Nat
<1>1. \A i \in 1 .. Len(q) : q[i] \in Stamped
  BY Elements
<1> QED BY <1>1 DEF Stamped

LEMMA OrderedTakes ==
  ASSUME NEW acts \in Seq(Nat), NEW store \in Seq(Stamped), store # << >>, Ordered(acts, store)
  PROVE  /\ Append(acts, Head(store).n) \in Seq(Nat) /\ Tail(store) \in Seq(Stamped)
         /\ Ordered(Append(acts, Head(store).n), Tail(store))
         /\ \A x : Above(acts, store, x) => Above(Append(acts, Head(store).n), Tail(store), x)
<1> DEFINE y == Head(store).n
           a == Append(acts, y)
           s == Tail(store)
           n == Len(acts)
           l == Len(store)
<1>1. n \in Nat /\ l \in Nat /\ l # 0
  BY Elements, EmptySeq
<1>2. /\ s \in Seq(Stamped) /\ Len(s) = l - 1 /\ \A i \in 1 .. l - 1 : s[i] = store[i + 1]
  BY HeadTailProperties
<1>3. 1 \in 1 .. l /\ Head(store) = store[1] /\ store[1] \in Stamped /\ store[1].n \in Nat
  <2>1. 1 \in 1 .. l
    BY <1>1
  <2> QED BY <2>1, StampedParts
<1>4. y = store[1].n /\ y \in Nat
  BY <1>3
<1> HIDE DEF y
<1>5. a \in Seq(Nat) /\ Len(a) = n + 1 /\ a[n + 1] = y /\ \A i \in 1 .. n : a[i] = acts[i]
  BY <1>4, AppendProperties
<1> HIDE DEF a, s, n, l
<1>6. \A i \in 1 .. n + 1 : i = n + 1 \/ i \in 1 .. n
  BY <1>1
<1>7. \A i \in 1 .. l - 1 : i + 1 \in 1 .. l /\ 1 < i + 1
  BY <1>1
<1>8. /\ \A i, j \in 1 .. n : i < j => acts[i] < acts[j]
      /\ \A i, j \in 1 .. l : i < j => store[i].n < store[j].n
      /\ \A i \in 1 .. n, j \in 1 .. l : acts[i] < store[j].n
  BY DEF Ordered, n, l
<1>9. ASSUME NEW i \in 1 .. n + 1, NEW j \in 1 .. n + 1, i < j PROVE a[i] < a[j]
  <2>1. i \in 1 .. n
    BY <1>1, <1>9
  <2>2. CASE j = n + 1
    BY <1>3, <1>4, <1>5, <1>8, <2>1, <2>2
  <2>3. CASE j \in 1 .. n
    BY <1>5, <1>8, <1>9, <2>1, <2>3
  <2> QED BY <1>6, <2>2, <2>3
<1>10. ASSUME NEW i \in 1 .. l - 1, NEW j \in 1 .. l - 1, i < j PROVE s[i].n < s[j].n
  <2>1. i + 1 < j + 1
    BY <1>10
  <2> QED BY <1>2, <1>7, <1>8, <2>1
<1>11. ASSUME NEW i \in 1 .. n + 1, NEW j \in 1 .. l - 1 PROVE a[i] < s[j].n
  <2>1. CASE i = n + 1
    BY <1>2, <1>3, <1>4, <1>5, <1>7, <1>8, <2>1
  <2>2. CASE i \in 1 .. n
    BY <1>2, <1>5, <1>7, <1>8, <2>2
  <2> QED BY <1>6, <2>1, <2>2
<1>12. Ordered(a, s)
  BY <1>2, <1>5, <1>9, <1>10, <1>11 DEF Ordered
<1>13. ASSUME NEW x, Above(acts, store, x) PROVE Above(a, s, x)
  <2>1. (\A i \in 1 .. n : acts[i] < x) /\ \A j \in 1 .. l : store[j].n < x
    BY <1>13 DEF Above, n, l
  <2>2. \A i \in 1 .. n + 1 : a[i] < x
    BY <1>3, <1>4, <1>5, <1>6, <2>1
  <2>3. \A j \in 1 .. l - 1 : s[j].n < x
    BY <1>2, <1>7, <2>1
  <2> QED BY <1>2, <1>5, <2>2, <2>3 DEF Above
<1> QED BY <1>2, <1>5, <1>12, <1>13 DEF a, s, y

\* Reading the queue takes what is new in it, in order.
LEMMA QueueRead ==
  ASSUME ServInv, AppInv, appStore = << >>
  PROVE  LET P == ParseProperties(appSeen, controlMsg)
         IN  /\ P.new \in Seq(Stamped) /\ Remembered(P.seen)
             /\ \A i \in 1 .. Len(P.seen) : P.seen[i] <= uid
             /\ Ordered(acted, P.new) /\ Above(acted, P.new, controls + 1)
             /\ \A k \in 1 .. Len(controlMsg) :
                  Tracked(P.seen, controlMsg[k].uid, After(controlMsg, k))
<1> DEFINE doc == controlMsg
           H == appSeen
           n == Len(doc)
           P == ParseProperties(H, doc)
           S == P.seen
           N == P.new
<1>1. doc \in Seq(Stamped) /\ n \in Nat /\ n <= Buffered /\ Remembered(H)
      /\ \A i \in 1 .. n : doc[i].uid \in Nat /\ doc[i].n \in Nat
  <2>1. doc \in Seq(Stamped) /\ Remembered(H) /\ n <= Buffered
    BY DEF ServInv, Queue, AppInv
  <2> QED BY <2>1, Elements, StampedParts
<1>2. /\ \A i \in 1 .. n : doc[i].n <= controls /\ doc[i].uid <= uid
      /\ \A i, j \in 1 .. n : i < j => doc[i].n < doc[j].n /\ doc[i].uid < doc[j].uid
  BY DEF ServInv, Queue
<1>3. Buffered \in Nat /\ History \in Nat /\ Buffered <= History
  BY ServiceAssumption
<1>4. PICK t \in 0 .. n : \A k \in 1 .. n :
       /\ k <= t => Tracked(H, doc[k].uid, After(doc, k))
       /\ k > t => doc[k].uid \notin Range(H) /\ Above(acted, appStore, doc[k].n)
  BY DEF AppInv
<1>5. /\ Ordered(acted, appStore) /\ Above(acted, appStore, controls + 1)
      /\ \A i \in 1 .. Len(H) : H[i] <= uid
      /\ acted \in Seq(Nat) /\ H \in Seq(Nat)
  BY DEF AppInv, Remembered
<1> HIDE DEF doc, H, n, P
<1>6. \A k \in 1 .. Len(doc) : k > 0 => Len(doc) - k < History
  BY <1>1, <1>3 DEF n
<1>7. Progress(P, H, doc, 0, n)
  BY <1>1, <1>6, ParseProgress DEF P, n
<1>8. P.seen = S /\ P.new = N /\ S \in Seq(Nat) /\ N \in Seq(Stamped) /\ Remembered(S)
      /\ Range(S) \subseteq Range(H) \cup {doc[k].uid : k \in 1 .. n}
  BY <1>7 DEF Progress, States, n
<1>9. \A u, A : Safe(H, doc, u, A) => Tracked(S, u, A)
  BY <1>7 DEF Progress
<1>10. PICK g \in [1 .. Len(N) -> 1 .. n] :
       /\ \A a, b \in 1 .. Len(N) : a < b => g[a] < g[b]
       /\ \A a \in 1 .. Len(N) : N[a] = doc[g[a]] /\ \A A : ~Safe(H, doc, N[a].uid, A)
  BY <1>7 DEF Progress
<1>11. \A k \in 1 .. n : Fresh(H, doc, k) => (k <= n /\ k > 0 => Tracked(S, doc[k].uid, After(doc, k)))
  BY <1>7 DEF Progress, n
<1> HIDE DEF S, N
<1>12. \A k \in 1 .. n : k <= t => doc[k].uid \in Range(H)
  BY <1>4, <1>5, TrackedIn
<1>13. ASSUME NEW k \in 1 .. n, k <= t PROVE Safe(H, doc, doc[k].uid, After(doc, k))
  <2>1. IsFiniteSet(After(doc, k)) /\ Cardinality(After(doc, k)) < History
    <3>1. k \in 0 .. Len(doc) /\ Len(doc) - k < History /\ Len(doc) - k \in Int
      BY <1>1, <1>6 DEF n
    <3>2. /\ IsFiniteSet(After(doc, k)) /\ Cardinality(After(doc, k)) \in Nat
          /\ Cardinality(After(doc, k)) <= Len(doc) - k
      BY <1>1, <3>1, AfterSize
    <3> QED BY <1>3, <3>1, <3>2
  <2>2. ASSUME NEW i \in 1 .. n PROVE Known(H, doc, i) \/ doc[i].uid \in After(doc, k)
    <3>1. CASE i <= t
      <4>1. \A j \in 1 .. i : j \in 1 .. n /\ j <= t
        BY <1>1, <3>1
      <4> QED BY <1>12, <4>1 DEF Known
    <3>2. CASE i > t
      <4>1. i \in k + 1 .. Len(doc)
        BY <1>1, <1>13, <3>2 DEF n
      <4> QED BY <4>1 DEF After
    <3> QED BY <1>1, <3>1, <3>2
  <2> QED BY <1>4, <1>13, <2>1, <2>2 DEF Safe, n
<1>14. ASSUME NEW k \in 1 .. n PROVE Tracked(S, doc[k].uid, After(doc, k))
  <2>1. CASE k <= t
    BY <1>9, <1>13, <2>1
  <2>2. CASE k > t
    <3>1. \A i \in 1 .. k - 1 : i \in 1 .. n /\ i < k
      BY <1>1
    <3>2. \A i \in 1 .. k - 1 : doc[i].uid # doc[k].uid
      BY <1>1, <1>2, <3>1
    <3>3. Fresh(H, doc, k)
      BY <1>4, <2>2, <3>2 DEF Fresh
    <3> QED BY <1>1, <1>11, <3>3
  <2> QED BY <1>1, <2>1, <2>2
<1>15. ASSUME NEW a \in 1 .. Len(N) PROVE g[a] \in 1 .. n /\ g[a] > t /\ N[a].n = doc[g[a]].n
  <2>1. ~(g[a] <= t)
    BY <1>10, <1>13
  <2> QED BY <1>1, <1>10, <2>1
<1>16. Ordered(acted, N)
  <2>1. \A i, j \in 1 .. Len(acted) : i < j => acted[i] < acted[j]
    BY <1>5 DEF Ordered
  <2>2. \A a, b \in 1 .. Len(N) : a < b => N[a].n < N[b].n
    BY <1>2, <1>10, <1>15
  <2>3. \A i \in 1 .. Len(acted), a \in 1 .. Len(N) : acted[i] < N[a].n
    BY <1>4, <1>15 DEF Above
  <2> QED BY <2>1, <2>2, <2>3 DEF Ordered
<1>17. Above(acted, N, controls + 1)
  <2>1. \A a \in 1 .. Len(N) : N[a].n < controls + 1
    <3> SUFFICES ASSUME NEW a \in 1 .. Len(N) PROVE N[a].n < controls + 1
      OBVIOUS
    <3>1. doc[g[a]].n \in Nat /\ doc[g[a]].n <= controls /\ controls \in Nat
      BY <1>1, <1>2, <1>15 DEF ServInv, Counts
    <3> QED BY <1>15, <3>1
  <2> QED BY <1>5, <2>1 DEF Above
<1>18. ASSUME NEW i \in 1 .. Len(S) PROVE S[i] <= uid
  <2>1. S[i] \in Range(H) \cup {doc[k].uid : k \in 1 .. n}
    <3>1. i \in DOMAIN S
      BY <1>8, Elements
    <3> QED BY <1>8, <3>1 DEF Range
  <2>2. \A x \in Range(H) : x <= uid
    <3>1. DOMAIN H = 1 .. Len(H)
      BY <1>5, Elements
    <3> QED BY <1>5, <3>1 DEF Range
  <2> QED BY <1>2, <2>1, <2>2
<1> QED BY <1>8, <1>14, <1>16, <1>17, <1>18 DEF S, N, P, doc, H, n

LEMMA AppTakes ==
  ASSUME ServInv, AppInv, GetControl
  PROVE  AppInv'
<1> DEFINE n == Len(controlMsg)
<1>1. controlMsg' = controlMsg /\ uid' = uid /\ controls' = controls
  BY DEF GetControl, service, counts
<1>2. PICK P : /\ P = IF appStore # << >> THEN [seen |-> appSeen, new |-> appStore]
                      ELSE ParseProperties(appSeen, controlMsg)
               /\ P.new # << >> /\ appSeen' = P.seen /\ appStore' = Tail(P.new)
               /\ acted' = Append(acted, Head(P.new).n)
  BY DEF GetControl, Rest
<1>3. acted \in Seq(Nat) /\ n \in Nat
  BY Elements DEF AppInv, ServInv, Queue
<1>4. CASE appStore # << >>
  <2>1. P.seen = appSeen /\ P.new = appStore
    BY <1>2, <1>4
  <2>2. /\ acted' \in Seq(Nat) /\ appStore' \in Seq(Stamped) /\ Ordered(acted', appStore')
        /\ \A x : Above(acted, appStore, x) => Above(acted', appStore', x)
    BY <1>2, <2>1, OrderedTakes DEF AppInv
  <2> QED BY <1>1, <1>2, <2>1, <2>2 DEF AppInv
<1>5. CASE appStore = << >>
  <2>1. P = ParseProperties(appSeen, controlMsg)
    BY <1>2, <1>5
  <2>2. /\ P.new \in Seq(Stamped) /\ Remembered(P.seen)
        /\ \A i \in 1 .. Len(P.seen) : P.seen[i] <= uid
        /\ Ordered(acted, P.new) /\ Above(acted, P.new, controls + 1)
        /\ \A k \in 1 .. n : Tracked(P.seen, controlMsg[k].uid, After(controlMsg, k))
    BY <1>5, <2>1, QueueRead
  <2>3. /\ acted' \in Seq(Nat) /\ appStore' \in Seq(Stamped) /\ Ordered(acted', appStore')
        /\ \A x : Above(acted, P.new, x) => Above(acted', appStore', x)
    BY <1>2, <1>3, <2>2, OrderedTakes
  <2>4. n \in 0 .. n /\ \A k \in 1 .. n : ~(k > n)
    BY <1>3
  <2>5. \E t \in 0 .. n : \A k \in 1 .. n :
          /\ k <= t => Tracked(P.seen, controlMsg[k].uid, After(controlMsg, k))
          /\ k > t => controlMsg[k].uid \notin Range(P.seen) /\ Above(acted', appStore', controlMsg[k].n)
    BY <2>2, <2>4
  <2> QED BY <1>1, <1>2, <2>2, <2>3, <2>5 DEF AppInv
<1> QED BY <1>4, <1>5

\* A new control message is one that the application does not have.
LEMMA AppSent ==
  ASSUME ServInv, AppInv, SendControl
  PROVE  AppInv'
<1> DEFINE m == Message("control", controls + 1)
           B == controlMsg
           R == controlMsg'
           n == Len(B)
           d == IF n = Buffered THEN 1 ELSE 0
           l == Len(R)
<1>0. /\ controls' = controls + 1 /\ uid' = uid + 1 /\ R = Buffer(B, m)
      /\ UNCHANGED <<appSeen, appStore, acted>>
  BY DEF SendControl, app
<1>1. m \in Stamped /\ m.uid = uid + 1 /\ m.n = controls + 1 /\ uid \in Nat /\ controls \in Nat
  <2>1. uid + 1 \in Nat /\ controls + 1 \in Nat /\ uid \in Nat /\ controls \in Nat
    BY DEF ServInv, Counts
  <2> QED BY <2>1 DEF Message, Stamped, Kinds
<1> HIDE DEF m
<1>2. /\ R \in Seq(Stamped) /\ l = n - d + 1 /\ R[l] = m
      /\ d \in {0, 1} /\ n \in Nat /\ n >= d
      /\ \A i \in 1 .. n - d : R[i] = B[i + d]
  BY <1>0, <1>1, BufferIs DEF ServInv, Queue
<1>3. PICK t \in 0 .. n : \A k \in 1 .. n :
       /\ k <= t => Tracked(appSeen, B[k].uid, After(B, k))
       /\ k > t => B[k].uid \notin Range(appSeen) /\ Above(acted, appStore, B[k].n)
  BY DEF AppInv
<1>4. After(B, 0) \subseteq Nat /\ \A k \in 1 .. n : After(B, k) = {B[j].uid : j \in k + 1 .. n}
  <2>1. \A j \in 1 .. n : B[j].uid \in Nat
    BY StampedParts DEF ServInv, Queue
  <2> QED BY <2>1 DEF After
<1>5. \A i \in 1 .. Len(appSeen) : appSeen[i] <= uid /\ appSeen[i] \in Nat
  <2>1. appSeen \in Seq(Nat)
    BY DEF AppInv, Remembered
  <2> QED BY <2>1, Elements DEF AppInv
<1>6. m.uid \notin Range(appSeen) /\ \A i \in 1 .. Len(appSeen) : appSeen[i] <= uid + 1
  <2>1. DOMAIN appSeen = 1 .. Len(appSeen)
    BY Elements DEF AppInv, Remembered
  <2>2. \A i \in 1 .. Len(appSeen) : appSeen[i] # uid + 1 /\ appSeen[i] <= uid + 1
    BY <1>1, <1>5
  <2> QED BY <1>1, <2>1, <2>2 DEF Range
<1>7. Above(acted, appStore, controls + 1)
  BY DEF AppInv
<1>8. Above(acted, appStore, controls' + 1)
  <2>1. /\ \A i \in 1 .. Len(acted) : acted[i] \in Nat
        /\ \A j \in 1 .. Len(appStore) : appStore[j].n \in Nat
    BY Elements, StampedParts DEF AppInv
  <2>2. \A x \in Nat : x < controls + 1 => x < controls' + 1
    BY <1>0, <1>1
  <2> QED BY <1>7, <2>1, <2>2 DEF Above
<1> HIDE DEF B, R, n, d, l
<1>9. \A k \in 1 .. n - d : k + d \in 1 .. n
  BY <1>2
<1>10. \A k \in 1 .. l : k = l \/ k \in 1 .. n - d
  BY <1>2
<1>11. ASSUME NEW k \in 1 .. n - d PROVE After(B, k + d) \subseteq After(R, k)
  <2> SUFFICES ASSUME NEW j \in (k + d) + 1 .. n PROVE B[j].uid \in After(R, k)
    BY <1>4, <1>9
  <2>1. j - d \in 1 .. n - d /\ j - d \in k + 1 .. l /\ (j - d) + d = j
    BY <1>2
  <2>2. R[j - d] = B[j]
    BY <1>2, <2>1
  <2> QED BY <2>1, <2>2 DEF After, l
<1> DEFINE s == IF t >= d THEN t - d ELSE 0
<1>12. s \in 0 .. l /\ s <= n - d
  BY <1>2
<1>13. ASSUME NEW k \in 1 .. l
       PROVE  /\ k <= s => Tracked(appSeen, R[k].uid, After(R, k))
              /\ k > s => R[k].uid \notin Range(appSeen) /\ Above(acted, appStore, R[k].n)
  <2>1. CASE k = l
    <3>1. ~(k <= s) /\ R[k] = m
      BY <1>2, <1>12, <2>1
    <3> QED BY <1>1, <1>6, <1>7, <3>1
  <2>2. CASE k \in 1 .. n - d
    <3>1. R[k] = B[k + d] /\ k + d \in 1 .. n
      BY <1>2, <1>9, <2>2
    <3>2. (k <= s => k + d <= t) /\ (k > s => k + d > t)
      BY <1>2, <2>2
    <3>3. k + d <= t => Tracked(appSeen, B[k + d].uid, After(B, k + d))
      BY <1>3, <3>1
    <3>4. k + d > t => B[k + d].uid \notin Range(appSeen) /\ Above(acted, appStore, B[k + d].n)
      BY <1>3, <3>1
    <3> HIDE DEF s
    <3>5. k <= s => Tracked(appSeen, R[k].uid, After(R, k))
      BY <1>11, <2>2, <3>1, <3>2, <3>3, TrackedMore
    <3> QED BY <3>1, <3>2, <3>4, <3>5
  <2> QED BY <1>10, <2>1, <2>2
<1> HIDE DEF s
<1>14. \E x \in 0 .. l : \A k \in 1 .. l :
       /\ k <= x => Tracked(appSeen, R[k].uid, After(R, k))
       /\ k > x => R[k].uid \notin Range(appSeen) /\ Above(acted, appStore, R[k].n)
  BY <1>12, <1>13
<1> QED BY <1>0, <1>6, <1>8, <1>14 DEF AppInv, R, l

LEMMA AppFresh ==
  ASSUME ServInv, Restart
  PROVE  AppInv'
<1>0. /\ appSeen' = << >> /\ appStore' = << >> /\ acted' = << >>
      /\ controlMsg' = controlMsg /\ controls' = controls /\ uid' = uid
  BY DEF Restart, service, counts
<1>1. /\ << >> \in Seq(Nat) /\ << >> \in Seq(Stamped) /\ Range(<< >>) = {}
      /\ \A i : ~(i \in 1 .. Len(<< >>))
  BY DEF Range
<1>2. Remembered(<< >>)
  BY <1>1, ServiceAssumption DEF Remembered
<1>3. Ordered(<< >>, << >>) /\ \A x : Above(<< >>, << >>, x)
  BY <1>1 DEF Ordered, Above
<1>4. 0 \in 0 .. Len(controlMsg) /\ \A k \in 1 .. Len(controlMsg) : ~(k <= 0)
  <2>1. Len(controlMsg) \in Nat
    BY Elements DEF ServInv, Queue
  <2> QED BY <2>1
<1> DEFINE Split(t) == \A k \in 1 .. Len(controlMsg) :
             /\ k <= t => Tracked(<< >>, controlMsg[k].uid, After(controlMsg, k))
             /\ k > t => /\ controlMsg[k].uid \notin Range(<< >>)
                         /\ Above(<< >>, << >>, controlMsg[k].n)
<1>5. Split(0)
  <2> SUFFICES ASSUME NEW k \in 1 .. Len(controlMsg)
               PROVE  ~(k <= 0) /\ controlMsg[k].uid \notin Range(<< >>)
                      /\ Above(<< >>, << >>, controlMsg[k].n)
    BY Zenon
  <2>1. controlMsg[k].uid \notin Range(<< >>)
    BY <1>1, Zenon
  <2>2. Above(<< >>, << >>, controlMsg[k].n)
    BY <1>3, Zenon
  <2> QED BY <1>4, <2>1, <2>2, Zenon
<1> HIDE DEF Split
<1>6. \E t \in 0 .. Len(controlMsg) : Split(t)
  BY <1>4, <1>5, Zenon
<1>7. \A i \in 1 .. Len(appSeen') : appSeen'[i] <= uid'
  BY <1>0, <1>1, Zenon
<1>8. Ordered(acted', appStore') /\ Above(acted', appStore', controls' + 1)
  BY <1>0, <1>3, Zenon
<1>9. \E t \in 0 .. Len(controlMsg') : \A k \in 1 .. Len(controlMsg') :
        /\ k <= t => Tracked(appSeen', controlMsg'[k].uid, After(controlMsg', k))
        /\ k > t => /\ controlMsg'[k].uid \notin Range(appSeen')
                    /\ Above(acted', appStore', controlMsg'[k].n)
  BY <1>0, <1>6, Zenon DEF Split
<1>10. acted' \in Seq(Nat) /\ appStore' \in Seq(Stamped) /\ Remembered(appSeen')
  BY <1>0, <1>1, <1>2, Zenon
<1> QED BY <1>7, <1>8, <1>9, <1>10, Zenon DEF AppInv

LEMMA AppInit == ServiceInit => AppInv
<1> SUFFICES ASSUME ServiceInit PROVE AppInv
  OBVIOUS
<1>0. /\ appSeen = << >> /\ appStore = << >> /\ acted = << >> /\ controlMsg = << >>
  BY DEF ServiceInit
<1>1. /\ << >> \in Seq(Nat) /\ << >> \in Seq(Stamped) /\ Len(<< >>) = 0 /\ 0 \in 0 .. 0
      /\ \A i : ~(i \in 1 .. Len(<< >>))
  OBVIOUS
<1>2. Remembered(<< >>)
  BY <1>1, ServiceAssumption DEF Remembered
<1>3. Ordered(<< >>, << >>) /\ \A x : Above(<< >>, << >>, x)
  BY <1>1 DEF Ordered, Above
<1>4. \E t \in 0 .. Len(controlMsg) : \A k \in 1 .. Len(controlMsg) :
        /\ k <= t => Tracked(appSeen, controlMsg[k].uid, After(controlMsg, k))
        /\ k > t => /\ controlMsg[k].uid \notin Range(appSeen)
                    /\ Above(acted, appStore, controlMsg[k].n)
  BY <1>0, <1>1, Zenon
<1>5. \A i \in 1 .. Len(appSeen) : appSeen[i] <= uid
  BY <1>0, <1>1, Zenon
<1> QED BY <1>0, <1>1, <1>2, <1>3, <1>4, <1>5, Zenon DEF AppInv

LEMMA AppLater ==
  ASSUME ServInv, AppInv, UNCHANGED <<app, controlMsg, controls>>, uid' \in Nat, uid <= uid'
  PROVE  AppInv'
<1>1. \A i \in 1 .. Len(appSeen) : appSeen[i] <= uid'
  <2>1. appSeen \in Seq(Nat)
    BY DEF AppInv, Remembered
  <2>2. \A i \in 1 .. Len(appSeen) : appSeen[i] \in Nat /\ appSeen[i] <= uid
    BY <2>1, Elements DEF AppInv
  <2>3. \A x \in Nat : x <= uid => x <= uid'
    BY DEF ServInv, Counts
  <2> QED BY <2>2, <2>3
<1> QED BY <1>1 DEF AppInv, app

LEMMA AppStep == ServInv /\ AppInv /\ [ServiceNext]_serviceVars => AppInv'
<1> SUFFICES ASSUME ServInv, AppInv, [ServiceNext]_serviceVars PROVE AppInv'
  OBVIOUS
<1>0. uid \in Nat /\ uid + 1 \in Nat /\ uid <= uid + 1
  BY DEF ServInv, Counts
<1>1. CASE SendControl
  BY <1>1, AppSent
<1>2. CASE GetControl
  BY <1>2, AppTakes
<1>3. CASE Restart
  BY <1>3, AppFresh
<1>4. CASE SendStatus
  BY <1>0, <1>4, AppLater DEF SendStatus
<1>5. CASE SendDefs
  BY <1>0, <1>5, AppLater DEF SendDefs
<1>6. CASE GetStatus
  BY <1>0, <1>6, AppLater DEF GetStatus, service, counts
<1>7. CASE Attach
  BY <1>0, <1>7, AppLater DEF Attach, service, counts
<1>8. CASE UNCHANGED serviceVars
  BY <1>0, <1>8, AppLater DEF serviceVars, service, counts
<1> QED BY <1>1, <1>2, <1>3, <1>4, <1>5, <1>6, <1>7, <1>8 DEF ServiceNext

\* An application acts on control messages in the order in which they were sent and on
\* none twice: it reads all that the service has, so that its memory of UIDs, which is no
\* smaller than the service's buffer, cannot lose one that the service still shows.
THEOREM ActedInOrder ==
  ServiceSpec => [](\A i, j \in DOMAIN acted : i < j => acted[i] < acted[j])
<1>1. AppInv => \A i, j \in DOMAIN acted : i < j => acted[i] < acted[j]
  <2> SUFFICES ASSUME AppInv PROVE \A i, j \in DOMAIN acted : i < j => acted[i] < acted[j]
    OBVIOUS
  <2>1. DOMAIN acted = 1 .. Len(acted)
    BY Elements DEF AppInv
  <2> QED BY <2>1 DEF AppInv, Ordered
<1> QED BY <1>1, AppInit, ServInit, ServStep, AppStep, PTL DEF ServiceSpec

-----------------------------------------------------------------------------
(* The client.                                                             *)

\* The documents that a client had read by modification time t fit in its memory.
Fits(t) == Cost(t) < History

\* The status messages that a client was given or has in its store.
Statuses(store) == {i \in 1 .. Len(store) : store[i].kind = "status"}
ToldOf(given, store) == Range(given) \cup {store[i].n : i \in Statuses(store)}

OnceEach(given, store) ==
  /\ \A i, j \in 1 .. Len(given) : given[i] = given[j] => i = j
  /\ \A i, j \in Statuses(store) : store[i].n = store[j].n => i = j
  /\ \A i \in 1 .. Len(given), j \in Statuses(store) : given[i] # store[j].n

\* Message k of queue Q is kept in memory H at modification time t.
Kept(H, Q, k, t) ==
  \E B : /\ IsFiniteSet(B) /\ Cardinality(B) <= Cost(t)
         /\ Tracked(H, Q[k].uid, B \cup After(Q, k))

\* As long as another document fits, every message told must be kept; after that, the
\* last one.
Holding(H, Q, T, t) ==
  \A k \in 1 .. Len(Q) : Q[k].n \in T /\ (Fits(t + 1) \/ k = Len(Q)) => Kept(H, Q, k, t)

SimInv ==
  /\ shown \in Seq(Nat) /\ simStore \in Seq(Stamped) /\ Remembered(simSeen)
  /\ lastModTime \in 0 .. modified
  /\ \A x \in ToldOf(shown, simStore) : x \in Nat /\ x <= statuses
  /\ lastModTime = 0 => ToldOf(shown, simStore) = {}
  /\ Fits(lastModTime) =>
       /\ OnceEach(shown, simStore)
       /\ Holding(simSeen, statusMsg, ToldOf(shown, simStore), lastModTime)

LEMMA CostGrows ==
  /\ 2 * Buffered \in Nat /\ \A t \in Nat : Cost(t) \in Int /\ Cost(t + 1) = Cost(t) + 2 * Buffered
  /\ \A s, t \in Nat : s <= t => Cost(s) <= Cost(t)
  /\ \A t \in Nat : t >= 1 => Cost(t) \in Nat
<1> DEFINE b == 2 * Buffered
<1>1. b \in Nat
  BY ServiceAssumption
<1> HIDE DEF b
<1>2. ASSUME NEW t \in Nat PROVE Cost(t) \in Int /\ Cost(t + 1) = Cost(t) + b
  <2>1. Cost(t) = (t - 1) * b /\ Cost(t + 1) = (t + 1 - 1) * b
    BY DEF Cost, b
  <2>2. (t + 1 - 1) * b = (t - 1) * b + b
    BY <1>1
  <2> QED BY <1>1, <2>1, <2>2
<1>3. ASSUME NEW s \in Nat, NEW t \in Nat, s <= t PROVE Cost(s) <= Cost(t)
  <2>1. Cost(s) = (s - 1) * b /\ Cost(t) = (t - 1) * b
    BY DEF Cost, b
  <2>2. t - s \in Nat /\ (t - 1) * b = (s - 1) * b + (t - s) * b
    BY <1>1, <1>3
  <2>3. (t - s) * b >= 0
    BY <1>1, <2>2
  <2>4. (s - 1) * b \in Int /\ (t - s) * b \in Int
    BY <1>1
  <2> DEFINE x == (s - 1) * b
             y == (t - s) * b
  <2> HIDE DEF x, y
  <2>5. x \in Int /\ y \in Int /\ y >= 0 => x <= x + y
    OBVIOUS
  <2> QED BY <2>1, <2>2, <2>3, <2>4, <2>5 DEF x, y
<1>4. Cost(1) = 0
  BY <1>1 DEF Cost, b
<1>5. ASSUME NEW t \in Nat, t >= 1 PROVE Cost(t) \in Nat
  <2>1. Cost(1) <= Cost(t) /\ Cost(t) \in Int
    BY <1>2, <1>3, <1>5
  <2> QED BY <1>4, <2>1
<1> QED BY <1>1, <1>2, <1>3, <1>5 DEF b

\* How many elements two sets have together.
LEMMA Together ==
  ASSUME NEW A, NEW B, IsFiniteSet(A), IsFiniteSet(B)
  PROVE  /\ IsFiniteSet(A \cup B) /\ Cardinality(A \cup B) \in Nat
         /\ Cardinality(A) \in Nat /\ Cardinality(B) \in Nat
         /\ Cardinality(A \cup B) <= Cardinality(A) + Cardinality(B)
<1>1. /\ IsFiniteSet(A \cup B) /\ IsFiniteSet(A \cap B)
      /\ Cardinality(A \cup B) = Cardinality(A) + Cardinality(B) - Cardinality(A \cap B)
  BY FS_Union, FS_Intersection
<1>2. /\ Cardinality(A \cup B) \in Nat /\ Cardinality(A) \in Nat /\ Cardinality(B) \in Nat
      /\ Cardinality(A \cap B) \in Nat
  BY <1>1, FS_CardinalityType
<1> QED BY <1>1, <1>2

\* Giving the first message of N to the client, and storing the others.
LEMMA TellsOne ==
  ASSUME NEW given \in Seq(Nat), NEW N \in Seq(Stamped), N # << >>
  PROVE  LET m == Head(N)
             told == IF m.kind = "status" THEN Append(given, m.n) ELSE given
         IN  /\ told \in Seq(Nat) /\ Tail(N) \in Seq(Stamped)
             /\ ToldOf(told, Tail(N)) = ToldOf(given, N)
             /\ OnceEach(given, N) => OnceEach(told, Tail(N))
<1> DEFINE m == Head(N)
           s == Tail(N)
           l == Len(N)
           n == Len(given)
           told == IF m.kind = "status" THEN Append(given, m.n) ELSE given
<1>1. l \in Nat /\ l # 0 /\ n \in Nat /\ DOMAIN given = 1 .. n
  BY Elements, EmptySeq
<1>2. s \in Seq(Stamped) /\ Len(s) = l - 1 /\ \A i \in 1 .. l - 1 : s[i] = N[i + 1]
  BY HeadTailProperties
<1>3. 1 \in 1 .. l /\ m = N[1] /\ m.n \in Nat
  <2>1. 1 \in 1 .. l
    BY <1>1
  <2> QED BY <2>1, StampedParts
<1>4. OnceEach(given, N) =>
        /\ \A i, j \in 1 .. n : given[i] = given[j] => i = j
        /\ \A i, j \in Statuses(N) : N[i].n = N[j].n => i = j
        /\ \A i \in 1 .. n, j \in Statuses(N) : given[i] # N[j].n
  BY DEF OnceEach, n
<1> HIDE DEF m, s, l, n
<1>5. ASSUME NEW i \in Statuses(s)
      PROVE  i + 1 \in Statuses(N) /\ s[i] = N[i + 1] /\ i + 1 # 1 /\ i \in Nat
  <2>1. i \in 1 .. l - 1 /\ s[i].kind = "status"
    BY <1>2, <1>5 DEF Statuses
  <2>2. i + 1 \in 1 .. l /\ i + 1 # 1 /\ i \in Nat
    BY <1>1, <2>1
  <2> QED BY <1>2, <2>1, <2>2 DEF Statuses, l
<1>6. OnceEach(given, N) => \A i, j \in Statuses(s) : s[i].n = s[j].n => i = j
  <2> SUFFICES ASSUME OnceEach(given, N), NEW i \in Statuses(s), NEW j \in Statuses(s), s[i].n = s[j].n PROVE i = j
    OBVIOUS
  <2>1. /\ i + 1 \in Statuses(N) /\ s[i] = N[i + 1] /\ i \in Nat
        /\ j + 1 \in Statuses(N) /\ s[j] = N[j + 1] /\ j \in Nat
    BY <1>5
  <2>2. i + 1 = j + 1
    BY <1>4, <2>1, Zenon
  <2> QED BY <2>1, <2>2
<1>7. ASSUME NEW j \in Statuses(N), j # 1
      PROVE  j - 1 \in Statuses(s) /\ s[j - 1] = N[j]
  <2>1. j \in 1 .. l /\ N[j].kind = "status"
    BY DEF Statuses, l
  <2>2. j - 1 \in 1 .. l - 1 /\ (j - 1) + 1 = j
    BY <1>1, <1>7, <2>1
  <2>3. s[j - 1] = N[j]
    BY <1>2, <2>2
  <2> QED BY <1>2, <2>1, <2>2, <2>3 DEF Statuses
<1>8. CASE m.kind = "status"
  <2>1. told = Append(given, m.n) /\ 1 \in Statuses(N)
    BY <1>3, <1>8 DEF Statuses, l
  <2> HIDE DEF told
  <2>2. told \in Seq(Nat) /\ Len(told) = n + 1 /\ told[n + 1] = m.n /\ \A i \in 1 .. n : told[i] = given[i]
    BY <1>3, <2>1, AppendProperties DEF n
  <2>3. \A i \in 1 .. n + 1 : i = n + 1 \/ i \in 1 .. n
    BY <1>1
  <2>4. OnceEach(given, N) => \A i \in 1 .. n + 1, j \in Statuses(s) : told[i] # s[j].n
    <3> SUFFICES ASSUME OnceEach(given, N), NEW i \in 1 .. n + 1, NEW j \in Statuses(s) PROVE told[i] # s[j].n
      OBVIOUS
    <3>1. j + 1 \in Statuses(N) /\ s[j] = N[j + 1] /\ j + 1 # 1
      BY <1>5
    <3>2. CASE i = n + 1
      BY <1>3, <1>4, <2>1, <2>2, <3>1, <3>2
    <3>3. CASE i \in 1 .. n
      <4>1. told[i] = given[i] /\ s[j].n = N[j + 1].n
        BY <2>2, <3>1, <3>3
      <4>2. given[i] # N[j + 1].n
        BY <1>4, <3>1, <3>3
      <4> QED BY <4>1, <4>2
    <3> QED BY <2>3, <3>2, <3>3
  <2>5. OnceEach(given, N) => \A i, j \in 1 .. n + 1 : told[i] = told[j] => i = j
    BY <1>3, <1>4, <2>1, <2>2, <2>3
  <2>6. OnceEach(given, N) => OnceEach(told, s)
    BY <1>6, <2>2, <2>4, <2>5 DEF OnceEach
  <2>7. Range(told) = Range(given) \cup {m.n}
    <3>1. DOMAIN told = 1 .. n + 1 /\ n + 1 \in 1 .. n + 1 /\ \A i \in 1 .. n : i \in 1 .. n + 1
      BY <1>1, <2>2
    <3> QED BY <1>1, <2>2, <2>3, <3>1 DEF Range
  <2>8. {N[i].n : i \in Statuses(N)} = {m.n} \cup {s[i].n : i \in Statuses(s)}
    <3>1. ASSUME NEW i \in Statuses(N) PROVE N[i].n \in {m.n} \cup {s[j].n : j \in Statuses(s)}
      <4>1. CASE i = 1
        BY <1>3, <4>1
      <4>2. CASE i # 1
        <5>1. i - 1 \in Statuses(s) /\ N[i].n = s[i - 1].n
          BY <1>7, <4>2
        <5> QED BY <5>1
      <4> QED BY <4>1, <4>2
    <3>2. ASSUME NEW i \in Statuses(s) PROVE s[i].n \in {N[j].n : j \in Statuses(N)}
      <4>1. i + 1 \in Statuses(N) /\ s[i].n = N[i + 1].n
        BY <1>5
      <4> QED BY <4>1
    <3>3. m.n \in {N[j].n : j \in Statuses(N)}
      BY <1>3, <2>1
    <3> QED BY <3>1, <3>2, <3>3
  <2> QED BY <1>2, <2>2, <2>6, <2>7, <2>8 DEF ToldOf, told, m, s
<1>9. CASE m.kind # "status"
  <2>1. told = given /\ 1 \notin Statuses(N)
    BY <1>3, <1>9 DEF Statuses
  <2>2. OnceEach(given, N) => \A i \in 1 .. n, j \in Statuses(s) : given[i] # s[j].n
    BY <1>4, <1>5
  <2>3. OnceEach(given, N) => OnceEach(given, s)
    BY <1>4, <1>6, <2>2 DEF OnceEach, n
  <2>4. {N[i].n : i \in Statuses(N)} = {s[i].n : i \in Statuses(s)}
    <3>1. ASSUME NEW i \in Statuses(N) PROVE N[i].n \in {s[j].n : j \in Statuses(s)}
      <4>1. i - 1 \in Statuses(s) /\ N[i].n = s[i - 1].n
        BY <1>7, <2>1
      <4> QED BY <4>1
    <3>2. ASSUME NEW i \in Statuses(s) PROVE s[i].n \in {N[j].n : j \in Statuses(N)}
      <4>1. i + 1 \in Statuses(N) /\ s[i].n = N[i + 1].n
        BY <1>5
      <4> QED BY <4>1
    <3> QED BY <3>1, <3>2
  <2> QED BY <1>2, <2>1, <2>3, <2>4 DEF ToldOf, m, s
<1> QED BY <1>8, <1>9

\* A client that has been given nothing.
LEMMA NoneTold ==
  /\ << >> \in Seq(Nat) /\ << >> \in Seq(Stamped) /\ Remembered(<< >>) /\ OnceEach(<< >>, << >>)
  /\ ToldOf(<< >>, << >>) = {} /\ \A H, Q, t : Holding(H, Q, {}, t)
<1>1. /\ << >> \in Seq(Nat) /\ << >> \in Seq(Stamped) /\ Range(<< >>) = {} /\ Len(<< >>) = 0
      /\ \A i : ~(i \in 1 .. Len(<< >>))
  BY DEF Range
<1>2. Remembered(<< >>)
  BY <1>1, ServiceAssumption DEF Remembered
<1>3. Statuses(<< >>) = {}
  BY <1>1 DEF Statuses
<1>4. OnceEach(<< >>, << >>)
  BY <1>1, <1>3 DEF OnceEach
<1>5. ToldOf(<< >>, << >>) = {}
  BY <1>1, <1>3 DEF ToldOf
<1>6. \A H, Q, t : Holding(H, Q, {}, t)
  BY DEF Holding
<1> QED BY <1>1, <1>2, <1>4, <1>5, <1>6

\* The client's invariant: it holds at first, and each operation keeps it.
LEMMA SimInit == ServiceInit => SimInv
<1> SUFFICES ASSUME ServiceInit PROVE SimInv
  OBVIOUS
<1>1. shown = << >> /\ simStore = << >> /\ simSeen = << >> /\ lastModTime = 0 /\ modified = 1
  BY DEF ServiceInit
<1>2. 0 \in 0 .. 1
  OBVIOUS
<1>3. \A x \in ToldOf(shown, simStore) : x \in Nat /\ x <= statuses
  BY <1>1, NoneTold, Zenon
<1>4. Holding(simSeen, statusMsg, ToldOf(shown, simStore), lastModTime)
  BY <1>1, NoneTold, Zenon
<1> QED BY <1>1, <1>2, <1>3, <1>4, NoneTold, Zenon DEF SimInv

LEMMA SimFresh ==
  ASSUME ServInv, Attach
  PROVE  SimInv'
<1>1. /\ shown' = << >> /\ simStore' = << >> /\ simSeen' = << >> /\ lastModTime' = 0
      /\ modified' = modified
  BY DEF Attach, NewTime, service
<1>2. 0 \in 0 .. modified
  BY DEF ServInv, Counts
<1>3. \A x \in ToldOf(shown', simStore') : x \in Nat /\ x <= statuses'
  BY <1>1, NoneTold, Zenon
<1>4. Holding(simSeen', statusMsg', ToldOf(shown', simStore'), lastModTime')
  BY <1>1, NoneTold, Zenon
<1>5. ToldOf(shown', simStore') = {} /\ OnceEach(shown', simStore')
  BY <1>1, NoneTold, Zenon
<1>6. shown' \in Seq(Nat) /\ simStore' \in Seq(Stamped) /\ Remembered(simSeen')
  BY <1>1, NoneTold, Zenon
<1>7. lastModTime' \in 0 .. modified'
  BY <1>1, <1>2, Zenon
<1> QED BY <1>3, <1>4, <1>5, <1>6, <1>7, Zenon DEF SimInv

\* The client stays as it is, and so does the queue of status messages.
LEMMA SimLater ==
  ASSUME ServInv, SimInv, UNCHANGED <<sim, statusMsg>>,
         statuses' \in Nat, statuses <= statuses', modified' \in Nat, modified <= modified'
  PROVE  SimInv'
<1>0. UNCHANGED <<shown, simStore, simSeen, lastModTime>> /\ statusMsg' = statusMsg
  BY DEF sim
<1>1. lastModTime \in 0 .. modified' /\ \A x \in Nat : x <= statuses => x <= statuses'
  BY DEF SimInv, ServInv, Counts
<1>2. \A x \in ToldOf(shown, simStore) : x \in Nat /\ x <= statuses'
  BY <1>1 DEF SimInv
<1> QED BY <1>0, <1>1, <1>2 DEF SimInv

LEMMA SimStored ==
  ASSUME SimInv, GetStored, UNCHANGED service, UNCHANGED counts
  PROVE  SimInv'
<1>1. /\ simStore # << >> /\ simStore' = Tail(simStore)
      /\ shown' = IF Head(simStore).kind = "status" THEN Append(shown, Head(simStore).n) ELSE shown
      /\ UNCHANGED <<simSeen, lastModTime, statusMsg, modified, statuses>>
  BY DEF GetStored, Deliver, Rest, service, counts
<1>2. /\ shown' \in Seq(Nat) /\ simStore' \in Seq(Stamped)
      /\ ToldOf(shown', simStore') = ToldOf(shown, simStore)
      /\ OnceEach(shown, simStore) => OnceEach(shown', simStore')
  BY <1>1, TellsOne DEF SimInv
<1> QED BY <1>1, <1>2 DEF SimInv

LEMMA SimSent ==
  ASSUME ServInv, SimInv, SendStatus
  PROVE  SimInv'
<1> DEFINE m == Message("status", statuses + 1)
           B == statusMsg
           R == statusMsg'
           n == Len(B)
           d == IF n = Buffered THEN 1 ELSE 0
           l == Len(R)
           T == ToldOf(shown, simStore)
<1>0. /\ statuses' = statuses + 1 /\ modified' = modified /\ UNCHANGED sim
      /\ R = Buffer(B, m) \/ R = B
      /\ statuses \in Nat /\ statuses + 1 \in Nat /\ modified \in Nat /\ statuses <= statuses + 1
      /\ statuses < statuses + 1 /\ modified <= modified
  <2>1. statuses \in Nat /\ modified \in Nat
    BY DEF ServInv, Counts
  <2>2. statuses' = statuses + 1 /\ modified' = modified /\ UNCHANGED sim /\ (R = Buffer(B, m) \/ R = B)
    BY DEF SendStatus
  <2> QED BY <2>1, <2>2
<1>1. CASE R = B
  BY <1>0, <1>1, SimLater
<1>2. CASE R = Buffer(B, m)
  <2>1. m \in Stamped /\ m.n = statuses + 1
    <3>1. uid + 1 \in Nat
      BY DEF ServInv, Counts
    <3> QED BY <1>0, <3>1 DEF Message, Stamped, Kinds
  <2> HIDE DEF m
  <2>2. /\ R \in Seq(Stamped) /\ l = n - d + 1 /\ R[l] = m
        /\ d \in {0, 1} /\ n \in Nat /\ n >= d
        /\ \A i \in 1 .. n - d : R[i] = B[i + d]
    BY <1>2, <2>1, BufferIs DEF ServInv, Queue
  <2>3. /\ \A x \in T : x \in Nat /\ x <= statuses
        /\ Fits(lastModTime) => Holding(simSeen, B, T, lastModTime)
    BY DEF SimInv
  <2>4. statuses + 1 \notin T
    BY <1>0, <2>3
  <2> HIDE DEF B, R, n, d, l, T
  <2>5. ASSUME NEW k \in 1 .. n - d PROVE After(B, k + d) \subseteq After(R, k)
    <3> SUFFICES ASSUME NEW j \in (k + d) + 1 .. n PROVE B[j].uid \in After(R, k)
      BY DEF After, n
    <3>1. j - d \in 1 .. n - d /\ j - d \in k + 1 .. l /\ (j - d) + d = j
      BY <2>2
    <3>2. R[j - d] = B[j]
      BY <2>2, <3>1
    <3> QED BY <3>1, <3>2 DEF After, l
  <2>6. ASSUME Fits(lastModTime),
               NEW k \in 1 .. l, R[k].n \in T, Fits(lastModTime + 1) \/ k = l
        PROVE  Kept(simSeen, R, k, lastModTime)
    <3>1. k # l
      BY <2>1, <2>2, <2>4, <2>6
    <3>2. k \in 1 .. n - d /\ k + d \in 1 .. n
      BY <2>2, <3>1
    <3>3. R[k] = B[k + d] /\ Fits(lastModTime + 1)
      BY <2>2, <2>6, <3>1, <3>2
    <3>4. Kept(simSeen, B, k + d, lastModTime)
      BY <2>3, <2>6, <3>2, <3>3 DEF Holding, n
    <3>5. PICK A : /\ IsFiniteSet(A) /\ Cardinality(A) <= Cost(lastModTime)
                   /\ Tracked(simSeen, B[k + d].uid, A \cup After(B, k + d))
      BY <3>4 DEF Kept
    <3>6. A \cup After(B, k + d) \subseteq A \cup After(R, k)
      BY <2>5, <3>2
    <3>7. Tracked(simSeen, R[k].uid, A \cup After(R, k))
      BY <3>3, <3>5, <3>6, TrackedMore
    <3> QED BY <3>5, <3>7 DEF Kept
  <2>7. Fits(lastModTime) => Holding(simSeen, R, T, lastModTime)
    BY <2>6 DEF Holding, l
  <2>8. \A x \in T : x \in Nat /\ x <= statuses + 1
    BY <1>0, <2>3
  <2> QED BY <1>0, <2>7, <2>8 DEF SimInv, sim, R, T
<1> QED BY <1>0, <1>1, <1>2

\* The latest status message is given only when it is new.
LEMMA SimLatest ==
  ASSUME ServInv, SimInv, GetLatest, UNCHANGED service, UNCHANGED counts
  PROVE  SimInv'
<1> DEFINE Q == statusMsg
           n == Len(Q)
           last == Q[n]
           doc == <<last>>
           t == lastModTime
           H == simSeen
           P == ParseProperties(H, doc)
           S == P.seen
           N == P.new
           T == ToldOf(shown, simStore)
<1>0. /\ simStore = << >> /\ modified = t /\ Q # << >> /\ N # << >>
      /\ simSeen' = S /\ simStore' = << >> /\ lastModTime' = t /\ statusMsg' = Q
      /\ modified' = modified /\ statuses' = statuses
      /\ shown' = IF Head(N).kind = "status" THEN Append(shown, Head(N).n) ELSE shown
  BY DEF GetLatest, Deliver, service, counts
<1>1. t \in Nat /\ t >= 1 /\ t + 1 \in Nat /\ History \in Nat
  <2>1. MaxDefs \in Nat /\ History \in Nat /\ modified \in 1 .. versions + 1 /\ versions \in 0 .. MaxDefs
    BY ServiceAssumption DEF ServInv, Counts
  <2> QED BY <1>0, <2>1
<1>2. /\ Q \in Seq(Stamped) /\ n \in Nat /\ n # 0 /\ n <= Buffered /\ n \in 1 .. n
      /\ \A i \in 1 .. n : Q[i].kind = "status" /\ Q[i].n <= statuses
      /\ \A i, j \in 1 .. n : i < j => Q[i].n < Q[j].n /\ Q[i].uid < Q[j].uid
      /\ \A i \in 1 .. n : Q[i] \in Stamped /\ Q[i].uid \in Nat /\ Q[i].n \in Nat
  <2>1. Q \in Seq(Stamped) /\ n <= Buffered
    BY DEF ServInv, Queue
  <2>2. n \in Nat /\ n # 0
    BY <1>0, <2>1, Elements, EmptySeq
  <2> QED BY <2>1, <2>2, StampedParts DEF ServInv, Queue
<1>3. /\ last \in Stamped /\ last.kind = "status" /\ last.n \in Nat /\ last.n <= statuses
      /\ doc \in Seq(Stamped) /\ Len(doc) = 1 /\ doc[1] = last
  BY <1>2
<1>4. /\ shown \in Seq(Nat) /\ Remembered(H)
      /\ \A x \in T : x \in Nat /\ x <= statuses
      /\ Fits(t) => OnceEach(shown, simStore) /\ Holding(H, Q, T, t)
  BY DEF SimInv
<1>5. T = Range(shown)
  BY <1>0 DEF ToldOf, Statuses
<1> HIDE DEF Q, n, last, doc, t, H, P, T
<1>6. \A k \in 1 .. Len(doc) : k > 0 => Len(doc) - k < History
  BY <1>3, ServiceAssumption
<1>7. Progress(P, H, doc, 0, 1)
  BY <1>3, <1>4, <1>6, ParseProgress DEF P
<1>8. S \in Seq(Nat) /\ N \in Seq(Stamped) /\ Remembered(S)
  BY <1>7 DEF Progress, States
<1>9. \A u, A : Safe(H, doc, u, A) => Tracked(S, u, A)
  BY <1>7 DEF Progress
<1>10. PICK g \in [1 .. Len(N) -> 1 .. 1] :
       /\ \A a, b \in 1 .. Len(N) : a < b => g[a] < g[b]
       /\ \A a \in 1 .. Len(N) :
            /\ N[a] = doc[g[a]] /\ \A A : ~Safe(H, doc, N[a].uid, A)
            /\ g[a] > 0 => Tracked(S, N[a].uid, After(doc, g[a]))
  BY <1>7 DEF Progress
<1> HIDE DEF S, N
<1>11. Len(N) = 1 /\ N[1] = last /\ Head(N) = last /\ 1 \in 1 .. Len(N) /\ g[1] = 1
  <2>1. Len(N) \in Nat /\ Len(N) # 0
    BY <1>0, <1>8, Elements, EmptySeq
  <2>2. \A a \in 1 .. Len(N) : g[a] = 1
    BY <1>10
  <2>3. ~(2 \in 1 .. Len(N))
    <3> SUFFICES ASSUME 2 \in 1 .. Len(N) PROVE FALSE
      OBVIOUS
    <3>1. 1 \in 1 .. Len(N) /\ 1 < 2
      BY <2>1
    <3>2. g[1] < g[2]
      BY <1>10, <3>1
    <3> QED BY <2>2, <3>1, <3>2
  <2> DEFINE l == Len(N)
  <2> HIDE DEF l
  <2>4. Len(N) = 1
    <3>1. l \in Nat /\ l # 0 /\ ~(2 \in 1 .. l)
      BY <2>1, <2>3 DEF l
    <3>2. l = 1
      BY <3>1
    <3> QED BY <3>2 DEF l
  <2>5. N[1] = doc[1]
    BY <1>10, <2>2, <2>4
  <2> QED BY <1>3, <1>8, <2>2, <2>4, <2>5
<1>12. (\A A : ~Safe(H, doc, last.uid, A)) /\ Tracked(S, last.uid, After(doc, 1))
  BY <1>10, <1>11
<1>13. After(doc, 1) = {} /\ After(Q, n) = {}
  BY <1>2, <1>3 DEF After, n
<1>14. Fits(t) => last.n \notin T
  <2> SUFFICES ASSUME Fits(t), last.n \in T PROVE FALSE
    OBVIOUS
  <2>1. Kept(H, Q, n, t)
    BY <1>2, <1>4 DEF Holding, last, n
  <2>2. PICK B : /\ IsFiniteSet(B) /\ Cardinality(B) <= Cost(t)
                 /\ Tracked(H, last.uid, B \cup After(Q, n))
    BY <2>1 DEF Kept, last
  <2>3. B \cup After(Q, n) = B
    BY <1>13
  <2>4. Cardinality(B) < History
    <3>1. Cardinality(B) \in Nat
      BY <2>2, FS_CardinalityType
    <3>2. Cost(t) \in Nat /\ Cost(t) < History
      BY <1>1, CostGrows DEF Fits
    <3> QED BY <1>1, <2>2, <3>1, <3>2
  <2>5. \A i \in 1 .. Len(doc) : doc[i].uid \in B \cup {last.uid}
    BY <1>3
  <2>6. Safe(H, doc, last.uid, B)
    BY <2>2, <2>3, <2>4, <2>5 DEF Safe
  <2> QED BY <1>12, <2>6
<1>15. Statuses(N) = {1}
  BY <1>3, <1>11 DEF Statuses
<1>16. Fits(t) => OnceEach(shown, N)
  <2> SUFFICES ASSUME Fits(t) PROVE OnceEach(shown, N)
    OBVIOUS
  <2>1. \A i, j \in 1 .. Len(shown) : shown[i] = shown[j] => i = j
    BY <1>4 DEF OnceEach
  <2>2. DOMAIN shown = 1 .. Len(shown)
    BY <1>4, Elements
  <2>3. \A i \in 1 .. Len(shown) : shown[i] # N[1].n
    BY <1>5, <1>11, <1>14, <2>2 DEF Range
  <2> QED BY <1>15, <2>1, <2>3 DEF OnceEach
<1> DEFINE U == T \cup {last.n}
<1>17. ToldOf(shown, N) = U
  BY <1>5, <1>11, <1>15 DEF ToldOf
<1>18. Tail(N) = << >>
  <2>1. Len(Tail(N)) = 0 /\ Tail(N) \in Seq(Stamped)
    BY <1>0, <1>8, <1>11, HeadTailProperties
  <2> QED BY <2>1, EmptySeq
<1>19. /\ shown' \in Seq(Nat) /\ << >> \in Seq(Stamped) /\ ToldOf(shown', << >>) = U
       /\ Fits(t) => OnceEach(shown', << >>)
  BY <1>0, <1>4, <1>8, <1>16, <1>17, <1>18, TellsOne
<1>20. \A x \in U : x \in Nat /\ x <= statuses
  BY <1>3, <1>4
<1>21. ASSUME Fits(t), NEW k \in 1 .. n, Q[k].n \in U, Fits(t + 1) \/ k = n
       PROVE  Kept(S, Q, k, t)
  <2>1. CASE k = n
    <3>1. Tracked(S, Q[k].uid, {} \cup After(Q, k))
      BY <1>12, <1>13, <2>1 DEF last
    <3>2. IsFiniteSet({}) /\ Cardinality({}) = 0
      BY FS_EmptySet
    <3>3. 0 <= Cost(t)
      <4>1. Cost(t) \in Nat
        BY <1>1, CostGrows
      <4> QED BY <4>1
    <3> QED BY <3>1, <3>2, <3>3 DEF Kept
  <2>2. CASE k # n
    <3>1. Q[k].n # last.n /\ Fits(t + 1) /\ k < n
      <4>1. k < n
        BY <1>2, <2>2
      <4>2. Q[k].n < Q[n].n /\ Q[k].n \in Nat /\ Q[n].n \in Nat
        BY <1>2, <4>1
      <4> QED BY <1>21, <2>2, <4>1, <4>2 DEF last
    <3>2. Kept(H, Q, k, t)
      BY <1>4, <1>21, <3>1 DEF Holding, n
    <3>3. PICK B : /\ IsFiniteSet(B) /\ Cardinality(B) <= Cost(t)
                   /\ Tracked(H, Q[k].uid, B \cup After(Q, k))
      BY <3>2 DEF Kept
    <3> DEFINE A == B \cup After(Q, k)
    <3>4. /\ IsFiniteSet(After(Q, k)) /\ Cardinality(After(Q, k)) \in Nat
          /\ Cardinality(After(Q, k)) <= n - k
      <4>1. k \in 0 .. Len(Q)
        BY <1>2 DEF n
      <4> QED BY <1>2, <4>1, AfterSize DEF n
    <3>5. /\ IsFiniteSet(A) /\ Cardinality(A) \in Nat /\ Cardinality(B) \in Nat
          /\ Cardinality(A) <= Cardinality(B) + Cardinality(After(Q, k))
      BY <3>3, <3>4, Together
    <3> HIDE DEF A
    <3>6. Cardinality(A) < History
      <4>1. /\ Cost(t + 1) = Cost(t) + 2 * Buffered /\ 2 * Buffered \in Nat
            /\ Cost(t) \in Int /\ Cost(t + 1) \in Nat /\ Cost(t + 1) < History
        BY <1>1, <3>1, CostGrows DEF Fits
      <4>2. n - k <= 2 * Buffered /\ n - k \in Int
        BY <1>2, ServiceAssumption
      <4> DEFINE b == 2 * Buffered
                 x == Cardinality(A)
                 y == Cardinality(B)
                 z == Cardinality(After(Q, k))
                 c == Cost(t)
                 e == Cost(t + 1)
      <4>3. /\ b \in Nat /\ x \in Nat /\ y \in Nat /\ z \in Nat /\ c \in Int /\ e \in Nat
            /\ x <= y + z /\ y <= c /\ z <= n - k /\ n - k <= b /\ e < History
        BY <3>3, <3>4, <3>5, <4>1, <4>2
      <4>4. c + b <= e
        BY <4>1
      <4> HIDE DEF b, x, y, z, c, e
      <4>5. x < History
        BY <1>1, <4>2, <4>3, <4>4
      <4> QED BY <4>5 DEF x
    <3>7. \A i \in 1 .. Len(doc) : doc[i].uid \in A \cup {Q[k].uid}
      <4>1. n \in k + 1 .. Len(Q)
        BY <1>2, <3>1 DEF n
      <4>2. last.uid \in After(Q, k)
        BY <4>1 DEF After, last
      <4> QED BY <1>3, <4>2 DEF A
    <3>8. Safe(H, doc, Q[k].uid, A)
      BY <3>3, <3>5, <3>6, <3>7 DEF Safe, A
    <3>9. Tracked(S, Q[k].uid, B \cup After(Q, k))
      BY <1>9, <3>8 DEF A
    <3> QED BY <3>3, <3>9 DEF Kept
  <2> QED BY <2>1, <2>2
<1>22. Fits(t) => Holding(S, Q, U, t)
  BY <1>21 DEF Holding, n
<1>23. t \in 0 .. modified /\ ~(t = 0)
  BY <1>0, <1>1
<1> HIDE DEF U
<1>fits. /\ simSeen' = S /\ simStore' = << >> /\ lastModTime' = t /\ statusMsg' = Q
       /\ modified' = modified /\ statuses' = statuses
  BY <1>0
<1> QED BY <1>8, <1>19, <1>20, <1>22, <1>23, <1>fits DEF SimInv

LEMMA DocumentIs ==
  ASSUME ServInv
  PROVE  LET o == Len(controlMsg) + Len(defs)
             n == Len(statusMsg)
         IN  /\ Document \in Seq(Stamped) /\ o \in Nat /\ n \in Nat /\ Len(Document) = o + n
             /\ n <= Buffered /\ o + n <= 2 * Buffered + 1
             /\ \A i \in 1 .. o : Document[i].kind # "status"
             /\ \A k \in 1 .. n : /\ Document[o + k] = statusMsg[k]
                                  /\ After(Document, o + k) = After(statusMsg, k)
<1> DEFINE C == controlMsg
           D == defs
           Q == statusMsg
           F == C \o D
           c == Len(C)
           d == Len(D)
           n == Len(Q)
           doc == F \o Q
           o == c + d
<1>1. /\ C \in Seq(Stamped) /\ D \in Seq(Stamped) /\ Q \in Seq(Stamped)
      /\ c \in Nat /\ d \in Nat /\ n \in Nat /\ c <= Buffered /\ d <= 1 /\ n <= Buffered
      /\ \A i \in 1 .. c : C[i].kind = "control"
      /\ \A i \in 1 .. d : D[i].kind = "defs"
  BY Elements DEF ServInv, Queue
<1>2. Buffered \in Nat
  BY ServiceAssumption
<1> HIDE DEF C, D, Q
<1>3. /\ F \in Seq(Stamped) /\ Len(F) = c + d
      /\ \A i \in 1 .. c : F[i] = C[i]
      /\ \A i \in 1 .. d : F[c + i] = D[i]
  BY <1>1, Joined
<1> HIDE DEF F
<1>4. /\ doc \in Seq(Stamped) /\ Len(doc) = Len(F) + n
      /\ \A i \in 1 .. Len(F) : doc[i] = F[i]
      /\ \A i \in 1 .. n : doc[Len(F) + i] = Q[i]
  <2>1. F \in Seq(Stamped) /\ Q \in Seq(Stamped)
    BY <1>1, <1>3
  <2>2. F \o Q \in Seq(Stamped) /\ Len(F \o Q) = Len(F) + Len(Q)
    BY <2>1, Joined
  <2>3. \A i \in 1 .. Len(F) : (F \o Q)[i] = F[i]
    BY <2>1, Joined
  <2>4. \A i \in 1 .. Len(Q) : (F \o Q)[Len(F) + i] = Q[i]
    BY <2>1, Joined
  <2> QED BY <2>2, <2>3, <2>4
<1> HIDE DEF doc, c, d, n
<1>5. o \in Nat /\ Len(doc) = o + n /\ o + n <= 2 * Buffered + 1
  BY <1>1, <1>2, <1>3, <1>4
<1>6. ASSUME NEW i \in 1 .. o PROVE doc[i].kind # "status"
  <2>1. doc[i] = F[i]
    BY <1>3, <1>4
  <2>2. CASE i \in 1 .. c
    BY <1>1, <1>3, <2>1, <2>2
  <2>3. CASE i \notin 1 .. c
    <3>1. i - c \in 1 .. d /\ c + (i - c) = i
      BY <1>1, <2>3
    <3>2. F[i] = D[i - c]
      BY <1>3, <3>1
    <3> QED BY <1>1, <2>1, <3>1, <3>2
  <2> QED BY <2>2, <2>3
<1>7. \A k \in 1 .. n : doc[o + k] = Q[k]
  BY <1>3, <1>4
<1> HIDE DEF o
<1>8. ASSUME NEW k \in 1 .. n PROVE After(doc, o + k) = After(Q, k)
  <2>1. ASSUME NEW j \in (o + k) + 1 .. Len(doc) PROVE doc[j].uid \in After(Q, k)
    <3>1. j - o \in k + 1 .. n /\ j - o \in 1 .. n /\ o + (j - o) = j
      BY <1>1, <1>5
    <3>2. doc[j] = Q[j - o]
      BY <1>7, <3>1
    <3> QED BY <3>1, <3>2 DEF After, n
  <2>2. ASSUME NEW j \in k + 1 .. n PROVE Q[j].uid \in After(doc, o + k)
    <3>1. o + j \in (o + k) + 1 .. Len(doc) /\ j \in 1 .. n
      BY <1>1, <1>5
    <3>2. doc[o + j] = Q[j]
      BY <1>7, <3>1
    <3> QED BY <3>1, <3>2 DEF After
  <2> QED BY <2>1, <2>2 DEF After, n
<1>9. Document = doc
  BY DEF Document, doc, F, C, D, Q
<1> QED BY <1>1, <1>4, <1>5, <1>6, <1>7, <1>8, <1>9 DEF o, c, d, n, C, D, Q

\* How many other UIDs a document has.
LEMMA OthersFew ==
  ASSUME NEW doc \in Seq(Stamped), NEW x \in 1 .. Len(doc)
  PROVE  LET A == {doc[i].uid : i \in 1 .. Len(doc)} \ {doc[x].uid}
         IN  IsFiniteSet(A) /\ Cardinality(A) \in Nat /\ Cardinality(A) <= Len(doc) - 1
<1> DEFINE n == Len(doc)
           W == After(doc, 0)
           A == {doc[i].uid : i \in 1 .. n} \ {doc[x].uid}
<1>1. n \in Nat /\ 0 \in 0 .. n
  BY Elements
<1>2. W = {doc[i].uid : i \in 1 .. n}
  <2>1. 0 + 1 = 1
    OBVIOUS
  <2> QED BY <2>1 DEF After
<1>3. IsFiniteSet(W) /\ Cardinality(W) \in Nat /\ Cardinality(W) <= n - 0
  BY <1>1, AfterSize
<1>4. doc[x].uid \in W
  BY <1>2
<1> HIDE DEF W
<1>5. IsFiniteSet(A) /\ Cardinality(A) = Cardinality(W) - 1
  BY <1>2, <1>3, <1>4, FS_RemoveElement
<1>6. Cardinality(A) \in Nat
  BY <1>5, FS_CardinalityType
<1>7. Cardinality(A) <= n - 1
  BY <1>1, <1>3, <1>5
<1> QED BY <1>5, <1>6, <1>7

\* A document keeps in memory what was kept, at the cost of one more document.
LEMMA DocumentKeeps ==
  ASSUME ServInv, NEW H, NEW S, NEW t \in Nat, t >= 1, Fits(t + 1),
         \A u, A : Safe(H, Document, u, A) => Tracked(S, u, A),
         NEW k \in 1 .. Len(statusMsg), Kept(H, statusMsg, k, t)
  PROVE  /\ Kept(S, statusMsg, k, t + 1)
         /\ \E A : Safe(H, Document, statusMsg[k].uid, A)
<1> DEFINE Q == statusMsg
           doc == Document
           n == Len(Q)
           o == Len(controlMsg) + Len(defs)
           u == Q[k].uid
           W == {doc[i].uid : i \in 1 .. Len(doc)} \ {u}
<1>1. /\ doc \in Seq(Stamped) /\ o \in Nat /\ n \in Nat /\ Len(doc) = o + n
      /\ o + n <= 2 * Buffered + 1
      /\ doc[o + k] = Q[k] /\ After(doc, o + k) = After(Q, k)
  BY DocumentIs
<1>2. PICK B : /\ IsFiniteSet(B) /\ Cardinality(B) <= Cost(t)
               /\ Tracked(H, u, B \cup After(Q, k))
  BY DEF Kept
<1>3. \A j \in k + 1 .. n : Q[j].uid # u
  <2>0. n \in Nat /\ Q \in Seq(Stamped)
    BY <1>1 DEF ServInv, Queue
  <2> SUFFICES ASSUME NEW j \in k + 1 .. n PROVE Q[j].uid # u
    OBVIOUS
  <2>1. j \in 1 .. n /\ k < j
    BY <2>0
  <2>2. Q[k].uid < Q[j].uid /\ Q[k].uid \in Nat /\ Q[j].uid \in Nat
    BY <2>0, <2>1, StampedParts DEF ServInv, Queue
  <2> QED BY <2>2
<1> HIDE DEF doc, o
<1>4. o + k \in 1 .. Len(doc) /\ u = doc[o + k].uid
  <2>1. o + k \in 1 .. Len(doc)
    BY <1>1
  <2> QED BY <1>1, <2>1
<1>5. IsFiniteSet(W) /\ Cardinality(W) \in Nat /\ Cardinality(W) <= Len(doc) - 1
  BY <1>1, <1>4, OthersFew
<1>6. After(Q, k) \subseteq W
  <2> SUFFICES ASSUME NEW j \in k + 1 .. n PROVE Q[j].uid \in W
    BY DEF After
  <2>1. Q[j].uid # u
    BY <1>3
  <2>2. Q[j].uid \in After(doc, o + k)
    BY <1>1 DEF After
  <2>3. \A i \in (o + k) + 1 .. Len(doc) : i \in 1 .. Len(doc)
    BY <1>1
  <2> QED BY <2>1, <2>2, <2>3 DEF After
<1> DEFINE A == B \cup W
<1>7. /\ IsFiniteSet(A) /\ Cardinality(A) \in Nat /\ Cardinality(B) \in Nat
      /\ Cardinality(A) <= Cardinality(B) + Cardinality(W)
  BY <1>2, <1>5, Together
<1>8. \A i \in 1 .. Len(doc) : doc[i].uid \in A \cup {u}
  OBVIOUS
<1>9. Tracked(H, u, A)
  <2>1. B \cup After(Q, k) \subseteq A
    BY <1>6
  <2> QED BY <1>2, <2>1, TrackedMore
<1>10. /\ Cost(t + 1) = Cost(t) + 2 * Buffered /\ 2 * Buffered \in Nat
       /\ Cost(t) \in Int /\ Cost(t + 1) \in Nat /\ Cost(t + 1) < History
  <2>1. t + 1 \in Nat /\ t + 1 >= 1
    OBVIOUS
  <2> QED BY <2>1, CostGrows DEF Fits
<1> HIDE DEF A, W, u, n, Q
<1>11. Cardinality(A) <= Cost(t + 1) /\ Cardinality(A) < History
  <2> DEFINE b == 2 * Buffered
             x == Cardinality(A)
             y == Cardinality(B)
             z == Cardinality(W)
             c == Cost(t)
             e == Cost(t + 1)
             l == Len(doc)
  <2>1. /\ b \in Nat /\ x \in Nat /\ y \in Nat /\ z \in Nat /\ c \in Int /\ e \in Nat
        /\ x <= y + z /\ y <= c /\ e = c + b /\ e < History
    BY <1>2, <1>5, <1>7, <1>10
  <2>2. z <= l - 1 /\ l <= b + 1 /\ l \in Nat
    BY <1>1, <1>5
  <2>3. History \in Nat
    BY ServiceAssumption
  <2> HIDE DEF b, x, y, z, c, e, l
  <2>4. x <= e /\ x < History
    BY <2>1, <2>2, <2>3
  <2> QED BY <2>4 DEF x, e
<1>12. Safe(H, doc, u, A)
  BY <1>7, <1>8, <1>9, <1>11 DEF Safe
<1>13. Tracked(S, u, A \cup After(Q, k))
  <2>1. Tracked(S, u, A)
    BY <1>12 DEF doc
  <2> QED BY <2>1, TrackedMore
<1>14. Kept(S, Q, k, t + 1)
  BY <1>7, <1>11, <1>13 DEF Kept, u
<1> QED BY <1>12, <1>14 DEF doc, u, Q

\* What is new in a document was not given before.
LEMMA SimDocument ==
  ASSUME ServInv, SimInv, GetDocument, UNCHANGED service, UNCHANGED counts
  PROVE  SimInv'
<1> DEFINE Q == statusMsg
           n == Len(Q)
           o == Len(controlMsg) + Len(defs)
           doc == Document
           t == lastModTime
           e == modified
           H == simSeen
           P == ParseProperties(H, doc)
           S == P.seen
           N == P.new
           T == ToldOf(shown, simStore)
           U == ToldOf(shown, N)
<1>0. /\ simStore = << >> /\ e # t
      /\ simSeen' = S /\ lastModTime' = e /\ statusMsg' = Q /\ modified' = e /\ statuses' = statuses
      /\ IF N = << >> THEN shown' = shown /\ simStore' = << >>
         ELSE /\ shown' = IF Head(N).kind = "status" THEN Append(shown, Head(N).n) ELSE shown
              /\ simStore' = Tail(N)
  BY DEF GetDocument, Deliver, Rest, service, counts
<1>1. t \in Nat /\ t + 1 \in Nat /\ e \in Nat /\ e >= 1 /\ t + 1 <= e /\ e \in 0 .. e
  <2>1. /\ MaxDefs \in Nat /\ e \in 1 .. versions + 1 /\ versions \in 0 .. MaxDefs /\ t \in 0 .. e
    BY ServiceAssumption DEF ServInv, Counts, SimInv
  <2> QED BY <1>0, <2>1
<1>2. /\ Q \in Seq(Stamped) /\ doc \in Seq(Stamped) /\ n \in Nat /\ o \in Nat /\ Len(doc) = o + n
      /\ n <= Buffered
      /\ \A i \in 1 .. o : doc[i].kind # "status"
      /\ \A k \in 1 .. n : doc[o + k] = Q[k] /\ After(doc, o + k) = After(Q, k)
  <2>1. Q \in Seq(Stamped)
    BY DEF ServInv, Queue
  <2> QED BY <2>1, DocumentIs
<1>3. \A k \in 1 .. n : Q[k].n \in Nat /\ Q[k].n <= statuses
  BY <1>2, StampedParts DEF ServInv, Queue
<1>4. ASSUME NEW j \in 1 .. n, NEW k \in 1 .. n, Q[j].n = Q[k].n PROVE j = k
  <2>1. \A i, l \in 1 .. n : i < l => Q[i].n < Q[l].n
    BY DEF ServInv, Queue
  <2>2. ~(j < k) /\ ~(k < j)
    BY <1>3, <1>4, <2>1
  <2> QED BY <2>2
<1>5. /\ shown \in Seq(Nat) /\ Remembered(H)
      /\ \A x \in T : x \in Nat /\ x <= statuses
      /\ t = 0 => T = {}
      /\ Fits(t) => OnceEach(shown, simStore) /\ Holding(H, Q, T, t)
  BY DEF SimInv
<1>6. T = Range(shown)
  BY <1>0 DEF ToldOf, Statuses
<1> HIDE DEF Q, n, o, doc, t, e, H, P, T
<1>7. \A k \in 1 .. Len(doc) : k > o => Len(doc) - k < History
  <2> SUFFICES ASSUME NEW k \in 1 .. o + n, k > o PROVE o + n - k < History
    BY <1>2
  <2> QED BY <1>2, ServiceAssumption
<1>8. Progress(P, H, doc, o, Len(doc))
  BY <1>2, <1>5, <1>7, ParseProgress DEF P
<1>9. S \in Seq(Nat) /\ N \in Seq(Stamped) /\ Remembered(S)
  BY <1>8 DEF Progress, States
<1>10. \A u, A : Safe(H, doc, u, A) => Tracked(S, u, A)
  BY <1>8 DEF Progress
<1>11. PICK g \in [1 .. Len(N) -> 1 .. Len(doc)] :
       /\ \A a, b \in 1 .. Len(N) : a < b => g[a] < g[b]
       /\ \A a \in 1 .. Len(N) :
            /\ N[a] = doc[g[a]] /\ \A A : ~Safe(H, doc, N[a].uid, A)
            /\ g[a] > o => Tracked(S, N[a].uid, After(doc, g[a]))
  BY <1>8 DEF Progress
<1> HIDE DEF S, N
<1>fits. Fits(e) => Fits(t) /\ Fits(t + 1)
  <2>0. t <= e
    BY <1>1
  <2>1. /\ Cost(t) \in Int /\ Cost(t + 1) \in Int /\ Cost(e) \in Int
        /\ Cost(t) <= Cost(e) /\ Cost(t + 1) <= Cost(e)
    BY <1>1, <2>0, CostGrows
  <2>2. History \in Nat
    BY ServiceAssumption
  <2> QED BY <2>1, <2>2 DEF Fits
<1>12. ASSUME Fits(e), NEW k \in 1 .. n, Q[k].n \in T
       PROVE  Kept(S, Q, k, e) /\ \E A : Safe(H, doc, Q[k].uid, A)
  <2>1. t >= 1 /\ Fits(t) /\ Fits(t + 1)
    BY <1>fits, <1>1, <1>5, <1>12
  <2>2. Kept(H, Q, k, t)
    BY <1>5, <1>12, <2>1 DEF Holding, n
  <2>3. Kept(S, Q, k, t + 1) /\ \E A : Safe(H, doc, Q[k].uid, A)
    BY <1>1, <1>10, <2>1, <2>2, DocumentKeeps DEF Q, n, doc
  <2>4. PICK B : /\ IsFiniteSet(B) /\ Cardinality(B) <= Cost(t + 1)
                 /\ Tracked(S, Q[k].uid, B \cup After(Q, k))
    BY <2>3 DEF Kept
  <2>5. Cardinality(B) <= Cost(e)
    <3>1. Cardinality(B) \in Nat
      BY <2>4, FS_CardinalityType
    <3>2. t + 1 \in Nat
      BY <1>1
    <3>3. Cost(t + 1) \in Int /\ Cost(e) \in Int /\ Cost(t + 1) <= Cost(e)
      BY <1>1, <3>2, CostGrows
    <3> QED BY <2>4, <3>1, <3>3
  <2> QED BY <2>3, <2>4, <2>5 DEF Kept
<1>13. ASSUME NEW a \in Statuses(N)
       PROVE  \E k \in 1 .. n : /\ g[a] = o + k /\ N[a] = Q[k]
                                /\ Tracked(S, Q[k].uid, After(Q, k))
                                /\ Fits(e) => Q[k].n \notin T
  <2>1. a \in 1 .. Len(N) /\ N[a].kind = "status"
    BY DEF Statuses
  <2>2. /\ g[a] \in 1 .. o + n /\ N[a] = doc[g[a]] /\ \A A : ~Safe(H, doc, N[a].uid, A)
        /\ g[a] > o => Tracked(S, N[a].uid, After(doc, g[a]))
    BY <1>2, <1>11, <2>1
  <2>3. g[a] \notin 1 .. o
    BY <1>2, <2>1, <2>2
  <2>4. g[a] - o \in 1 .. n /\ o + (g[a] - o) = g[a] /\ g[a] > o
    BY <1>2, <2>2, <2>3
  <2> DEFINE k == g[a] - o
  <2>5. k \in 1 .. n /\ o + k = g[a]
    BY <2>4
  <2> HIDE DEF k
  <2>6. N[a] = Q[k] /\ After(doc, g[a]) = After(Q, k)
    BY <1>2, <2>2, <2>5
  <2>7. Fits(e) => Q[k].n \notin T
    BY <1>12, <2>2, <2>5, <2>6
  <2> QED BY <2>2, <2>4, <2>5, <2>6, <2>7
<1>14. ASSUME NEW a \in Statuses(N), NEW b \in Statuses(N), N[a].n = N[b].n PROVE a = b
  <2>1. PICK j \in 1 .. n : g[a] = o + j /\ N[a] = Q[j]
    BY <1>13
  <2>2. PICK k \in 1 .. n : g[b] = o + k /\ N[b] = Q[k]
    BY <1>13
  <2>3. g[a] = g[b]
    BY <1>4, <1>14, <2>1, <2>2
  <2>4. a \in 1 .. Len(N) /\ b \in 1 .. Len(N) /\ Len(N) \in Nat
    BY <1>9, Elements DEF Statuses
  <2>5. g[a] \in Nat /\ ~(g[a] < g[b]) /\ ~(g[b] < g[a])
    BY <1>2, <2>1, <2>3
  <2>6. ~(a < b) /\ ~(b < a)
    BY <1>11, <2>4, <2>5
  <2> QED BY <2>4, <2>6
<1>15. Fits(e) => OnceEach(shown, N)
  <2> SUFFICES ASSUME Fits(e) PROVE OnceEach(shown, N)
    OBVIOUS
  <2>1. \A i, j \in 1 .. Len(shown) : shown[i] = shown[j] => i = j
    BY <1>5, <1>fits DEF OnceEach
  <2>2. DOMAIN shown = 1 .. Len(shown)
    BY <1>5, Elements
  <2>3. ASSUME NEW i \in 1 .. Len(shown), NEW a \in Statuses(N) PROVE shown[i] # N[a].n
    <3>1. N[a].n \notin T
      BY <1>13
    <3>2. shown[i] \in T
      BY <1>6, <2>2 DEF Range
    <3> QED BY <3>1, <3>2
  <2> QED BY <1>14, <2>1, <2>3 DEF OnceEach
<1>16. U = T \cup {N[a].n : a \in Statuses(N)}
  BY <1>6 DEF ToldOf
<1>17. /\ shown' \in Seq(Nat) /\ simStore' \in Seq(Stamped) /\ ToldOf(shown', simStore') = U
       /\ Fits(e) => OnceEach(shown', simStore')
  <2>1. CASE N = << >>
    BY <1>0, <1>5, <1>9, <1>15, <2>1
  <2>2. CASE N # << >>
    BY <1>0, <1>5, <1>9, <1>15, <2>2, TellsOne
  <2> QED BY <2>1, <2>2
<1> HIDE DEF U
<1>18. \A x \in U : x \in Nat /\ x <= statuses
  <2>1. ASSUME NEW a \in Statuses(N) PROVE N[a].n \in Nat /\ N[a].n <= statuses
    BY <1>3, <1>13
  <2> QED BY <1>5, <1>16, <2>1
<1>19. ASSUME Fits(e), NEW k \in 1 .. n, Q[k].n \in U PROVE Kept(S, Q, k, e)
  <2>1. CASE Q[k].n \in T
    BY <1>12, <1>19, <2>1
  <2>2. CASE Q[k].n \notin T
    <3>1. PICK a \in Statuses(N) : N[a].n = Q[k].n
      BY <1>16, <1>19, <2>2
    <3>2. PICK j \in 1 .. n : N[a] = Q[j] /\ Tracked(S, Q[j].uid, After(Q, j))
      BY <1>13
    <3>3. j = k
      BY <1>4, <3>1, <3>2
    <3>4. Tracked(S, Q[k].uid, {} \cup After(Q, k))
      BY <3>2, <3>3
    <3>5. IsFiniteSet({}) /\ Cardinality({}) = 0
      BY FS_EmptySet
    <3>6. 0 <= Cost(e)
      <4>1. Cost(e) \in Nat
        BY <1>1, CostGrows
      <4> QED BY <4>1
    <3> QED BY <3>4, <3>5, <3>6 DEF Kept
  <2> QED BY <2>1, <2>2
<1>20. Fits(e) => Holding(S, Q, U, e)
  BY <1>19 DEF Holding, n
<1>21. ~(e = 0)
  BY <1>1
<1>22. simSeen' = S /\ lastModTime' = e /\ statusMsg' = Q /\ modified' = e /\ statuses' = statuses
  BY <1>0
<1> QED BY <1>1, <1>9, <1>17, <1>18, <1>20, <1>21, <1>22 DEF SimInv

LEMMA SimStep == ServInv /\ SimInv /\ [ServiceNext]_serviceVars => SimInv'
<1> SUFFICES ASSUME ServInv, SimInv, [ServiceNext]_serviceVars PROVE SimInv'
  OBVIOUS
<1>0. ServInv'
  BY ServStep
<1>1. /\ statuses \in Nat /\ modified \in Nat /\ statuses' \in Nat /\ modified' \in Nat
      /\ statuses <= statuses /\ modified <= modified
  BY <1>0 DEF ServInv, Counts
<1>2. CASE SendStatus
  BY <1>2, SimSent
<1>3. CASE SendDefs
  <2>1. /\ statuses' = statuses /\ UNCHANGED <<sim, statusMsg>>
        /\ modified' = modified + 1 \/ modified' = modified
    BY <1>3 DEF SendDefs
  <2>2. modified <= modified'
    BY <1>1, <2>1
  <2> QED BY <1>1, <2>1, <2>2, SimLater
<1>4. CASE SendControl
  BY <1>1, <1>4, SimLater DEF SendControl
<1>5. CASE GetControl
  BY <1>1, <1>5, SimLater DEF GetControl, service, counts
<1>6. CASE Restart
  BY <1>1, <1>6, SimLater DEF Restart, service, counts
<1>7. CASE GetStatus
  BY <1>7, SimStored, SimDocument, SimLatest DEF GetStatus
<1>8. CASE Attach
  BY <1>8, SimFresh
<1>9. CASE UNCHANGED serviceVars
  BY <1>1, <1>9, SimLater DEF serviceVars, service, counts
<1> QED BY <1>2, <1>3, <1>4, <1>5, <1>6, <1>7, <1>8, <1>9 DEF ServiceNext

\* An application acts on control messages in order and on none twice, and a client is
\* given no status message twice as long as the documents it has read fit in its memory:
\* in between documents it looks at the latest status message only, and each document can
\* push 2 * Buffered UIDs between a message and its repetition.
THEOREM NothingTwice == ServiceSpec => []OnceOnly
<1>1. SimInv => (Cost(lastModTime) < History => IsInjective(shown))
  <2> SUFFICES ASSUME SimInv, Cost(lastModTime) < History PROVE IsInjective(shown)
    OBVIOUS
  <2>1. DOMAIN shown = 1 .. Len(shown)
    BY Elements DEF SimInv
  <2> QED BY <2>1 DEF SimInv, Fits, OnceEach, IsInjective
<1>2. ServiceSpec => [](\A i, j \in DOMAIN acted : i < j => acted[i] < acted[j])
  BY ActedInOrder
<1>3. ServiceInit => ServInv /\ SimInv
  BY ServInit, SimInit
<1>4. ServInv /\ SimInv /\ [ServiceNext]_serviceVars => ServInv' /\ SimInv'
  BY ServStep, SimStep
<1>5. (\A i, j \in DOMAIN acted : i < j => acted[i] < acted[j]) /\ SimInv => OnceOnly
  BY <1>1 DEF OnceOnly
<1> QED BY <1>2, <1>3, <1>4, <1>5, PTL DEF ServiceSpec
=============================================================================
