------------------------ MODULE SampleStream_proofs ------------------------
(***************************************************************************)
(* Backpressure and EndMeansWhole of SampleStream, for any number of       *)
(* samples, connections and failures, any size of buffers, and also for a  *)
(* consumer that stops before the end of a sample.                         *)
(*                                                                         *)
(* While a connection lives, at most one sample on it has not been         *)
(* acknowledged.  AckInv follows it: it is the last that was begun; it is  *)
(* on its way, or the consumer holds it, or its acknowledgement is on its  *)
(* way back, never two of these.  FreshInv says that nothing has happened  *)
(* on a connection that was not accepted, HeldInv that the consumer only   *)
(* ever acknowledges on the connection that brought the sample.            *)
(*                                                                         *)
(* TidyInv says what is on its way: each packet may follow the one before  *)
(* it, the first may follow what the consumer has read, and the next that  *)
(* the emitter sends may follow the last.  What was cut off is at the end, *)
(* where nothing comes any more (OpenInv).                                 *)
(***************************************************************************)
EXTENDS SampleStream, SequenceTheorems, TLAPS

Message == [kind : {"head", "slice", "cut", "foot"}, n : Seqs, i : Nat]
Ack     == [kind : {"ack"}, n : Seqs]

TypeInv ==
  /\ ecur \in Conns \cup {None} /\ ccur \in Conns \cup {None}
  /\ eseq \in 0 .. LastSeq /\ nslices \in Nat
  /\ epc \in {"idle", "connect", "header", "again", "open"}
  /\ cack \in BOOLEAN /\ con \in BOOLEAN /\ cpc \in {"idle", "connect", "search", "reading"}
  /\ cseq \in 0 .. LastSeq
  /\ epc \in {"connect", "header", "again"} => eseq + 1 \in Seqs
  /\ epc = "open" => eseq \in Seqs
  /\ backlog \in Seq(Conns) /\ nconn \in 0 .. MaxConns
  /\ eup \in [Conns -> BOOLEAN] /\ cup \in [Conns -> BOOLEAN]
  /\ down \in [Conns -> Seq(Message)] /\ up \in [Conns -> Seq(Ack)]
  /\ on \in [Seqs -> Conns \cup {None}] /\ acked \subseteq Seqs

\* Connections that the emitter has not accepted, made or not.
Untouched(k) == k > nconn \/ k \in Pending

Ordered ==
  /\ ecur <= nconn /\ ccur <= nconn
  /\ \A i \in 1 .. Len(backlog) : ecur < backlog[i] /\ backlog[i] <= nconn
  /\ \A i, j \in 1 .. Len(backlog) : i < j => backlog[i] < backlog[j]

FreshInv ==
  /\ \A k \in Conns : Untouched(k) => up[k] = << >> /\ \A n \in Seqs : on[n] # k
  /\ \A n \in Seqs : n > eseq => on[n] = None
  /\ \A n \in acked : on[n] # None

Holding == cpc = "reading" \/ cack

HeldInv ==
  /\ \A k \in Conns : \A i \in 1 .. Len(down[k]) :
       down[k][i].kind = "head" => on[down[k][i].n] = k
  /\ Holding => ccur \in Conns /\ cseq \in Seqs /\ on[cseq] = ccur
  /\ cack => cpc = "idle" /\ con
  /\ ccomms = "connected" \/ cpc = "search" => ccur \in Conns
  /\ ecomms = "connected" => ecur \in Conns
  /\ epc \in {"header", "again", "open"} => ecomms = "connected"
  /\ epc # "idle" => eon
  /\ cpc # "idle" => con

Live    == ecomms = "connected" /\ ecur \in Conns /\ eup[ecur] /\ cup[ecur]
Settled == epc \in {"connect", "header", "again"} \/ (epc = "idle" /\ ~eack)

\* What AckInv says of the connection k.
AckOn(k) ==
  /\ \A n \in Seqs : on[n] = k /\ n < eseq => n \in acked
  /\ Settled => up[k] = << >> /\ \A n \in Seqs : on[n] = k => n \in acked
  /\ Len(up[k]) <= 1
  /\ up[k] # << >> => eseq \in acked
  /\ Holding /\ ccur = k =>
       /\ cseq = eseq /\ eseq \notin acked /\ up[k] = << >>
       /\ \A i \in 1 .. Len(down[k]) : down[k][i].kind # "head"
  /\ \A i \in 1 .. Len(down[k]) : down[k][i].kind = "head" =>
       /\ down[k][i].n = eseq /\ eseq \notin acked /\ up[k] = << >>
       /\ \A j \in 1 .. Len(down[k]) : down[k][j].kind = "head" => j = i

AckInv == UseAck /\ Live => AckOn(ecur)

IInv == TypeInv /\ Ordered /\ FreshInv /\ HeldInv /\ AckInv

-----------------------------------------------------------------------------
(* What is on its way only loses something, unless a sample is begun.      *)

\* Whatever begins a sample in p does so in q, in the same order.
Within(p, q) ==
  \E d \in Nat : \A i \in 1 .. Len(p) :
    p[i].kind = "head" => i + d \in 1 .. Len(q) /\ q[i + d] = p[i]

LEMMA SelfWithin == ASSUME NEW q \in Seq(Message) PROVE Within(q, q)
BY DEF Within

LEMMA TailWithin ==
  ASSUME NEW q \in Seq(Message), q # << >>
  PROVE  /\ Tail(q) \in Seq(Message) /\ Within(Tail(q), q)
         /\ Head(q) \in Message /\ Head(q) = q[1] /\ 1 \in 1 .. Len(q)
<1>1. /\ Tail(q) \in Seq(Message) /\ Len(Tail(q)) = Len(q) - 1 /\ Len(q) \in Nat /\ Len(q) # 0
      /\ \A i \in 1 .. Len(q) - 1 : Tail(q)[i] = q[i + 1]
  OBVIOUS
<1>2. Within(Tail(q), q)
  <2>1. \A i \in 1 .. Len(Tail(q)) : i + 1 \in 1 .. Len(q) /\ q[i + 1] = Tail(q)[i]
    BY <1>1
  <2> QED BY <2>1 DEF Within
<1> QED BY <1>1, <1>2

LEMMA EmptyWithin ==
  ASSUME NEW q \in Seq(Message)
  PROVE  << >> \in Seq(Message) /\ Within(<< >>, q)
<1>1. Len(<< >>) = 0
  OBVIOUS
<1> QED BY <1>1 DEF Within

LEMMA AppendWithin ==
  ASSUME NEW q \in Seq(Message), NEW m \in Message, m.kind # "head"
  PROVE  Append(q, m) \in Seq(Message) /\ Within(Append(q, m), q)
<1> DEFINE p == Append(q, m)
<1>1. /\ p \in Seq(Message) /\ Len(p) = Len(q) + 1 /\ Len(q) \in Nat
      /\ p[Len(q) + 1] = m /\ \A i \in 1 .. Len(q) : p[i] = q[i]
  OBVIOUS
<1>2. \A i \in 1 .. Len(p) : p[i].kind = "head" => i + 0 \in 1 .. Len(q) /\ q[i + 0] = p[i]
  BY <1>1
<1> QED BY <1>1, <1>2 DEF Within

LEMMA PartsWithin ==
  ASSUME NEW q \in Seq(Message), NEW p \in Parts(q)
  PROVE  p \in Seq(Message) /\ Within(p, q)
<1>0. Len(q) \in Nat /\ DOMAIN q = 1 .. Len(q) /\ \A i \in 1 .. Len(q) : q[i] \in Message
  OBVIOUS
<1>1. ASSUME NEW i \in 0 .. Len(q)
      PROVE  /\ SubSeq(q, 1, i) \in Seq(Message) /\ Len(SubSeq(q, 1, i)) = i
             /\ \A j \in 1 .. i : SubSeq(q, 1, i)[j] = q[j]
             /\ Within(SubSeq(q, 1, i), q)
  <2>1. /\ SubSeq(q, 1, i) \in Seq(Message) /\ Len(SubSeq(q, 1, i)) = i
        /\ \A j \in 1 .. i : SubSeq(q, 1, i)[j] = q[j]
    BY <1>0
  <2>2. \A j \in 1 .. Len(SubSeq(q, 1, i)) : j + 0 \in 1 .. Len(q) /\ q[j + 0] = SubSeq(q, 1, i)[j]
    BY <1>0, <2>1
  <2> QED BY <2>1, <2>2 DEF Within
<1>2. ASSUME NEW i \in 1 .. Len(q)
      PROVE  LET c == Append(SubSeq(q, 1, i - 1), [kind |-> "cut", n |-> q[i].n, i |-> q[i].i])
             IN  c \in Seq(Message) /\ Within(c, q)
  <2> DEFINE b == SubSeq(q, 1, i - 1)
             m == [kind |-> "cut", n |-> q[i].n, i |-> q[i].i]
  <2>1. i - 1 \in 0 .. Len(q)
    BY <1>0
  <2>2. /\ b \in Seq(Message) /\ Len(b) = i - 1 /\ \A j \in 1 .. i - 1 : b[j] = q[j]
    BY <1>1, <2>1
  <2>3. m \in Message /\ m.kind # "head"
    BY <1>0 DEF Message
  <2>4. /\ Append(b, m) \in Seq(Message) /\ Len(Append(b, m)) = i /\ Append(b, m)[i] = m
        /\ \A j \in 1 .. i - 1 : Append(b, m)[j] = q[j]
    BY <1>0, <2>2, <2>3
  <2>5. \A j \in 1 .. Len(Append(b, m)) : Append(b, m)[j].kind = "head" =>
          j + 0 \in 1 .. Len(q) /\ q[j + 0] = Append(b, m)[j]
    BY <1>0, <2>3, <2>4
  <2> QED BY <2>4, <2>5 DEF Within
<1>3. \/ \E i \in 0 .. Len(q) : p = SubSeq(q, 1, i)
      \/ \E i \in 1 .. Len(q) : p = Append(SubSeq(q, 1, i - 1), [kind |-> "cut", n |-> q[i].n, i |-> q[i].i])
  BY <1>0 DEF Parts
<1> QED BY <1>1, <1>2, <1>3

LEMMA AckPrefix ==
  ASSUME NEW q \in Seq(Ack), NEW i \in 0 .. Len(q)
  PROVE  SubSeq(q, 1, i) \in Seq(Ack) /\ (q = << >> => SubSeq(q, 1, i) = << >>)
<1>1. SubSeq(q, 1, i) \in Seq(Ack) /\ Len(SubSeq(q, 1, i)) = i
  OBVIOUS
<1> QED BY <1>1, EmptySeq

-----------------------------------------------------------------------------
(* Steps of the network.  Nothing begins a sample on a connection, and no  *)
(* acknowledgement appears on one, nor disappears from one that lives.     *)

NetType ==
  /\ eup \in [Conns -> BOOLEAN] /\ cup \in [Conns -> BOOLEAN]
  /\ down \in [Conns -> Seq(Message)] /\ up \in [Conns -> Seq(Ack)]

CalmOn(k) ==
  /\ Within(down'[k], down[k])
  /\ up[k] = << >> => up'[k] = << >>
  /\ k <= nconn /\ eup'[k] /\ cup'[k] => eup[k] /\ cup[k] /\ up'[k] = up[k]

Calm == NetType' /\ \A k \in Conns : CalmOn(k)

LEMMA CalmIdle ==
  ASSUME NetType, UNCHANGED <<eup, cup, down, up>>
  PROVE  Calm
<1>1. ASSUME NEW k \in Conns PROVE CalmOn(k)
  <2>1. down[k] \in Seq(Message)
    BY DEF NetType
  <2> QED BY <2>1, SelfWithin DEF CalmOn
<1> QED BY <1>1 DEF Calm, NetType

LEMMA CalmDown ==
  ASSUME NetType, UNCHANGED <<eup, cup, up>>, NEW k, NEW q,
         k \in Conns => q \in Seq(Message) /\ Within(q, down[k]),
         down' = [down EXCEPT ![k] = q]
  PROVE  Calm
<1>1. ASSUME NEW j \in Conns
      PROVE  down'[j] \in Seq(Message) /\ Within(down'[j], down[j])
  <2>1. down[j] \in Seq(Message) /\ down'[j] = IF j = k THEN q ELSE down[j]
    BY DEF NetType
  <2> QED BY <2>1, SelfWithin
<1>2. down' \in [Conns -> Seq(Message)]
  BY <1>1 DEF NetType
<1> QED BY <1>1, <1>2 DEF Calm, NetType, CalmOn

LEMMA CalmSend ==
  ASSUME NetType, UNCHANGED <<eup, cup, up>>, NEW k,
         NEW kind \in {"slice", "foot"}, NEW n \in Seqs, NEW i \in Nat, Send(k, kind, n, i)
  PROVE  Calm
<1>1. CASE UNCHANGED down
  BY <1>1, CalmIdle
<1>2. CASE down' = [down EXCEPT ![k] = Append(@, [kind |-> kind, n |-> n, i |-> i])]
  <2> DEFINE m == [kind |-> kind, n |-> n, i |-> i]
  <2>1. m \in Message /\ m.kind # "head"
    BY DEF Message
  <2>2. ASSUME k \in Conns
        PROVE  Append(down[k], m) \in Seq(Message) /\ Within(Append(down[k], m), down[k])
    <3>1. down[k] \in Seq(Message)
      BY <2>2 DEF NetType
    <3> QED BY <2>1, <3>1, AppendWithin
  <2>3. down' = [down EXCEPT ![k] = Append(down[k], m)]
    BY <1>2
  <2> HIDE DEF m
  <2> QED BY <2>2, <2>3, CalmDown
<1> QED BY <1>1, <1>2 DEF Send

LEMMA CalmEmitterLeaves ==
  ASSUME NetType, UNCHANGED cup, NEW ks, EmitterLeaves(ks)
  PROVE  Calm /\ \A k \in Conns : k \in ks => ~eup'[k]
<1>1. /\ eup' \in [Conns -> BOOLEAN] /\ up' \in [Conns -> Seq(Ack)]
      /\ \A k \in Conns : /\ (eup'[k] <=> (eup[k] /\ k \notin ks))
                          /\ up'[k] = IF k \in ks THEN << >> ELSE up[k]
  <2>1. \A k \in Conns : up[k] \in Seq(Ack) /\ << >> \in Seq(Ack)
    BY DEF NetType
  <2> QED BY <2>1 DEF NetType, EmitterLeaves
<1>2. ASSUME NEW k \in Conns
      PROVE  down'[k] \in Seq(Message) /\ Within(down'[k], down[k])
  <2>1. down[k] \in Seq(Message)
    BY DEF NetType
  <2>2. \/ down'[k] = down[k]
        \/ down'[k] \in Parts(down[k])
    BY DEF NetType, EmitterLeaves
  <2> QED BY <2>1, <2>2, SelfWithin, PartsWithin
<1>3. down' \in [Conns -> Seq(Message)]
  BY <1>2 DEF NetType, EmitterLeaves
<1> QED BY <1>1, <1>2, <1>3 DEF Calm, NetType, CalmOn

LEMMA CalmConsumerLeaves ==
  ASSUME NetType, UNCHANGED eup, ConsumerLeaves(ccur)
  PROVE  Calm
<1>1. CASE ccur = None
  BY <1>1, CalmIdle DEF ConsumerLeaves
<1>2. CASE ccur # None
  <2>1. ASSUME NEW k \in Conns
        PROVE  /\ down'[k] \in Seq(Message) /\ Within(down'[k], down[k])
               /\ up'[k] \in Seq(Ack) /\ (up[k] = << >> => up'[k] = << >>)
               /\ cup'[k] => cup[k] /\ up'[k] = up[k]
    <3>1. down[k] \in Seq(Message) /\ up[k] \in Seq(Ack)
      BY DEF NetType
    <3>2. down'[k] = down[k] \/ down'[k] = << >>
      BY <1>2 DEF NetType, ConsumerLeaves
    <3>3. \/ up'[k] = up[k]
          \/ k = ccur /\ \E i \in 0 .. Len(up[k]) : up'[k] = SubSeq(up[k], 1, i)
      BY <1>2 DEF NetType, ConsumerLeaves
    <3>4. cup'[k] <=> cup[k] /\ k # ccur
      BY <1>2 DEF NetType, ConsumerLeaves
    <3> QED BY <3>1, <3>2, <3>3, <3>4, SelfWithin, EmptyWithin, AckPrefix
  <2>2. /\ cup' \in [Conns -> BOOLEAN] /\ down' \in [Conns -> Seq(Message)]
        /\ up' \in [Conns -> Seq(Ack)]
    BY <1>2, <2>1 DEF NetType, ConsumerLeaves
  <2> QED BY <2>1, <2>2 DEF Calm, NetType, CalmOn
<1> QED BY <1>1, <1>2

LEMMA CalmBreak ==
  ASSUME NetType, Break
  PROVE  Calm
<1>1. PICK c \in Conns :
        /\ eup' = [eup EXCEPT ![c] = FALSE] /\ cup' = [cup EXCEPT ![c] = FALSE]
        /\ \E q \in Parts(down[c]) : down' = [down EXCEPT ![c] = q]
        /\ \E i \in 0 .. Len(up[c]) : up' = [up EXCEPT ![c] = SubSeq(@, 1, i)]
  BY DEF Break
<1>2. ASSUME NEW k \in Conns
      PROVE  /\ down'[k] \in Seq(Message) /\ Within(down'[k], down[k])
             /\ up'[k] \in Seq(Ack) /\ (up[k] = << >> => up'[k] = << >>)
             /\ eup'[k] /\ cup'[k] => eup[k] /\ cup[k] /\ up'[k] = up[k]
  <2>1. down[k] \in Seq(Message) /\ up[k] \in Seq(Ack)
    BY DEF NetType
  <2>2. down'[k] = down[k] \/ down'[k] \in Parts(down[k])
    BY <1>1 DEF NetType
  <2>3. \/ up'[k] = up[k]
        \/ k = c /\ \E i \in 0 .. Len(up[k]) : up'[k] = SubSeq(up[k], 1, i)
    BY <1>1 DEF NetType
  <2>4. (eup'[k] <=> eup[k] /\ k # c) /\ (cup'[k] <=> cup[k] /\ k # c)
    BY <1>1 DEF NetType
  <2> QED BY <2>1, <2>2, <2>3, <2>4, SelfWithin, PartsWithin, AckPrefix
<1>3. NetType'
  BY <1>1, <1>2 DEF NetType
<1> QED BY <1>2, <1>3 DEF Calm, CalmOn

LEMMA CalmTail ==
  ASSUME NetType, UNCHANGED <<eup, cup, up>>, NEW k,
         down[k] # << >>, down' = [down EXCEPT ![k] = Tail(@)]
  PROVE  Calm
<1>1. ASSUME k \in Conns
      PROVE  Tail(down[k]) \in Seq(Message) /\ Within(Tail(down[k]), down[k])
  <2>1. down[k] \in Seq(Message)
    BY <1>1 DEF NetType
  <2> QED BY <2>1, TailWithin
<1>2. down' = [down EXCEPT ![k] = Tail(down[k])]
  OBVIOUS
<1> QED BY <1>1, <1>2, CalmDown

\* Only these are not calm.
Begins  == (EmitHeader \/ EmitHeaderAgain) /\ Begun(ecur)
Special == Begins \/ EmitStart \/ ConsumeStart

LEMMA CalmEstablish ==
  ASSUME TypeInv, UNCHANGED <<down, up>>, NEW p, Establish(p)
  PROVE  Calm
<1>1. NetType
  BY DEF TypeInv, NetType
<1>2. CASE UNCHANGED <<eup, cup>>
  BY <1>1, <1>2, CalmIdle
<1>3. CASE /\ Connected
           /\ eup' = [eup EXCEPT ![nconn'] = TRUE] /\ cup' = [cup EXCEPT ![nconn'] = TRUE]
  <2>1. nconn \in Nat /\ nconn' = nconn + 1
    BY <1>3 DEF TypeInv, Connected
  <2>2. ASSUME NEW k \in Conns PROVE CalmOn(k)
    <3>1. k <= nconn => (eup'[k] <=> eup[k]) /\ (cup'[k] <=> cup[k])
      BY <1>1, <1>3, <2>1 DEF NetType, Conns
    <3>2. Within(down'[k], down[k])
      BY <1>1, SelfWithin DEF NetType
    <3> QED BY <3>1, <3>2 DEF CalmOn
  <2>3. NetType'
    BY <1>1, <1>3 DEF NetType
  <2> QED BY <2>2, <2>3 DEF Calm
<1> QED BY <1>2, <1>3 DEF Establish

LEMMA CalmRetry ==
  ASSUME TypeInv, ConsumeRetry
  PROVE  Calm
<1>1. NetType /\ nconn \in Nat
  BY DEF TypeInv, NetType
<1>2. UNCHANGED <<down, up>> /\ (Connected => nconn' = nconn + 1)
  BY DEF ConsumeRetry, Connected
<1>3. ASSUME NEW k \in Conns PROVE CalmOn(k)
  <2>1. k <= nconn => (eup'[k] => eup[k]) /\ (cup'[k] => cup[k])
    <3>1. CASE /\ Connected /\ eup' = [eup EXCEPT ![nconn'] = TRUE]
               /\ cup' = [cup EXCEPT ![ccur] = FALSE, ![nconn'] = TRUE]
      BY <1>1, <1>2, <3>1 DEF NetType, Conns
    <3>2. CASE cup' = [cup EXCEPT ![ccur] = FALSE] /\ UNCHANGED eup
      BY <1>1, <3>2 DEF NetType
    <3> QED BY <3>1, <3>2 DEF ConsumeRetry
  <2>2. Within(down'[k], down[k])
    BY <1>1, <1>2, SelfWithin DEF NetType
  <2> QED BY <1>2, <2>1, <2>2 DEF CalmOn
<1>4. NetType'
  BY <1>1, <1>2 DEF NetType, ConsumeRetry
<1> QED BY <1>3, <1>4 DEF Calm

LEMMA CalmKilled ==
  ASSUME TypeInv, EmitterKilled
  PROVE  Calm
<1>1. NetType /\ (epc = "open" => eseq \in Seqs) /\ nslices \in Nat
  BY DEF TypeInv, NetType
<1>2. /\ eup' = [k \in Conns |-> FALSE] /\ up' = [k \in Conns |-> << >>] /\ cup' = cup
  BY DEF EmitterKilled, net
<1>3. ASSUME NEW k \in Conns
      PROVE  down'[k] \in Seq(Message) /\ Within(down'[k], down[k])
  <2> DEFINE m == [kind |-> "cut", n |-> eseq, i |-> nslices + 1]
  <2>1. down[k] \in Seq(Message)
    BY <1>1 DEF NetType
  <2>2. \/ down'[k] = down[k]
        \/ epc = "open" /\ down'[k] = Append(down[k], m)
        \/ down'[k] \in Parts(down[k])
    BY <1>1 DEF NetType, EmitterKilled
  <2>3. epc = "open" => m \in Message /\ m.kind # "head"
    BY <1>1 DEF Message
  <2> HIDE DEF m
  <2> QED BY <2>1, <2>2, <2>3, SelfWithin, PartsWithin, AppendWithin
<1>4. down' \in [Conns -> Seq(Message)]
  BY <1>1, <1>3 DEF NetType, EmitterKilled
<1>5. NetType'
  <2>1. << >> \in Seq(Ack)
    OBVIOUS
  <2> QED BY <1>1, <1>2, <1>4, <2>1 DEF NetType
<1> QED BY <1>2, <1>3, <1>5 DEF Calm, CalmOn

LEMMA CalmNext ==
  ASSUME TypeInv, Next, ~Special
  PROVE  Calm
<1> USE DEF net, emitter, consumer
<1>0. NetType /\ nslices \in Nat /\ (epc = "open" => eseq \in Seqs)
  BY DEF TypeInv, NetType
<1>1. CASE EmitConnect
  BY <1>0, <1>1, CalmIdle DEF EmitConnect
<1>2. CASE EmitHeader
  BY <1>0, <1>2, CalmEmitterLeaves DEF EmitHeader, Begins, Special
<1>3. CASE EmitHeaderAgain
  BY <1>0, <1>3, CalmIdle DEF EmitHeaderAgain, Begins, Special
<1>4. CASE EmitSlice
  BY <1>0, <1>4, CalmSend DEF EmitSlice
<1>5. CASE EmitStop
  BY <1>0, <1>5, CalmSend DEF EmitStop
<1>6. CASE EmitterDisable
  BY <1>0, <1>6, CalmEmitterLeaves DEF EmitterDisable
<1>7. CASE EmitterKilled
  BY <1>7, CalmKilled
<1>8. CASE EmitterEnable
  BY <1>0, <1>8, CalmIdle DEF EmitterEnable
<1>9. CASE ConsumeConnect
  BY <1>0, <1>9, CalmIdle, CalmEstablish DEF ConsumeConnect
<1>10. CASE ConsumeHead
  BY <1>0, <1>10, CalmTail DEF ConsumeHead
<1>11. CASE ConsumeDrain
  BY <1>0, <1>11, CalmTail DEF ConsumeDrain
<1>12. CASE ConsumeNothing
  BY <1>0, <1>12, CalmIdle DEF ConsumeNothing
<1>13. CASE ConsumeRetry
  BY <1>13, CalmRetry
<1>14. CASE ConsumeSlice
  BY <1>0, <1>14, CalmTail DEF ConsumeSlice, MsgHeader
<1>15. CASE ConsumeStop
  BY <1>0, <1>15, CalmTail, CalmIdle DEF ConsumeStop, MsgHeader
<1>16. CASE ConsumerOff
  BY <1>0, <1>16, CalmConsumerLeaves DEF ConsumerOff
<1>17. CASE ConsumerEnable
  BY <1>17, CalmEstablish DEF ConsumerEnable
<1>18. CASE Break
  BY <1>0, <1>18, CalmBreak
<1> QED BY <1>1, <1>2, <1>3, <1>4, <1>5, <1>6, <1>7, <1>8, <1>9, <1>10, <1>11, <1>12,
           <1>13, <1>14, <1>15, <1>16, <1>17, <1>18 DEF Next, Emit, Consume, Special

-----------------------------------------------------------------------------
(* The order of the connections.                                           *)

\* Connections only stop being untouched, and the order is kept.
OrderKept ==
  /\ Ordered' /\ backlog' \in Seq(Conns) /\ nconn' \in 0 .. MaxConns
  /\ ecur' \in Conns \cup {None} /\ ccur' \in Conns \cup {None}
  /\ \A k \in Conns : Untouched(k)' => Untouched(k)

LEMMA OrderIdle ==
  ASSUME TypeInv, Ordered, ecur' \in {ecur, None}, ccur' \in {ccur, None},
         backlog' \in {backlog, << >>}, nconn' = nconn
  PROVE  OrderKept
<1>1. CASE backlog' = backlog
  <2>1. Pending' = Pending
    BY <1>1 DEF Pending
  <2>2. \A k \in Conns : Untouched(k)' => Untouched(k)
    BY <2>1 DEF Untouched
  <2>3. backlog \in Seq(Conns) /\ nconn \in 0 .. MaxConns /\ Len(backlog) \in Nat
        /\ \A i \in 1 .. Len(backlog) : backlog[i] \in Conns
    BY DEF TypeInv
  <2>4. Ordered'
    BY <1>1, <2>3 DEF TypeInv, Ordered, Conns, None
  <2> QED BY <1>1, <2>2, <2>3, <2>4 DEF TypeInv, OrderKept
<1>2. CASE backlog' = << >>
  <2>1. Len(backlog') = 0 /\ DOMAIN backlog' = {} /\ backlog' \in Seq(Conns)
    BY <1>2
  <2> QED BY <2>1 DEF TypeInv, Ordered, OrderKept, Untouched, Pending, Conns, None
<1> QED BY <1>1, <1>2

LEMMA OrderAccept ==
  ASSUME TypeInv, Ordered, Accept, UNCHANGED <<ccur, nconn>>
  PROVE  OrderKept /\ ecur' \in Conns /\ Untouched(ecur')
<1>1. /\ backlog \in Seq(Conns) /\ backlog # << >> /\ nconn \in 0 .. MaxConns
      /\ ecur' = Head(backlog) /\ backlog' = Tail(backlog)
  BY DEF TypeInv, Accept
<1>2. /\ Len(backlog) \in Nat \ {0} /\ ecur' = backlog[1] /\ ecur' \in Conns
      /\ backlog' \in Seq(Conns) /\ Len(backlog') = Len(backlog) - 1
      /\ DOMAIN backlog = 1 .. Len(backlog) /\ DOMAIN backlog' = 1 .. Len(backlog) - 1
      /\ \A i \in 1 .. Len(backlog) - 1 : backlog'[i] = backlog[i + 1]
  BY <1>1
<1>3. \A i \in 1 .. Len(backlog) - 1 : i + 1 \in 1 .. Len(backlog) /\ 1 < i + 1
  BY <1>2
<1>4. Ordered'
  <2>1. ecur' <= nconn' /\ ccur' <= nconn'
    BY <1>2 DEF Ordered
  <2>2. \A i \in 1 .. Len(backlog') : ecur' < backlog'[i] /\ backlog'[i] <= nconn'
    BY <1>2, <1>3 DEF Ordered
  <2>3. ASSUME NEW i \in 1 .. Len(backlog'), NEW j \in 1 .. Len(backlog'), i < j
        PROVE  backlog'[i] < backlog'[j]
    <3>1. i + 1 < j + 1
      BY <2>3, <1>2
    <3> QED BY <1>2, <1>3, <3>1 DEF Ordered
  <2> QED BY <2>1, <2>2, <2>3 DEF Ordered
<1>5. Pending' \subseteq Pending /\ ecur' \in Pending
  BY <1>2, <1>3 DEF Pending
<1> QED BY <1>1, <1>2, <1>4, <1>5 DEF TypeInv, OrderKept, Untouched

LEMMA OrderConnected ==
  ASSUME TypeInv, Ordered, Connected, UNCHANGED ecur
  PROVE  OrderKept
<1>1. /\ backlog \in Seq(Conns) /\ nconn \in 0 .. MaxConns /\ MaxConns \in Nat
      /\ nconn' = nconn + 1 /\ nconn' \in Conns /\ nconn' \in 0 .. MaxConns
      /\ ccur' = nconn' /\ backlog' = Append(backlog, nconn')
  BY StreamAssumption DEF TypeInv, Connected, Conns
<1>2. /\ Len(backlog) \in Nat /\ Len(backlog') = Len(backlog) + 1 /\ backlog' \in Seq(Conns)
      /\ DOMAIN backlog = 1 .. Len(backlog) /\ DOMAIN backlog' = 1 .. Len(backlog) + 1
      /\ \A i \in 1 .. Len(backlog) : backlog'[i] = backlog[i] /\ backlog[i] \in Conns
      /\ backlog'[Len(backlog) + 1] = nconn'
  BY <1>1
<1>3. ecur \in Nat
  BY DEF TypeInv, Conns, None
<1>4. Ordered'
  <2>1. ecur' <= nconn' /\ ccur' <= nconn'
    BY <1>1, <1>3 DEF Ordered
  <2>2. \A i \in 1 .. Len(backlog') : ecur' < backlog'[i] /\ backlog'[i] <= nconn'
    BY <1>1, <1>2, <1>3 DEF Ordered, Conns
  <2>3. \A i, j \in 1 .. Len(backlog') : i < j => backlog'[i] < backlog'[j]
    BY <1>1, <1>2 DEF Ordered, Conns
  <2> QED BY <2>1, <2>2, <2>3 DEF Ordered
<1>5. Pending' = Pending \cup {nconn'}
  BY <1>2 DEF Pending
<1> QED BY <1>1, <1>2, <1>4, <1>5 DEF TypeInv, OrderKept, Untouched, Conns

LEMMA OrderNext ==
  ASSUME TypeInv, Ordered, [Next]_vars
  PROVE  OrderKept
<1> USE DEF net, emitter, consumer, csocket, esocket
<1>1. CASE EmitStart
  BY <1>1, OrderIdle DEF EmitStart
<1>2. CASE EmitConnect
  BY <1>2, OrderIdle, OrderAccept DEF EmitConnect
<1>3. CASE EmitHeader
  BY <1>3, OrderIdle, OrderAccept DEF EmitHeader
<1>4. CASE EmitHeaderAgain \/ EmitSlice \/ EmitStop \/ EmitterEnable
  BY <1>4, OrderIdle DEF EmitHeaderAgain, EmitSlice, EmitStop, EmitterEnable
<1>5. CASE EmitterDisable \/ EmitterKilled
  BY <1>5, OrderIdle DEF EmitterDisable, EmitterKilled
<1>6. CASE ConsumeConnect
  BY <1>6, OrderIdle, OrderConnected DEF ConsumeConnect, Establish, NotConnected
<1>7. CASE ConsumerEnable
  BY <1>7, OrderIdle, OrderConnected DEF ConsumerEnable, Establish, NotConnected
<1>8. CASE ConsumeRetry
  BY <1>8, OrderIdle, OrderConnected DEF ConsumeRetry, NotConnected
<1>9. CASE ConsumeStart \/ ConsumeHead \/ ConsumeDrain \/ ConsumeNothing
  BY <1>9, OrderIdle DEF ConsumeStart, ConsumeHead, ConsumeDrain, ConsumeNothing
<1>10. CASE ConsumeSlice \/ ConsumeStop \/ ConsumerOff
  BY <1>10, OrderIdle DEF ConsumeSlice, MsgHeader, ConsumeStop, ConsumerOff
<1>11. CASE Break \/ UNCHANGED vars
  BY <1>11, OrderIdle DEF Break, vars
<1> QED BY <1>1, <1>2, <1>3, <1>4, <1>5, <1>6, <1>7, <1>8, <1>9, <1>10, <1>11
        DEF Next, Emit, Consume

-----------------------------------------------------------------------------
(* The steps that are not calm.                                            *)

Beginning == [kind |-> "head", n |-> eseq + 1, i |-> 0]

LEMMA BeginsNext ==
  ASSUME TypeInv, Begins
  PROVE  /\ NetType' /\ UNCHANGED <<eon, lst, ecomms, ecur, consumer, backlog, eup, cup, up, nconn>>
         /\ epc \in {"header", "again"} /\ epc' = "open"
         /\ eseq + 1 \in Seqs /\ eseq' = eseq + 1
         /\ on' = [on EXCEPT ![eseq + 1] = ecur]
         /\ \A k \in Conns : \/ down'[k] = down[k]
                             \/ k = ecur /\ down'[k] = Append(down[k], Beginning)
<1>1. /\ NetType /\ eseq + 1 \in Seqs
  BY DEF TypeInv, NetType, Begins, EmitHeader, EmitHeaderAgain
<1>2. /\ UNCHANGED <<eon, lst, ecomms, ecur, consumer, backlog, eup, cup, up, nconn>>
      /\ epc \in {"header", "again"} /\ epc' = "open" /\ eseq' = eseq + 1
      /\ on' = [on EXCEPT ![eseq + 1] = ecur]
      /\ \/ down' = [down EXCEPT ![ecur] = Append(@, Beginning)]
         \/ down' = down
  BY <1>1 DEF Begins, EmitHeader, EmitHeaderAgain, Begun, Send, esocket, Beginning, Seqs, NotStarted
<1>3. Beginning \in Message
  BY <1>1 DEF Beginning, Message
<1>4. down' \in [Conns -> Seq(Message)]
  <2>1. ASSUME NEW k \in Conns PROVE Append(down[k], Beginning) \in Seq(Message)
    BY <1>1, <1>3 DEF NetType
  <2> QED BY <1>1, <1>2, <2>1 DEF NetType
<1>5. ASSUME NEW k \in Conns
      PROVE  down'[k] = down[k] \/ (k = ecur /\ down'[k] = Append(down[k], Beginning))
  BY <1>1, <1>2 DEF NetType
<1>6. NetType'
  BY <1>1, <1>2, <1>4 DEF NetType
<1> QED BY <1>1, <1>2, <1>5, <1>6

LEMMA AnswerNext ==
  ASSUME TypeInv, EmitStart
  PROVE  /\ NetType'
         /\ UNCHANGED <<esocket, eseq, on, consumer, backlog, eup, cup, down, nconn>>
         /\ epc = "idle" /\ (epc' = "connect" => eseq + 1 \in Seqs)
         /\ epc' \in {"idle", "connect"}
         /\ \A k \in Conns : \/ up'[k] = up[k]
                             \/ k = ecur /\ eack /\ up[k] # << >> /\ up'[k] = Tail(up[k])
<1>1. /\ UNCHANGED <<esocket, eseq, on, consumer, backlog, eup, cup, down, nconn>>
      /\ NetType /\ cup \in [Conns -> BOOLEAN]
      /\ epc = "idle" /\ (epc' = "connect" => eseq + 1 \in Seqs)
      /\ epc' \in {"idle", "connect"}
      /\ up' = up \/ (eack /\ up[ecur] # << >> /\ up' = [up EXCEPT ![ecur] = Tail(@)])
  BY StreamAssumption DEF TypeInv, NetType, EmitStart, Seqs
<1>2. ASSUME NEW k \in Conns, up[k] # << >> PROVE Tail(up[k]) \in Seq(Ack)
  <2>1. up[k] \in Seq(Ack)
    BY <1>1 DEF NetType
  <2> QED BY <1>2, <2>1
<1>3. up' \in [Conns -> Seq(Ack)]
  BY <1>1, <1>2 DEF NetType
<1> QED BY <1>1, <1>3 DEF NetType

LEMMA ThanksNext ==
  ASSUME TypeInv, HeldInv, ConsumeStart
  PROVE  /\ NetType' /\ UNCHANGED <<emitter, con, csocket, cseq, backlog, eup, cup, down, nconn>>
         /\ cpc = "idle" /\ cpc' = "connect" /\ cack' = FALSE
         /\ acked' = acked \/ (Holding /\ cack /\ acked' = acked \cup {cseq})
         /\ \A k \in Conns : \/ up'[k] = up[k]
                             \/ /\ Holding /\ cack /\ k = ccur /\ acked' = acked \cup {cseq}
                                /\ up'[k] = Append(up[k], [kind |-> "ack", n |-> cseq])
<1>1. /\ NetType /\ UNCHANGED <<emitter, con, csocket, cseq, backlog, eup, cup, down, nconn>>
      /\ cpc = "idle" /\ cpc' = "connect" /\ cack' = FALSE /\ (cack => Holding)
      /\ \/ acked' = acked /\ up' = up
         \/ /\ cack /\ acked' = acked \cup {cseq}
            /\ \/ up' = up
               \/ up' = [up EXCEPT ![ccur] = Append(@, [kind |-> "ack", n |-> cseq])]
  BY DEF TypeInv, NetType, Holding, ConsumeStart
<1>2. ASSUME NEW k \in Conns, cack
      PROVE  Append(up[k], [kind |-> "ack", n |-> cseq]) \in Seq(Ack)
  <2>1. up[k] \in Seq(Ack) /\ [kind |-> "ack", n |-> cseq] \in Ack
    BY <1>1, <1>2 DEF NetType, HeldInv, Ack
  <2> QED BY <2>1
<1>3. up' \in [Conns -> Seq(Ack)]
  BY <1>1, <1>2 DEF NetType
<1> QED BY <1>1, <1>3 DEF NetType

LEMMA NetTypeNext ==
  ASSUME TypeInv, HeldInv, [Next]_vars
  PROVE  NetType'
<1>1. CASE Next /\ ~Special
  BY <1>1, CalmNext DEF Calm
<1>2. CASE UNCHANGED vars
  BY <1>2 DEF vars, net, TypeInv, NetType
<1> QED BY <1>1, <1>2, BeginsNext, AnswerNext, ThanksNext DEF Special

LEMMA CalmHistory ==
  ASSUME Next, ~Special
  PROVE  UNCHANGED <<on, eseq, acked>>
<1> USE DEF net, emitter, consumer, emission, reading
<1>1. CASE EmitHeader \/ EmitHeaderAgain
  BY <1>1 DEF EmitHeader, EmitHeaderAgain, Begins, Special
<1>2. CASE EmitConnect \/ EmitSlice \/ EmitStop \/ EmitterDisable \/ EmitterKilled \/ EmitterEnable
  BY <1>2 DEF EmitConnect, EmitSlice, EmitStop, EmitterDisable, EmitterKilled, EmitterEnable
<1>3. CASE ConsumeConnect \/ ConsumeHead \/ ConsumeDrain \/ ConsumeNothing \/ ConsumeRetry
  BY <1>3 DEF ConsumeConnect, ConsumeHead, ConsumeDrain, ConsumeNothing, ConsumeRetry
<1>4. CASE ConsumeSlice \/ ConsumeStop \/ ConsumerOff \/ ConsumerEnable \/ Break
  BY <1>4 DEF ConsumeSlice, MsgHeader, ConsumeStop, ConsumerOff, ConsumerEnable, Break
<1> QED BY <1>1, <1>2, <1>3, <1>4 DEF Next, Emit, Consume, Special

-----------------------------------------------------------------------------
(* The invariant holds initially and is kept.                              *)

LEMMA FoundType ==
  ASSUME TypeInv, HeldInv, ConsumeHead
  PROVE  /\ ccur \in Conns /\ Head(down[ccur]) = down[ccur][1] /\ 1 \in 1 .. Len(down[ccur])
         /\ Head(down[ccur]) \in Message /\ Head(down[ccur]).kind = "head"
         /\ cseq' = Head(down[ccur]).n /\ cseq' \in Seqs /\ on[cseq'] = ccur
<1>1. ccur \in Conns /\ down[ccur] \in Seq(Message) /\ down[ccur] # << >>
  BY DEF TypeInv, HeldInv, ConsumeHead
<1>2. /\ Head(down[ccur]) \in Message /\ Head(down[ccur]) = down[ccur][1]
      /\ 1 \in 1 .. Len(down[ccur])
  BY <1>1, TailWithin
<1>3. Head(down[ccur]).kind = "head" /\ cseq' = Head(down[ccur]).n
  BY DEF ConsumeHead
<1>4. cseq' \in Seqs
  BY <1>2, <1>3 DEF Message
<1>5. on[cseq'] = ccur
  BY <1>1, <1>2, <1>3 DEF HeldInv
<1> QED BY <1>1, <1>2, <1>3, <1>4, <1>5

LEMMA TypeNext ==
  ASSUME TypeInv, Ordered, HeldInv, [Next]_vars
  PROVE  TypeInv'
<1> USE DEF net, emitter, consumer, emission, reading, vars
<1> DEFINE Rest == /\ eseq \in 0 .. LastSeq /\ nslices \in Nat
                   /\ epc \in {"idle", "connect", "header", "again", "open"}
                   /\ cack \in BOOLEAN /\ con \in BOOLEAN
                   /\ cpc \in {"idle", "connect", "search", "reading"} /\ cseq \in 0 .. LastSeq
                   /\ epc \in {"connect", "header", "again"} => eseq + 1 \in Seqs
                   /\ epc = "open" => eseq \in Seqs
                   /\ on \in [Seqs -> Conns \cup {None}] /\ acked \subseteq Seqs
<1>1. NetType' /\ OrderKept
  BY NetTypeNext, OrderNext
<1>2. Rest
  BY DEF TypeInv
<1>3. Rest'
  <2>1. CASE EmitStart
    BY <1>2, <2>1, AnswerNext DEF EmitStart
  <2>2. CASE EmitConnect
    BY <1>2, <2>2 DEF EmitConnect, NotStarted
  <2>3. CASE EmitHeader /\ ~Begins
    BY <1>2, <2>3 DEF EmitHeader, Begins, NotStarted
  <2>4. CASE EmitHeaderAgain /\ ~Begins
    BY <1>2, <2>4 DEF EmitHeaderAgain, Begins, NotStarted
  <2>5. CASE Begins
    <3>1. on' \in [Seqs -> Conns \cup {None}] /\ eseq' \in 0 .. LastSeq
      BY <1>2, <2>5, BeginsNext DEF TypeInv, Seqs
    <3>2. nslices' \in Nat
      BY <2>5 DEF Begins, Begun
    <3> QED BY <1>2, <2>5, <3>1, <3>2, BeginsNext
  <2>6. CASE EmitSlice
    BY <1>2, <2>6 DEF EmitSlice
  <2>7. CASE EmitStop
    BY <1>2, <2>7 DEF EmitStop
  <2>8. CASE EmitterDisable \/ EmitterKilled \/ EmitterEnable
    BY <1>2, <2>8 DEF EmitterDisable, EmitterKilled, EmitterEnable
  <2>9. CASE ConsumeStart
    <3>1. acked' \subseteq Seqs
      BY <1>2, <2>9, ThanksNext DEF HeldInv
    <3> QED BY <1>2, <2>9, <3>1 DEF ConsumeStart
  <2>10. CASE ConsumeHead
    <3>1. cseq' \in 0 .. LastSeq
      BY <2>10, FoundType DEF Seqs
    <3> QED BY <1>2, <2>10, <3>1 DEF ConsumeHead
  <2>11. CASE ConsumeConnect \/ ConsumerEnable
    BY <1>2, <2>11 DEF ConsumeConnect, ConsumerEnable, Establish
  <2>12. CASE ConsumeDrain \/ ConsumeNothing \/ ConsumeRetry
    BY <1>2, <2>12 DEF ConsumeDrain, ConsumeNothing, ConsumeRetry
  <2>13. CASE ConsumeSlice \/ ConsumeStop \/ ConsumerOff
    BY <1>2, <2>13 DEF ConsumeSlice, MsgHeader, ConsumeStop, Done, ConsumerOff
  <2>14. CASE Break \/ UNCHANGED vars
    BY <1>2, <2>14 DEF Break
  <2> HIDE DEF Rest
  <2> QED BY <2>1, <2>2, <2>3, <2>4, <2>5, <2>6, <2>7, <2>8, <2>9, <2>10, <2>11, <2>12,
             <2>13, <2>14 DEF Next, Emit, Consume
<1> QED BY <1>1, <1>3 DEF TypeInv, NetType, OrderKept

\* A sample is begun once, on a connection that was accepted.
LEMMA NotBegunYet ==
  ASSUME TypeInv, FreshInv, HeldInv, Begins
  PROVE  /\ on[eseq + 1] = None /\ eseq + 1 \notin acked /\ ecur \in Conns
         /\ \A n \in Seqs : on'[n] = IF n = eseq + 1 THEN ecur ELSE on[n]
<1>1. eseq + 1 \in Seqs /\ eseq + 1 > eseq /\ epc \in {"header", "again"}
  BY BeginsNext DEF TypeInv
<1>2. on[eseq + 1] = None
  BY <1>1 DEF FreshInv
<1> QED BY <1>1, <1>2, BeginsNext DEF TypeInv, FreshInv, HeldInv

LEMMA HeadsKept ==
  ASSUME TypeInv, FreshInv, HeldInv, [Next]_vars, NEW k \in Conns,
         NEW i \in 1 .. Len(down'[k]), down'[k][i].kind = "head"
  PROVE  on'[down'[k][i].n] = k
<1>1. CASE Next /\ ~Special
  <2>1. Within(down'[k], down[k]) /\ on' = on
    BY <1>1, CalmNext, CalmHistory DEF Calm, CalmOn
  <2>2. PICK d \in Nat : i + d \in 1 .. Len(down[k]) /\ down[k][i + d] = down'[k][i]
    BY <2>1 DEF Within
  <2> QED BY <2>1, <2>2 DEF HeldInv
<1>2. CASE Begins
  <2>1. down[k] \in Seq(Message)
    BY DEF TypeInv
  <2>2. CASE down'[k] = down[k]
    <3>1. down[k][i] \in Message /\ on[down[k][i].n] = k
      BY <2>1, <2>2 DEF HeldInv
    <3>2. down[k][i].n \in Seqs /\ k # None
      BY <3>1 DEF Message, Conns, None
    <3> QED BY <1>2, <2>2, <3>1, <3>2, NotBegunYet
  <2>3. CASE k = ecur /\ down'[k] = Append(down[k], Beginning)
    <3>1. CASE i = Len(down[k]) + 1
      <4>1. down'[k][i] = Beginning
        BY <2>1, <2>3, <3>1
      <4>2. down'[k][i].n = eseq + 1 /\ eseq + 1 \in Seqs
        BY <1>2, <4>1, BeginsNext DEF Beginning
      <4> QED BY <1>2, <2>3, <4>2, NotBegunYet
    <3>2. CASE i \in 1 .. Len(down[k])
      <4>1. down'[k][i] = down[k][i] /\ down[k][i] \in Message
        BY <2>1, <2>3, <3>2
      <4>2. on[down[k][i].n] = k /\ down[k][i].n \in Seqs /\ k # None
        BY <3>2, <4>1 DEF HeldInv, Message, Conns, None
      <4> QED BY <1>2, <4>1, <4>2, NotBegunYet
    <3>3. i \in 1 .. Len(down[k]) + 1
      BY <2>1, <2>3
    <3> QED BY <2>1, <3>1, <3>2, <3>3
  <2> QED BY <1>2, <2>2, <2>3, BeginsNext
<1>3. CASE EmitStart \/ ConsumeStart \/ UNCHANGED vars
  <2>1. down' = down /\ on' = on
    BY <1>3, AnswerNext, ThanksNext DEF vars, net, emitter, emission
  <2> QED BY <2>1 DEF HeldInv
<1> QED BY <1>1, <1>2, <1>3 DEF Special

LEMMA HeldNext ==
  ASSUME TypeInv, Ordered, FreshInv, HeldInv, [Next]_vars
  PROVE  HeldInv'
<1> USE DEF net, emitter, consumer, emission, reading, csocket, esocket, vars
<1>1. \A k \in Conns : \A i \in 1 .. Len(down'[k]) :
        down'[k][i].kind = "head" => on'[down'[k][i].n] = k
  BY HeadsKept
<1>2. /\ Holding' => ccur' \in Conns /\ cseq' \in Seqs /\ on'[cseq'] = ccur'
      /\ cack' => cpc' = "idle" /\ con'
  <2>1. CASE Begins
    <3>1. UNCHANGED <<cpc, cack, con, ccur, cseq>>
      BY <2>1, BeginsNext
    <3>2. Holding => on[cseq] # None /\ cseq \in Seqs
      BY DEF HeldInv, Conns, None
    <3>3. Holding => on'[cseq] = on[cseq]
      BY <2>1, <3>2, NotBegunYet
    <3> QED BY <3>1, <3>3 DEF HeldInv, Holding
  <2>2. CASE ConsumeHead
    <3>1. on' = on /\ ccur' = ccur /\ cack' = cack /\ cpc = "search"
      BY <2>2 DEF ConsumeHead
    <3> QED BY <2>2, <3>1, FoundType DEF HeldInv
  <2>3. CASE EmitConnect \/ EmitStart \/ EmitSlice \/ EmitStop \/ Break \/ UNCHANGED vars
    BY <2>3 DEF EmitConnect, EmitStart, EmitSlice, EmitStop, Break, HeldInv, Holding
  <2>4. CASE EmitterDisable \/ EmitterKilled \/ EmitterEnable
    BY <2>4 DEF EmitterDisable, EmitterKilled, EmitterEnable, HeldInv, Holding
  <2>5. CASE (EmitHeader \/ EmitHeaderAgain) /\ ~Begins
    BY <2>5 DEF EmitHeader, EmitHeaderAgain, Begins, HeldInv, Holding
  <2>6. CASE ConsumeStart
    BY <2>6 DEF ConsumeStart, Holding
  <2>7. CASE ConsumeConnect \/ ConsumerEnable
    BY <2>7 DEF ConsumeConnect, ConsumerEnable, Establish, HeldInv, Holding
  <2>8. CASE ConsumeDrain \/ ConsumeNothing \/ ConsumeRetry
    BY <2>8 DEF ConsumeDrain, ConsumeNothing, ConsumeRetry, HeldInv, Holding
  <2>9. CASE ConsumeSlice \/ ConsumeStop \/ ConsumerOff
    BY <2>9 DEF ConsumeSlice, MsgHeader, ConsumeStop, Done, ConsumerOff, HeldInv, Holding
  <2> QED BY <2>1, <2>2, <2>3, <2>4, <2>5, <2>6, <2>7, <2>8, <2>9 DEF Next, Emit, Consume
<1>3. /\ ccomms' = "connected" \/ cpc' = "search" => ccur' \in Conns
      /\ cpc' # "idle" => con'
  <2>1. Connected => ccur' \in Conns
    BY StreamAssumption DEF Connected, Conns, TypeInv
  <2>2. CASE UNCHANGED <<ccomms, ccur, cpc, con>>
    BY <2>2 DEF HeldInv
  <2>3. CASE ConsumeConnect \/ ConsumerEnable \/ ConsumeRetry
    BY <2>1, <2>3 DEF ConsumeConnect, ConsumerEnable, ConsumeRetry, Establish, NotConnected, HeldInv
  <2>4. CASE ConsumeStart \/ ConsumeHead \/ ConsumeDrain \/ ConsumeNothing
    BY <2>4 DEF ConsumeStart, ConsumeHead, ConsumeDrain, ConsumeNothing, HeldInv
  <2>5. CASE ConsumeSlice \/ ConsumeStop \/ ConsumerOff
    BY <2>5 DEF ConsumeSlice, MsgHeader, ConsumeStop, Done, ConsumerOff, HeldInv
  <2>6. CASE EmitterDisable \/ EmitterKilled \/ EmitterEnable \/ Break
    BY <2>2, <2>6 DEF EmitterDisable, EmitterKilled, EmitterEnable, Break
  <2>7. CASE Emit
    BY <2>2, <2>7 DEF Emit, EmitStart, EmitConnect, EmitHeader, EmitHeaderAgain, EmitSlice, EmitStop
  <2> QED BY <2>2, <2>3, <2>4, <2>5, <2>6, <2>7 DEF Next, Consume
<1>4. /\ ecomms' = "connected" => ecur' \in Conns
      /\ epc' \in {"header", "again", "open"} => ecomms' = "connected"
      /\ epc' # "idle" => eon'
  <2>1. Accept => ecur' \in Conns /\ ecomms' = "connected"
    <3>1. Accept => Head(backlog) \in Conns
      BY DEF Accept, TypeInv
    <3> QED BY <3>1 DEF Accept
  <2>2. CASE EmitConnect
    BY <2>1, <2>2 DEF EmitConnect, NotStarted, Listen, HeldInv
  <2>3. CASE EmitHeader
    BY <2>1, <2>3 DEF EmitHeader, NotStarted, Begun, HeldInv
  <2>4. CASE EmitHeaderAgain
    BY <2>4 DEF EmitHeaderAgain, NotStarted, Begun, HeldInv
  <2>5. CASE EmitStart \/ EmitSlice \/ EmitStop
    BY <2>5 DEF EmitStart, EmitSlice, EmitStop, HeldInv
  <2>6. CASE EmitterDisable \/ EmitterKilled
    BY <2>6 DEF EmitterDisable, EmitterKilled, HeldInv
  <2>7. CASE EmitterEnable
    BY <2>7 DEF EmitterEnable, Listen, HeldInv
  <2>8. CASE UNCHANGED <<ecomms, ecur, epc, eon>>
    BY <2>8 DEF HeldInv
  <2>9. CASE Consume
    BY <2>8, <2>9 DEF Consume, ConsumeStart, ConsumeConnect, ConsumeHead, ConsumeDrain,
       ConsumeNothing, ConsumeRetry, ConsumeSlice, MsgHeader, ConsumeStop
  <2>10. CASE ConsumerOff \/ ConsumerEnable \/ Break \/ UNCHANGED vars
    BY <2>8, <2>10 DEF ConsumerOff, ConsumerEnable, Break
  <2> QED BY <2>2, <2>3, <2>4, <2>5, <2>6, <2>7, <2>9, <2>10 DEF Next, Emit
<1> QED BY <1>1, <1>2, <1>3, <1>4 DEF HeldInv

LEMMA FreshNext ==
  ASSUME TypeInv, Ordered, FreshInv, HeldInv, [Next]_vars
  PROVE  FreshInv'
<1>1. \A k \in Conns : Untouched(k)' => Untouched(k)
  BY OrderNext DEF OrderKept
<1>2. ~Untouched(ecur) \/ ecur = None
  <2>1. ecur \in Nat /\ nconn \in Nat /\ DOMAIN backlog = 1 .. Len(backlog)
    BY DEF TypeInv, Conns, None
  <2> QED BY <2>1 DEF Untouched, Pending, Ordered
<1>3. CASE Next /\ ~Special
  <2>1. UNCHANGED <<on, eseq, acked>> /\ \A k \in Conns : up[k] = << >> => up'[k] = << >>
    BY <1>3, CalmNext, CalmHistory DEF Calm, CalmOn
  <2> QED BY <1>1, <2>1 DEF FreshInv
<1>4. CASE Begins
  <2>1. UNCHANGED <<up, acked>> /\ eseq' = eseq + 1 /\ eseq \in Nat
    BY <1>4, BeginsNext DEF consumer, reading, TypeInv
  <2>2. ASSUME NEW k \in Conns, Untouched(k)'
        PROVE  up'[k] = << >> /\ \A n \in Seqs : on'[n] # k
    BY <1>1, <1>2, <1>4, <2>1, <2>2, NotBegunYet DEF FreshInv, Conns, None
  <2>3. \A n \in Seqs : n > eseq' => on'[n] = None
    BY <1>4, <2>1, NotBegunYet DEF FreshInv, Seqs
  <2>4. \A n \in acked' : on'[n] # None
    BY <1>4, <2>1, NotBegunYet DEF FreshInv, TypeInv
  <2> QED BY <2>2, <2>3, <2>4 DEF FreshInv
<1>5. CASE EmitStart
  <2>1. UNCHANGED <<on, eseq, acked>>
    BY <1>5, AnswerNext DEF consumer, reading
  <2>2. \A k \in Conns : up[k] = << >> => up'[k] = << >>
    BY <1>5, AnswerNext
  <2> QED BY <1>1, <2>1, <2>2 DEF FreshInv
<1>6. CASE ConsumeStart
  <2>1. UNCHANGED <<on, eseq>>
    BY <1>6, ThanksNext DEF emitter, emission
  <2>2. ASSUME NEW k \in Conns, Untouched(k) PROVE up'[k] = up[k]
    BY <1>6, <2>2, ThanksNext DEF FreshInv, HeldInv
  <2>3. \A n \in acked' : on'[n] # None
    <3>1. Holding => on[cseq] # None
      BY DEF HeldInv, Conns, None
    <3>2. acked' = acked \/ (Holding /\ acked' = acked \cup {cseq})
      BY <1>6, ThanksNext
    <3> QED BY <2>1, <3>1, <3>2 DEF FreshInv
  <2> QED BY <1>1, <2>1, <2>2, <2>3 DEF FreshInv
<1>7. CASE UNCHANGED vars
  BY <1>1, <1>7 DEF FreshInv, vars, emitter, emission, consumer, reading, net
<1> QED BY <1>3, <1>4, <1>5, <1>6, <1>7 DEF Special

-----------------------------------------------------------------------------
(* At most one sample on a living connection is not acknowledged.          *)

\* While nothing happens to what AckOn speaks of, it is kept.
LEMMA AckCalm ==
  ASSUME NEW k \in Conns, AckOn(k), Within(down'[k], down[k]), up'[k] = up[k],
         UNCHANGED <<on, eseq, acked>>, Settled' => Settled,
         Holding' /\ ccur' = k => Holding /\ ccur = k /\ cseq' = cseq
  PROVE  AckOn(k)'
<1>1. PICK d \in Nat : \A i \in 1 .. Len(down'[k]) :
        down'[k][i].kind = "head" => i + d \in 1 .. Len(down[k]) /\ down[k][i + d] = down'[k][i]
  BY DEF Within
<1>2. ASSUME NEW i \in 1 .. Len(down'[k]), down'[k][i].kind = "head"
      PROVE  /\ down'[k][i].n = eseq /\ eseq \notin acked /\ up[k] = << >>
             /\ ~(Holding /\ ccur = k)
             /\ \A j \in 1 .. Len(down'[k]) : down'[k][j].kind = "head" => j = i
  <2>1. /\ i + d \in 1 .. Len(down[k]) /\ down[k][i + d] = down'[k][i]
        /\ down[k][i + d].kind = "head"
    BY <1>1, <1>2
  <2>2. ASSUME NEW j \in 1 .. Len(down'[k]), down'[k][j].kind = "head" PROVE j = i
    <3>1. j + d \in 1 .. Len(down[k]) /\ down[k][j + d].kind = "head"
      BY <1>1, <2>2
    <3>2. j + d = i + d
      BY <2>1, <3>1 DEF AckOn
    <3> QED BY <3>2
  <2> QED BY <2>1, <2>2 DEF AckOn
<1> QED BY <1>2 DEF AckOn

\* Nothing has happened on a connection that is accepted now.
LEMMA AckFresh ==
  ASSUME TypeInv, FreshInv, HeldInv, NEW k \in Conns, Untouched(k), NetType',
         Within(down'[k], down[k]), up[k] = << >> => up'[k] = << >>,
         UNCHANGED <<on, eseq, acked, ccur, cseq>>, Holding' = Holding
  PROVE  AckOn(k)'
<1>1. up'[k] = << >> /\ Len(up'[k]) = 0 /\ \A n \in Seqs : on'[n] # k
  BY DEF FreshInv
<1>2. ~(Holding' /\ ccur' = k)
  BY <1>1 DEF HeldInv
<1>3. ASSUME NEW i \in 1 .. Len(down'[k]) PROVE down'[k][i].kind # "head"
  <2>1. SUFFICES ASSUME down'[k][i].kind = "head" PROVE FALSE
    OBVIOUS
  <2>2. PICK j \in 1 .. Len(down[k]) : down[k][j] = down'[k][i]
    BY <2>1 DEF Within
  <2>3. on[down[k][j].n] = k /\ down[k][j] \in Message
    BY <2>1, <2>2 DEF HeldInv, TypeInv
  <2> QED BY <1>1, <2>3 DEF Message
<1> QED BY <1>1, <1>2, <1>3 DEF AckOn

\* The steps of AckCalm.
Steady ==
  /\ Calm /\ UNCHANGED <<on, eseq, acked>>
  /\ ecomms' = "connected" => ecomms = "connected" /\ ecur' = ecur
  /\ Live' /\ Settled' => Settled
  /\ Holding' /\ ccur' \in Conns /\ ccur' <= nconn => Holding /\ UNCHANGED <<ccur, cseq>>

LEMMA AckSteady ==
  ASSUME TypeInv, Ordered, AckInv, Steady
  PROVE  AckInv'
<1> SUFFICES ASSUME UseAck, Live' PROVE AckOn(ecur)'
  BY DEF AckInv
<1>1. ecomms = "connected" /\ ecur' = ecur /\ ecur \in Conns /\ ecur <= nconn
  BY DEF Live, Steady, Ordered
<1>2. /\ Within(down'[ecur], down[ecur]) /\ up'[ecur] = up[ecur]
      /\ eup[ecur] /\ cup[ecur]
  BY <1>1 DEF Live, Steady, Calm, CalmOn
<1>3. AckOn(ecur)
  BY <1>1, <1>2 DEF AckInv, Live
<1>4. /\ UNCHANGED <<on, eseq, acked>> /\ (Settled' => Settled)
      /\ Holding' /\ ccur' = ecur => Holding /\ ccur = ecur /\ cseq' = cseq
  BY <1>1 DEF Steady
<1>5. ASSUME NEW k \in Conns, k = ecur PROVE AckOn(k)'
  BY <1>2, <1>3, <1>4, <1>5, AckCalm
<1>6. AckOn(ecur)'
  <2>1. PICK k \in Conns : k = ecur
    BY <1>1
  <2>2. AckOn(k)'
    BY <1>5, <2>1
  <2> QED BY <1>1, <2>1, <2>2 DEF AckOn
<1> QED BY <1>6

LEMMA AckSame == ASSUME NEW k \in Conns, k = ecur', AckOn(k)' PROVE AckOn(ecur)'
BY DEF AckOn

\* Emit_header: all that was emitted on the connection has been acknowledged.
LEMMA AckBegins ==
  ASSUME TypeInv, FreshInv, HeldInv, AckInv, Begins, UseAck, Live'
  PROVE  AckOn(ecur)'
<1>1. /\ UNCHANGED <<ecomms, ecur, acked, cpc, cack, ccur, cseq, eup, cup, up>>
      /\ epc \in {"header", "again"} /\ epc' = "open"
      /\ eseq' = eseq + 1 /\ eseq + 1 \in Seqs /\ eseq \in Nat
  BY BeginsNext DEF consumer, csocket, reading, TypeInv
<1>0. PICK k \in Conns : k = ecur /\ k = ecur'
  BY <1>1 DEF Live
<1>2. AckOn(k) /\ Settled /\ ~Settled'
  BY <1>0, <1>1 DEF AckInv, Live, Settled
<1>3. /\ on[eseq + 1] = None /\ eseq + 1 \notin acked
      /\ \A n \in Seqs : on'[n] = IF n = eseq + 1 THEN k ELSE on[n]
  BY <1>0, NotBegunYet
<1>4. /\ up[k] = << >> /\ Len(up[k]) = 0
      /\ \A n \in Seqs : on[n] = k => n \in acked
  BY <1>0, <1>2 DEF AckOn
<1>5. ~(Holding' /\ ccur' = k)
  <2>1. SUFFICES ASSUME Holding, ccur = k PROVE FALSE
    BY <1>1 DEF Holding
  <2> QED BY <1>0, <1>2, <1>4, <2>1 DEF HeldInv, AckOn
<1>6. ASSUME NEW i \in 1 .. Len(down[k]) PROVE down[k][i].kind # "head"
  <2>1. down[k][i] \in Message
    BY <1>0, <1>2 DEF TypeInv
  <2>2. down[k][i].kind = "head" => down[k][i].n \in Seqs /\ on[down[k][i].n] = k
    BY <1>0, <1>2, <2>1 DEF HeldInv, Message
  <2> QED BY <1>0, <1>2, <1>4, <2>2 DEF AckOn
<1>7. ASSUME NEW i \in 1 .. Len(down'[k]), down'[k][i].kind = "head"
      PROVE  i = Len(down[k]) + 1 /\ down'[k][i].n = eseq'
  <2>1. down[k] \in Seq(Message)
    BY <1>0, <1>2 DEF TypeInv
  <2>2. down'[k] = down[k] \/ down'[k] = Append(down[k], Beginning)
    BY <1>0, <1>2, BeginsNext
  <2>3. CASE down'[k] = down[k]
    BY <1>6, <1>7, <2>3
  <2>4. CASE down'[k] = Append(down[k], Beginning)
    <3>1. i \in 1 .. Len(down[k]) => down'[k][i] = down[k][i]
      BY <2>1, <2>4
    <3>2. i = Len(down[k]) + 1
      BY <1>6, <1>7, <2>1, <2>4, <3>1
    <3>3. down'[k][i] = Beginning
      BY <2>1, <2>4, <3>2
    <3> QED BY <1>1, <3>2, <3>3 DEF Beginning
  <2> QED BY <2>2, <2>3, <2>4
<1>8. \A n \in Seqs : on'[n] = k /\ n < eseq' => n \in acked
  BY <1>1, <1>3, <1>4 DEF Seqs
<1>9. AckOn(k)'
  BY <1>0, <1>1, <1>2, <1>3, <1>4, <1>5, <1>7, <1>8 DEF AckOn
<1> QED BY <1>0, <1>9, AckSame

\* Consume_ack: the one acknowledgement there is, is that of the last sample.
LEMMA AckAnswer ==
  ASSUME TypeInv, FreshInv, HeldInv, AckInv, EmitStart, UseAck, Live'
  PROVE  AckOn(ecur)'
<1>1. /\ UNCHANGED <<ecomms, ecur, eseq, on, acked, cpc, cack, ccur, cseq, eup, cup, down>>
      /\ epc = "idle"
  BY AnswerNext DEF esocket, consumer, csocket, reading
<1>0. PICK k \in Conns : k = ecur /\ k = ecur'
  BY <1>1 DEF Live
<1>2. AckOn(k) /\ up[k] \in Seq(Ack) /\ down[k] \in Seq(Message)
  BY <1>0, <1>1 DEF AckInv, Live, TypeInv
<1>3. ASSUME ~eack \/ up[k] = << >> PROVE AckOn(k)'
  <2>1. up' = up /\ (Settled' => Settled)
    BY <1>0, <1>1, <1>2, <1>3 DEF EmitStart, Settled, Live, TypeInv
  <2>2. Within(down'[k], down[k])
    BY <1>0, <1>1, <1>2, SelfWithin
  <2>3. Holding' = Holding
    BY <1>1 DEF Holding
  <2>4. AckOn(k)'
    BY <1>0, <1>1, <1>2, <2>1, <2>2, <2>3, AckCalm
  <2> QED BY <2>4
<1>4. ASSUME eack /\ up[k] # << >> PROVE AckOn(k)'
  <2>1. up'[k] = Tail(up[k])
    BY <1>0, <1>2, <1>4 DEF EmitStart, TypeInv
  <2>2. Len(up[k]) = 1 /\ eseq \in acked
    <3>1. up[k] \in Seq(Ack) /\ up[k] # << >>
      BY <1>2, <1>4
    <3>2. Len(up[k]) \in Nat /\ Len(up[k]) # 0
      BY <3>1
    <3>3. Len(up[k]) <= 1 /\ eseq \in acked
      BY <1>2, <1>4 DEF AckOn
    <3>4. ASSUME NEW l \in Nat, l # 0, l <= 1 PROVE l = 1
      BY <3>4
    <3> QED BY <3>2, <3>3, <3>4
  <2>3. up'[k] = << >> /\ Len(up'[k]) = 0
    <3>1. up'[k] \in Seq(Ack) /\ Len(up'[k]) = 0
      BY <1>2, <1>4, <2>1, <2>2
    <3> QED BY <3>1, EmptySeq
  <2>4. ASSUME NEW n \in Seqs, on[n] = k PROVE n \in acked
    <3>1. n <= eseq
      BY <1>0, <1>2, <2>4 DEF FreshInv, Conns, None, Seqs, TypeInv
    <3>2. n < eseq \/ n = eseq
      BY <3>1 DEF Seqs, TypeInv
    <3> QED BY <1>0, <1>2, <2>2, <2>4, <3>2 DEF AckOn
  <2>5. Holding' = Holding
    BY <1>1 DEF Holding
  <2>6. AckOn(k)'
    BY <1>0, <1>1, <1>2, <2>2, <2>3, <2>4, <2>5 DEF AckOn
  <2> QED BY <2>6
<1> QED BY <1>0, <1>3, <1>4, AckSame

\* Emit_ack: the consumer is done with the last sample, or with one of a
\* connection that is gone.
LEMMA AckThanks ==
  ASSUME TypeInv, FreshInv, HeldInv, AckInv, ConsumeStart, UseAck, Live'
  PROVE  AckOn(ecur)'
<1>1. /\ UNCHANGED <<ecomms, ecur, epc, eack, eseq, on, ccur, cseq, eup, cup, down>>
      /\ ~Holding' /\ acked \subseteq acked'
  BY ThanksNext DEF emitter, esocket, emission, csocket, Holding
<1>0. PICK k \in Conns : k = ecur /\ k = ecur'
  BY <1>1 DEF Live
<1>2. /\ AckOn(k) /\ up[k] \in Seq(Ack) /\ down[k] \in Seq(Message)
      /\ Settled' = Settled
  BY <1>0, <1>1 DEF AckInv, Live, TypeInv, Settled
<1>3. ASSUME acked' = acked PROVE AckOn(k)'
  <2>1. up'[k] = up[k]
    <3>1. Holding => cseq \in Seqs
      BY DEF HeldInv
    <3>2. CASE Holding /\ ccur = k /\ acked' = acked \cup {cseq}
      BY <1>0, <1>2, <1>3, <3>2 DEF AckOn
    <3> QED BY <1>0, <1>2, <3>2, ThanksNext
  <2>2. Within(down'[k], down[k])
    BY <1>0, <1>1, <1>2, SelfWithin
  <2>3. AckOn(k)'
    BY <1>0, <1>1, <1>2, <1>3, <2>1, <2>2, AckCalm
  <2> QED BY <2>3
<1>4. ASSUME Holding /\ acked' = acked \cup {cseq} /\ ccur = k PROVE AckOn(k)'
  <2>1. /\ cseq = eseq /\ eseq \notin acked /\ up[k] = << >> /\ Len(up[k]) = 0
        /\ \A i \in 1 .. Len(down[k]) : down[k][i].kind # "head"
    BY <1>0, <1>2, <1>4 DEF AckOn
  <2>2. ~Settled
    BY <1>0, <1>2, <1>4, <2>1 DEF AckOn, HeldInv
  <2>3. Len(up'[k]) <= 1
    BY <1>0, <1>2, <2>1, ThanksNext
  <2>4. AckOn(k)'
    BY <1>0, <1>1, <1>2, <1>4, <2>1, <2>2, <2>3 DEF AckOn
  <2> QED BY <2>4
<1>5. ASSUME Holding /\ acked' = acked \cup {cseq} /\ ccur # k PROVE AckOn(k)'
  <2>1. up'[k] = up[k]
    BY <1>0, <1>2, <1>5, ThanksNext
  <2>2. ASSUME NEW i \in 1 .. Len(down[k]), down[k][i].kind = "head" PROVE eseq \notin acked'
    <3>1. on[eseq] = k
      BY <1>0, <1>2, <2>2 DEF AckOn, HeldInv
    <3> QED BY <1>0, <1>2, <1>5, <2>2, <3>1 DEF AckOn, HeldInv
  <2>3. AckOn(k)'
    BY <1>0, <1>1, <1>2, <1>5, <2>1, <2>2 DEF AckOn
  <2> QED BY <2>3
<1> QED BY <1>0, <1>3, <1>4, <1>5, ThanksNext, AckSame

\* Consume_start: the sample that is found is the last, and no other follows.
LEMMA AckFound ==
  ASSUME TypeInv, FreshInv, HeldInv, AckInv, ConsumeHead, UseAck, Live'
  PROVE  AckOn(ecur)'
<1>1. UNCHANGED <<ecomms, ecur, epc, eack, eseq, on, acked, ccur, cack, eup, cup, up>>
  BY DEF ConsumeHead, emitter, esocket, emission, csocket
<1>0. PICK k \in Conns : k = ecur /\ k = ecur'
  BY <1>1 DEF Live
<1>2. /\ AckOn(k) /\ Settled' = Settled
      /\ down \in [Conns -> Seq(Message)] /\ down' = [down EXCEPT ![ccur] = Tail(@)]
  BY <1>0, <1>1 DEF AckInv, Live, TypeInv, Settled, ConsumeHead
<1>3. ASSUME ccur # k PROVE AckOn(k)'
  <2>1. down'[k] = down[k] /\ Within(down'[k], down[k])
    BY <1>0, <1>2, <1>3, SelfWithin
  <2>2. AckOn(k)'
    BY <1>0, <1>1, <1>2, <1>3, <2>1, AckCalm
  <2> QED BY <2>2
<1>4. ASSUME ccur = k PROVE AckOn(k)'
  <2>1. /\ 1 \in 1 .. Len(down[k]) /\ down[k][1].kind = "head" /\ cseq' = down[k][1].n
        /\ down[k] \in Seq(Message) /\ down[k] # << >>
    BY <1>0, <1>2, <1>4, FoundType DEF ConsumeHead
  <2>2. /\ cseq' = eseq /\ eseq \notin acked /\ up[k] = << >>
        /\ \A j \in 1 .. Len(down[k]) : down[k][j].kind = "head" => j = 1
    BY <1>0, <1>2, <2>1 DEF AckOn
  <2>3. ASSUME NEW i \in 1 .. Len(down'[k]) PROVE down'[k][i].kind # "head"
    <3>1. /\ i + 1 \in 1 .. Len(down[k]) /\ down'[k][i] = down[k][i + 1] /\ i + 1 # 1
      BY <1>0, <1>2, <1>4, <2>1
    <3> QED BY <2>2, <3>1
  <2>4. AckOn(k)'
    BY <1>0, <1>1, <1>2, <2>2, <2>3 DEF AckOn
  <2> QED BY <2>4
<1> QED BY <1>0, <1>3, <1>4, AckSame

LEMMA AckAccept ==
  ASSUME TypeInv, Ordered, FreshInv, HeldInv, Accept, Calm, OrderKept,
         UNCHANGED <<ccur, nconn, on, eseq, acked, cseq, cpc, cack>>
  PROVE  AckOn(ecur)'
<1>1. PICK k \in Conns : k = ecur' /\ Untouched(k)
  BY OrderAccept
<1>2. Holding' = Holding
  BY DEF Holding
<1>3. AckOn(k)'
  BY <1>1, <1>2, AckFresh DEF Calm, CalmOn
<1> QED BY <1>1, <1>3, AckSame

LEMMA AckNext ==
  ASSUME TypeInv, Ordered, FreshInv, HeldInv, AckInv, [Next]_vars
  PROVE  AckInv'
<1> USE DEF net, emitter, consumer, emission, reading, csocket, esocket, vars
<1> SUFFICES ASSUME UseAck, Live' PROVE Steady \/ AckOn(ecur)'
  BY AckSteady DEF AckInv
<1>1. OrderKept /\ nconn \in Nat
  BY OrderNext DEF TypeInv
<1>2. CASE EmitStart \/ Begins \/ ConsumeStart \/ ConsumeHead
  BY <1>2, AckAnswer, AckBegins, AckThanks, AckFound
<1>3. CASE UNCHANGED vars
  <2>1. NetType
    BY DEF TypeInv, NetType
  <2> QED BY <1>3, <2>1, CalmIdle DEF Steady, Live, Settled, Holding
<1>4. CASE Next /\ ~Special /\ ~ConsumeHead
  <2>1. Calm /\ UNCHANGED <<on, eseq, acked>>
    BY <1>4, CalmNext, CalmHistory
  <2> DEFINE Emitting == /\ ecomms' = "connected" => ecomms = "connected" /\ ecur' = ecur
                         /\ Live' /\ Settled' => Settled
             Reading  == Holding' /\ ccur' \in Conns /\ ccur' <= nconn =>
                           Holding /\ UNCHANGED <<ccur, cseq>>
  <2>2. UNCHANGED emitter => Emitting
    BY DEF Settled, Live
  <2>3. UNCHANGED consumer => Reading
    BY DEF Holding
  <2>4. ConsumerOff \/ ConsumerEnable \/ Consume \/ Break => UNCHANGED emitter
    BY DEF ConsumerOff, ConsumerEnable, Break, Consume, ConsumeStart, ConsumeConnect, ConsumeHead,
       ConsumeDrain, ConsumeNothing, ConsumeRetry, ConsumeSlice, MsgHeader, ConsumeStop
  <2>5. Emit \/ EmitterDisable \/ EmitterKilled \/ EmitterEnable \/ Break => UNCHANGED consumer
    BY DEF Emit, EmitStart, EmitConnect, EmitHeader, EmitHeaderAgain, EmitSlice, EmitStop,
       EmitterDisable, EmitterKilled, EmitterEnable, Break
  <2>6. ConsumeConnect \/ ConsumerEnable \/ ConsumeDrain \/ ConsumeNothing \/ ConsumeRetry => ~Holding'
    BY DEF ConsumeConnect, ConsumerEnable, ConsumeDrain, ConsumeNothing, ConsumeRetry, Establish,
       HeldInv, Holding
  <2>7. ConsumeSlice \/ ConsumeStop => Reading
    BY DEF ConsumeSlice, MsgHeader, ConsumeStop, Done, Holding
  <2>8. ConsumerOff => ~Holding'
    BY DEF ConsumerOff, Holding
  <2>9. CASE EmitConnect
    <3>1. CASE Accept
      BY <1>1, <2>1, <2>5, <2>9, <3>1, AckAccept DEF EmitConnect
    <3>2. CASE ~Accept
      <4>1. Emitting
        BY <2>9, <3>2 DEF EmitConnect, NotStarted, Listen, Settled, Live
      <4>2. Reading
        BY <2>3, <2>5, <2>9 DEF Emit
      <4> QED BY <2>1, <4>1, <4>2 DEF Steady
    <3> QED BY <3>1, <3>2
  <2>10. CASE EmitHeader
    <3>1. CASE Accept
      BY <1>1, <2>1, <2>5, <2>10, <3>1, AckAccept DEF EmitHeader
    <3>2. CASE ~Accept
      <4>1. Emitting
        BY <1>4, <2>10, <3>2 DEF EmitHeader, Begins, Special, Live
      <4>2. Reading
        BY <2>3, <2>5, <2>10 DEF Emit
      <4> QED BY <2>1, <4>1, <4>2 DEF Steady
    <3> QED BY <3>1, <3>2
  <2>11. ASSUME EmitHeaderAgain PROVE Emitting
    BY <1>4, <2>11 DEF EmitHeaderAgain, Begins, Special, NotStarted, Settled
  <2>12. ASSUME EmitSlice PROVE Emitting
    BY <2>12 DEF EmitSlice, Settled
  <2>13. ASSUME EmitStop PROVE Emitting
    BY <2>13 DEF EmitStop, Settled, Live
  <2>14. ASSUME EmitterDisable \/ EmitterKilled \/ EmitterEnable PROVE Emitting
    BY <2>14 DEF EmitterDisable, EmitterKilled, EmitterEnable, Listen, Live
  <2>15. CASE EmitHeaderAgain \/ EmitSlice \/ EmitStop \/ EmitterDisable \/ EmitterKilled
              \/ EmitterEnable
    BY <2>1, <2>3, <2>5, <2>11, <2>12, <2>13, <2>14, <2>15 DEF Steady, Emit
  <2>16. CASE ConsumerOff \/ ConsumerEnable \/ Break \/ (Consume /\ ~ConsumeStart /\ ~ConsumeHead)
    <3>1. Emitting
      BY <2>2, <2>4, <2>16
    <3>2. Reading
      BY <2>3, <2>5, <2>6, <2>7, <2>8, <2>16 DEF Consume
    <3> QED BY <2>1, <3>1, <3>2 DEF Steady
  <2> QED BY <1>4, <2>9, <2>10, <2>15, <2>16 DEF Next, Emit, Special
<1> QED BY <1>2, <1>3, <1>4 DEF Special

LEMMA InitInv == Init => IInv
<1> SUFFICES ASSUME Init PROVE IInv
  OBVIOUS
<1>1. /\ << >> \in Seq(Conns) /\ << >> \in Seq(Message) /\ << >> \in Seq(Ack)
      /\ Len(<< >>) = 0
  OBVIOUS
<1>2. TypeInv
  <2>1. /\ eup \in [Conns -> BOOLEAN] /\ cup \in [Conns -> BOOLEAN]
        /\ on \in [Seqs -> Conns \cup {None}]
    BY DEF Init
  <2>2. down \in [Conns -> Seq(Message)] /\ up \in [Conns -> Seq(Ack)]
    BY <1>1 DEF Init
  <2>3. 0 \in 0 .. LastSeq /\ 0 \in 0 .. MaxConns
    BY StreamAssumption
  <2> QED BY <1>1, <2>1, <2>2, <2>3 DEF Init, TypeInv
<1>3. Ordered /\ FreshInv
  BY <1>1, StreamAssumption DEF Init, Ordered, FreshInv, Conns, None
<1>4. HeldInv /\ AckInv
  BY <1>1 DEF Init, HeldInv, AckInv, Live, Holding, Conns
<1> QED BY <1>2, <1>3, <1>4 DEF IInv

LEMMA StepInv == IInv /\ [Next]_vars => IInv'
<1> SUFFICES ASSUME IInv, [Next]_vars PROVE IInv'
  OBVIOUS
<1>1. Ordered'
  BY OrderNext DEF IInv, OrderKept
<1> QED BY <1>1, TypeNext, FreshNext, HeldNext, AckNext DEF IInv

LEMMA Implied == IInv => Backpressure
<1> SUFFICES ASSUME IInv, UseAck, epc = "open", ~Lost(ecur),
                    NEW n \in BegunOn(ecur) \cap emitted, n < eseq
             PROVE  n \in acked
  BY DEF Backpressure
<1>1. ecomms = "connected" /\ ecur \in Conns
  BY DEF IInv, HeldInv
<1>2. Live
  BY <1>1 DEF Live, Lost
<1> QED BY <1>2 DEF IInv, AckInv, AckOn, BegunOn

\* With acknowledgements, no sample is begun on a connection before the consumer is done
\* with those that were emitted on it: the source is never more than one sample ahead.
THEOREM BackpressureHolds == Spec => []Backpressure
<1>1. Spec => []IInv
  BY InitInv, StepInv, PTL DEF Spec
<1> QED BY <1>1, Implied, PTL

-----------------------------------------------------------------------------
(* What is on its way is a part of samples as they were sent, and begins   *)
(* where the consumer is and ends where the emitter is.                    *)

\* b may come after a.  Whatever can be cut off is at the end.
Follows(a, b) ==
  /\ a.kind # "cut"
  /\ b.kind # "head" => /\ a.kind # "foot" /\ b.n = a.n
                        /\ b.i = IF b.kind = "foot" THEN a.i ELSE a.i + 1

Tidy(q) ==
  /\ \A i \in 1 .. Len(q) : q[i].kind = "head" => q[i].i = 0
  /\ \A i \in 1 .. Len(q) - 1 : Follows(q[i], q[i + 1])

\* Where the consumer is, as what it has read last.
Got      == [kind |-> "slice", n |-> cseq, i |-> ngot]
Reads(k) == cpc = "reading" /\ ccur = k

\* Where the emitter is: m is what it has sent last.
AtEnd(m) == m.kind \in {"head", "slice"} /\ m.n = eseq /\ m.i = nslices
Sends(k) == epc = "open" /\ ecur = k /\ cup[k]

TidyOn(k) ==
  /\ Tidy(down[k])
  /\ Untouched(k) => down[k] = << >>
  /\ eup[k] /\ cup[k] => \A i \in 1 .. Len(down[k]) : down[k][i].kind # "cut"
  /\ Reads(k) /\ down[k] # << >> => Follows(Got, down[k][1])
  /\ Sends(k) /\ down[k] # << >> => AtEnd(down[k][Len(down[k])])
  /\ Sends(k) /\ down[k] = << >> /\ Reads(k) => AtEnd(Got)

\* The emitter leaves a connection before it takes another, so what it sends to a
\* consumer that is there is not behind something that was lost.
Served(k) == k \in Pending \/ (ecomms = "connected" /\ ecur = k)
OpenInv   == \A k \in Conns : Served(k) /\ cup[k] => eup[k]

TidyInv   == OpenInv /\ \A k \in Conns : TidyOn(k)

LEMMA TidyTail ==
  ASSUME NEW q \in Seq(Message), q # << >>, Tidy(q)
  PROVE  /\ Tidy(Tail(q)) /\ Tail(q) \in Seq(Message)
         /\ \A i \in 1 .. Len(Tail(q)) : i + 1 \in 1 .. Len(q) /\ Tail(q)[i] = q[i + 1]
         /\ Tail(q) # << >> => /\ Follows(q[1], Tail(q)[1])
                               /\ Tail(q)[Len(Tail(q))] = q[Len(q)]
         /\ Tail(q) = << >> => Len(q) = 1
<1>1. /\ Tail(q) \in Seq(Message) /\ Len(Tail(q)) = Len(q) - 1 /\ Len(q) \in Nat /\ Len(q) # 0
      /\ \A i \in 1 .. Len(q) - 1 : Tail(q)[i] = q[i + 1]
  OBVIOUS
<1>0. PICK p : p = Tail(q)
  OBVIOUS
<1>2. /\ p \in Seq(Message) /\ Len(p) = Len(q) - 1
      /\ \A i \in 1 .. Len(p) : i + 1 \in 1 .. Len(q) /\ p[i] = q[i + 1]
  BY <1>0, <1>1
<1>3. Tidy(p)
  <2>1. \A i \in 1 .. Len(p) : p[i].kind = "head" => p[i].i = 0
    BY <1>2 DEF Tidy
  <2>2. ASSUME NEW i \in 1 .. Len(p) - 1 PROVE Follows(p[i], p[i + 1])
    <3>1. i \in 1 .. Len(p) /\ i + 1 \in 1 .. Len(p) /\ i + 1 \in 1 .. Len(q) - 1
      BY <1>1, <1>2
    <3>2. p[i] = q[i + 1] /\ p[i + 1] = q[(i + 1) + 1]
      BY <1>2, <3>1
    <3>3. Follows(q[i + 1], q[(i + 1) + 1])
      BY <3>1 DEF Tidy
    <3> QED BY <3>2, <3>3
  <2> QED BY <2>1, <2>2 DEF Tidy
<1>4. ASSUME p # << >> PROVE Follows(q[1], p[1]) /\ p[Len(p)] = q[Len(q)]
  <2>1. Len(p) # 0 /\ Len(p) \in Nat
    BY <1>2, <1>4
  <2>2. 1 \in 1 .. Len(q) - 1 /\ p[1] = q[1 + 1] /\ p[Len(p)] = q[Len(p) + 1] /\ Len(p) + 1 = Len(q)
    BY <1>1, <1>2, <2>1
  <2>3. Follows(q[1], q[1 + 1])
    BY <2>2 DEF Tidy
  <2> QED BY <2>2, <2>3
<1>5. ASSUME p = << >> PROVE Len(q) = 1
  <2>1. Len(p) = 0
    BY <1>5
  <2>2. Len(p) = Len(q) - 1 /\ Len(q) \in Nat
    BY <1>1, <1>2
  <2> QED BY ONLY <2>1, <2>2
<1> QED BY <1>0, <1>2, <1>3, <1>4, <1>5

LEMMA TidyAppend ==
  ASSUME NEW q \in Seq(Message), Tidy(q), NEW m \in Message, m.kind = "head" => m.i = 0,
         q # << >> => Follows(q[Len(q)], m)
  PROVE  Tidy(Append(q, m))
<1> DEFINE p == Append(q, m)
<1>1. /\ p \in Seq(Message) /\ Len(p) = Len(q) + 1 /\ Len(q) \in Nat
      /\ p[Len(q) + 1] = m /\ \A i \in 1 .. Len(q) : p[i] = q[i]
  OBVIOUS
<1> HIDE DEF p
<1>2. ASSUME NEW i \in 1 .. Len(p) PROVE p[i].kind = "head" => p[i].i = 0
  <2>1. i \in 1 .. Len(q) \/ i = Len(q) + 1
    BY <1>1
  <2> QED BY <1>1, <2>1 DEF Tidy
<1>3. ASSUME NEW i \in 1 .. Len(p) - 1 PROVE Follows(p[i], p[i + 1])
  <2>1. CASE i \in 1 .. Len(q) - 1
    <3>1. p[i] = q[i] /\ p[i + 1] = q[i + 1]
      BY <1>1, <2>1
    <3> QED BY <2>1, <3>1 DEF Tidy
  <2>2. CASE i = Len(q)
    <3>1. p[i] = q[Len(q)] /\ p[i + 1] = m /\ q # << >>
      BY <1>1, <1>3, <2>2
    <3> QED BY <3>1
  <2> QED BY <1>1, <1>3, <2>1, <2>2
<1> QED BY <1>2, <1>3 DEF Tidy, p

LEMMA TidyParts ==
  ASSUME NEW q \in Seq(Message), Tidy(q), NEW p \in Parts(q)
  PROVE  /\ Tidy(p)
         /\ p # << >> => q # << >> /\ \A a : Follows(a, q[1]) => Follows(a, p[1])
<1>0. Len(q) \in Nat /\ DOMAIN q = 1 .. Len(q) /\ \A i \in 1 .. Len(q) : q[i] \in Message
  OBVIOUS
<1>1. ASSUME NEW i \in 0 .. Len(q), NEW b, b = SubSeq(q, 1, i)
      PROVE  /\ b \in Seq(Message) /\ Len(b) = i /\ \A j \in 1 .. i : b[j] = q[j]
             /\ Tidy(b)
  <2>1. b \in Seq(Message) /\ Len(b) = i /\ \A j \in 1 .. i : b[j] = q[j]
    BY <1>0, <1>1
  <2>2. ASSUME NEW j \in 1 .. Len(b) - 1 PROVE Follows(b[j], b[j + 1])
    <3>1. j \in 1 .. Len(q) - 1 /\ j \in 1 .. i /\ j + 1 \in 1 .. i
      BY <1>0, <2>1
    <3> QED BY <2>1, <3>1 DEF Tidy
  <2>3. \A j \in 1 .. Len(b) : b[j].kind = "head" => b[j].i = 0
    BY <1>0, <2>1 DEF Tidy
  <2> QED BY <2>1, <2>2, <2>3 DEF Tidy
<1>2. CASE \E i \in 0 .. Len(q) : p = SubSeq(q, 1, i)
  <2>1. PICK i \in 0 .. Len(q) : p = SubSeq(q, 1, i)
    BY <1>2
  <2>2. Tidy(p) /\ p \in Seq(Message) /\ Len(p) = i /\ \A j \in 1 .. i : p[j] = q[j]
    BY <1>1, <2>1
  <2>3. p # << >> => Len(q) # 0 /\ p[1] = q[1]
    BY <1>0, <2>2
  <2> QED BY <1>0, <2>2, <2>3
<1>3. CASE \E i \in 1 .. Len(q) : /\ q[i].kind = "slice"
             /\ p = Append(SubSeq(q, 1, i - 1), [kind |-> "cut", n |-> q[i].n, i |-> q[i].i])
  <2>1. PICK i \in 1 .. Len(q) : /\ q[i].kind = "slice"
             /\ p = Append(SubSeq(q, 1, i - 1), [kind |-> "cut", n |-> q[i].n, i |-> q[i].i])
    BY <1>3
  <2>2. PICK b : b = SubSeq(q, 1, i - 1)
    OBVIOUS
  <2>3. PICK m : m = [kind |-> "cut", n |-> q[i].n, i |-> q[i].i]
    OBVIOUS
  <2>4. i - 1 \in 0 .. Len(q) /\ i \in Nat
    BY <1>0
  <2>5. b \in Seq(Message) /\ Len(b) = i - 1 /\ (\A j \in 1 .. i - 1 : b[j] = q[j]) /\ Tidy(b)
    BY <1>1, <2>2, <2>4
  <2>6. m \in Message /\ m.kind = "cut" /\ p = Append(b, m) /\ \A a : Follows(a, q[i]) => Follows(a, m)
    BY <1>0, <2>1, <2>2, <2>3 DEF Message, Follows
  <2>7. ASSUME b # << >> PROVE Follows(b[Len(b)], m)
    <3>1. Len(b) # 0
      BY <2>5, <2>7
    <3>2. i - 1 \in 1 .. Len(q) - 1 /\ (i - 1) + 1 = i /\ b[Len(b)] = q[i - 1]
      BY <1>0, <2>4, <2>5, <3>1
    <3>3. Follows(q[i - 1], q[(i - 1) + 1])
      BY <3>2 DEF Tidy
    <3> QED BY <2>6, <3>2, <3>3
  <2>8. Tidy(p)
    BY <2>5, <2>6, <2>7, TidyAppend
  <2>9. \A a : Follows(a, q[1]) => Follows(a, p[1])
    <3>1. CASE i = 1
      <4>1. p[1] = m
        BY <2>5, <2>6, <3>1
      <4> QED BY <2>6, <3>1, <4>1
    <3>2. CASE i # 1
      <4>1. p[1] = q[1]
        BY <2>4, <2>5, <2>6, <3>2
      <4> QED BY <4>1
    <3> QED BY <3>1, <3>2
  <2>10. q # << >>
    BY <1>0
  <2> QED BY <2>8, <2>9, <2>10
<1> QED BY <1>0, <1>2, <1>3 DEF Parts

-----------------------------------------------------------------------------
(* The four ways in which what is on its way on k changes.                 *)

\* Nothing happens to it, or something is lost with the connection.
LEMMA TidyQuiet ==
  ASSUME TypeInv, NEW k \in Conns, TidyOn(k),
         Untouched(k)' => Untouched(k),
         \/ down'[k] = down[k] /\ (eup'[k] /\ cup'[k] => (eup[k] /\ cup[k]) \/ Untouched(k))
         \/ down'[k] \in Parts(down[k]) \cup {<< >>} /\ ~(eup'[k] /\ cup'[k]) /\ ~Sends(k)',
         Reads(k)' => Reads(k) /\ UNCHANGED <<cseq, ngot>>,
         Sends(k)' => Sends(k) /\ UNCHANGED <<eseq, nslices>>
  PROVE  TidyOn(k)'
<1>1. down[k] \in Seq(Message) /\ Tidy(down[k])
  BY DEF TypeInv, TidyOn
<1>2. PICK q : q = down[k]
  OBVIOUS
<1>3. PICK p : p = down'[k]
  OBVIOUS
<1>4. PICK g : g = Got
  OBVIOUS
<1>5. q \in Seq(Message) /\ Tidy(q) /\ (Reads(k)' => Got' = g)
  BY <1>1, <1>2, <1>4 DEF Got
<1>6. CASE p = q
  <2>1. /\ Tidy(p) /\ (Untouched(k)' => p = << >>)
        /\ eup'[k] /\ cup'[k] => \A i \in 1 .. Len(p) : p[i].kind # "cut"
    <3>1. p = << >> => Len(p) = 0
      OBVIOUS
    <3>2. (eup'[k] /\ cup'[k]) => (eup[k] /\ cup[k]) \/ Untouched(k)
      BY <1>2, <1>3, <1>6
    <3>3. Untouched(k) => p = << >>
      BY <1>2, <1>6 DEF TidyOn
    <3>4. (eup[k] /\ cup[k]) => \A i \in 1 .. Len(p) : p[i].kind # "cut"
      BY <1>2, <1>6 DEF TidyOn
    <3> QED BY <1>5, <1>6, <3>1, <3>2, <3>3, <3>4
  <2>2. (Reads(k)' /\ p # << >>) => Follows(g, p[1])
    BY <1>2, <1>4, <1>6 DEF TidyOn
  <2>3. (Sends(k)' /\ p # << >>) => AtEnd(p[Len(p)])'
    BY <1>2, <1>3, <1>6 DEF TidyOn, AtEnd
  <2>4. (Sends(k)' /\ p = << >> /\ Reads(k)') => AtEnd(Got)'
    BY <1>2, <1>6 DEF TidyOn, AtEnd, Got
  <2> QED BY <1>3, <1>5, <2>1, <2>2, <2>3, <2>4 DEF TidyOn
<1>7. CASE p # q
  <2>1. p \in Parts(q) \cup {<< >>} /\ ~(eup'[k] /\ cup'[k]) /\ ~Sends(k)'
    BY <1>2, <1>3, <1>7
  <2>2. /\ Tidy(p) /\ (p # << >> => q # << >>)
        /\ p # << >> => (Follows(g, q[1]) => Follows(g, p[1]))
    <3>1. CASE p = << >>
      BY <3>1 DEF Tidy
    <3>2. CASE p \in Parts(q)
      BY <1>5, <3>2, TidyParts
    <3> QED BY <2>1, <3>1, <3>2
  <2>3. Untouched(k)' => p = << >>
    BY <1>2, <2>2 DEF TidyOn
  <2>4. (Reads(k)' /\ p # << >>) => Follows(g, p[1])
    BY <1>2, <1>4, <2>2 DEF TidyOn
  <2> QED BY <1>3, <1>5, <2>1, <2>2, <2>3, <2>4 DEF TidyOn
<1> QED BY <1>6, <1>7

\* The emitter, or what is left of it, puts m there.
LEMMA TidyAdd ==
  ASSUME TypeInv, NEW k \in Conns, TidyOn(k), k = ecur, eup[k], cup[k],
         NEW m \in Message, down'[k] = Append(down[k], m),
         m.kind = "head" => m.i = 0,
         m.kind = "cut" => ~eup'[k],
         \A a : a.kind # "cut" /\ (epc = "open" => AtEnd(a)) => Follows(a, m),
         ~Untouched(k)', Reads(k)' => Reads(k), UNCHANGED <<cseq, ngot>>,
         Sends(k)' => AtEnd(m)'
  PROVE  TidyOn(k)'
<1>1. PICK q : q = down[k]
  OBVIOUS
<1>2. PICK p : p = down'[k]
  OBVIOUS
<1>3. PICK g : g = Got /\ g = Got'
  BY DEF Got
<1>4. q \in Seq(Message) /\ Tidy(q) /\ p = Append(q, m)
  BY <1>1, <1>2 DEF TypeInv, TidyOn
<1>5. /\ p \in Seq(Message) /\ Len(p) = Len(q) + 1 /\ Len(q) \in Nat /\ p # << >>
      /\ p[Len(p)] = m /\ \A i \in 1 .. Len(q) : p[i] = q[i]
  BY <1>4
<1>6. ASSUME q # << >> PROVE Follows(q[Len(q)], m)
  <2>1. Len(q) \in 1 .. Len(q)
    BY <1>4, <1>6
  <2>2. q[Len(q)].kind # "cut"
    BY <1>1, <2>1 DEF TidyOn
  <2>3. epc = "open" => AtEnd(q[Len(q)])
    BY <1>1, <1>6 DEF TidyOn, Sends
  <2> QED BY <2>2, <2>3
<1>7. Tidy(p)
  BY <1>4, <1>6, TidyAppend
<1>8. ASSUME eup'[k], NEW i \in 1 .. Len(p) PROVE p[i].kind # "cut"
  <2>1. i \in 1 .. Len(q) \/ i = Len(p)
    BY <1>5
  <2>2. \A j \in 1 .. Len(q) : q[j].kind # "cut"
    BY <1>1 DEF TidyOn
  <2> QED BY <1>5, <1>8, <2>1, <2>2
<1>9. ASSUME Reads(k)' PROVE Follows(g, p[1])
  <2>1. Reads(k)
    BY <1>9
  <2>2. CASE q # << >>
    <3>1. Len(q) # 0 /\ p[1] = q[1]
      BY <1>4, <1>5, <2>2
    <3>2. Follows(g, q[1])
      BY <1>1, <1>3, <2>1, <2>2 DEF TidyOn
    <3> QED BY <3>1, <3>2
  <2>3. CASE q = << >>
    <3>1. p[1] = m
      BY <1>4, <1>5, <2>3
    <3>2. epc = "open" => AtEnd(g)
      BY <1>1, <1>3, <2>1, <2>3 DEF TidyOn, Sends
    <3>3. g.kind # "cut"
      BY <1>3 DEF Got
    <3> QED BY <3>1, <3>2, <3>3
  <2> QED BY <2>2, <2>3
<1>10. Sends(k)' => AtEnd(p[Len(p)])'
  BY <1>5
<1> QED BY <1>2, <1>3, <1>5, <1>7, <1>8, <1>9, <1>10 DEF TidyOn

\* The consumer takes the first.
LEMMA TidyTake ==
  ASSUME TypeInv, NEW k \in Conns, TidyOn(k), Sends(k) => eup[k],
         down[k] # << >>, down'[k] = Tail(down[k]),
         UNCHANGED <<eup, cup, epc, ecur, eseq, nslices>>, Untouched(k)' = Untouched(k),
         Reads(k)' => down[k][1].kind = "cut" \/ (cseq' = down[k][1].n /\ ngot' = down[k][1].i)
  PROVE  TidyOn(k)'
<1>1. PICK q : q = down[k]
  OBVIOUS
<1>2. PICK p : p = down'[k]
  OBVIOUS
<1>3. PICK g : g = Got'
  OBVIOUS
<1>4. q \in Seq(Message) /\ Tidy(q) /\ p = Tail(q) /\ q # << >> /\ Len(q) \in Nat \ {0}
  BY <1>1, <1>2 DEF TypeInv, TidyOn
<1>5. /\ Tidy(p) /\ p \in Seq(Message)
      /\ \A i \in 1 .. Len(p) : i + 1 \in 1 .. Len(q) /\ p[i] = q[i + 1]
  BY <1>4, TidyTail
<1>6. p # << >> => Follows(q[1], p[1]) /\ p[Len(p)] = q[Len(q)]
  BY <1>4, TidyTail
<1>7. p = << >> => q[1] = q[Len(q)]
  BY <1>4, TidyTail
<1>8. Untouched(k)' => p = << >>
  BY <1>1, <1>4 DEF TidyOn
<1>9. ASSUME eup[k] /\ cup[k] PROVE \A i \in 1 .. Len(p) : p[i].kind # "cut"
  <2>1. \A i \in 1 .. Len(q) : q[i].kind # "cut"
    BY <1>1, <1>9 DEF TidyOn
  <2> QED BY <1>5, <2>1
<1>10. ASSUME Reads(k)', p # << >> PROVE Follows(g, p[1])
  <2>1. q[1].kind # "cut"
    BY <1>6, <1>10 DEF Follows
  <2>2. g.kind = "slice" /\ g.n = q[1].n /\ g.i = q[1].i
    BY <1>1, <1>3, <1>10, <2>1 DEF Got
  <2>3. Follows(q[1], p[1])
    BY <1>6, <1>10
  <2> QED BY <2>2, <2>3 DEF Follows
<1>11. ASSUME Sends(k)' PROVE Sends(k) /\ AtEnd(q[Len(q)])
  BY <1>1, <1>4, <1>11 DEF TidyOn, Sends
<1>12. Sends(k)' /\ p # << >> => AtEnd(p[Len(p)])'
  BY <1>6, <1>11 DEF AtEnd
<1>13. ASSUME Sends(k)', p = << >>, Reads(k)' PROVE AtEnd(g)'
  <2>1. AtEnd(q[1]) /\ Sends(k)
    BY <1>7, <1>11, <1>13
  <2>2. q[1].kind # "cut"
    BY <2>1 DEF AtEnd
  <2>3. g.kind = "slice" /\ g.n = q[1].n /\ g.i = q[1].i
    BY <1>1, <1>3, <1>13, <2>2 DEF Got
  <2> QED BY <2>1, <2>3 DEF AtEnd
<1> QED BY <1>2, <1>3, <1>5, <1>8, <1>9, <1>10, <1>12, <1>13 DEF TidyOn

-----------------------------------------------------------------------------
(* Every step keeps both.                                                  *)

LEMMA OpenConnected ==
  ASSUME TypeInv, Ordered, Connected, UNCHANGED <<ecomms, ecur>>, NEW k \in Conns, Served(k)'
  PROVE  Served(k) \/ k = nconn'
<1>1. nconn \in 0 .. MaxConns /\ nconn' = nconn + 1 /\ backlog' = Append(backlog, nconn')
      /\ backlog \in Seq(Conns)
  BY DEF TypeInv, Connected
<1>2. Pending' = Pending \cup {nconn'}
  <2>1. /\ Len(backlog) \in Nat
        /\ DOMAIN backlog = 1 .. Len(backlog) /\ DOMAIN backlog' = 1 .. Len(backlog) + 1
        /\ \A i \in 1 .. Len(backlog) : backlog'[i] = backlog[i]
        /\ backlog'[Len(backlog) + 1] = nconn'
    BY <1>1
  <2> QED BY <2>1 DEF Pending
<1> QED BY <1>2 DEF Served

LEMMA OpenAccept ==
  ASSUME TypeInv, Ordered, Accept, NEW k \in Conns, Served(k)'
  PROVE  k \in Pending /\ k # ecur
<1>1. backlog \in Seq(Conns) /\ backlog # << >> /\ ecur' = Head(backlog) /\ backlog' = Tail(backlog)
  BY DEF TypeInv, Accept
<1>2. /\ Len(backlog) \in Nat \ {0} /\ ecur' = backlog[1] /\ 1 \in 1 .. Len(backlog)
      /\ DOMAIN backlog = 1 .. Len(backlog) /\ DOMAIN backlog' = 1 .. Len(backlog) - 1
      /\ \A i \in 1 .. Len(backlog) - 1 : backlog'[i] = backlog[i + 1] /\ i + 1 \in 1 .. Len(backlog)
  BY <1>1
<1>3. \A i \in 1 .. Len(backlog) : ecur < backlog[i] /\ backlog[i] \in Nat
  <2>1. \A i \in 1 .. Len(backlog) : backlog[i] \in Conns
    BY <1>1
  <2> QED BY <2>1 DEF Ordered, Conns
<1>4. k \in Pending
  BY <1>2 DEF Pending, Served
<1>5. ecur \in Nat
  BY DEF TypeInv, Conns, None
<1> QED BY <1>2, <1>3, <1>4, <1>5 DEF Pending

LEMMA OpenNext ==
  ASSUME TypeInv, Ordered, HeldInv, OpenInv, [Next]_vars
  PROVE  OpenInv'
<1> USE DEF net, emitter, consumer, esocket, csocket, emission, reading, vars
<1> SUFFICES ASSUME NEW k \in Conns, Served(k)', cup'[k] PROVE eup'[k]
  BY DEF OpenInv
<1>0. /\ eup \in [Conns -> BOOLEAN] /\ cup \in [Conns -> BOOLEAN] /\ nconn \in 0 .. MaxConns
      /\ backlog \in Seq(Conns)
  BY DEF TypeInv
<1>1. CASE UNCHANGED <<ecomms, ecur, backlog, eup, cup>>
  BY <1>1 DEF OpenInv, Served, Pending
<1>2. CASE Connected /\ UNCHANGED <<ecomms, ecur>> /\ eup' = [eup EXCEPT ![nconn'] = TRUE]
           /\ \A j \in Conns : j # nconn' /\ cup'[j] => cup[j]
  <2>1. nconn' \in Conns
    BY <1>0, <1>2, StreamAssumption DEF Connected, Conns
  <2>2. CASE k = nconn'
    BY <1>0, <1>2, <2>1, <2>2
  <2>3. CASE k # nconn'
    <3>1. Served(k) /\ cup[k]
      BY <1>2, <2>3, OpenConnected
    <3> QED BY <1>0, <1>2, <2>3, <3>1 DEF OpenInv
  <2> QED BY <2>2, <2>3
<1>3. CASE UNCHANGED <<eup, cup>> /\ Accept
  BY <1>3, OpenAccept DEF OpenInv, Served
<1>4. CASE UNCHANGED <<eup, cup, backlog>> /\ ecomms' # "connected"
  BY <1>4 DEF OpenInv, Served, Pending
<1>5. CASE EmitConnect
  BY <1>1, <1>3, <1>4, <1>5 DEF EmitConnect, Listen
<1>6. CASE EmitHeader
  <2>1. CASE Begun(ecur) /\ UNCHANGED <<esocket, backlog, eup>>
    BY <1>1, <1>6, <2>1 DEF EmitHeader
  <2>2. CASE EmitterLeaves({ecur}) /\ (Accept \/ (ecomms' = "null" /\ backlog' = backlog))
    <3>1. cup' = cup /\ ecur \in Nat
      BY <1>6 DEF EmitHeader, TypeInv, Conns, None
    <3>2. \A j \in Pending : j # ecur
      BY <1>0, <3>1 DEF Pending, Ordered, Conns
    <3>3. k \in Pending /\ k # ecur
      BY <2>2, <3>2, OpenAccept DEF Served, Pending
    <3>4. eup'[k] = eup[k]
      BY <1>0, <2>2, <3>3 DEF EmitterLeaves
    <3> QED BY <3>1, <3>3, <3>4 DEF OpenInv, Served
  <2> QED BY <1>6, <2>1, <2>2 DEF EmitHeader
<1>7. CASE EmitterDisable \/ EmitterKilled
  <2>1. backlog' = << >> /\ ecomms' # "connected"
    BY <1>7 DEF EmitterDisable, EmitterKilled
  <2>2. ~Served(k)'
    BY <2>1 DEF Served, Pending
  <2> QED BY <2>2
<1>8. CASE EmitterEnable
  BY <1>4, <1>8 DEF EmitterEnable, Listen
<1>9. CASE ConsumeConnect \/ ConsumerEnable
  <2>1. UNCHANGED <<ecomms, ecur>>
    BY <1>9 DEF ConsumeConnect, ConsumerEnable
  <2>2. CASE UNCHANGED <<backlog, eup, cup>>
    BY <1>1, <2>1, <2>2
  <2>3. CASE Connected /\ eup' = [eup EXCEPT ![nconn'] = TRUE] /\ cup' = [cup EXCEPT ![nconn'] = TRUE]
    BY <1>0, <1>2, <2>1, <2>3
  <2> QED BY <1>9, <2>2, <2>3 DEF ConsumeConnect, ConsumerEnable, Establish, NotConnected
<1>10. CASE ConsumeRetry
  <2>1. UNCHANGED <<ecomms, ecur>>
    BY <1>10 DEF ConsumeRetry
  <2>2. CASE /\ Connected /\ eup' = [eup EXCEPT ![nconn'] = TRUE]
             /\ cup' = [cup EXCEPT ![ccur] = FALSE, ![nconn'] = TRUE]
    BY <1>0, <1>2, <2>1, <2>2
  <2>3. CASE NotConnected /\ cup' = [cup EXCEPT ![ccur] = FALSE] /\ UNCHANGED eup
    BY <1>0, <2>1, <2>3 DEF NotConnected, OpenInv, Served, Pending
  <2> QED BY <1>10, <2>2, <2>3 DEF ConsumeRetry
<1>11. CASE ConsumerOff
  BY <1>0, <1>11 DEF ConsumerOff, ConsumerLeaves, OpenInv, Served, Pending
<1>12. CASE Break
  BY <1>0, <1>12 DEF Break, OpenInv, Served, Pending
<1>13. CASE EmitStart \/ EmitHeaderAgain \/ EmitSlice \/ EmitStop
  BY <1>1, <1>13 DEF EmitStart, EmitHeaderAgain, EmitSlice, EmitStop
<1>14. CASE \/ ConsumeStart \/ ConsumeHead \/ ConsumeDrain \/ ConsumeNothing \/ ConsumeSlice
            \/ ConsumeStop \/ UNCHANGED vars
  BY <1>1, <1>14 DEF ConsumeStart, ConsumeHead, ConsumeDrain, ConsumeNothing, ConsumeSlice,
     MsgHeader, ConsumeStop
<1> QED BY <1>5, <1>6, <1>7, <1>8, <1>9, <1>10, <1>11, <1>12, <1>13, <1>14 DEF Next, Emit, Consume

\* The steps of TidyQuiet: what each of them does to k.
QuietOn(k) ==
  /\ \/ down'[k] = down[k] /\ (eup'[k] /\ cup'[k] => (eup[k] /\ cup[k]) \/ Untouched(k))
     \/ down'[k] \in Parts(down[k]) \cup {<< >>} /\ ~(eup'[k] /\ cup'[k]) /\ ~Sends(k)'
  /\ Reads(k)' => Reads(k) /\ UNCHANGED <<cseq, ngot>>
  /\ Sends(k)' => Sends(k) /\ UNCHANGED <<eseq, nslices>>

LEMMA QuietIdle ==
  ASSUME NEW k \in Conns, UNCHANGED <<eup, cup>>, down'[k] = down[k],
         Reads(k)' => Reads(k) /\ UNCHANGED <<cseq, ngot>>,
         Sends(k)' => Sends(k) /\ UNCHANGED <<eseq, nslices>>
  PROVE  QuietOn(k)
BY DEF QuietOn

LEMMA QuietEmitter ==
  ASSUME TypeInv, NEW k \in Conns, [Next]_vars, Emit \/ EmitterDisable \/ EmitterKilled \/ EmitterEnable,
         \/ down'[k] = down[k] /\ (Sends(k)' => Sends(k) /\ UNCHANGED <<eseq, nslices>>)
         \/ down'[k] \in Parts(down[k]) /\ ~eup'[k] /\ ~Sends(k)'
  PROVE  QuietOn(k)
<1> USE DEF net, emitter, consumer, esocket, csocket, emission, reading
<1>1. UNCHANGED <<cpc, ccur, cseq, ngot>> /\ (eup'[k] /\ cup'[k] => eup[k] /\ cup[k])
  <2>1. \A ks : EmitterLeaves(ks) => (eup'[k] => eup[k])
    BY DEF TypeInv, EmitterLeaves
  <2>2. CASE EmitStart \/ EmitConnect \/ EmitHeader \/ EmitHeaderAgain \/ EmitSlice \/ EmitStop
    BY <2>1, <2>2 DEF EmitStart, EmitConnect, EmitHeader, EmitHeaderAgain, EmitSlice, EmitStop
  <2>3. CASE EmitterDisable \/ EmitterKilled \/ EmitterEnable
    BY <2>1, <2>3 DEF EmitterDisable, EmitterKilled, EmitterEnable
  <2> QED BY <2>2, <2>3 DEF Emit
<1> QED BY <1>1 DEF QuietOn, Reads

LEMMA QuietLeaves ==
  ASSUME TypeInv, NEW k \in Conns, NEW ks, EmitterLeaves(ks)
  PROVE  down'[k] = down[k] \/ (down'[k] \in Parts(down[k]) /\ ~eup'[k])
<1>1. down \in [Conns -> Seq(Message)] /\ eup \in [Conns -> BOOLEAN]
  BY DEF TypeInv
<1>2. CASE UNCHANGED down
  BY <1>2
<1>3. CASE \E j \in ks : up[j] # << >> /\ \E q \in Parts(down[j]) : down' = [down EXCEPT ![j] = q]
  BY <1>1, <1>3 DEF EmitterLeaves
<1> QED BY <1>2, <1>3 DEF EmitterLeaves

\* A new connection, made by the consumer, was not touched before.
LEMMA QuietConnected ==
  ASSUME TypeInv, NEW k \in Conns, Connected, UNCHANGED <<epc, ecur, eseq, nslices, down>>,
         eup' = [eup EXCEPT ![nconn'] = TRUE],
         \A j \in Conns : j # nconn' /\ cup'[j] => cup[j],
         cpc' # "reading", ecur <= nconn
  PROVE  QuietOn(k)
<1>1. nconn \in 0 .. MaxConns /\ nconn' = nconn + 1 /\ MaxConns \in Nat
  BY StreamAssumption DEF TypeInv, Connected
<1>2. k = nconn' => Untouched(k) /\ k # ecur
  BY <1>1 DEF Untouched, Conns, TypeInv, None
<1>3. k # nconn' => eup'[k] = eup[k] /\ (cup'[k] => cup[k])
  BY DEF TypeInv
<1> QED BY <1>2, <1>3 DEF QuietOn, Reads, Sends

LEMMA QuietConsumer ==
  ASSUME TypeInv, Ordered, NEW k \in Conns,
         \/ ConsumeStart \/ ConsumeConnect \/ ConsumeNothing \/ ConsumeRetry \/ ConsumerOff
         \/ ConsumerEnable \/ (ConsumeStop /\ UNCHANGED down)
  PROVE  QuietOn(k)
<1> USE DEF net, emitter, consumer, esocket, csocket, emission, reading
<1>0. /\ eup \in [Conns -> BOOLEAN] /\ cup \in [Conns -> BOOLEAN]
      /\ down \in [Conns -> Seq(Message)] /\ ecur <= nconn
  BY DEF TypeInv, Ordered
<1>1. CASE ConsumeStart \/ ConsumeNothing \/ (ConsumeStop /\ UNCHANGED down)
  BY <1>1, QuietIdle DEF ConsumeStart, ConsumeNothing, ConsumeStop, Done, Reads, Sends
<1>2. CASE ConsumeConnect \/ ConsumerEnable
  <2>1. UNCHANGED <<epc, ecur, eseq, nslices, down>> /\ cpc' # "reading"
    BY <1>2 DEF ConsumeConnect, ConsumerEnable, Establish
  <2>2. CASE Connected /\ eup' = [eup EXCEPT ![nconn'] = TRUE] /\ cup' = [cup EXCEPT ![nconn'] = TRUE]
    BY <1>0, <2>1, <2>2, QuietConnected
  <2>3. CASE UNCHANGED <<eup, cup>>
    BY <2>1, <2>3 DEF QuietOn, Reads, Sends
  <2> QED BY <1>2, <2>2, <2>3 DEF ConsumeConnect, ConsumerEnable, Establish
<1>3. CASE ConsumeRetry
  <2>1. UNCHANGED <<epc, ecur, eseq, nslices, down>> /\ cpc' # "reading"
    BY <1>3 DEF ConsumeRetry
  <2>2. CASE /\ Connected /\ eup' = [eup EXCEPT ![nconn'] = TRUE]
             /\ cup' = [cup EXCEPT ![ccur] = FALSE, ![nconn'] = TRUE]
    BY <1>0, <2>1, <2>2, QuietConnected
  <2>3. CASE cup' = [cup EXCEPT ![ccur] = FALSE] /\ UNCHANGED eup
    BY <1>0, <2>1, <2>3 DEF QuietOn, Reads, Sends
  <2> QED BY <1>3, <2>2, <2>3 DEF ConsumeRetry
<1>4. CASE ConsumerOff
  <2>1. UNCHANGED <<epc, ecur, eseq, nslices, eup>> /\ cpc' # "reading"
    BY <1>4 DEF ConsumerOff
  <2>2. \/ down'[k] = down[k] /\ cup'[k] = cup[k]
        \/ down'[k] = << >> /\ ~cup'[k]
    BY <1>0, <1>4 DEF ConsumerOff, ConsumerLeaves
  <2> QED BY <2>1, <2>2 DEF QuietOn, Reads, Sends
<1> QED BY <1>1, <1>2, <1>3, <1>4

LEMMA QuietBreak ==
  ASSUME TypeInv, NEW k \in Conns, Break
  PROVE  QuietOn(k)
<1>1. PICK c \in Conns :
        /\ eup' = [eup EXCEPT ![c] = FALSE] /\ cup' = [cup EXCEPT ![c] = FALSE]
        /\ \E q \in Parts(down[c]) : down' = [down EXCEPT ![c] = q]
  BY DEF Break
<1>2. \/ down'[k] = down[k] /\ eup'[k] = eup[k] /\ cup'[k] = cup[k]
      \/ down'[k] \in Parts(down[k]) /\ ~eup'[k] /\ ~cup'[k]
  BY <1>1 DEF TypeInv
<1>3. UNCHANGED <<epc, ecur, eseq, nslices, cpc, ccur, cseq, ngot>>
  BY DEF Break, emitter, consumer, esocket, csocket, emission, reading
<1> QED BY <1>2, <1>3 DEF QuietOn, Reads, Sends

\* What the emitter puts there, and what is left of it when it dies.
LEMMA TidySend ==
  ASSUME TypeInv, Ordered, HeldInv, OpenInv, NEW k \in Conns, TidyOn(k),
         Begins \/ EmitSlice \/ EmitStop
  PROVE  TidyOn(k)'
<1> USE DEF net, emitter, consumer, esocket, csocket, emission, reading
<1>1. /\ UNCHANGED <<eup, cup, ecur, backlog, nconn, cpc, ccur, cseq, ngot>>
      /\ epc \in {"header", "again", "open"} /\ ecur \in Conns /\ ecomms = "connected"
      /\ eseq \in Nat /\ nslices \in Nat
  <2>1. /\ UNCHANGED <<eup, cup, ecur, backlog, nconn, cpc, ccur, cseq, ngot>>
        /\ epc \in {"header", "again", "open"}
    BY BeginsNext DEF EmitSlice, EmitStop
  <2> QED BY <2>1 DEF HeldInv, TypeInv
<1>2. PICK m : m = IF Begins THEN Beginning
                   ELSE IF EmitSlice THEN [kind |-> "slice", n |-> eseq, i |-> nslices + 1]
                   ELSE [kind |-> "foot", n |-> eseq, i |-> nslices]
  OBVIOUS
<1>3. Untouched(k)' = Untouched(k) /\ Reads(k)' = Reads(k)
  BY <1>1 DEF Untouched, Pending, Reads
<1>4. \/ down'[k] = down[k] /\ (k # ecur \/ ~cup[k])
      \/ k = ecur /\ cup[k] /\ down'[k] = Append(down[k], m)
  <2>1. down \in [Conns -> Seq(Message)]
    BY DEF TypeInv
  <2>2. IF cup[ecur] THEN down' = [down EXCEPT ![ecur] = Append(@, m)] ELSE UNCHANGED down
    <3>1. CASE Begins
      BY <1>2, <3>1 DEF Begins, Begun, Send, Beginning
    <3>2. CASE EmitSlice /\ ~Begins
      BY <1>2, <3>2 DEF EmitSlice, Send
    <3>3. CASE EmitStop /\ ~Begins /\ ~EmitSlice
      BY <1>2, <3>3 DEF EmitStop, Send
    <3> QED BY <3>1, <3>2, <3>3
  <2> QED BY <2>1, <2>2
<1>5. CASE down'[k] = down[k] /\ (k # ecur \/ ~cup[k])
  <2>1. ~Sends(k)'
    BY <1>1, <1>5 DEF Sends
  <2> QED BY <1>1, <1>3, <1>5, <2>1, TidyQuiet
<1>6. CASE k = ecur /\ cup[k] /\ down'[k] = Append(down[k], m)
  <2>1. ~Untouched(k)'
    <3>1. /\ ecur <= nconn /\ nconn \in Nat /\ DOMAIN backlog = 1 .. Len(backlog)
          /\ \A i \in 1 .. Len(backlog) : ecur < backlog[i]
      BY DEF TypeInv, Ordered
    <3>2. ~Untouched(k)
      BY <1>6, <3>1 DEF Untouched, Pending, Conns
    <3> QED BY <1>3, <3>2
  <2>2. eup[k]
    BY <1>1, <1>6 DEF OpenInv, Served
  <2>3. /\ m \in Message /\ m.kind # "cut" /\ (m.kind = "head" => m.i = 0)
        /\ \A a : a.kind # "cut" /\ (epc = "open" => AtEnd(a)) => Follows(a, m)
        /\ Sends(k)' => AtEnd(m)'
    <3>1. CASE Begins
      <4>1. m = Beginning /\ eseq + 1 \in Seqs /\ eseq' = eseq + 1
        BY <1>2, <3>1, BeginsNext
      <4>2. nslices' = 0
        BY <3>1 DEF Begins, Begun
      <4> QED BY <4>1, <4>2 DEF Beginning, Message, Follows, AtEnd
    <3>2. CASE EmitSlice /\ ~Begins
      <4>1. /\ m = [kind |-> "slice", n |-> eseq, i |-> nslices + 1] /\ epc = "open" /\ eseq \in Seqs
            /\ eseq' = eseq /\ nslices' = nslices + 1
        BY <1>2, <3>2 DEF EmitSlice, TypeInv
      <4>2. m \in Message
        BY <1>1, <4>1 DEF Message
      <4>3. \A a : AtEnd(a) => Follows(a, m)
        BY <4>1 DEF AtEnd, Follows
      <4> QED BY <4>1, <4>2, <4>3 DEF AtEnd
    <3>3. CASE EmitStop /\ ~Begins /\ ~EmitSlice
      <4>1. /\ m = [kind |-> "foot", n |-> eseq, i |-> nslices] /\ epc = "open" /\ eseq \in Seqs
            /\ epc' = "idle"
        BY <1>2, <3>3 DEF EmitStop, TypeInv
      <4>2. m \in Message
        BY <1>1, <4>1 DEF Message
      <4>3. \A a : AtEnd(a) => Follows(a, m)
        BY <4>1 DEF AtEnd, Follows
      <4> QED BY <4>1, <4>2, <4>3 DEF Sends
    <3> QED BY <3>1, <3>2, <3>3
  <2> QED BY <1>1, <1>3, <1>6, <2>1, <2>2, <2>3, TidyAdd
<1> QED BY <1>4, <1>5, <1>6

LEMMA TidyKilled ==
  ASSUME TypeInv, Ordered, HeldInv, OpenInv, NEW k \in Conns, TidyOn(k), EmitterKilled, [Next]_vars,
         Untouched(k)' => Untouched(k)
  PROVE  TidyOn(k)'
<1>1. /\ down \in [Conns -> Seq(Message)] /\ epc' = "idle" /\ ~eup'[k]
      /\ UNCHANGED <<cup, cpc, ccur, cseq, ngot>>
  BY DEF TypeInv, EmitterKilled, consumer, csocket, reading
<1>2. PICK m : m = [kind |-> "cut", n |-> eseq, i |-> nslices + 1]
  OBVIOUS
<1>3. \/ down'[k] = down[k]
      \/ down'[k] \in Parts(down[k])
      \/ epc = "open" /\ k = ecur /\ cup[k] /\ down'[k] = Append(down[k], m)
  BY <1>1, <1>2 DEF EmitterKilled
<1>4. CASE down'[k] = down[k] \/ down'[k] \in Parts(down[k])
  <2>1. ~Sends(k)'
    BY <1>1 DEF Sends
  <2>2. QuietOn(k)
    BY <1>1, <1>4, <2>1, QuietEmitter
  <2> QED BY <2>2, TidyQuiet DEF QuietOn
<1>5. CASE epc = "open" /\ k = ecur /\ cup[k] /\ down'[k] = Append(down[k], m)
  <2>1. ~Untouched(k)'
    <3>1. /\ ecur <= nconn /\ nconn \in Nat /\ DOMAIN backlog = 1 .. Len(backlog)
          /\ \A i \in 1 .. Len(backlog) : ecur < backlog[i]
      BY DEF TypeInv, Ordered
    <3>2. ~Untouched(k)
      BY <1>5, <3>1 DEF Untouched, Pending, Conns
    <3> QED BY <3>2
  <2>2. eup[k]
    BY <1>5 DEF HeldInv, OpenInv, Served
  <2>3. m \in Message /\ m.kind = "cut" /\ \A a : AtEnd(a) => Follows(a, m)
    <3>1. eseq \in Seqs /\ nslices + 1 \in Nat
      BY <1>5 DEF TypeInv
    <3>2. m \in Message /\ m.kind = "cut"
      BY <1>2, <3>1 DEF Message
    <3> QED BY <1>2, <3>2 DEF AtEnd, Follows
  <2>4. ~Sends(k)' /\ (Reads(k)' => Reads(k))
    BY <1>1 DEF Sends, Reads
  <2> QED BY <1>1, <1>5, <2>1, <2>2, <2>3, <2>4, TidyAdd
<1> QED BY <1>3, <1>4, <1>5

\* What the consumer reads.
LEMMA TidyReading ==
  ASSUME TypeInv, HeldInv, OpenInv, NEW k \in Conns, TidyOn(k),
         ConsumeHead \/ ConsumeDrain \/ ConsumeSlice \/ (ConsumeStop /\ ~UNCHANGED down)
  PROVE  TidyOn(k)'
<1> USE DEF net, emitter, consumer, esocket, csocket, emission, reading
<1>1. /\ UNCHANGED <<eup, cup, epc, ecur, eseq, nslices, backlog, nconn, ccur>>
      /\ down[ccur] # << >> /\ down' = [down EXCEPT ![ccur] = Tail(@)]
      /\ down \in [Conns -> Seq(Message)] /\ cpc \in {"search", "reading"}
  BY DEF TypeInv, ConsumeHead, ConsumeDrain, ConsumeSlice, ConsumeStop, MsgHeader
<1>2. Untouched(k)' = Untouched(k) /\ Sends(k)' = Sends(k)
  BY <1>1 DEF Untouched, Pending, Sends
<1>3. CASE k # ccur
  <2>1. down'[k] = down[k] /\ ~Reads(k)'
    BY <1>1, <1>3 DEF Reads
  <2> QED BY <1>1, <1>2, <2>1, TidyQuiet
<1>4. CASE k = ccur
  <2>1. PICK h : h = down[k][1]
    OBVIOUS
  <2>2. Head(down[k]) = h /\ down[k] # << >> /\ down'[k] = Tail(down[k]) /\ h \in Message
    <3>1. down[k] \in Seq(Message) /\ down[k] # << >>
      BY <1>1, <1>4
    <3>2. Head(down[k]) = down[k][1] /\ Head(down[k]) \in Message
      BY <3>1, TailWithin
    <3> QED BY <1>1, <1>4, <2>1, <3>1, <3>2
  <2>3. Sends(k) => eup[k]
    BY DEF Sends, HeldInv, OpenInv, Served
  <2>4. ASSUME Reads(k)' PROVE h.kind = "cut" \/ (cseq' = h.n /\ ngot' = h.i)
    <3>1. CASE ConsumeHead
      <4>1. cseq' = h.n /\ h.kind = "head" /\ ngot' = 0
        BY <1>4, <2>2, <3>1 DEF ConsumeHead
      <4>2. h.i = 0
        <5>1. 1 \in 1 .. Len(down[k])
          BY <1>1, <2>2, TailWithin
        <5> QED BY <2>1, <4>1, <5>1 DEF TidyOn, Tidy
      <4> QED BY <4>1, <4>2
    <3>2. CASE ConsumeDrain \/ ConsumeStop
      BY <2>4, <3>2 DEF ConsumeDrain, ConsumeStop, Done, Reads
    <3>3. CASE ConsumeSlice
      <4>1. Reads(k) /\ cseq' = cseq /\ (h.kind = "cut" \/ (h.kind = "slice" /\ ngot' = ngot + 1))
        BY <1>4, <2>2, <3>3 DEF ConsumeSlice, MsgHeader, Reads
      <4>2. Follows(Got, h)
        BY <2>1, <2>2, <4>1 DEF TidyOn
      <4> QED BY <4>1, <4>2 DEF Follows, Got
    <3> QED BY <3>1, <3>2, <3>3
  <2> QED BY <1>1, <1>2, <2>1, <2>2, <2>3, <2>4, TidyTake
<1> QED BY <1>3, <1>4

LEMMA TidyNext ==
  ASSUME TypeInv, Ordered, HeldInv, OpenInv, NEW k \in Conns, TidyOn(k), [Next]_vars
  PROVE  TidyOn(k)'
<1> USE DEF net, emitter, consumer, esocket, csocket, emission, reading, vars
<1>1. Untouched(k)' => Untouched(k)
  BY OrderNext DEF OrderKept
<1>2. ASSUME QuietOn(k) PROVE TidyOn(k)'
  BY <1>1, <1>2, TidyQuiet DEF QuietOn
<1>3. CASE Begins \/ EmitSlice \/ EmitStop
  BY <1>3, TidySend
<1>4. CASE EmitterKilled
  BY <1>1, <1>4, TidyKilled
<1>5. CASE ConsumeHead \/ ConsumeDrain \/ ConsumeSlice \/ (ConsumeStop /\ ~UNCHANGED down)
  BY <1>5, TidyReading
<1>6. CASE \/ ConsumeStart \/ ConsumeConnect \/ ConsumeNothing \/ ConsumeRetry \/ ConsumerOff
           \/ ConsumerEnable \/ (ConsumeStop /\ UNCHANGED down)
  BY <1>2, <1>6, QuietConsumer
<1>7. CASE Break
  BY <1>2, <1>7, QuietBreak
<1>8. CASE EmitStart \/ EmitConnect \/ EmitterEnable \/ (EmitHeaderAgain /\ ~Begins)
  <2>1. down' = down /\ (Sends(k)' => Sends(k) /\ UNCHANGED <<eseq, nslices>>)
    BY <1>8 DEF EmitStart, EmitConnect, NotStarted, EmitterEnable, EmitHeaderAgain, Begins, Sends
  <2>2. QuietOn(k)
    BY <1>8, <2>1, QuietEmitter DEF Emit
  <2> QED BY <1>2, <2>2
<1>9. CASE (EmitHeader /\ ~Begins) \/ EmitterDisable
  <2>1. ~Sends(k)'
    BY <1>9 DEF EmitHeader, Begins, NotStarted, EmitterDisable, Sends
  <2>2. PICK ks : EmitterLeaves(ks)
    BY <1>9 DEF EmitHeader, Begins, EmitterDisable
  <2>3. down'[k] = down[k] \/ (down'[k] \in Parts(down[k]) /\ ~eup'[k])
    BY <2>2, QuietLeaves
  <2>4. QuietOn(k)
    BY <1>9, <2>1, <2>3, QuietEmitter DEF Emit
  <2> QED BY <1>2, <2>4
<1>10. CASE UNCHANGED vars
  <2>1. QuietOn(k)
    BY <1>10, QuietIdle DEF Reads, Sends
  <2> QED BY <1>2, <2>1
<1> QED BY <1>3, <1>4, <1>5, <1>6, <1>7, <1>8, <1>9, <1>10 DEF Next, Emit, Consume

LEMMA TidyInit == Init => TidyInv
<1> SUFFICES ASSUME Init PROVE TidyInv
  OBVIOUS
<1>1. ASSUME NEW k \in Conns PROVE TidyOn(k)
  <2>1. down[k] = << >> /\ Len(<< >>) = 0 /\ cpc = "idle" /\ epc = "idle"
    BY DEF Init
  <2> QED BY <2>1 DEF TidyOn, Tidy, Reads, Sends
<1>2. OpenInv
  BY DEF Init, OpenInv
<1> QED BY <1>1, <1>2 DEF TidyInv

\* The consumer sees the end of the sample that it is reading, and only after all of its
\* slices, whatever broke off before: with or without acknowledgements, for buffers of any
\* size and a consumer that leaves samples early.
THEOREM EndOfTheSample == Spec => []EndMeansWhole
<1>1. IInv /\ TidyInv /\ [Next]_vars => TidyInv'
  BY OpenNext, TidyNext DEF IInv, TidyInv
<1>2. IInv /\ TidyInv => EndMeansWhole
  <2> SUFFICES ASSUME IInv, TidyInv, cpc = "reading", down[ccur] # << >>,
                      Head(down[ccur]).kind = "foot"
               PROVE  Head(down[ccur]).n = cseq /\ Head(down[ccur]).i = ngot
    BY DEF EndMeansWhole
  <2>1. ccur \in Conns /\ down[ccur] \in Seq(Message)
    BY DEF IInv, TypeInv, HeldInv, Holding
  <2>2. Head(down[ccur]) = down[ccur][1]
    BY <2>1, TailWithin
  <2>3. Follows(Got, down[ccur][1])
    BY <2>1 DEF TidyInv, TidyOn, Reads
  <2> QED BY <2>2, <2>3 DEF Follows, Got
<1> QED BY <1>1, <1>2, InitInv, StepInv, TidyInit, PTL DEF Spec
=============================================================================
