--------------------------- MODULE AdapterProofs ---------------------------
(* Proofs about Adapter, for every set of callers and requests, every size  *)
(* of the ring and of the window: the type invariant; the collector sees    *)
(* the samples in order and at most once; no sample vanishes without a      *)
(* cause; and the path to the collector implements LossyFifo.               *)
EXTENDS Adapter, TLAPS

LEMMA SeqTail ==
    ASSUME NEW S, NEW s \in Seq(S), s # <<>>
    PROVE  /\ Tail(s) \in Seq(S) /\ Head(s) \in S /\ Head(s) = s[1]
           /\ Len(s) \in Nat /\ Len(s) > 0 /\ 1 \in 1..Len(s)
           /\ Len(Tail(s)) = Len(s) - 1
           /\ \A i \in 1..Len(Tail(s)) : i + 1 \in 1..Len(s) /\ Tail(s)[i] = s[i + 1]
  OBVIOUS

LEMMA SeqAppend ==
    ASSUME NEW S, NEW s \in Seq(S), NEW e \in S
    PROVE  /\ Append(s, e) \in Seq(S)
           /\ Len(s) \in Nat
           /\ Len(Append(s, e)) = Len(s) + 1
           /\ \A i \in 1..Len(s) : Append(s, e)[i] = s[i]
           /\ Append(s, e)[Len(s) + 1] = e
  OBVIOUS

LEMMA ElemsTail ==
    ASSUME NEW S, NEW s \in Seq(S), s # <<>>
    PROVE  Elems(s) = {Head(s)} \cup Elems(Tail(s))
  <1> DEFINE t == Tail(s)
  <1>1. /\ Head(s) = s[1] /\ Len(s) \in Nat /\ Len(s) > 0 /\ 1 \in 1..Len(s)
        /\ Len(t) = Len(s) - 1
        /\ \A i \in 1..Len(t) : i + 1 \in 1..Len(s) /\ t[i] = s[i + 1]
    BY SeqTail
  <1> HIDE DEF t
  <1>2. \A i \in 1..Len(s) : i = 1 \/ (i - 1 \in 1..Len(t) /\ t[i - 1] = s[i])
    BY <1>1
  <1>3. Elems(s) = {Head(s)} \cup Elems(t)
    BY <1>1, <1>2 DEF Elems
  <1> QED
    BY <1>3 DEF t

LEMMA ElemsAppend ==
    ASSUME NEW S, NEW s \in Seq(S), NEW e \in S
    PROVE  Elems(Append(s, e)) = Elems(s) \cup {e}
  <1> DEFINE t == Append(s, e)
  <1>1. /\ Len(s) \in Nat /\ Len(t) = Len(s) + 1
        /\ \A i \in 1..Len(s) : t[i] = s[i]
        /\ t[Len(s) + 1] = e
    BY SeqAppend
  <1> HIDE DEF t
  <1>2. 1..Len(t) = 1..Len(s) \cup {Len(s) + 1}
    BY <1>1
  <1>3. Elems(t) = Elems(s) \cup {e}
    BY <1>1, <1>2 DEF Elems
  <1> QED
    BY <1>3 DEF t

(* The part of the type invariant the order of samples rests on.            *)
Numbers ==
    /\ sent \in Nat /\ next \in Nat /\ next <= sent
    /\ subscribed \in BOOLEAN
    /\ subscribed <=> client = "calling"
    /\ inflight \in Seq(Nat) /\ delivered \in Seq(Nat)
    /\ client # "calling" => inflight = <<>>

(* The strengthening of InOrder: what is in transit is in order too, comes  *)
(* after everything delivered, and before everything still in the channel.  *)
Queued ==
    /\ \A i, j \in 1..Len(delivered) : i < j => delivered[i] < delivered[j]
    /\ \A i, j \in 1..Len(inflight) : i < j => inflight[i] < inflight[j]
    /\ \A i \in 1..Len(delivered), j \in 1..Len(inflight) : delivered[i] < inflight[j]
    /\ \A i \in 1..Len(delivered) : 0 < delivered[i] /\ delivered[i] <= next
    /\ \A i \in 1..Len(inflight) : 0 < inflight[i] /\ inflight[i] <= next

OrderInv == Numbers /\ Queued

LEMMA OrderInit == Init => OrderInv
  <1> SUFFICES ASSUME Init PROVE OrderInv
    OBVIOUS
  <1>1. inflight = <<>> /\ delivered = <<>> /\ Len(<<>>) = 0
    BY DEF Init
  <1>2. 1..Len(inflight) = {} /\ 1..Len(delivered) = {}
    BY <1>1
  <1>3. Queued
    BY <1>2 DEF Queued
  <1>4. inflight \in Seq(Nat) /\ delivered \in Seq(Nat)
    BY <1>1
  <1>5. /\ sent \in Nat /\ next \in Nat /\ next <= sent
        /\ subscribed = FALSE /\ client = "start"
    BY DEF Init
  <1>6. subscribed \in BOOLEAN /\ (subscribed <=> client = "calling")
    BY <1>5
  <1>7. Numbers
    BY <1>1, <1>4, <1>5, <1>6 DEF Numbers
  <1> QED
    BY <1>3, <1>7 DEF OrderInv

(* Taking a sample from the channel: it comes after all the others.         *)
LEMMA OrderPull == ASSUME OrderInv, Pull PROVE OrderInv'
  <1>1. /\ next \in Nat /\ next < sent /\ next' = next + 1 /\ sent' = sent /\ sent \in Nat
        /\ inflight' = Append(inflight, next + 1) /\ inflight \in Seq(Nat)
        /\ delivered' = delivered /\ client' = client /\ subscribed' = subscribed
        /\ subscribed
    BY DEF OrderInv, Numbers, Pull, histVars
  <1>2. /\ inflight' \in Seq(Nat) /\ Len(inflight) \in Nat
        /\ Len(inflight') = Len(inflight) + 1
        /\ \A i \in 1..Len(inflight) : inflight'[i] = inflight[i]
        /\ inflight'[Len(inflight) + 1] = next + 1
    BY <1>1, SeqAppend
  <1>3. \A i \in 1..Len(inflight') : i \in 1..Len(inflight) \/ i = Len(inflight) + 1
    BY <1>2
  <1>4. Numbers'
    BY <1>1, <1>2 DEF OrderInv, Numbers
  <1>5. \A i \in 1..Len(inflight) : inflight[i] \in Nat
    BY <1>1
  <1>6. \A i \in 1..Len(inflight') : 0 < inflight'[i] /\ inflight'[i] <= next'
    BY <1>1, <1>2, <1>3, <1>5 DEF OrderInv, Queued
  <1>7. \A i, j \in 1..Len(inflight') : i < j => inflight'[i] < inflight'[j]
    BY <1>1, <1>2, <1>3, <1>5 DEF OrderInv, Queued
  <1>8. \A i \in 1..Len(delivered) : delivered[i] \in Nat
    BY DEF OrderInv, Numbers
  <1>9. \A i \in 1..Len(delivered'), j \in 1..Len(inflight') : delivered'[i] < inflight'[j]
    BY <1>1, <1>2, <1>3, <1>5, <1>8 DEF OrderInv, Queued
  <1>10. \A i \in 1..Len(delivered') : 0 < delivered'[i] /\ delivered'[i] <= next'
    BY <1>1, <1>8 DEF OrderInv, Queued
  <1>11. \A i, j \in 1..Len(delivered') : i < j => delivered'[i] < delivered'[j]
    BY <1>1 DEF OrderInv, Queued
  <1>12. Queued'
    BY <1>6, <1>7, <1>9, <1>10, <1>11 DEF Queued
  <1> QED
    BY <1>4, <1>12 DEF OrderInv

(* A sample arrives: the oldest in transit moves behind those delivered.    *)
LEMMA OrderArrive == ASSUME OrderInv, Arrive PROVE OrderInv'
  <1>1. /\ inflight # <<>> /\ inflight \in Seq(Nat) /\ delivered \in Seq(Nat)
        /\ delivered' = Append(delivered, Head(inflight)) /\ inflight' = Tail(inflight)
        /\ UNCHANGED <<sent, next, subscribed, client>>
    BY DEF OrderInv, Numbers, Arrive, chanVars
  <1> DEFINE h == Head(inflight)
             t == Tail(inflight)
             d == Append(delivered, h)
  <1>2. /\ t \in Seq(Nat) /\ h \in Nat /\ h = inflight[1]
        /\ Len(inflight) \in Nat /\ Len(inflight) > 0 /\ 1 \in 1..Len(inflight)
        /\ Len(t) = Len(inflight) - 1
        /\ \A i \in 1..Len(t) : i + 1 \in 1..Len(inflight) /\ t[i] = inflight[i + 1]
    BY <1>1, SeqTail
  <1>3. /\ d \in Seq(Nat) /\ Len(delivered) \in Nat /\ Len(d) = Len(delivered) + 1
        /\ \A i \in 1..Len(delivered) : d[i] = delivered[i]
        /\ d[Len(delivered) + 1] = h
    BY <1>1, <1>2, SeqAppend
  <1>4. delivered' = d /\ inflight' = t
    BY <1>1
  <1> HIDE DEF h, t, d
  <1>5. \A i \in 1..Len(d) : i \in 1..Len(delivered) \/ i = Len(delivered) + 1
    BY <1>3
  <1>6. Numbers'
    <2>1. client = "calling"
      BY <1>1 DEF OrderInv, Numbers
    <2> QED
      BY <1>1, <1>2, <1>3, <1>4, <2>1 DEF OrderInv, Numbers
  <1>7. \A i \in 1..Len(delivered) : delivered[i] \in Nat
    BY <1>1
  <1>8. \A i \in 1..Len(inflight) : inflight[i] \in Nat
    BY <1>1
  <1>9. \A i, j \in 1..Len(d) : i < j => d[i] < d[j]
    <2> SUFFICES ASSUME NEW i \in 1..Len(d), NEW j \in 1..Len(d), i < j
                 PROVE  d[i] < d[j]
      OBVIOUS
    <2>1. i \in 1..Len(delivered) /\ d[i] = delivered[i]
      BY <1>3, <1>5
    <2>2. CASE j \in 1..Len(delivered)
      BY <1>3, <2>1, <2>2 DEF OrderInv, Queued
    <2>3. CASE j = Len(delivered) + 1
      BY <1>2, <1>3, <2>1, <2>3 DEF OrderInv, Queued
    <2> QED
      BY <1>5, <2>2, <2>3
  <1>10. \A i, j \in 1..Len(t) : i < j => t[i] < t[j]
    <2> SUFFICES ASSUME NEW i \in 1..Len(t), NEW j \in 1..Len(t), i < j
                 PROVE  t[i] < t[j]
      OBVIOUS
    <2>1. i + 1 \in 1..Len(inflight) /\ j + 1 \in 1..Len(inflight) /\ i + 1 < j + 1
      BY <1>2
    <2>2. inflight[i + 1] < inflight[j + 1]
      BY <2>1 DEF OrderInv, Queued
    <2> QED
      BY <1>2, <2>2
  <1>11. \A j \in 1..Len(t) : h < t[j]
    BY <1>2, <1>8 DEF OrderInv, Queued
  <1>12. \A i \in 1..Len(d), j \in 1..Len(t) : d[i] < t[j]
    BY <1>2, <1>3, <1>5, <1>11 DEF OrderInv, Queued
  <1>13. \A i \in 1..Len(d) : 0 < d[i] /\ d[i] <= next
    BY <1>2, <1>3, <1>5 DEF OrderInv, Queued
  <1>14. \A i \in 1..Len(t) : 0 < t[i] /\ t[i] <= next
    BY <1>2 DEF OrderInv, Queued
  <1>15. Queued'
    BY <1>1, <1>4, <1>9, <1>10, <1>12, <1>13, <1>14 DEF Queued
  <1> QED
    BY <1>6, <1>15 DEF OrderInv

(* Steps that leave the sequences alone, and do not move next backwards.    *)
LEMMA OrderKept ==
    ASSUME OrderInv, UNCHANGED <<inflight, delivered>>, Numbers', next <= next'
    PROVE  OrderInv'
  <1>1. next \in Nat /\ next' \in Nat
    BY DEF OrderInv, Numbers
  <1>2. /\ \A i \in 1..Len(delivered) : delivered[i] \in Nat
        /\ \A i \in 1..Len(inflight) : inflight[i] \in Nat
    BY DEF OrderInv, Numbers
  <1>3. Queued'
    BY <1>1, <1>2 DEF OrderInv, Queued
  <1> QED
    BY <1>3 DEF OrderInv

LEMMA OrderDrop ==
    ASSUME OrderInv, NEW to \in {"sleeping", "ended"}, DropCall(to)
    PROVE  OrderInv'
  <1>1. /\ inflight' = <<>> /\ client' = to /\ subscribed' = FALSE
        /\ UNCHANGED <<sent, next, delivered>>
    BY DEF DropCall
  <1>2. Len(inflight') = 0 /\ 1..Len(inflight') = {} /\ inflight' \in Seq(Nat)
    BY <1>1
  <1>3. Numbers'
    BY <1>1, <1>2 DEF OrderInv, Numbers
  <1>4. Queued'
    BY <1>1, <1>2 DEF OrderInv, Queued
  <1> QED
    BY <1>3, <1>4 DEF OrderInv

LEMMA OrderStep == OrderInv /\ [Next]_vars => OrderInv'
  <1> SUFFICES ASSUME OrderInv, [Next]_vars PROVE OrderInv'
    OBVIOUS
  <1>1. ASSUME UNCHANGED <<chanVars, clientVars, histVars>> PROVE OrderInv'
    BY <1>1 DEF OrderInv, Numbers, Queued, chanVars, clientVars, histVars
  <1>2. ASSUME NEW c \in Callers, NEW b \in Batches, Call(c, b) PROVE OrderInv'
    BY <1>1, <1>2 DEF Call
  <1>3. ASSUME NEW c \in Callers, Handle(c) PROVE OrderInv'
    <2>1. CASE Skip(c) \/ NoAddress(c) \/ SendPanics(c) \/ Reply(c)
      BY <1>1, <2>1 DEF Skip, NoAddress, SendPanics, Panic, Reply
    <2>2. CASE Send(c)
      <3>1. /\ UNCHANGED <<inflight, delivered, next, subscribed, client>>
            /\ sent' = sent + 1
        BY <2>2 DEF Send, clientVars, histVars
      <3>2. Numbers' /\ next <= next'
        BY <3>1 DEF OrderInv, Numbers
      <3> QED
        BY <3>1, <3>2, OrderKept
    <2> QED
      BY <1>3, <2>1, <2>2 DEF Handle
  <1>4. CASE Connect
    <2>1. /\ UNCHANGED <<inflight, delivered, sent>> /\ next' = sent
          /\ client' = "calling" /\ subscribed' = TRUE
      BY <1>4 DEF Connect, ChannelTail, histVars
    <2>2. Numbers' /\ next <= next'
      BY <2>1 DEF OrderInv, Numbers
    <2> QED
      BY <2>1, <2>2, OrderKept
  <1>5. CASE Lag
    <2>1. /\ UNCHANGED <<inflight, delivered, sent, subscribed, client>>
          /\ next' = sent - Ring /\ sent - next > Ring
      BY <1>5 DEF Lag, Lagging, clientVars
    <2>2. next \in Nat /\ sent \in Nat /\ Ring \in Nat
      BY AdapterAssumption DEF OrderInv, Numbers
    <2>3. next' \in Nat /\ next <= next' /\ next' <= sent'
      BY <2>1, <2>2
    <2>4. Numbers'
      BY <2>1, <2>3 DEF OrderInv, Numbers
    <2> QED
      BY <2>1, <2>3, <2>4, OrderKept
  <1>6. CASE CallFails \/ CallReturns \/ Notice
    BY <1>6, OrderDrop DEF CallFails, CallReturns, Notice
  <1>7. CASE Shutdown
    BY <1>1, <1>7 DEF Shutdown
  <1>8. CASE UNCHANGED vars
    BY <1>1, <1>8 DEF vars
  <1> QED
    BY <1>2, <1>3, <1>4, <1>5, <1>6, <1>7, <1>8, OrderPull, OrderArrive DEF Next

(* The collector sees the samples in the order they were sent, none twice,  *)
(* through any number of lags and reconnections.                            *)
THEOREM OrderCorrect == Spec => []InOrder
  <1>1. OrderInv => InOrder
    BY DEF OrderInv, Queued, InOrder
  <1> QED
    BY <1>1, OrderInit, OrderStep, PTL DEF Spec

(* Where samples are: those delivered, in transit and unread are apart.      *)
LEMMA Places ==
    ASSUME OrderInv
    PROVE  /\ Elems(delivered) \subseteq 1..next /\ Elems(inflight) \subseteq 1..next
           /\ Elems(delivered) \cap Elems(inflight) = {}
           /\ Unread \subseteq (next + 1)..sent
           /\ Unread \cap (Elems(delivered) \cup Elems(inflight)) = {}
           /\ 1..next \subseteq 1..sent
  <1>0. sent \in Nat /\ next \in Nat /\ next <= sent
    BY DEF OrderInv, Numbers
  <1>1. /\ \A i \in 1..Len(delivered) : delivered[i] \in Nat
        /\ \A i \in 1..Len(inflight) : inflight[i] \in Nat
    BY DEF OrderInv, Numbers
  <1>2. Elems(delivered) \subseteq 1..next /\ Elems(inflight) \subseteq 1..next
    BY <1>0, <1>1 DEF OrderInv, Queued, Elems
  <1>3. Elems(delivered) \cap Elems(inflight) = {}
    BY <1>0, <1>1 DEF OrderInv, Queued, Elems
  <1>4. Unread \subseteq (next + 1)..sent
    BY DEF Unread
  <1>5. (1..next) \cap ((next + 1)..sent) = {} /\ 1..next \subseteq 1..sent
    BY <1>0
  <1> QED
    BY <1>2, <1>3, <1>4, <1>5

(* A lost sample is nowhere on the path.                                    *)
Lost == lagLost \cup callLost

Apart ==
    /\ lagLost \subseteq 1..sent /\ callLost \subseteq 1..sent
    /\ Lost \cap (Elems(delivered) \cup Elems(inflight) \cup Unread) = {}

LEMMA ApartKept ==
    ASSUME Apart, UNCHANGED <<lagLost, callLost, sent>>,
           Elems(delivered)' \cup Elems(inflight)' \cup Unread'
               \subseteq Elems(delivered) \cup Elems(inflight) \cup Unread
    PROVE  Apart'
  BY DEF Apart, Lost

LEMMA ApartStep == OrderInv /\ Apart /\ [Next]_vars => Apart'
  <1> SUFFICES ASSUME OrderInv, Apart, [Next]_vars PROVE Apart'
    OBVIOUS
  <1>0. /\ sent \in Nat /\ next \in Nat /\ next <= sent
        /\ inflight \in Seq(Nat) /\ delivered \in Seq(Nat)
    BY DEF OrderInv, Numbers
  <1>1. ASSUME UNCHANGED <<chanVars, clientVars, histVars>> PROVE Apart'
    BY <1>1 DEF Apart, Lost, Elems, Unread, chanVars, clientVars, histVars
  <1>2. ASSUME NEW c \in Callers, Send(c) PROVE Apart'
    <2>1. /\ subscribed /\ subscribed' = subscribed /\ sent' = sent + 1
          /\ UNCHANGED <<next, inflight, delivered, lagLost, callLost>>
      BY <1>2 DEF Send, clientVars, histVars
    <2>2. Unread' = Unread \cup {sent + 1} /\ 1..sent \subseteq 1..sent' /\ sent + 1 \notin 1..sent
      BY <1>0, <2>1 DEF Unread
    <2>3. Elems(inflight)' = Elems(inflight) /\ Elems(delivered)' = Elems(delivered)
      BY <2>1
    <2>4. Lost' = Lost /\ sent + 1 \notin Lost
      BY <2>1, <2>2 DEF Lost, Apart
    <2> QED
      BY <2>1, <2>2, <2>3, <2>4 DEF Apart
  <1>3. CASE Connect
    <2>1. UNCHANGED <<sent, inflight, delivered, lagLost, callLost>> /\ next' = sent
      BY <1>3 DEF Connect, ChannelTail, histVars
    <2>2. Unread' = {}
      BY <1>0, <2>1 DEF Unread
    <2>3. Elems(inflight)' = Elems(inflight) /\ Elems(delivered)' = Elems(delivered)
      BY <2>1
    <2> QED
      BY <2>1, <2>2, <2>3, ApartKept
  <1>4. CASE Lag
    <2>1. /\ UNCHANGED <<sent, inflight, delivered, callLost>>
          /\ subscribed /\ subscribed' = subscribed /\ next' = sent - Ring /\ sent - next > Ring
          /\ lagLost' = lagLost \cup (next + 1)..(sent - Ring)
      BY <1>4 DEF Lag, Lagging, clientVars
    <2> DEFINE S == (next + 1)..(sent - Ring)
    <2>2. S \subseteq Unread /\ S \cap Unread' = {} /\ Unread' \subseteq Unread /\ S \subseteq 1..sent
      BY <1>0, <2>1, AdapterAssumption DEF Unread
    <2>3. Elems(inflight)' = Elems(inflight) /\ Elems(delivered)' = Elems(delivered)
      BY <2>1
    <2>4. Lost' = Lost \cup S
      BY <2>1 DEF Lost
    <2> HIDE DEF S
    <2>5. S \cap (Elems(delivered) \cup Elems(inflight)) = {}
      BY <2>2, Places
    <2>6. lagLost' \subseteq 1..sent' /\ callLost' \subseteq 1..sent'
      BY <2>1, <2>2 DEF Apart, S
    <2> QED
      BY <2>2, <2>3, <2>4, <2>5, <2>6 DEF Apart
  <1>5. CASE Pull
    <2>1. /\ UNCHANGED <<sent, delivered, lagLost, callLost>>
          /\ subscribed /\ subscribed' = subscribed /\ next' = next + 1 /\ next < sent
          /\ inflight' = Append(inflight, next + 1)
      BY <1>5 DEF Pull, histVars
    <2>2. Elems(inflight)' = Elems(inflight) \cup {next + 1}
      BY <1>0, <2>1, ElemsAppend
    <2>3. Unread = Unread' \cup {next + 1}
      BY <1>0, <2>1 DEF Unread
    <2>4. Elems(delivered)' = Elems(delivered)
      BY <2>1
    <2> QED
      BY <2>1, <2>2, <2>3, <2>4, ApartKept
  <1>6. CASE Arrive
    <2>1. /\ UNCHANGED <<sent, next, subscribed, lagLost, callLost>>
          /\ inflight # <<>> /\ inflight' = Tail(inflight)
          /\ delivered' = Append(delivered, Head(inflight))
      BY <1>6 DEF Arrive, chanVars
    <2>2. Elems(inflight) = {Head(inflight)} \cup Elems(inflight)'
      BY <1>0, <2>1, ElemsTail
    <2>3. Elems(delivered)' = Elems(delivered) \cup {Head(inflight)}
      BY <1>0, <2>1, ElemsAppend, SeqTail
    <2>4. Unread' = Unread
      BY <2>1 DEF Unread
    <2> QED
      BY <2>1, <2>2, <2>3, <2>4, ApartKept
  <1>7. ASSUME NEW to, DropCall(to) PROVE Apart'
    <2>1. /\ UNCHANGED <<sent, next, delivered, lagLost>>
          /\ inflight' = <<>> /\ subscribed' = FALSE
          /\ callLost' = callLost \cup Elems(inflight) \cup Unread
      BY <1>7 DEF DropCall
    <2>2. Elems(delivered)' = Elems(delivered) /\ Elems(inflight)' = {} /\ Unread' = {}
      BY <2>1 DEF Elems, Unread
    <2>3. Lost' = Lost \cup Elems(inflight) \cup Unread
      BY <2>1 DEF Lost
    <2>4. Elems(inflight) \subseteq 1..sent /\ Unread \subseteq 1..sent
      <3>1. (next + 1)..sent \subseteq 1..sent
        BY <1>0
      <3> QED
        BY <3>1, Places
    <2>5. lagLost' \subseteq 1..sent' /\ callLost' \subseteq 1..sent'
      BY <2>1, <2>4 DEF Apart
    <2> QED
      BY <2>2, <2>3, <2>5, Places DEF Apart
  <1>8. ASSUME NEW c \in Callers,
               (\E b \in Batches : Call(c, b)) \/ Skip(c) \/ NoAddress(c) \/ SendPanics(c) \/ Reply(c)
        PROVE  Apart'
    BY <1>1, <1>8 DEF Call, Skip, NoAddress, SendPanics, Panic, Reply
  <1>9. CASE Shutdown \/ UNCHANGED vars
    BY <1>1, <1>9 DEF Shutdown, vars
  <1> QED
    BY <1>2, <1>3, <1>4, <1>5, <1>6, <1>7, <1>8, <1>9
       DEF Next, Handle, CallFails, CallReturns, Notice

LEMMA ApartInit == Init => Apart
  BY DEF Init, Apart, Lost

(* What is in transit or unread may still arrive, or get lost.              *)
LEMMA StillUnderway ==
    ASSUME OrderInv, Apart
    PROVE  Elems(inflight) \cup Unread \subseteq Fifo!Underway
  <1>1. (next + 1)..sent \subseteq 1..sent
    BY DEF OrderInv, Numbers
  <1>2. Elems(inflight) \cup Unread \subseteq 1..sent
    BY <1>1, Places
  <1>3. \A x \in Elems(inflight) \cup Unread : x \notin Elems(delivered) /\ x \notin Lost
    BY Places DEF Apart
  <1>4. \A i \in 1..Len(delivered) : delivered[i] \in Elems(delivered)
    BY DEF Elems
  <1> QED
    BY <1>2, <1>3, <1>4 DEF Fifo!Underway, Lost

(* Every step of the adapter is a step of the abstract queue, or none.      *)
LEMMA FifoStep ==
    OrderInv /\ Apart /\ [Next]_vars => [Fifo!Next]_<<sent, delivered, lagLost \cup callLost>>
  <1> SUFFICES ASSUME OrderInv, Apart, [Next]_vars
               PROVE  [Fifo!Next]_<<sent, delivered, lagLost \cup callLost>>
    OBVIOUS
  <1>1. CASE Arrive
    <2> DEFINE h == Head(inflight)
    <2>1. /\ inflight # <<>> /\ delivered' = Append(delivered, h)
          /\ UNCHANGED <<sent, lagLost, callLost>>
      BY <1>1 DEF Arrive, chanVars
    <2>2. h = inflight[1] /\ h \in Nat /\ 1 \in 1..Len(inflight)
      BY <2>1, SeqTail DEF OrderInv, Numbers
    <2> HIDE DEF h
    <2>3. h \in Fifo!Underway
      BY <2>2, StillUnderway DEF Elems
    <2>4. \A i \in 1..Len(delivered) : delivered[i] < h
      BY <2>2 DEF OrderInv, Queued
    <2>5. Fifo!Receive(h)
      BY <2>1, <2>4 DEF Fifo!Receive
    <2> QED
      BY <2>3, <2>5 DEF Fifo!Next
  <1>2. ASSUME NEW S, S \subseteq Elems(inflight) \cup Unread,
               UNCHANGED <<sent, delivered>>, Lost' = Lost \cup S
        PROVE  Fifo!Next
    <2>1. S \in SUBSET Fifo!Underway
      BY <1>2, StillUnderway
    <2>2. Fifo!Lose(S)
      BY <1>2 DEF Fifo!Lose, Lost
    <2> QED
      BY <2>1, <2>2 DEF Fifo!Next
  <1>3. CASE Lag
    <2> DEFINE S == (next + 1)..(sent - Ring)
    <2>1. UNCHANGED <<sent, delivered>> /\ Lost' = Lost \cup S /\ subscribed
      BY <1>3 DEF Lag, Lost
    <2>2. S \subseteq Unread
      BY <2>1, AdapterAssumption DEF Unread, OrderInv, Numbers
    <2> HIDE DEF S
    <2> QED
      BY <1>2, <2>1, <2>2
  <1>4. ASSUME NEW to, DropCall(to) PROVE Fifo!Next
    <2>1. UNCHANGED <<sent, delivered>> /\ Lost' = Lost \cup (Elems(inflight) \cup Unread)
      BY <1>4 DEF DropCall, Lost
    <2> QED
      BY <1>2, <2>1
  <1>5. ASSUME NEW c \in Callers, Send(c) PROVE Fifo!Send
    BY <1>5 DEF Send, histVars, Fifo!Send
  <1>6. ASSUME NEW c \in Callers, Handle(c), ~Send(c)
        PROVE  UNCHANGED <<sent, delivered, lagLost, callLost>>
    BY <1>6 DEF Handle, Skip, NoAddress, SendPanics, Panic, Reply, chanVars, histVars
  <1>7. ASSUME NEW c \in Callers, NEW b \in Batches, Call(c, b)
        PROVE  UNCHANGED <<sent, delivered, lagLost, callLost>>
    BY <1>7 DEF Call, chanVars, histVars
  <1>8. CASE Connect \/ Pull \/ Shutdown \/ UNCHANGED vars
    BY <1>8 DEF Connect, Pull, Shutdown, vars, chanVars, histVars
  <1> QED
    BY <1>1, <1>3, <1>4, <1>5, <1>6, <1>7, <1>8
       DEF Next, CallFails, CallReturns, Notice, Fifo!Next

(* The adapter implements the lossy FIFO.                                   *)
THEOREM FifoCorrect == Spec => ImplementsFifo
  <1>1. Init => Fifo!Init
    BY DEF Init, Fifo!Init
  <1> QED
    BY <1>1, OrderInit, OrderStep, ApartInit, ApartStep, FifoStep, PTL
       DEF Spec, ImplementsFifo, Fifo!Spec

(* Conservation: what the channel accepted is somewhere.                    *)
LEMMA VanishStep == OrderInv /\ NothingVanishes /\ [Next]_vars => NothingVanishes'
  <1> SUFFICES ASSUME OrderInv, NothingVanishes, [Next]_vars PROVE NothingVanishes'
    OBVIOUS
  <1>0. /\ sent \in Nat /\ next \in Nat /\ next <= sent
        /\ inflight \in Seq(Nat) /\ delivered \in Seq(Nat)
    BY DEF OrderInv, Numbers
  <1>1. ASSUME UNCHANGED <<chanVars, clientVars, histVars>> PROVE NothingVanishes'
    BY <1>1 DEF NothingVanishes, Elems, Unread, chanVars, clientVars, histVars
  <1>2. ASSUME NEW c \in Callers, Send(c) PROVE NothingVanishes'
    <2>1. /\ subscribed /\ subscribed' = subscribed /\ sent' = sent + 1
          /\ UNCHANGED <<next, inflight, delivered, lagLost, callLost>>
      BY <1>2 DEF Send, clientVars, histVars
    <2>2. Unread' = Unread \cup {sent + 1} /\ 1..sent' = 1..sent \cup {sent + 1}
      BY <1>0, <2>1 DEF Unread
    <2>3. Elems(inflight') = Elems(inflight) /\ Elems(delivered') = Elems(delivered)
      BY <2>1
    <2> QED
      BY <2>1, <2>2, <2>3 DEF NothingVanishes, Elems
  <1>3. CASE Connect
    <2>1. /\ UNCHANGED <<sent, inflight, delivered, lagLost, callLost>>
          /\ ~subscribed
      BY <1>3 DEF Connect, histVars, OrderInv, Numbers
    <2>2. Unread = {}
      BY <2>1 DEF Unread
    <2> QED
      BY <2>1, <2>2 DEF NothingVanishes, Elems
  <1>4. CASE Lag
    <2>1. /\ UNCHANGED <<sent, inflight, delivered, callLost>>
          /\ subscribed /\ subscribed' = subscribed /\ next' = sent - Ring
          /\ lagLost' = lagLost \cup (next + 1)..(sent - Ring)
      BY <1>4 DEF Lag, clientVars
    <2>2. Unread \subseteq Unread' \cup (next + 1)..(sent - Ring)
      BY <1>0, <2>1, AdapterAssumption DEF Unread
    <2> QED
      BY <2>1, <2>2 DEF NothingVanishes, Elems
  <1>5. CASE Pull
    <2>1. /\ UNCHANGED <<sent, delivered, lagLost, callLost>>
          /\ subscribed /\ subscribed' = subscribed /\ next' = next + 1 /\ next < sent
          /\ inflight' = Append(inflight, next + 1)
      BY <1>5 DEF Pull, histVars
    <2>2. Elems(inflight') = Elems(inflight) \cup {next + 1}
      BY <1>0, <2>1, ElemsAppend
    <2>3. Unread = Unread' \cup {next + 1}
      BY <1>0, <2>1 DEF Unread
    <2>4. Elems(delivered') = Elems(delivered)
      BY <2>1
    <2>5. NothingVanishes' = (1..sent \subseteq Elems(delivered) \cup Elems(inflight')
                               \cup Unread' \cup lagLost \cup callLost)
      BY <2>1 DEF NothingVanishes, Elems
    <2> QED
      BY <2>2, <2>3, <2>5 DEF NothingVanishes
  <1>6. CASE Arrive
    <2>1. /\ UNCHANGED <<sent, next, subscribed, lagLost, callLost>>
          /\ inflight # <<>> /\ inflight' = Tail(inflight)
          /\ delivered' = Append(delivered, Head(inflight))
      BY <1>6 DEF Arrive, chanVars
    <2>2. Elems(inflight) = {Head(inflight)} \cup Elems(Tail(inflight))
      BY <1>0, <2>1, ElemsTail
    <2>3. Elems(Append(delivered, Head(inflight))) = Elems(delivered) \cup {Head(inflight)}
      BY <1>0, <2>1, ElemsAppend, SeqTail
    <2>4. Unread' = Unread
      BY <2>1 DEF Unread
    <2>5. NothingVanishes' = (1..sent \subseteq Elems(Append(delivered, Head(inflight)))
                               \cup Elems(Tail(inflight)) \cup Unread \cup lagLost \cup callLost)
      BY <2>1, <2>4 DEF NothingVanishes, Elems
    <2> QED
      BY <2>2, <2>3, <2>5 DEF NothingVanishes
  <1>7. ASSUME NEW to, DropCall(to) PROVE NothingVanishes'
    <2>1. /\ UNCHANGED <<sent, delivered, lagLost>>
          /\ callLost' = callLost \cup Elems(inflight) \cup Unread
      BY <1>7 DEF DropCall
    <2>2. Elems(delivered') = Elems(delivered)
      BY <2>1
    <2> QED
      BY <2>1, <2>2 DEF NothingVanishes, Elems
  <1>8. ASSUME NEW c \in Callers,
               (\E b \in Batches : Call(c, b)) \/ Skip(c) \/ NoAddress(c) \/ SendPanics(c) \/ Reply(c)
        PROVE  NothingVanishes'
    BY <1>1, <1>8 DEF Call, Skip, NoAddress, SendPanics, Panic, Reply
  <1>9. CASE Shutdown \/ UNCHANGED vars
    BY <1>1, <1>9 DEF Shutdown, vars
  <1> QED
    BY <1>2, <1>3, <1>4, <1>5, <1>6, <1>7, <1>8, <1>9
       DEF Next, Handle, CallFails, CallReturns, Notice

(* No sample is lost except to the ring's capacity or to the end of a call. *)
THEOREM VanishCorrect == Spec => []NothingVanishes
  <1>1. Init => NothingVanishes
    BY DEF Init, NothingVanishes
  <1> QED
    BY <1>1, OrderInit, OrderStep, VanishStep, PTL DEF Spec
(* What TypeOK adds to OrderInv and Apart.                                   *)
Shape ==
    /\ calls \in 0..MaxCalls
    /\ rest \in [Callers -> Seq(Entries)]
    /\ result \in [Callers -> {"none", "open", "ok", "badAddress", "noReceiver"}]
    /\ client \in {"start", "calling", "sleeping", "ended"}
    /\ Len(inflight) <= Window
    /\ told \in BOOLEAN

LEMMA ShapeStep == OrderInv /\ Shape /\ [Next]_vars => Shape'
  <1> SUFFICES ASSUME OrderInv, Shape, [Next]_vars PROVE Shape'
    OBVIOUS
  <1>0. inflight \in Seq(Nat) /\ MaxCalls \in Nat /\ Window \in Nat
    BY AdapterAssumption DEF OrderInv, Numbers
  <1>1. ASSUME NEW c \in Callers, NEW b \in Batches, Call(c, b) PROVE Shape'
    <2>1. b \in Seq(Entries) /\ calls' \in 0..MaxCalls
      BY <1>0, <1>1, AdapterAssumption DEF Call, Shape
    <2>2. Len(inflight)' <= Window
      BY <1>1 DEF Call, clientVars, Shape
    <2> QED
      BY <1>1, <2>1, <2>2 DEF Call, Shape, clientVars
  <1>2. ASSUME NEW c \in Callers, rest[c] # <<>>,
               rest' = [rest EXCEPT ![c] = Tail(@)], UNCHANGED <<calls, result, clientVars, told>>
        PROVE  Shape'
    <2>1. rest[c] \in Seq(Entries)
      BY DEF Shape
    <2>2. Tail(rest[c]) \in Seq(Entries)
      BY <1>2, <2>1, SeqTail
    <2>3. rest' \in [Callers -> Seq(Entries)]
      BY <1>2, <2>2 DEF Shape
    <2> QED
      BY <1>2, <2>3 DEF Shape, clientVars
  <1>3. ASSUME NEW c \in Callers, Skip(c) \/ Send(c) PROVE Shape'
    BY <1>2, <1>3 DEF Skip, Send, Facing
  <1>4. ASSUME NEW c \in Callers, NEW w \in {"badAddress", "noReceiver"}, Panic(c, w)
        PROVE  Shape'
    <2>1. <<>> \in Seq(Entries)
      OBVIOUS
    <2>2. rest' \in [Callers -> Seq(Entries)]
      BY <1>4, <2>1 DEF Panic, Shape
    <2> QED
      BY <1>4, <2>2 DEF Panic, Shape, clientVars
  <1>5. ASSUME NEW c \in Callers, Reply(c) PROVE Shape'
    BY <1>5 DEF Reply, Shape, clientVars
  <1>6. ASSUME NEW c \in Callers, Handle(c) PROVE Shape'
    BY <1>3, <1>4, <1>5, <1>6 DEF Handle, NoAddress, SendPanics
  <1>7. CASE Connect
    BY <1>7 DEF Connect, Shape, callVars
  <1>8. CASE Lag
    BY <1>8 DEF Lag, Shape, callVars, clientVars
  <1>9. CASE Pull
    <2>1. next + 1 \in Nat
      BY DEF OrderInv, Numbers
    <2>2. Len(Append(inflight, next + 1)) = Len(inflight) + 1 /\ Len(inflight) \in Nat
      BY <1>0, <2>1, SeqAppend
    <2>3. Len(inflight)' <= Window
      BY <1>0, <1>9, <2>2 DEF Pull
    <2> QED
      BY <1>9, <2>3 DEF Pull, Shape, callVars
  <1>10. CASE Arrive
    <2>1. Len(inflight)' <= Window
      BY <1>0, <1>10, SeqTail DEF Arrive, Shape
    <2> QED
      BY <1>10, <2>1 DEF Arrive, Shape, callVars
  <1>11. ASSUME NEW to \in {"sleeping", "ended"}, DropCall(to) PROVE Shape'
    BY <1>0, <1>11 DEF DropCall, Shape, callVars
  <1>12. CASE Shutdown \/ UNCHANGED vars
    BY <1>12 DEF Shutdown, Shape, vars, callVars, clientVars
  <1> QED
    BY <1>1, <1>6, <1>7, <1>8, <1>9, <1>10, <1>11, <1>12
       DEF Next, CallFails, CallReturns, Notice

LEMMA ShapeInit == Init => Shape
  <1> SUFFICES ASSUME Init PROVE Shape
    OBVIOUS
  <1>1. <<>> \in Seq(Entries) /\ Len(<<>>) = 0 /\ MaxCalls \in Nat /\ Window \in Nat
    BY AdapterAssumption
  <1>2. /\ rest \in [Callers -> Seq(Entries)]
        /\ result \in [Callers -> {"none", "open", "ok", "badAddress", "noReceiver"}]
    BY <1>1 DEF Init
  <1>3. calls \in 0..MaxCalls /\ Len(inflight) <= Window
    BY <1>1 DEF Init
  <1>4. client \in {"start", "calling", "sleeping", "ended"} /\ told \in BOOLEAN
    BY DEF Init
  <1> QED
    BY <1>2, <1>3, <1>4 DEF Shape

LEMMA SeqNarrow ==
    ASSUME NEW n \in Nat, NEW s \in Seq(Nat), \A i \in 1..Len(s) : 0 < s[i] /\ s[i] <= n
    PROVE  s \in Seq(1..n)
  <1>1. /\ Len(s) \in Nat /\ s = [i \in 1..Len(s) |-> s[i]]
        /\ \A i \in 1..Len(s) : s[i] \in Nat
    OBVIOUS
  <1>2. \A i \in 1..Len(s) : s[i] \in 1..n
    BY <1>1
  <1> QED
    BY <1>1, <1>2

(* The type invariant, for any callers, requests, ring and window.          *)
THEOREM TypeCorrect == Spec => []TypeOK
  <1>1. OrderInv /\ Apart /\ Shape => TypeOK
    <2> SUFFICES ASSUME OrderInv, Apart, Shape PROVE TypeOK
      OBVIOUS
    <2>1. /\ sent \in Nat /\ next \in 0..sent /\ subscribed \in BOOLEAN
          /\ subscribed = (client = "calling")
          /\ inflight \in Seq(Nat) /\ delivered \in Seq(Nat)
      BY DEF OrderInv, Numbers
    <2>2. /\ \A i \in 1..Len(inflight) : 0 < inflight[i] /\ inflight[i] <= sent
          /\ \A i \in 1..Len(delivered) : 0 < delivered[i] /\ delivered[i] <= sent
      <3>1. /\ \A i \in 1..Len(inflight) : inflight[i] \in Nat
            /\ \A i \in 1..Len(delivered) : delivered[i] \in Nat
        BY <2>1
      <3> QED
        BY <2>1, <3>1 DEF OrderInv, Queued
    <2>3. inflight \in Seq(1..sent) /\ delivered \in Seq(1..sent)
      BY <2>1, <2>2, SeqNarrow
    <2> QED
      BY <2>1, <2>3 DEF TypeOK, Apart, Shape
  <1> QED
    BY <1>1, OrderInit, OrderStep, ApartInit, ApartStep, ShapeInit, ShapeStep, PTL DEF Spec
=============================================================================
