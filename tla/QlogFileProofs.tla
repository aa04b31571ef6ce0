--------------------------- MODULE QlogFileProofs ---------------------------
(* Proofs about QlogFile, for every set of tuples and addresses and any     *)
(* number of events: the type invariant, and that every sample carries the  *)
(* addresses the file gives its tuple.                                      *)
EXTENDS QlogFile, TLAPS

LEMMA SeqAppend ==
    ASSUME NEW S, NEW s \in Seq(S), NEW e \in S
    PROVE  /\ Append(s, e) \in Seq(S)
           /\ Len(s) \in Nat
           /\ Len(Append(s, e)) = Len(s) + 1
           /\ \A i \in 1..Len(s) : Append(s, e)[i] = s[i]
           /\ Append(s, e)[Len(s) + 1] = e
  OBVIOUS

LEMMA EventType ==
    ASSUME NEW e \in Events
    PROVE  /\ e.tuple \in Tuples /\ e.src \in MaybeIp /\ e.dst \in MaybeIp
           /\ e.kind \in {"assigned", "authority", "metrics", "noRtt"}
  BY DEF Events, Assigned, Authority, Updated, MaybeIp

LEMMA OrType ==
    ASSUME NEW ip \in MaybeIp, NEW own \in MaybeIp
    PROVE  Or(ip, own) \in MaybeIp
  BY DEF Or

-----------------------------------------------------------------------------
(* Type correctness.                                                        *)

LEMMA TypeInit == Init => TypeOK
  BY QlogFileAssumption DEF Init, TypeOK, MaybeIp

LEMMA TypeHandle ==
    ASSUME TypeOK, NEW e \in Events, Handle(e)
    PROVE  TypeOK'
  <1>1. seen' \in Seq(Events) /\ Len(seen') = Len(seen) + 1 /\ Len(seen') <= MaxEvents /\ Len(seen) \in Nat
    BY SeqAppend, QlogFileAssumption DEF TypeOK, Handle
  <1>2. src' \in MaybeIp /\ dst' \in MaybeIp
    BY DEF TypeOK, Handle
  <1>3. srcOf' \in [Tuples -> MaybeIp] /\ dstOf' \in [Tuples -> MaybeIp]
    BY EventType, OrType DEF TypeOK, Handle, Assign, Authorize, Measure
  <1>4. out' \subseteq {Sample(i, s, d) : i \in 1..Len(seen'), s \in Ips, d \in Ips}
    <2>1. out \subseteq {Sample(i, s, d) : i \in 1..Len(seen'), s \in Ips, d \in Ips}
      <3>1. 1..Len(seen) \subseteq 1..Len(seen')
        BY <1>1
      <3> QED
        BY <3>1 DEF TypeOK
    <2>2. CASE out' = out
      BY <2>1, <2>2
    <2>3. CASE out' # out
      <3>1. /\ Measure(e) /\ Reported(e.tuple)
            /\ out' = out \cup {Sample(Len(seen) + 1, srcOf[e.tuple], dstOf[e.tuple])}
        BY <2>3 DEF Handle, Assign, Authorize, Measure
      <3>2. srcOf[e.tuple] \in Ips /\ dstOf[e.tuple] \in Ips
        BY <3>1, EventType DEF TypeOK, Reported, MaybeIp
      <3>3. Len(seen) + 1 \in 1..Len(seen')
        BY <1>1
      <3> QED
        BY <2>1, <3>1, <3>2, <3>3
    <2> QED
      BY <2>2, <2>3
  <1> QED
    BY <1>1, <1>2, <1>3, <1>4 DEF TypeOK

LEMMA TypeStep == TypeOK /\ [Next]_vars => TypeOK'
  <1> SUFFICES ASSUME TypeOK, [Next]_vars PROVE TypeOK'
    OBVIOUS
  <1>1. CASE UNCHANGED vars
    BY <1>1 DEF TypeOK, vars
  <1> QED
    BY <1>1, TypeHandle DEF Next

(* The type invariant: only reported addresses get into samples.            *)
THEOREM TypeCorrect == Spec => []TypeOK
  BY TypeInit, TypeStep, PTL DEF Spec

-----------------------------------------------------------------------------
(* The events that settle an address.                                       *)

LEMMA SettlingAppend ==
    ASSUME NEW s \in Seq(Events), NEW e \in Events, NEW t, NEW kinds, NEW j \in 1..Len(s)
    PROVE  Settling(Append(s, e), j, t, kinds) <=> Settling(s, j, t, kinds)
  BY SeqAppend DEF Settling

\* What comes later does not change what is settled.
LEMMA SettlesPrefix ==
    ASSUME NEW s \in Seq(Events), NEW e \in Events, NEW t, NEW kinds, NEW n \in 0..Len(s)
    PROVE  /\ Unsettled(Append(s, e), n, t, kinds) <=> Unsettled(s, n, t, kinds)
           /\ \A j \in 1..n : Settles(Append(s, e), n, j, t, kinds) <=> Settles(s, n, j, t, kinds)
           /\ \A j \in 1..n : Append(s, e)[j] = s[j]
  <1>1. \A j \in 1..n : j \in 1..Len(s)
    BY SeqAppend
  <1>2. \A j \in 1..n : Settling(Append(s, e), j, t, kinds) <=> Settling(s, j, t, kinds)
    BY <1>1, SettlingAppend
  <1>3. \A j \in 1..n : \A k \in (j + 1)..n : k \in 1..n
    BY SeqAppend
  <1>4. \A j \in 1..n : Append(s, e)[j] = s[j]
    BY <1>1, SeqAppend
  <1> QED
    BY <1>2, <1>3, <1>4 DEF Unsettled, Settles

\* An event that settles nothing leaves everything as it was.
LEMMA SettlesPast ==
    ASSUME NEW s \in Seq(Events), NEW e \in Events, NEW t, NEW kinds,
           ~(e.tuple = t /\ e.kind \in kinds)
    PROVE  /\ Unsettled(s, Len(s), t, kinds) => Unsettled(Append(s, e), Len(s) + 1, t, kinds)
           /\ \A j \in 1..Len(s) : Settles(s, Len(s), j, t, kinds)
                                     => Settles(Append(s, e), Len(s) + 1, j, t, kinds)
  <1> DEFINE q == Append(s, e)
             n == Len(s)
  <1>1. n \in Nat /\ q[n + 1] = e
    BY SeqAppend
  <1>2. ~Settling(q, n + 1, t, kinds)
    BY <1>1 DEF Settling
  <1>3. \A j \in 1..n : Settling(q, j, t, kinds) <=> Settling(s, j, t, kinds)
    BY SettlingAppend
  <1> HIDE DEF q, n
  <1>4. \A k \in 1..(n + 1) : k \in 1..n \/ k = n + 1
    BY <1>1
  <1>5. \A j \in 1..n : \A k \in (j + 1)..(n + 1) : k = n + 1 \/ (k \in 1..n /\ k \in (j + 1)..n)
    BY <1>1
  <1>6. \A j \in 1..n : j \in 1..(n + 1)
    BY <1>1
  <1>7. Unsettled(s, n, t, kinds) => Unsettled(q, n + 1, t, kinds)
    BY <1>2, <1>3, <1>4 DEF Unsettled
  <1>8. ASSUME NEW j \in 1..n, Settles(s, n, j, t, kinds)
        PROVE  Settles(q, n + 1, j, t, kinds)
    BY <1>2, <1>3, <1>5, <1>6, <1>8 DEF Settles
  <1> QED
    BY <1>7, <1>8 DEF q, n

\* An event that settles is the one that counts.
LEMMA SettlesNow ==
    ASSUME NEW s \in Seq(Events), NEW e \in Events, NEW t, NEW kinds,
           e.tuple = t, e.kind \in kinds
    PROVE  Settles(Append(s, e), Len(s) + 1, Len(s) + 1, t, kinds)
  BY SeqAppend DEF Settles, Settling

\* There is one event that counts, or none.
LEMMA SettlesOnce ==
    ASSUME NEW s \in Seq(Events), NEW t, NEW kinds, NEW n \in 0..Len(s),
           NEW i \in 1..n, Settles(s, n, i, t, kinds)
    PROVE  /\ ~Unsettled(s, n, t, kinds)
           /\ \A j \in 1..n : Settles(s, n, j, t, kinds) => i = j
  <1>1. n \in Nat
    BY SeqAppend
  <1>2. ~Unsettled(s, n, t, kinds)
    BY DEF Settles, Unsettled
  <1>3. ASSUME NEW j \in 1..n, Settles(s, n, j, t, kinds), i # j
        PROVE  FALSE
    <2>1. CASE i < j
      <3>1. j \in (i + 1)..n
        BY <1>1, <2>1
      <3> QED
        BY <1>3, <3>1 DEF Settles
    <2>2. CASE j < i
      <3>1. i \in (j + 1)..n
        BY <1>1, <2>2
      <3> QED
        BY <1>3, <3>1 DEF Settles
    <2> QED
      BY <1>1, <1>3, <2>1, <2>2
  <1> QED
    BY <1>2, <1>3

-----------------------------------------------------------------------------
(* What the file says of an address.                                        *)

LEMMA SaysPrefix ==
    ASSUME NEW s \in Seq(Events), NEW e \in Events, NEW t, NEW own, NEW ip, NEW n \in 0..Len(s)
    PROVE  /\ IsSrc(Append(s, e), own, ip, n, t) <=> IsSrc(s, own, ip, n, t)
           /\ IsDst(Append(s, e), own, ip, n, t) <=> IsDst(s, own, ip, n, t)
  BY SettlesPrefix DEF IsSrc, IsDst

LEMMA SaysPast ==
    ASSUME NEW s \in Seq(Events), NEW e \in Events, NEW t, NEW own, NEW ip
    PROVE  /\ IsSrc(s, own, ip, Len(s), t) /\ ~(e.tuple = t /\ e.kind = "assigned")
                => IsSrc(Append(s, e), own, ip, Len(s) + 1, t)
           /\ IsDst(s, own, ip, Len(s), t) /\ ~(e.tuple = t /\ e.kind \in {"assigned", "authority"})
                => IsDst(Append(s, e), own, ip, Len(s) + 1, t)
  <1>1. \A j \in 1..Len(s) : j \in 1..(Len(s) + 1) /\ Append(s, e)[j] = s[j]
    BY SeqAppend
  <1>2. ASSUME IsSrc(s, own, ip, Len(s), t), ~(e.tuple = t /\ e.kind = "assigned")
        PROVE  IsSrc(Append(s, e), own, ip, Len(s) + 1, t)
    BY <1>1, <1>2, SettlesPast DEF IsSrc
  <1>3. ASSUME IsDst(s, own, ip, Len(s), t), ~(e.tuple = t /\ e.kind \in {"assigned", "authority"})
        PROVE  IsDst(Append(s, e), own, ip, Len(s) + 1, t)
    BY <1>1, <1>3, SettlesPast DEF IsDst
  <1> QED
    BY <1>2, <1>3

LEMMA SaysNow ==
    ASSUME NEW s \in Seq(Events), NEW e \in Events, NEW own
    PROVE  /\ e.kind = "assigned" =>
                /\ IsSrc(Append(s, e), own, Or(e.src, own), Len(s) + 1, e.tuple)
                /\ IsDst(Append(s, e), own, Or(e.dst, own), Len(s) + 1, e.tuple)
           /\ e.kind = "authority" =>
                IsDst(Append(s, e), own, e.dst, Len(s) + 1, e.tuple)
  <1>1. Append(s, e)[Len(s) + 1] = e /\ Len(s) + 1 \in 1..(Len(s) + 1)
    BY SeqAppend
  <1> QED
    BY <1>1, SettlesNow DEF IsSrc, IsDst

LEMMA SaysOnce ==
    ASSUME NEW s \in Seq(Events), NEW t, NEW own, NEW a, NEW b, NEW n \in 0..Len(s)
    PROVE  /\ IsSrc(s, own, a, n, t) /\ IsSrc(s, own, b, n, t) => a = b
           /\ IsDst(s, own, a, n, t) /\ IsDst(s, own, b, n, t) => a = b
  <1>1. ASSUME IsSrc(s, own, a, n, t), IsSrc(s, own, b, n, t)
        PROVE  a = b
    <2>1. CASE Unsettled(s, n, t, {"assigned"})
      <3>1. \A j \in 1..n : ~Settles(s, n, j, t, {"assigned"})
        BY <2>1, SettlesOnce
      <3> QED
        BY <1>1, <3>1 DEF IsSrc
    <2>2. CASE ~Unsettled(s, n, t, {"assigned"})
      <3>1. /\ \E j \in 1..n : Settles(s, n, j, t, {"assigned"}) /\ a = Or(s[j].src, own)
            /\ \E k \in 1..n : Settles(s, n, k, t, {"assigned"}) /\ b = Or(s[k].src, own)
        BY <1>1, <2>2 DEF IsSrc
      <3> QED
        BY <3>1, SettlesOnce
    <2> QED
      BY <2>1, <2>2
  <1>2. ASSUME IsDst(s, own, a, n, t), IsDst(s, own, b, n, t)
        PROVE  a = b
    <2> DEFINE kinds == {"assigned", "authority"}
               Given(j) == IF s[j].kind = "assigned" THEN Or(s[j].dst, own) ELSE s[j].dst
    <2>1. CASE Unsettled(s, n, t, kinds)
      <3>1. \A j \in 1..n : ~Settles(s, n, j, t, kinds)
        BY <2>1, SettlesOnce
      <3> QED
        BY <1>2, <3>1 DEF IsDst
    <2>2. CASE ~Unsettled(s, n, t, kinds)
      <3>1. /\ \E j \in 1..n : Settles(s, n, j, t, kinds) /\ a = Given(j)
            /\ \E k \in 1..n : Settles(s, n, k, t, kinds) /\ b = Given(k)
        BY <1>2, <2>2 DEF IsDst
      <3> HIDE DEF Given
      <3> QED
        BY <3>1, SettlesOnce
    <2> QED
      BY <2>1, <2>2
  <1> QED
    BY <1>1, <1>2

-----------------------------------------------------------------------------
(* The map of tuples holds what the file says up to now.                    *)

Tracks ==
    \A t \in Tuples : /\ IsSrc(seen, src, srcOf[t], Len(seen), t)
                      /\ IsDst(seen, dst, dstOf[t], Len(seen), t)

LEMMA TracksInit == Init => Tracks
  <1> SUFFICES ASSUME Init, NEW t \in Tuples
               PROVE  /\ IsSrc(seen, src, srcOf[t], Len(seen), t)
                      /\ IsDst(seen, dst, dstOf[t], Len(seen), t)
    BY DEF Tracks
  <1>1. \A kinds : Unsettled(seen, Len(seen), t, kinds)
    BY DEF Init, Unsettled
  <1>2. srcOf[t] = Initially(src, t) /\ dstOf[t] = Initially(dst, t)
    BY DEF Init, Initially
  <1> QED
    BY <1>1, <1>2 DEF IsSrc, IsDst

LEMMA TracksHandle ==
    ASSUME TypeOK, Tracks, NEW e \in Events, Handle(e)
    PROVE  Tracks'
  <1>1. /\ seen \in Seq(Events) /\ seen' = Append(seen, e) /\ Len(seen') = Len(seen) + 1
        /\ src' = src /\ dst' = dst
    BY SeqAppend DEF TypeOK, Handle
  <1>2. SUFFICES ASSUME NEW t \in Tuples
                 PROVE  /\ IsSrc(Append(seen, e), src, srcOf'[t], Len(seen) + 1, t)
                        /\ IsDst(Append(seen, e), dst, dstOf'[t], Len(seen) + 1, t)
    BY <1>1 DEF Tracks
  <1>3. IsSrc(seen, src, srcOf[t], Len(seen), t) /\ IsDst(seen, dst, dstOf[t], Len(seen), t)
    BY DEF Tracks
  <1>4. srcOf \in [Tuples -> MaybeIp] /\ dstOf \in [Tuples -> MaybeIp] /\ e.tuple \in Tuples
    BY EventType DEF TypeOK
  <1>5. CASE Assign(e)
    <2>1. CASE e.tuple = t
      BY <1>1, <1>4, <1>5, <2>1, SaysNow DEF Assign
    <2>2. CASE e.tuple # t
      BY <1>1, <1>3, <1>4, <1>5, <2>2, SaysPast DEF Assign
    <2> QED
      BY <2>1, <2>2
  <1>6. CASE Authorize(e)
    <2>1. IsSrc(Append(seen, e), src, srcOf'[t], Len(seen) + 1, t)
      BY <1>1, <1>3, <1>6, SaysPast DEF Authorize
    <2>2. CASE e.tuple = t
      BY <1>1, <1>4, <1>6, <2>1, <2>2, SaysNow DEF Authorize
    <2>3. CASE e.tuple # t
      BY <1>1, <1>3, <1>4, <1>6, <2>1, <2>3, SaysPast DEF Authorize
    <2> QED
      BY <2>2, <2>3
  <1>7. CASE Measure(e)
    BY <1>1, <1>3, <1>7, SaysPast DEF Measure
  <1> QED
    BY <1>5, <1>6, <1>7 DEF Handle

LEMMA TracksStep == TypeOK /\ Tracks /\ [Next]_vars => Tracks'
  <1> SUFFICES ASSUME TypeOK, Tracks, [Next]_vars PROVE Tracks'
    OBVIOUS
  <1>1. CASE UNCHANGED vars
    BY <1>1 DEF Tracks, vars
  <1> QED
    BY <1>1, TracksHandle DEF Next

-----------------------------------------------------------------------------
(* Attribution.                                                             *)

LEMMA SampleEqual ==
    ASSUME NEW i, NEW s, NEW d, NEW j, NEW u, NEW v
    PROVE  Sample(i, s, d) = Sample(j, u, v) <=> i = j /\ s = u /\ d = v
  <1>1. /\ Sample(i, s, d).at = i /\ Sample(i, s, d).src = s /\ Sample(i, s, d).dst = d
        /\ Sample(j, u, v).at = j /\ Sample(j, u, v).src = u /\ Sample(j, u, v).dst = v
    BY DEF Sample
  <1> QED
    BY <1>1

LEMMA NoLaterSample ==
    ASSUME TypeOK, NEW s, NEW d
    PROVE  Sample(Len(seen) + 1, s, d) \notin out
  <1> SUFFICES ASSUME Sample(Len(seen) + 1, s, d) \in out PROVE FALSE
    OBVIOUS
  <1>1. PICK i \in 1..Len(seen), u \in Ips, v \in Ips : Sample(Len(seen) + 1, s, d) = Sample(i, u, v)
    BY DEF TypeOK
  <1>2. Len(seen) + 1 = i
    BY <1>1, SampleEqual
  <1> QED
    BY <1>2, SeqAppend DEF TypeOK

\* A step adds at most the sample of its own event.
LEMMA OutGrows ==
    ASSUME TypeOK, NEW e \in Events, Handle(e), NEW i \in 1..(Len(seen) + 1), NEW s \in Ips, NEW d \in Ips
    PROVE  Sample(i, s, d) \in out' <=>
             \/ i # Len(seen) + 1 /\ Sample(i, s, d) \in out
             \/ /\ i = Len(seen) + 1 /\ e.kind = "metrics"
                /\ s = srcOf[e.tuple] /\ d = dstOf[e.tuple]
  <1>1. CASE i = Len(seen) + 1
    <2>1. Sample(i, s, d) \notin out
      BY <1>1, NoLaterSample
    <2>2. s # NoIp /\ d # NoIp
      BY QlogFileAssumption
    <2>3. CASE e.kind = "metrics" /\ Reported(e.tuple)
      <3>1. out' = out \cup {Sample(Len(seen) + 1, srcOf[e.tuple], dstOf[e.tuple])}
        BY <2>3 DEF Handle, Assign, Authorize, Measure
      <3> QED
        BY <1>1, <2>1, <2>3, <3>1, SampleEqual
    <2>4. CASE ~(e.kind = "metrics" /\ Reported(e.tuple))
      <3>1. out' = out
        BY <2>4 DEF Handle, Assign, Authorize, Measure
      <3> QED
        BY <1>1, <2>1, <2>2, <2>4, <3>1 DEF Reported
    <2> QED
      BY <2>3, <2>4
  <1>2. CASE i # Len(seen) + 1
    <2>1. Sample(i, s, d) # Sample(Len(seen) + 1, srcOf[e.tuple], dstOf[e.tuple])
      BY <1>2, SampleEqual
    <2> QED
      BY <1>2, <2>1 DEF Handle, Assign, Authorize, Measure
  <1> QED
    BY <1>1, <1>2

LEMMA AttributedHandle ==
    ASSUME TypeOK, Tracks, SamplesAttributed, NEW e \in Events, Handle(e)
    PROVE  SamplesAttributed'
  <1> DEFINE n == Len(seen)
             q == Append(seen, e)
  <1>1. /\ seen \in Seq(Events) /\ seen' = q /\ src' = src /\ dst' = dst
        /\ n \in Nat /\ Len(q) = n + 1 /\ q[n + 1] = e
        /\ \A i \in 1..n : q[i] = seen[i]
    BY SeqAppend DEF TypeOK, Handle
  <1>2. ASSUME NEW i \in 1..(n + 1), NEW s \in Ips, NEW d \in Ips
        PROVE  Sample(i, s, d) \in out' <=> /\ q[i].kind = "metrics"
                                            /\ IsSrc(q, src, s, i - 1, q[i].tuple)
                                            /\ IsDst(q, dst, d, i - 1, q[i].tuple)
    <2>1. i - 1 \in 0..n
      BY <1>1
    <2>2. /\ IsSrc(q, src, s, i - 1, q[i].tuple) <=> IsSrc(seen, src, s, i - 1, q[i].tuple)
          /\ IsDst(q, dst, d, i - 1, q[i].tuple) <=> IsDst(seen, dst, d, i - 1, q[i].tuple)
      BY <1>1, <2>1, SaysPrefix
    <2>3. CASE i = n + 1
      <3>1. e.tuple \in Tuples /\ q[i] = e /\ i - 1 = n /\ n \in 0..n
        BY <1>1, <2>3, EventType
      <3>2. /\ IsSrc(seen, src, srcOf[e.tuple], n, e.tuple)
            /\ IsDst(seen, dst, dstOf[e.tuple], n, e.tuple)
        BY <3>1 DEF Tracks
      <3>3. /\ IsSrc(seen, src, s, n, e.tuple) <=> s = srcOf[e.tuple]
            /\ IsDst(seen, dst, d, n, e.tuple) <=> d = dstOf[e.tuple]
        BY <1>1, <3>1, <3>2, SaysOnce
      <3>4. Sample(i, s, d) \in out' <=>
              e.kind = "metrics" /\ s = srcOf[e.tuple] /\ d = dstOf[e.tuple]
        BY <2>3, OutGrows
      <3> HIDE DEF n, q
      <3> QED
        BY <2>2, <3>1, <3>3, <3>4
    <2>4. CASE i # n + 1
      <3>1. i \in 1..n /\ q[i] = seen[i]
        BY <1>1, <2>4
      <3>2. Sample(i, s, d) \in out' <=> Sample(i, s, d) \in out
        BY <2>4, OutGrows
      <3>3. Sample(i, s, d) \in out <=> /\ seen[i].kind = "metrics"
                                        /\ IsSrc(seen, src, s, i - 1, seen[i].tuple)
                                        /\ IsDst(seen, dst, d, i - 1, seen[i].tuple)
        BY <3>1 DEF SamplesAttributed
      <3> QED
        BY <2>2, <3>1, <3>2, <3>3
    <2> QED
      BY <2>3, <2>4
  <1> HIDE DEF n, q
  <1> QED
    BY <1>1, <1>2 DEF SamplesAttributed

LEMMA AttributedStep == TypeOK /\ Tracks /\ SamplesAttributed /\ [Next]_vars => SamplesAttributed'
  <1> SUFFICES ASSUME TypeOK, Tracks, SamplesAttributed, [Next]_vars PROVE SamplesAttributed'
    OBVIOUS
  <1>1. CASE UNCHANGED vars
    BY <1>1 DEF SamplesAttributed, vars
  <1> QED
    BY <1>1, AttributedHandle DEF Next

LEMMA AttributedInit == Init => SamplesAttributed
  BY DEF Init, SamplesAttributed

(* Every sample carries the addresses the file gives its tuple at that      *)
(* point, and every update that can be attributed yields one.               *)
THEOREM AttributedCorrect == Spec => []SamplesAttributed
  <1>1. Spec => [](TypeOK /\ Tracks)
    BY TypeInit, TypeStep, TracksInit, TracksStep, PTL DEF Spec
  <1> QED
    BY <1>1, AttributedInit, AttributedStep, PTL DEF Spec
=============================================================================
