-------------------------- MODULE QlogLoaderProofs --------------------------
(* Proofs about QlogLoader, for every set of files, capacity of the         *)
(* channel, message limit and number of watchers: the type invariant, that  *)
(* no sample is forgotten, that the last word on a file is its newest       *)
(* reading unless it is the walk's, and that the collector is a Mirror of   *)
(* the directory.                                                           *)
EXTENDS QlogLoader, TLAPS

LEMMA SeqTail ==
    ASSUME NEW S, NEW s \in Seq(S), s # <<>>
    PROVE  /\ Tail(s) \in Seq(S) /\ Head(s) \in S /\ Head(s) = s[1]
           /\ Len(s) \in Nat /\ Len(s) > 0 /\ 1 \in 1..Len(s)
           /\ Len(Tail(s)) = Len(s) - 1
           /\ \A i \in 1..Len(Tail(s)) : i + 1 \in 1..Len(s) /\ Tail(s)[i] = s[i + 1]
  OBVIOUS

LEMMA SeqAppend ==
    ASSUME NEW S, NEW s \in Seq(S), NEW e \in S
    PROVE  /\ Append(s, e) \in Seq(S)
           /\ Len(s) \in Nat
           /\ Len(Append(s, e)) = Len(s) + 1
           /\ \A i \in 1..Len(s) : Append(s, e)[i] = s[i]
           /\ Append(s, e)[Len(s) + 1] = e
  OBVIOUS

-----------------------------------------------------------------------------
(* Type correctness.                                                        *)

LEMMA NothingIsReading == Nothing \in Readings
  BY QlogLoaderAssumption DEF Nothing, Readings

LEMMA ReadingUpdate ==
    ASSUME NEW r \in Readings, NEW f \in Files, NEW n \in 0..Samples[f]
    PROVE  [r EXCEPT ![f] = n] \in Readings
  BY QlogLoaderAssumption DEF Readings

\* What a reader makes of a file: its request, and whether the file is missed.
LEMMA ReadsType ==
    ASSUME NEW r \in Readings, NEW f \in Files, written \in Readings, missed \subseteq Files,
           NEW s, Reads(f, r, s)
    PROVE  s \in Readings /\ missed' \subseteq Files
  <1>1. written[f] \in 0..Samples[f]
    BY QlogLoaderAssumption DEF Readings
  <1> QED
    BY <1>1, ReadingUpdate DEF Reads

LEMMA RequestType ==
    ASSUME NEW by \in {"walk", "watch"}, NEW r \in Readings
    PROVE  Request(by, r) \in Requests
  BY DEF Request, Requests

LEMMA TypeInit == Init => TypeOK
  <1> SUFFICES ASSUME Init PROVE TypeOK
    OBVIOUS
  <1>1. queue \in Seq(Requests) /\ Len(queue) <= Queue
    BY QlogLoaderAssumption DEF Init
  <1>2. watchers \in 0..Watchers /\ failures \in 0..Watchers
    BY QlogLoaderAssumption DEF Init
  <1>3. latestBy \in [Files -> {"none", "walk", "watch"}]
    BY DEF Init
  <1>4. ~Live /\ written \in Readings /\ req \in Readings /\ first \in Readings
    BY NothingIsReading DEF Init, Live
  <1>5. arrived \in Readings /\ latest \in Readings
    BY NothingIsReading DEF Init
  <1>6. failures + (IF Live THEN 1 ELSE 0) <= watchers
    BY <1>4 DEF Init
  <1>7. queue = <<>> /\ events = {} /\ batch = {} /\ reading = FALSE /\ req = Nothing
        /\ todo = {} /\ first = Nothing /\ missed = {} /\ phase = "start" /\ told = FALSE
    BY DEF Init
  <1>8. /\ missed \subseteq Files /\ events \subseteq Files /\ batch \subseteq Files /\ todo \subseteq Files
        /\ reading \in BOOLEAN /\ (~reading => batch = {} /\ req = Nothing) /\ told \in BOOLEAN
    BY <1>7
  <1> QED
    BY <1>1, <1>2, <1>3, <1>4, <1>5, <1>6, <1>7, <1>8 DEF TypeOK

LEMMA TypeDirectory == ASSUME TypeOK, NEW f \in Files, Write(f) \/ Touch(f)
                       PROVE  TypeOK'
  <1>1. /\ written' \in Readings /\ missed' \subseteq Files /\ events' \subseteq Files
        /\ ~Live => events' = events
    <2>1. CASE Write(f)
      <3>1. written[f] + 1 \in 0..Samples[f] /\ written \in Readings
        <4>1. written \in Readings /\ written[f] < Samples[f]
          BY <2>1 DEF TypeOK, Write
        <4>2. written[f] \in Nat /\ Samples[f] \in Nat
          BY <4>1, QlogLoaderAssumption DEF Readings
        <4> QED
          BY <4>1, <4>2
      <3> QED
        BY <2>1, <3>1, ReadingUpdate DEF TypeOK, Write, Noticed
    <2>2. CASE Touch(f)
      BY <2>2 DEF TypeOK, Touch, Noticed
    <2> QED
      BY <2>1, <2>2
  <1>2. UNCHANGED <<batch, reading, req, walkVars, queue, loopVars, toldVars>>
    BY DEF Write, Touch
  <1>3. Live' <=> Live
    BY <1>2 DEF Live, loopVars
  <1> QED
    BY <1>1, <1>2, <1>3 DEF TypeOK, walkVars, loopVars, toldVars

LEMMA TypeThread ==
    ASSUME TypeOK, Debounced \/ Thread PROVE TypeOK'
  <1>1. CASE Debounced
    BY <1>1 DEF TypeOK, Debounced, Debounce, Live, walkVars, loopVars, histVars, toldVars
  <1>2. ASSUME NEW f \in Files, ReadFile(f) PROVE TypeOK'
    <2>1. req' \in Readings /\ missed' \subseteq Files /\ batch' \subseteq Files /\ reading
      BY <1>2, ReadsType DEF ReadFile, TypeOK
    <2> QED
      BY <1>2, <2>1 DEF TypeOK, ReadFile, Live, walkVars, loopVars, histVars, toldVars
  <1>3. CASE SendBatch
    <2> DEFINE r == Request("watch", req)
    <2>1. r \in Requests /\ queue \in Seq(Requests)
      BY RequestType DEF TypeOK
    <2> HIDE DEF r
    <2>2. queue' \in Seq(Requests) /\ Len(queue') <= Queue
      <3>1. queue' = Append(queue, r) /\ Len(queue) < Queue /\ Queue \in Nat
        BY <1>3, QlogLoaderAssumption DEF SendBatch, r
      <3> QED
        BY <2>1, <3>1, SeqAppend
    <2> QED
      BY <1>3, <2>2, NothingIsReading
         DEF TypeOK, SendBatch, Live, walkVars, loopVars, histVars, toldVars
  <1> QED
    BY <1>1, <1>2, <1>3 DEF Thread

LEMMA TypeLoading ==
    ASSUME TypeOK, Loading PROVE TypeOK'
  <1>1. CASE Start
    <2>1. ~Live /\ Live'
      BY <1>1 DEF Start, Starting, Live
    <2>2. watchers' \in 0..Watchers /\ failures' + 1 <= watchers' /\ failures' \in 0..Watchers
      BY <1>1, <2>1, QlogLoaderAssumption DEF TypeOK, Start, Live
    <2>3. todo' \subseteq Files /\ first' \in Readings
      BY <1>1 DEF TypeOK, Start
    <2> QED
      BY <1>1, <2>1, <2>2, <2>3 DEF TypeOK, Start, Starting, Live, threadVars, histVars, toldVars
  <1>2. CASE StartPanics
    <2>1. ~Live /\ ~Live'
      BY <1>2 DEF StartPanics, Starting, Live
    <2> QED
      BY <1>2, <2>1 DEF TypeOK, StartPanics, Starting, threadVars, walkVars, histVars, toldVars
  <1>3. ASSUME NEW f \in Files, Visit(f) PROVE TypeOK'
    <2>1. first' \in Readings /\ missed' \subseteq Files /\ todo' \subseteq Files
      BY <1>3, ReadsType DEF Visit, TypeOK
    <2> QED
      BY <1>3, <2>1 DEF TypeOK, Visit, Live, threadVars, loopVars, histVars, toldVars
  <1>4. CASE SendFirst
    <2> DEFINE r == Request("walk", first)
    <2>1. r \in Requests /\ queue \in Seq(Requests)
      BY RequestType DEF TypeOK
    <2> HIDE DEF r
    <2>2. queue' \in Seq(Requests) /\ Len(queue') <= Queue
      <3>1. queue' = Append(queue, r) /\ Len(queue) < Queue /\ Queue \in Nat
        BY <1>4, QlogLoaderAssumption DEF SendFirst, r
      <3> QED
        BY <2>1, <3>1, SeqAppend
    <2>3. Live /\ Live' /\ phase' = "streaming" /\ todo' = {} /\ first' = Nothing
      BY <1>4 DEF SendFirst, Live
    <2>4. /\ watchers' \in 0..Watchers /\ failures' \in 0..Watchers /\ told' \in BOOLEAN
          /\ failures' + (IF Live' THEN 1 ELSE 0) <= watchers'
      BY <1>4, <2>3 DEF TypeOK, SendFirst
    <2>5. UNCHANGED <<written, threadVars, histVars>>
      BY <1>4 DEF SendFirst
    <2>6. /\ written' \in Readings /\ missed' \subseteq Files
          /\ events' \subseteq Files /\ batch' \subseteq Files
          /\ reading' \in BOOLEAN /\ req' \in Readings
          /\ (~reading' => batch' = {} /\ req' = Nothing)
          /\ arrived' \in Readings /\ latest' \in Readings
          /\ latestBy' \in [Files -> {"none", "walk", "watch"}]
      BY <2>5 DEF TypeOK, threadVars, histVars, toldVars
    <2>7. first' \in Readings /\ todo' \subseteq Files
      BY <2>3, NothingIsReading
    <2> QED
      BY <2>2, <2>3, <2>4, <2>6, <2>7 DEF TypeOK
  <1> QED
    BY <1>1, <1>2, <1>3, <1>4 DEF Loading

LEMMA TypeDeliver == ASSUME TypeOK, Deliver PROVE TypeOK'
  <1> DEFINE q == Head(queue)
  <1>1. /\ q \in Requests /\ queue' = Tail(queue) /\ queue' \in Seq(Requests)
        /\ Len(queue') <= Queue /\ Live
    <2>1. queue # <<>> /\ queue \in Seq(Requests) /\ Len(queue) <= Queue /\ Queue \in Nat
      BY QlogLoaderAssumption DEF TypeOK, Deliver
    <2> QED
      BY <2>1, SeqTail DEF Deliver, Live
  <1>2. q.upTo \in Readings /\ q.by \in {"none", "walk", "watch"}
    BY <1>1 DEF Requests
  <1>3. arrived' \in Readings /\ latest' \in Readings
    BY <1>2, QlogLoaderAssumption DEF Deliver, TypeOK, Readings
  <1>4. latestBy' \in [Files -> {"none", "walk", "watch"}]
    BY <1>2 DEF Deliver, TypeOK
  <1> HIDE DEF q
  <1> QED
    BY <1>1, <1>3, <1>4 DEF TypeOK, Deliver, Live, threadVars, walkVars, loopVars

LEMMA TypeDrop ==
    ASSUME TypeOK, NEW to \in {"sleeping", "ended"}, DropCall(to),
           \/ UNCHANGED failures
           \/ failures' = failures + 1
    PROVE  TypeOK'
  <1>1. Live /\ ~Live' /\ queue' \in Seq(Requests) /\ Len(queue') <= Queue
    BY QlogLoaderAssumption DEF DropCall, Live
  <1>2. failures' \in 0..Watchers /\ failures' <= watchers'
    BY <1>1, QlogLoaderAssumption DEF TypeOK, DropCall
  <1>3. todo' = {} /\ first' = Nothing
    BY DEF TypeOK, DropCall, walkVars
  <1>4. /\ phase' = to /\ events' = {} /\ batch' = {} /\ reading' = FALSE /\ req' = Nothing
        /\ queue' = <<>> /\ UNCHANGED <<written, walkVars, watchers, told, histVars>>
    BY DEF DropCall
  <1>5. /\ written' \in Readings /\ missed' \subseteq Files /\ told' \in BOOLEAN
        /\ arrived' \in Readings /\ latest' \in Readings
        /\ latestBy' \in [Files -> {"none", "walk", "watch"}]
        /\ watchers' \in 0..Watchers
    BY <1>4 DEF TypeOK, histVars, toldVars
  <1>6. failures' + (IF Live' THEN 1 ELSE 0) <= watchers'
    BY <1>1, <1>2
  <1>7. /\ events' \subseteq Files /\ batch' \subseteq Files /\ todo' \subseteq Files
        /\ reading' \in BOOLEAN /\ req' \in Readings /\ first' \in Readings
        /\ (~reading' => batch' = {} /\ req' = Nothing)
        /\ (~Live' => events' = {} /\ ~reading' /\ queue' = <<>>)
    BY <1>3, <1>4, NothingIsReading
  <1> QED
    BY <1>1, <1>2, <1>3, <1>4, <1>5, <1>6, <1>7 DEF TypeOK

LEMMA TypeStep == TypeOK /\ [Next]_vars => TypeOK'
  <1> SUFFICES ASSUME TypeOK, [Next]_vars PROVE TypeOK'
    OBVIOUS
  <1>1. CASE TooBig \/ CallFails \/ Notice
    BY <1>1, TypeDrop DEF TooBig, CallFails, Notice
  <1>2. CASE Shutdown
    BY <1>2 DEF Shutdown, TypeOK, Live, threadVars, walkVars, histVars, toldVars
  <1>3. CASE UNCHANGED vars
    BY <1>3 DEF vars, TypeOK, Live, threadVars, walkVars, loopVars, histVars, toldVars
  <1> QED
    BY <1>1, <1>2, <1>3, TypeDirectory, TypeThread, TypeLoading, TypeDeliver
       DEF Next, Directory, Receive

(* The type invariant, and with it the bounds of the queue and of the       *)
(* watchers.                                                                *)
THEOREM TypeCorrect == Spec => []TypeOK
  BY TypeInit, TypeStep, PTL DEF Spec

-----------------------------------------------------------------------------
(* The readings of a queue.                                                 *)

LEMMA UpToAppend ==
    ASSUME NEW q \in Seq(Requests), NEW r \in Requests, NEW f \in Files
    PROVE  UpTo(Append(q, r), f) = UpTo(q, f) \cup {r.upTo[f]}
  <1> DEFINE s == Append(q, r)
             n == Len(q)
  <1>1. /\ n \in Nat /\ Len(s) = n + 1 /\ s[n + 1] = r
        /\ \A i \in 1..n : s[i] = q[i]
    BY SeqAppend
  <1> HIDE DEF s, n
  <1>2. 1..(n + 1) = 1..n \cup {n + 1}
    BY <1>1
  <1>3. {s[i].upTo[f] : i \in 1..(n + 1)} = {q[i].upTo[f] : i \in 1..n} \cup {r.upTo[f]}
    BY <1>1, <1>2
  <1> QED
    BY <1>1, <1>3 DEF UpTo, s, n

LEMMA UpToTail ==
    ASSUME NEW q \in Seq(Requests), q # <<>>, NEW f \in Files
    PROVE  UpTo(q, f) = {Head(q).upTo[f]} \cup UpTo(Tail(q), f)
  <1> DEFINE s == Tail(q)
             n == Len(q)
  <1>1. /\ n \in Nat /\ n > 0 /\ Len(s) = n - 1 /\ Head(q) = q[1]
        /\ \A i \in 1..(n - 1) : s[i] = q[i + 1]
    BY SeqTail
  <1> HIDE DEF s, n
  <1>2. \A i \in 1..n : i = 1 \/ (i - 1 \in 1..(n - 1) /\ q[i] = s[i - 1])
    <2> SUFFICES ASSUME NEW i \in 1..n, i # 1
                 PROVE  i - 1 \in 1..(n - 1) /\ q[i] = s[i - 1]
      OBVIOUS
    <2>1. i - 1 \in 1..(n - 1) /\ (i - 1) + 1 = i
      BY <1>1
    <2>2. s[i - 1] = q[(i - 1) + 1]
      BY <1>1, <2>1
    <2> QED
      BY <2>1, <2>2
  <1>3. \A i \in 1..(n - 1) : i + 1 \in 1..n
    BY <1>1
  <1>4. 1 \in 1..n
    BY <1>1
  <1>5. {q[i].upTo[f] : i \in 1..n} = {q[1].upTo[f]} \cup {s[i].upTo[f] : i \in 1..(n - 1)}
    <2>1. ASSUME NEW i \in 1..n
          PROVE  q[i].upTo[f] \in {q[1].upTo[f]} \cup {s[j].upTo[f] : j \in 1..(n - 1)}
      BY <1>2, <2>1
    <2>2. ASSUME NEW j \in 1..(n - 1)
          PROVE  s[j].upTo[f] \in {q[i].upTo[f] : i \in 1..n}
      BY <1>1, <1>3
    <2> QED
      BY <1>4, <2>1, <2>2
  <1> QED
    BY <1>1, <1>5 DEF UpTo, s, n

LEMMA UpToNat ==
    ASSUME NEW q \in Seq(Requests), NEW f \in Files
    PROVE  UpTo(q, f) \subseteq Nat
  <1>1. \A i \in 1..Len(q) : q[i] \in Requests
    OBVIOUS
  <1> QED
    BY <1>1, QlogLoaderAssumption DEF UpTo, Requests, Readings

LEMMA ReadingsNat ==
    ASSUME TypeOK, NEW f \in Files
    PROVE  /\ written[f] \in Nat /\ req[f] \in Nat /\ first[f] \in Nat
           /\ arrived[f] \in Nat /\ latest[f] \in Nat
  BY QlogLoaderAssumption DEF TypeOK, Readings

LEMMA ReadsAt ==
    ASSUME NEW r \in Readings, NEW g \in Files, NEW f \in Files, NEW s, Reads(g, r, s)
    PROVE  /\ f # g => s[f] = r[f] /\ (f \in missed' <=> f \in missed)
           /\ f = g => s[f] = r[f] \/ s[f] = written[f]
           /\ f = g /\ f \notin missed' => s[f] = written[f]
  BY DEF Reads, Readings

LEMMA NothingAt == \A f \in Files : Nothing[f] = 0
  BY DEF Nothing

-----------------------------------------------------------------------------
(* No sample is forgotten.                                                  *)

LEMMA ForgottenDirectory ==
    ASSUME TypeOK, NothingForgotten, NEW g \in Files, Write(g) \/ Touch(g)
    PROVE  NothingForgotten'
  <1> SUFFICES ASSUME Live', NEW f \in Files \ missed', written'[f] > 0
               PROVE  Held(f, written[f])'
    BY DEF NothingForgotten
  <1>1. /\ UNCHANGED <<batch, req, todo, first, queue, phase, arrived>> /\ Live
        /\ events' = events \cup {g} /\ missed' = missed \ {g}
    BY DEF Write, Touch, Noticed, Live, walkVars, loopVars, toldVars
  <1>2. CASE f = g
    BY <1>1, <1>2 DEF Held
  <1>3. CASE f # g
    <2>1. written'[f] = written[f]
      BY <1>3 DEF TypeOK, Readings, Write, Touch
    <2>2. Held(f, written[f])
      BY <1>1, <1>3, <2>1 DEF NothingForgotten
    <2> QED
      BY <1>1, <2>1, <2>2 DEF Held
  <1> QED
    BY <1>2, <1>3

LEMMA ForgottenThread ==
    ASSUME TypeOK, NothingForgotten, Debounced \/ Thread
    PROVE  NothingForgotten'
  <1> SUFFICES ASSUME Live', NEW f \in Files \ missed', written'[f] > 0
               PROVE  Held(f, written[f])'
    BY DEF NothingForgotten
  <1>1. UNCHANGED <<written, todo, first, phase, arrived>> /\ Live
    BY DEF Debounced, Debounce, Thread, ReadFile, SendBatch, Live, walkVars, loopVars, histVars, toldVars
  <1>2. f \notin missed => Held(f, written[f])
    BY <1>1 DEF NothingForgotten
  <1>3. CASE Debounced
    <2>1. events' \cup batch' = events \cup batch /\ UNCHANGED <<req, queue, missed>>
      BY <1>3 DEF Debounced, Debounce, TypeOK, histVars
    <2> QED
      BY <1>1, <1>2, <2>1 DEF Held
  <1>4. ASSUME NEW g \in Files, ReadFile(g) PROVE Held(f, written[f])'
    <2>1. UNCHANGED <<events, queue>> /\ batch' = batch \ {g} /\ Reads(g, req, req')
      BY <1>4 DEF ReadFile
    <2>2. IF f = g THEN req'[f] = written[f] ELSE req'[f] = req[f] /\ f \notin missed
      BY <2>1, ReadsAt DEF TypeOK
    <2>3. CASE f = g
      <3>1. written'[f] <= req'[f]
        BY <1>1, <2>2, <2>3, ReadingsNat
      <3> QED
        BY <3>1 DEF Held
    <2>4. CASE f # g
      BY <1>1, <1>2, <2>1, <2>2, <2>4 DEF Held
    <2> QED
      BY <2>3, <2>4
  <1>5. CASE SendBatch
    <2> DEFINE r == Request("watch", req)
    <2>1. r \in Requests /\ queue \in Seq(Requests) /\ r.upTo = req
      BY RequestType DEF TypeOK, Request
    <2>2. queue' = Append(queue, r) /\ UNCHANGED <<events, batch, missed>>
      BY <1>5 DEF SendBatch, histVars
    <2> HIDE DEF r
    <2>3. UpTo(queue', f) = UpTo(queue, f) \cup {req[f]}
      BY <2>1, <2>2, UpToAppend
    <2> QED
      BY <1>1, <1>2, <2>2, <2>3 DEF Held
  <1> QED
    BY <1>3, <1>4, <1>5 DEF Thread

LEMMA ForgottenLoading ==
    ASSUME TypeOK, NothingForgotten, Loading
    PROVE  NothingForgotten'
  <1> SUFFICES ASSUME Live', NEW f \in Files \ missed', written'[f] > 0
               PROVE  Held(f, written[f])'
    BY DEF NothingForgotten
  <1>1. UNCHANGED <<written, events, batch, req, arrived>>
    BY DEF Loading, Start, StartPanics, Visit, SendFirst, threadVars, histVars, toldVars
  <1>2. CASE Start
    BY <1>1, <1>2 DEF Start, Held
  <1>3. CASE StartPanics
    BY <1>3 DEF StartPanics, Live
  <1>4. ASSUME NEW g \in Files, Visit(g) PROVE Held(f, written[f])'
    <2>1. UNCHANGED <<queue, phase>> /\ todo' = todo \ {g} /\ Reads(g, first, first')
      BY <1>4 DEF Visit, loopVars
    <2>2. IF f = g THEN first'[f] = written[f] ELSE first'[f] = first[f] /\ f \notin missed
      BY <2>1, ReadsAt DEF TypeOK
    <2>3. CASE f = g
      <3>1. written'[f] <= first'[f]
        BY <1>1, <2>2, <2>3, ReadingsNat
      <3> QED
        BY <3>1 DEF Held
    <2>4. CASE f # g
      <3>1. Held(f, written[f])
        BY <1>1, <2>1, <2>2, <2>4 DEF NothingForgotten, Live
      <3> QED
        BY <1>1, <2>1, <2>2, <2>4, <3>1 DEF Held
    <2> QED
      BY <2>3, <2>4
  <1>5. CASE SendFirst
    <2> DEFINE r == Request("walk", first)
    <2>1. r \in Requests /\ queue \in Seq(Requests) /\ r.upTo = first
      BY RequestType DEF TypeOK, Request
    <2>2. queue' = Append(queue, r) /\ todo' = todo
      BY <1>5 DEF SendFirst
    <2>3. Held(f, written[f])
      BY <1>1, <1>5 DEF NothingForgotten, Live, SendFirst, histVars
    <2> HIDE DEF r
    <2>4. UpTo(queue', f) = UpTo(queue, f) \cup {first[f]}
      BY <2>1, <2>2, UpToAppend
    <2> QED
      BY <1>1, <2>2, <2>3, <2>4 DEF Held
  <1> QED
    BY <1>2, <1>3, <1>4, <1>5 DEF Loading

LEMMA ForgottenDeliver ==
    ASSUME TypeOK, NothingForgotten, Deliver
    PROVE  NothingForgotten'
  <1> SUFFICES ASSUME Live', NEW f \in Files \ missed', written'[f] > 0
               PROVE  Held(f, written[f])'
    BY DEF NothingForgotten
  <1> DEFINE m == Head(queue).upTo[f]
  <1>1. /\ UNCHANGED <<written, events, batch, req, todo, first, phase, missed>>
        /\ queue' = Tail(queue) /\ queue # <<>> /\ queue \in Seq(Requests)
    BY DEF Deliver, TypeOK, threadVars, walkVars, loopVars
  <1>2. Held(f, written[f])
    BY <1>1 DEF NothingForgotten, Live
  <1>3. UpTo(queue, f) = {m} \cup UpTo(queue', f)
    BY <1>1, UpToTail
  <1>4. arrived'[f] = IF m > arrived[f] THEN m ELSE arrived[f]
    BY DEF Deliver
  <1>5. m \in Nat /\ arrived[f] \in Nat /\ written[f] \in Nat
    BY <1>1, <1>3, UpToNat, ReadingsNat
  <1> HIDE DEF m
  <1>6. arrived[f] <= arrived'[f] /\ m <= arrived'[f]
    BY <1>4, <1>5
  <1>7. written[f] <= arrived[f] \/ written[f] <= m => written[f] <= arrived'[f]
    BY <1>4, <1>5
  <1> QED
    BY <1>1, <1>2, <1>3, <1>7 DEF Held

\* A call that ends takes everything with it, also the promise.
LEMMA ForgottenRest ==
    ASSUME NothingForgotten,
           TooBig \/ CallFails \/ Notice \/ Shutdown \/ UNCHANGED vars
    PROVE  NothingForgotten'
  <1>1. CASE TooBig \/ CallFails \/ Notice
    BY <1>1 DEF TooBig, CallFails, Notice, DropCall, NothingForgotten, Live
  <1>2. CASE Shutdown
    BY <1>2 DEF Shutdown, NothingForgotten, Held, Live, threadVars, walkVars, histVars, toldVars
  <1>3. CASE UNCHANGED vars
    BY <1>3 DEF vars, NothingForgotten, Held, Live, threadVars, walkVars, loopVars, histVars, toldVars
  <1> QED
    BY <1>1, <1>2, <1>3

LEMMA ForgottenStep == TypeOK /\ NothingForgotten /\ [Next]_vars => NothingForgotten'
  BY ForgottenDirectory, ForgottenThread, ForgottenLoading, ForgottenDeliver, ForgottenRest
     DEF Next, Directory, Receive

LEMMA ForgottenInit == Init => NothingForgotten
  BY DEF Init, NothingForgotten, Live

(* While a loader lives no sample of a file that is there is forgotten,     *)
(* however the watcher, the walk and the call interleave.                   *)
THEOREM ForgottenCorrect == Spec => []NothingForgotten
  BY TypeInit, TypeStep, ForgottenInit, ForgottenStep, PTL DEF Spec

-----------------------------------------------------------------------------
(* The last word.  A request of the watcher with an old reading of f, w     *)
(* being the newest, has one with the newest behind it.                     *)

Stale(q, i, f, w) == q[i].by = "watch" /\ q[i].upTo[f] \notin {0, w}

Covered(q, f, w) ==
    \A i \in 1..Len(q) :
        Stale(q, i, f, w) => \E j \in (i + 1)..Len(q) : q[j].upTo[f] = w

LEMMA CoveredAppend ==
    ASSUME NEW q \in Seq(Requests), NEW r \in Requests, NEW f \in Files, NEW w,
           \/ r.upTo[f] = w
           \/ Covered(q, f, w) /\ (r.by = "watch" => r.upTo[f] = 0)
    PROVE  Covered(Append(q, r), f, w)
  <1> DEFINE s == Append(q, r)
             n == Len(q)
  <1>1. /\ n \in Nat /\ Len(s) = n + 1 /\ s[n + 1] = r
        /\ \A i \in 1..n : s[i] = q[i]
    BY SeqAppend
  <1> HIDE DEF s, n
  <1>2. SUFFICES ASSUME NEW i \in 1..(n + 1), Stale(s, i, f, w)
                 PROVE  \E j \in (i + 1)..(n + 1) : s[j].upTo[f] = w
    BY <1>1 DEF Covered, s
  <1>3. CASE r.upTo[f] = w
    <2>1. i # n + 1
      BY <1>1, <1>2, <1>3 DEF Stale
    <2>2. n + 1 \in (i + 1)..(n + 1)
      BY <1>1, <2>1
    <2> QED
      BY <1>1, <1>3, <2>2
  <1>4. CASE Covered(q, f, w) /\ (r.by = "watch" => r.upTo[f] = 0)
    <2>1. i # n + 1
      BY <1>1, <1>2, <1>4 DEF Stale
    <2>2. i \in 1..n
      BY <1>1, <2>1
    <2>3. PICK j \in (i + 1)..n : q[j].upTo[f] = w
      BY <1>1, <1>2, <1>4, <2>2 DEF Covered, Stale, n
    <2>4. j \in 1..n /\ j \in (i + 1)..(n + 1)
      BY <1>1, <2>2, <2>3
    <2> QED
      BY <1>1, <2>3, <2>4
  <1> QED
    BY <1>3, <1>4

LEMMA CoveredTail ==
    ASSUME NEW q \in Seq(Requests), q # <<>>, NEW f \in Files, NEW w, Covered(q, f, w)
    PROVE  /\ Covered(Tail(q), f, w)
           /\ Stale(q, 1, f, w) => w \in UpTo(Tail(q), f)
  <1> DEFINE s == Tail(q)
             n == Len(q)
  <1>1. /\ n \in Nat /\ n > 0 /\ Len(s) = n - 1
        /\ \A i \in 1..(n - 1) : s[i] = q[i + 1]
    BY SeqTail
  <1>2. ASSUME NEW i \in 1..n, Stale(q, i, f, w)
        PROVE  \E j \in i..(n - 1) : s[j].upTo[f] = w
    <2>1. PICK j \in (i + 1)..n : q[j].upTo[f] = w
      BY <1>2 DEF Covered
    <2>2. j - 1 \in i..(n - 1) /\ j - 1 \in 1..(n - 1) /\ (j - 1) + 1 = j
      BY <1>1, <2>1
    <2>3. s[j - 1] = q[(j - 1) + 1]
      BY <1>1, <2>2
    <2> QED
      BY <2>1, <2>2, <2>3
  <1> HIDE DEF s, n
  <1>3. ASSUME NEW i \in 1..(n - 1), Stale(s, i, f, w)
        PROVE  \E j \in (i + 1)..(n - 1) : s[j].upTo[f] = w
    <2>1. i + 1 \in 1..n
      BY <1>1
    <2>2. Stale(q, i + 1, f, w)
      BY <1>1, <1>3 DEF Stale
    <2> QED
      BY <1>2, <2>1, <2>2
  <1>4. Stale(q, 1, f, w) => w \in UpTo(s, f)
    <2>1. 1 \in 1..n
      BY <1>1
    <2> QED
      BY <1>1, <1>2, <2>1 DEF UpTo
  <1> QED
    BY <1>1, <1>3, <1>4 DEF Covered, s

\* A file that grew since the callback read it has been noticed.
Noted == \A f \in Files : req[f] \notin {0, written[f]} => f \in events

\* An old reading of the watcher in the queue will be followed by another.
Followed(f) ==
    \/ f \in events \cup batch
    \/ written[f] \in {req[f], first[f]}
    \/ Covered(queue, f, written[f])

LastWord(f) == latest[f] = written[f] \/ latestBy[f] = "walk" \/ Coming(f)

LastInv == Live => \A f \in Files \ missed : written[f] > 0 => Followed(f) /\ LastWord(f)

LEMMA NotedInit == Init => Noted
  BY NothingAt DEF Init, Noted

LEMMA NotedStep == TypeOK /\ Noted /\ [Next]_vars => Noted'
  <1> SUFFICES ASSUME TypeOK, Noted, [Next]_vars, NEW f \in Files,
                      req'[f] # 0, req'[f] # written'[f]
               PROVE  f \in events'
    BY DEF Noted
  <1>1. req[f] \notin {0, written[f]} => f \in events
    BY DEF Noted
  <1>2. ~reading => req[f] = 0
    BY NothingAt DEF TypeOK
  <1>3. ASSUME NEW g \in Files, Write(g) \/ Touch(g) PROVE f \in events'
    <2>1. req' = req /\ (f # g => written'[f] = written[f])
      BY <1>3 DEF Write, Touch, TypeOK, Readings
    <2>2. Live
      BY <1>2, <2>1 DEF TypeOK
    <2>3. events' = events \cup {g}
      BY <1>3, <2>2 DEF Write, Touch, Noticed
    <2> QED
      BY <1>1, <2>1, <2>3
  <1>4. ASSUME NEW b \in SUBSET Files, Debounce(b) PROVE f \in events'
    BY <1>2, <1>4 DEF Debounce
  <1>5. ASSUME NEW g \in Files, ReadFile(g) PROVE f \in events'
    <2>1. UNCHANGED <<written, events>> /\ Reads(g, req, req')
      BY <1>5 DEF ReadFile
    <2>2. req'[f] = req[f] \/ req'[f] = written[f]
      BY <2>1, ReadsAt DEF TypeOK
    <2> QED
      BY <1>1, <2>1, <2>2
  <1>6. CASE SendBatch \/ TooBig \/ CallFails \/ Notice
    BY <1>6, NothingAt DEF SendBatch, TooBig, CallFails, Notice, DropCall
  <1>7. CASE Loading \/ Deliver \/ Shutdown \/ UNCHANGED vars
    <2>1. UNCHANGED <<written, events, req>>
      BY <1>7 DEF Loading, Start, StartPanics, Visit, SendFirst, Deliver, Shutdown,
                  vars, threadVars
    <2> QED
      BY <1>1, <2>1
  <1> QED
    BY <1>3, <1>4, <1>5, <1>6, <1>7 DEF Next, Directory, Debounced, Thread, Receive

LEMMA LastDirectory ==
    ASSUME TypeOK, LastInv, NEW g \in Files, Write(g) \/ Touch(g)
    PROVE  LastInv'
  <1> SUFFICES ASSUME Live', NEW f \in Files \ missed', written'[f] > 0
               PROVE  Followed(f)' /\ LastWord(f)'
    BY DEF LastInv
  <1>1. /\ UNCHANGED <<batch, req, todo, first, queue, phase, latest, latestBy>> /\ Live
        /\ events' = events \cup {g} /\ missed' = missed \ {g}
    BY DEF Write, Touch, Noticed, Live, walkVars, loopVars, toldVars
  <1>2. CASE f = g
    BY <1>1, <1>2 DEF Followed, LastWord, Coming
  <1>3. CASE f # g
    <2>1. written'[f] = written[f]
      BY <1>3 DEF TypeOK, Readings, Write, Touch
    <2>2. Followed(f) /\ LastWord(f)
      BY <1>1, <1>3, <2>1 DEF LastInv
    <2>3. Followed(f)'
      BY <1>1, <2>1, <2>2 DEF Followed
    <2> QED
      BY <1>1, <2>1, <2>2, <2>3 DEF LastWord, Coming
  <1> QED
    BY <1>2, <1>3

LEMMA LastThread ==
    ASSUME TypeOK, Noted, LastInv, Debounced \/ Thread
    PROVE  LastInv'
  <1> SUFFICES ASSUME Live', NEW f \in Files \ missed', written'[f] > 0
               PROVE  Followed(f)' /\ LastWord(f)'
    BY DEF LastInv
  <1>1. UNCHANGED <<written, todo, first, phase, latest, latestBy>> /\ Live
    BY DEF Debounced, Debounce, Thread, ReadFile, SendBatch, Live, walkVars, loopVars, histVars, toldVars
  <1>2. f \notin missed => Followed(f) /\ LastWord(f)
    BY <1>1 DEF LastInv
  <1>3. CASE Debounced
    <2>1. events' \cup batch' = events \cup batch /\ UNCHANGED <<req, queue, missed>>
      BY <1>3 DEF Debounced, Debounce, TypeOK, histVars
    <2>2. Followed(f)'
      BY <1>1, <1>2, <2>1 DEF Followed
    <2> QED
      BY <1>1, <1>2, <2>1, <2>2 DEF LastWord, Coming
  <1>4. ASSUME NEW g \in Files, ReadFile(g) PROVE Followed(f)' /\ LastWord(f)'
    <2>1. UNCHANGED <<events, queue>> /\ batch' = batch \ {g} /\ Reads(g, req, req')
      BY <1>4 DEF ReadFile
    <2>2. IF f = g THEN req'[f] = written[f] ELSE req'[f] = req[f] /\ f \notin missed
      BY <2>1, ReadsAt DEF TypeOK
    <2>3. CASE f = g
      <3>1. req'[f] = written'[f]
        BY <1>1, <2>2, <2>3
      <3> QED
        BY <3>1 DEF Followed, LastWord, Coming
    <2>4. CASE f # g
      <3>1. req'[f] = req[f] /\ (f \in events \cup batch <=> f \in events' \cup batch')
        BY <2>1, <2>2, <2>4
      <3>2. Followed(f)'
        BY <1>1, <1>2, <2>1, <2>2, <2>4, <3>1 DEF Followed
      <3> QED
        BY <1>1, <1>2, <2>1, <2>2, <2>4, <3>1, <3>2 DEF LastWord, Coming
    <2> QED
      BY <2>3, <2>4
  <1>5. CASE SendBatch
    <2> DEFINE r == Request("watch", req)
    <2>1. r \in Requests /\ queue \in Seq(Requests) /\ r.upTo = req
      BY RequestType DEF TypeOK, Request
    <2>2. /\ queue' = Append(queue, r) /\ UNCHANGED <<events, batch, missed>>
          /\ batch = {} /\ req'[f] = 0
      BY <1>5, NothingAt DEF SendBatch, histVars
    <2> HIDE DEF r
    <2>3. UpTo(queue', f) = UpTo(queue, f) \cup {req[f]}
      BY <2>1, <2>2, UpToAppend
    <2>4. f \in events \/ first[f] = written[f] \/ Covered(queue', f, written[f])
      <3>1. CASE req[f] = written[f]
        BY <2>1, <2>2, <3>1, CoveredAppend
      <3>2. CASE req[f] # written[f] /\ req[f] = 0
        <4>1. f \in events \/ first[f] = written[f] \/ Covered(queue, f, written[f])
          BY <1>2, <2>2, <3>2 DEF Followed, Noted
        <4> QED
          BY <2>1, <2>2, <3>2, <4>1, CoveredAppend
      <3>3. CASE req[f] # written[f] /\ req[f] # 0
        BY <2>2, <3>3 DEF Noted
      <3> QED
        BY <3>1, <3>2, <3>3
    <2>5. Followed(f)'
      BY <1>1, <2>2, <2>4 DEF Followed
    <2> QED
      BY <1>1, <1>2, <2>2, <2>3, <2>5 DEF LastWord, Coming
  <1> QED
    BY <1>3, <1>4, <1>5 DEF Thread

LEMMA LastLoading ==
    ASSUME TypeOK, LastInv, Loading
    PROVE  LastInv'
  <1> SUFFICES ASSUME Live', NEW f \in Files \ missed', written'[f] > 0
               PROVE  Followed(f)' /\ LastWord(f)'
    BY DEF LastInv
  <1>1. UNCHANGED <<written, events, batch, req, latest, latestBy>>
    BY DEF Loading, Start, StartPanics, Visit, SendFirst, threadVars, histVars, toldVars
  <1>2. CASE Start
    <2>1. queue = <<>> /\ ~reading /\ queue' = queue /\ f \in todo'
      BY <1>1, <1>2 DEF Start, Starting, TypeOK, Live
    <2>2. Covered(queue', f, written'[f])
      BY <2>1 DEF Covered
    <2> QED
      BY <1>1, <2>1, <2>2 DEF Followed, LastWord, Coming
  <1>3. CASE StartPanics
    BY <1>3 DEF StartPanics, Live
  <1>4. ASSUME NEW g \in Files, Visit(g) PROVE Followed(f)' /\ LastWord(f)'
    <2>1. UNCHANGED <<queue, phase>> /\ todo' = todo \ {g} /\ Reads(g, first, first')
      BY <1>4 DEF Visit, loopVars
    <2>2. IF f = g THEN first'[f] = written[f] ELSE first'[f] = first[f] /\ f \notin missed
      BY <2>1, ReadsAt DEF TypeOK
    <2>3. CASE f = g
      BY <1>1, <2>2, <2>3 DEF Followed, LastWord, Coming
    <2>4. CASE f # g
      <3>1. Followed(f) /\ LastWord(f)
        BY <1>1, <2>1, <2>2, <2>4 DEF LastInv, Live
      <3>2. Followed(f)'
        BY <1>1, <2>1, <2>2, <2>4, <3>1 DEF Followed
      <3> QED
        BY <1>1, <2>1, <2>2, <2>4, <3>1, <3>2 DEF LastWord, Coming
    <2> QED
      BY <2>3, <2>4
  <1>5. CASE SendFirst
    <2> DEFINE r == Request("walk", first)
    <2>1. r \in Requests /\ queue \in Seq(Requests) /\ r.upTo = first /\ r.by = "walk"
      BY RequestType DEF TypeOK, Request
    <2>2. queue' = Append(queue, r) /\ todo' = todo
      BY <1>5 DEF SendFirst
    <2>3. Followed(f) /\ LastWord(f)
      BY <1>1, <1>5 DEF LastInv, Live, SendFirst, histVars
    <2> HIDE DEF r
    <2>4. UpTo(queue', f) = UpTo(queue, f) \cup {first[f]}
      BY <2>1, <2>2, UpToAppend
    <2>5. first[f] = written[f] \/ Covered(queue, f, written[f])
             => Covered(queue', f, written[f])
      BY <2>1, <2>2, CoveredAppend
    <2>6. Followed(f)'
      BY <1>1, <2>3, <2>5 DEF Followed
    <2> QED
      BY <1>1, <2>2, <2>3, <2>4, <2>6 DEF LastWord, Coming
  <1> QED
    BY <1>2, <1>3, <1>4, <1>5 DEF Loading

LEMMA LastDeliver ==
    ASSUME TypeOK, LastInv, Deliver
    PROVE  LastInv'
  <1> SUFFICES ASSUME Live', NEW f \in Files \ missed', written'[f] > 0
               PROVE  Followed(f)' /\ LastWord(f)'
    BY DEF LastInv
  <1> DEFINE q == Head(queue)
             m == q.upTo[f]
             w == written[f]
  <1>1. /\ UNCHANGED <<written, events, batch, req, todo, first, phase, missed>>
        /\ queue' = Tail(queue) /\ queue # <<>> /\ queue \in Seq(Requests)
    BY DEF Deliver, TypeOK, threadVars, walkVars, loopVars
  <1>2. Followed(f) /\ LastWord(f)
    BY <1>1 DEF LastInv, Live
  <1>3. UpTo(queue, f) = {m} \cup UpTo(queue', f)
    BY <1>1, UpToTail
  <1>4. /\ latest'[f] = IF m > 0 THEN m ELSE latest[f]
        /\ latestBy'[f] = IF m > 0 THEN q.by ELSE latestBy[f]
    BY DEF Deliver
  <1>5. m \in Nat /\ w \in Nat /\ w > 0 /\ q = queue[1] /\ q \in Requests
    BY <1>1, <1>3, UpToNat, ReadingsNat, SeqTail
  <1>6. Covered(queue, f, w) => /\ Covered(queue', f, w)
                                /\ Stale(queue, 1, f, w) => w \in UpTo(queue', f)
    BY <1>1, CoveredTail
  <1>7. Followed(f)'
    BY <1>1, <1>2, <1>6 DEF Followed
  <1>8. q.by \in {"walk", "watch"}
    BY <1>5 DEF Requests
  <1>9. Stale(queue, 1, f, w) <=> q.by = "watch" /\ m \notin {0, w}
    BY <1>5 DEF Stale
  <1> HIDE DEF q, m
  <1>10. CASE m = 0
    <2>1. latest'[f] = latest[f] /\ latestBy'[f] = latestBy[f]
      BY <1>4, <1>10
    <2>2. w \in UpTo(queue, f) => w \in UpTo(queue', f)
      BY <1>3, <1>5, <1>10
    <2> QED
      BY <1>1, <1>2, <1>7, <2>1, <2>2 DEF LastWord, Coming
  <1>11. CASE m = w
    <2>1. latest'[f] = written'[f]
      BY <1>1, <1>4, <1>5, <1>11
    <2> QED
      BY <1>7, <2>1 DEF LastWord
  <1>12. CASE m \notin {0, w} /\ q.by = "walk"
    <2>1. latestBy'[f] = "walk"
      BY <1>4, <1>5, <1>12
    <2> QED
      BY <1>7, <2>1 DEF LastWord
  <1>13. CASE m \notin {0, w} /\ q.by = "watch"
    <2>1. f \in events \cup batch \/ w \in {req[f], first[f]} \/ w \in UpTo(queue', f)
      BY <1>2, <1>6, <1>9, <1>13 DEF Followed
    <2> QED
      BY <1>1, <1>7, <2>1 DEF LastWord, Coming
  <1> QED
    BY <1>8, <1>10, <1>11, <1>12, <1>13

LEMMA LastRest ==
    ASSUME LastInv,
           TooBig \/ CallFails \/ Notice \/ Shutdown \/ UNCHANGED vars
    PROVE  LastInv'
  <1>1. CASE TooBig \/ CallFails \/ Notice
    BY <1>1 DEF TooBig, CallFails, Notice, DropCall, LastInv, Live
  <1>2. CASE Shutdown \/ UNCHANGED vars
    <2>1. UNCHANGED <<written, events, batch, req, todo, first, queue, phase, latest, latestBy, missed>>
      BY <1>2 DEF Shutdown, vars, threadVars, walkVars, loopVars, histVars, toldVars
    <2> QED
      BY <2>1 DEF LastInv, Followed, LastWord, Coming, Live
  <1> QED
    BY <1>1, <1>2

LEMMA LastStep == TypeOK /\ Noted /\ LastInv /\ [Next]_vars => LastInv'
  BY LastDirectory, LastThread, LastLoading, LastDeliver, LastRest
     DEF Next, Directory, Receive

LEMMA LastInit == Init => LastInv
  BY DEF Init, LastInv, Live

LEMMA LastImplies == LastInv => LastWordIsNewest
  BY DEF LastInv, LastWord, LastWordIsNewest

(* The last reading handled of a file is its newest, or the walk's, or a    *)
(* newer one comes: the watcher never leaves an old one as the last word.   *)
THEOREM LastWordCorrect == Spec => []LastWordIsNewest
  BY TypeInit, TypeStep, NotedInit, NotedStep, LastInit, LastStep, LastImplies, PTL DEF Spec

-----------------------------------------------------------------------------
(* The collector is a mirror of the directory.                              *)

(* The readings of f one reader has under way: last, the one handled last,  *)
(* then those in the queue, then own, the one it is collecting, none above  *)
(* top, what the file holds.  Each is 0 where there is none.                *)
Chain(q, b, f, last, own, top) ==
    /\ last <= top /\ own <= top /\ (own > 0 => last <= own)
    /\ \A i \in 1..Len(q) : q[i].by = b =>
         /\ q[i].upTo[f] <= top
         /\ own > 0 => q[i].upTo[f] <= own
         /\ q[i].upTo[f] > 0 => last <= q[i].upTo[f]
    /\ \A i, j \in 1..Len(q) :
         i < j /\ q[i].by = b /\ q[j].by = b /\ q[j].upTo[f] > 0
            => q[i].upTo[f] <= q[j].upTo[f]

LEMMA QueueNat ==
    ASSUME NEW q \in Seq(Requests), NEW f \in Files, NEW i \in 1..Len(q)
    PROVE  q[i].upTo[f] \in Nat /\ q[i].by \in {"walk", "watch"}
  <1>1. q[i] \in Requests
    OBVIOUS
  <1> QED
    BY <1>1, QlogLoaderAssumption DEF Requests, Readings

\* The reader sends what it collected.
LEMMA ChainSend ==
    ASSUME NEW q \in Seq(Requests), NEW r \in Requests, NEW f \in Files, NEW b,
           NEW last \in Nat, NEW own \in Nat, NEW top \in Nat,
           Chain(q, b, f, last, own, top), r.by = b => r.upTo[f] = own
    PROVE  Chain(Append(q, r), b, f, last, IF r.by = b THEN 0 ELSE own, top)
  <1> DEFINE s == Append(q, r)
             n == Len(q)
             rest == IF r.by = b THEN 0 ELSE own
  <1>1. /\ n \in Nat /\ Len(s) = n + 1 /\ s[n + 1] = r
        /\ \A i \in 1..n : s[i] = q[i]
    BY SeqAppend
  <1>2. \A i \in 1..n : q[i].upTo[f] \in Nat
    BY QueueNat
  <1>3. r.upTo[f] \in Nat
    BY QlogLoaderAssumption DEF Requests, Readings
  <1>4. rest \in Nat /\ (r.by = b => rest = 0) /\ (r.by # b => rest = own)
    OBVIOUS
  <1>5. /\ last <= top /\ own <= top /\ (own > 0 => last <= own)
        /\ \A i \in 1..n : q[i].by = b =>
             /\ q[i].upTo[f] <= top
             /\ own > 0 => q[i].upTo[f] <= own
             /\ q[i].upTo[f] > 0 => last <= q[i].upTo[f]
        /\ \A i, j \in 1..n :
             i < j /\ q[i].by = b /\ q[j].by = b /\ q[j].upTo[f] > 0
                => q[i].upTo[f] <= q[j].upTo[f]
    BY DEF Chain
  <1> HIDE DEF s, n, rest
  <1>6. last <= top /\ rest <= top /\ (rest > 0 => last <= rest)
    BY <1>4, <1>5
  <1>7. \A i \in 1..(n + 1) : i \in 1..n \/ i = n + 1
    BY <1>1
  <1>8. ASSUME NEW i \in 1..(n + 1), s[i].by = b
        PROVE  /\ s[i].upTo[f] <= top
               /\ rest > 0 => s[i].upTo[f] <= rest
               /\ s[i].upTo[f] > 0 => last <= s[i].upTo[f]
    <2>1. CASE i \in 1..n
      BY <1>1, <1>2, <1>4, <1>5, <1>8, <2>1
    <2>2. CASE i = n + 1
      BY <1>1, <1>3, <1>4, <1>5, <1>8, <2>2
    <2> QED
      BY <1>7, <2>1, <2>2
  <1>9. ASSUME NEW i \in 1..(n + 1), NEW j \in 1..(n + 1), i < j,
               s[i].by = b, s[j].by = b, s[j].upTo[f] > 0
        PROVE  s[i].upTo[f] <= s[j].upTo[f]
    <2>1. i \in 1..n
      BY <1>1, <1>9
    <2>2. CASE j \in 1..n
      BY <1>1, <1>5, <1>9, <2>1, <2>2
    <2>3. CASE j = n + 1
      BY <1>1, <1>3, <1>5, <1>9, <2>1, <2>3
    <2> QED
      BY <1>7, <2>2, <2>3
  <1> QED
    BY <1>1, <1>6, <1>8, <1>9 DEF Chain, s, n, rest

\* The collector handles the head of the queue.
LEMMA ChainHandle ==
    ASSUME NEW q \in Seq(Requests), q # <<>>, NEW f \in Files, NEW b,
           NEW last \in Nat, NEW own \in Nat, NEW top \in Nat,
           Chain(q, b, f, last, own, top),
           NEW m \in {0, last}, Head(q).upTo[f] = 0 \/ Head(q).by # b
    PROVE  Chain(Tail(q), b, f, m, own, top)
  <1> DEFINE s == Tail(q)
             n == Len(q)
  <1>1. /\ n \in Nat /\ n > 0 /\ Len(s) = n - 1
        /\ \A i \in 1..(n - 1) : i + 1 \in 1..n /\ s[i] = q[i + 1] /\ s[i].upTo[f] \in Nat
    BY SeqTail, QueueNat
  <1> HIDE DEF s, n
  <1>2. \A i \in 1..(n - 1) : s[i].by = b =>
             /\ s[i].upTo[f] <= top
             /\ own > 0 => s[i].upTo[f] <= own
             /\ s[i].upTo[f] > 0 => m <= s[i].upTo[f]
    BY <1>1 DEF Chain, n
  <1>3. ASSUME NEW i \in 1..(n - 1), NEW j \in 1..(n - 1), i < j,
               s[i].by = b, s[j].by = b, s[j].upTo[f] > 0
        PROVE  s[i].upTo[f] <= s[j].upTo[f]
    <2>1. i + 1 < j + 1 /\ i + 1 \in 1..n /\ j + 1 \in 1..n
      BY <1>1, <1>3
    <2> QED
      BY <1>1, <1>3, <2>1 DEF Chain, n
  <1>4. m <= top /\ own <= top /\ (own > 0 => m <= own)
    BY DEF Chain
  <1> QED
    BY <1>1, <1>2, <1>3, <1>4 DEF Chain, s

LEMMA ChainHandleOwn ==
    ASSUME NEW q \in Seq(Requests), q # <<>>, NEW f \in Files, NEW b,
           NEW last \in Nat, NEW own \in Nat, NEW top \in Nat,
           Chain(q, b, f, last, own, top),
           Head(q).upTo[f] > 0, Head(q).by = b
    PROVE  /\ Chain(Tail(q), b, f, Head(q).upTo[f], own, top)
           /\ Head(q).upTo[f] \in 1..top /\ last <= Head(q).upTo[f]
  <1> DEFINE s == Tail(q)
             n == Len(q)
             m == Head(q).upTo[f]
  <1>1. /\ n \in Nat /\ n > 0 /\ Len(s) = n - 1 /\ 1 \in 1..n /\ Head(q) = q[1] /\ m \in Nat
        /\ \A i \in 1..(n - 1) : i + 1 \in 1..n /\ s[i] = q[i + 1] /\ s[i].upTo[f] \in Nat
    BY SeqTail, QueueNat
  <1>2. q[1].by = b /\ q[1].upTo[f] = m /\ m > 0
    BY <1>1
  <1> HIDE DEF s, n, m
  <1>3. m <= top /\ own <= top /\ (own > 0 => m <= own) /\ last <= m
    BY <1>1, <1>2 DEF Chain, n
  <1>4. ASSUME NEW i \in 1..(n - 1), s[i].by = b
        PROVE  /\ s[i].upTo[f] <= top
               /\ own > 0 => s[i].upTo[f] <= own
               /\ s[i].upTo[f] > 0 => m <= s[i].upTo[f]
    <2>1. i + 1 \in 1..n /\ 1 < i + 1 /\ s[i] = q[i + 1]
      BY <1>1
    <2> QED
      BY <1>1, <1>2, <1>4, <2>1 DEF Chain, n
  <1>5. ASSUME NEW i \in 1..(n - 1), NEW j \in 1..(n - 1), i < j,
               s[i].by = b, s[j].by = b, s[j].upTo[f] > 0
        PROVE  s[i].upTo[f] <= s[j].upTo[f]
    <2>1. i + 1 < j + 1 /\ i + 1 \in 1..n /\ j + 1 \in 1..n
      BY <1>1, <1>5
    <2> QED
      BY <1>1, <1>5, <2>1 DEF Chain, n
  <1>6. m \in 1..top
    BY <1>1, <1>2, <1>3
  <1>7. Chain(s, b, f, m, own, top)
    BY <1>1, <1>3, <1>4, <1>5 DEF Chain
  <1> QED
    BY <1>3, <1>6, <1>7 DEF s, m

\* The reader reads the file, the file grows, the call is dropped.
LEMMA ChainRest ==
    ASSUME NEW q \in Seq(Requests), NEW f \in Files, NEW b,
           NEW last \in Nat, NEW own \in Nat, NEW top \in Nat,
           Chain(q, b, f, last, own, top)
    PROVE  /\ Chain(q, b, f, last, top, top)
           /\ Chain(q, b, f, last, own, top + 1)
           /\ Chain(<<>>, b, f, last, 0, top)
  <1>1. \A i \in 1..Len(q) : q[i].upTo[f] \in Nat
    BY QueueNat
  <1>2. Chain(q, b, f, last, top, top)
    BY <1>1 DEF Chain
  <1>3. Chain(q, b, f, last, own, top + 1)
    BY <1>1 DEF Chain
  <1>4. Chain(<<>>, b, f, last, 0, top)
    BY DEF Chain
  <1> QED
    BY <1>2, <1>3, <1>4

Readers == {"walk", "watch"}

Own(b) == IF b = "watch" THEN req ELSE first
Last(b, f) == IF latestBy[f] = b THEN latest[f] ELSE 0

Chained(b, f) == Chain(queue, b, f, Last(b, f), Own(b)[f], written[f])

\* What a reader has under way is in order and was in the file.
MirrorInv ==
    \A f \in Files :
        arrived[f] <= written[f] /\ \A b \in Readers : Chained(b, f)

LEMMA MirrorNat ==
    ASSUME TypeOK, NEW f \in Files, NEW b
    PROVE  /\ Last(b, f) \in Nat /\ Own(b)[f] \in Nat /\ Own(b) \in Readings
           /\ written[f] \in Nat /\ queue \in Seq(Requests)
  BY ReadingsNat DEF Last, Own, TypeOK

\* Steps that change nothing of a reader's readings.
LEMMA ChainedKept ==
    ASSUME UNCHANGED <<queue, latest, latestBy, req, first>>,
           NEW f \in Files, NEW b, written'[f] = written[f], Chained(b, f)
    PROVE  Chained(b, f)'
  BY DEF Chained, Last, Own

LEMMA MirrorDirectory ==
    ASSUME TypeOK, TypeOK', MirrorInv, NEW g \in Files, Write(g) \/ Touch(g)
    PROVE  MirrorInv'
  <1> SUFFICES ASSUME NEW f \in Files
               PROVE  arrived'[f] <= written'[f] /\ \A b \in Readers : Chained(b, f)'
    BY DEF MirrorInv
  <1>1. UNCHANGED <<queue, latest, latestBy, req, first, arrived>>
    BY DEF Write, Touch, walkVars, histVars, toldVars
  <1>2. arrived[f] <= written[f] /\ \A b \in Readers : Chained(b, f)
    BY DEF MirrorInv
  <1>3. written'[f] = written[f] \/ written'[f] = written[f] + 1
    BY DEF TypeOK, Readings, Write, Touch
  <1>4. CASE written'[f] = written[f]
    BY <1>1, <1>2, <1>4, ChainedKept
  <1>5. CASE written'[f] = written[f] + 1
    <2>1. arrived'[f] <= written'[f]
      BY <1>1, <1>2, <1>5, ReadingsNat
    <2>2. ASSUME NEW b \in Readers PROVE Chained(b, f)'
      <3>1. Chain(queue, b, f, Last(b, f), Own(b)[f], written[f] + 1)
        BY <1>2, MirrorNat, ChainRest DEF Chained
      <3>2. Last(b, f)' = Last(b, f) /\ Own(b)' = Own(b)
        BY <1>1 DEF Last, Own
      <3> QED
        BY <1>1, <1>5, <3>1, <3>2 DEF Chained
    <2> QED
      BY <2>1, <2>2
  <1> QED
    BY <1>3, <1>4, <1>5

\* A reader reads a file: what it collects of it becomes what the file holds.
LEMMA MirrorRead ==
    ASSUME TypeOK, MirrorInv, NEW g \in Files, NEW c \in Readers,
           Reads(g, Own(c), Own(c)'), \A b \in Readers \ {c} : Own(b)' = Own(b),
           UNCHANGED <<written, queue, latest, latestBy, arrived>>
    PROVE  MirrorInv'
  <1> SUFFICES ASSUME NEW f \in Files
               PROVE  arrived'[f] <= written'[f] /\ \A b \in Readers : Chained(b, f)'
    BY DEF MirrorInv
  <1>1. arrived[f] <= written[f] /\ \A b \in Readers : Chained(b, f)
    BY DEF MirrorInv
  <1>2. ASSUME NEW b \in Readers PROVE Chained(b, f)'
    <2>1. Last(b, f)' = Last(b, f)
      BY DEF Last
    <2>2. Own(b)'[f] = Own(b)[f] \/ Own(b)'[f] = written[f]
      BY ReadsAt, MirrorNat
    <2>3. Chain(queue, b, f, Last(b, f), Own(b)'[f], written[f])
      BY <1>1, <2>2, MirrorNat, ChainRest DEF Chained
    <2> QED
      BY <2>1, <2>3 DEF Chained
  <1> QED
    BY <1>1, <1>2

\* A reader sends what it collected.
LEMMA MirrorSend ==
    ASSUME TypeOK, MirrorInv, NEW c \in Readers,
           queue' = Append(queue, Request(c, Own(c))), Own(c)' = Nothing,
           \A b \in Readers \ {c} : Own(b)' = Own(b),
           UNCHANGED <<written, latest, latestBy, arrived>>
    PROVE  MirrorInv'
  <1> SUFFICES ASSUME NEW f \in Files
               PROVE  arrived'[f] <= written'[f] /\ \A b \in Readers : Chained(b, f)'
    BY DEF MirrorInv
  <1>1. arrived[f] <= written[f] /\ \A b \in Readers : Chained(b, f)
    BY DEF MirrorInv
  <1> DEFINE r == Request(c, Own(c))
  <1>2. r \in Requests /\ r.by = c /\ r.upTo = Own(c)
    BY RequestType, MirrorNat DEF Request, Readers
  <1>3. queue' = Append(queue, r)
    OBVIOUS
  <1> HIDE DEF r
  <1>4. ASSUME NEW b \in Readers PROVE Chained(b, f)'
    <2>1. Last(b, f)' = Last(b, f)
      BY DEF Last
    <2>2. Own(b)'[f] = IF r.by = b THEN 0 ELSE Own(b)[f]
      BY <1>2, NothingAt
    <2>3. Chain(queue, b, f, Last(b, f), Own(b)[f], written[f])
      BY <1>1 DEF Chained
    <2>4. Chain(Append(queue, r), b, f, Last(b, f), IF r.by = b THEN 0 ELSE Own(b)[f], written[f])
      BY <1>2, <2>3, MirrorNat, ChainSend
    <2> QED
      BY <1>3, <2>1, <2>2, <2>4 DEF Chained
  <1> QED
    BY <1>1, <1>4

\* The call ends: the queue and the callback's request go with it.
LEMMA MirrorDrop ==
    ASSUME TypeOK, MirrorInv, NEW to, DropCall(to)
    PROVE  MirrorInv'
  <1> SUFFICES ASSUME NEW f \in Files
               PROVE  arrived'[f] <= written'[f] /\ \A b \in Readers : Chained(b, f)'
    BY DEF MirrorInv
  <1>1. arrived[f] <= written[f] /\ \A b \in Readers : Chained(b, f)
    BY DEF MirrorInv
  <1>2. /\ UNCHANGED <<written, latest, latestBy, arrived>>
        /\ queue' = <<>> /\ req' = Nothing /\ first' = Nothing
    BY DEF DropCall, TypeOK, walkVars, histVars, toldVars
  <1>3. ASSUME NEW b \in Readers PROVE Chained(b, f)'
    <2>1. Last(b, f)' = Last(b, f) /\ Own(b)'[f] = 0
      BY <1>2, NothingAt DEF Last, Own
    <2>2. Chain(<<>>, b, f, Last(b, f), 0, written[f])
      BY <1>1, MirrorNat, ChainRest DEF Chained
    <2> QED
      BY <1>2, <2>1, <2>2 DEF Chained
  <1> QED
    BY <1>1, <1>2, <1>3

\* What a delivery tells of one file, and that it leaves the chains in order.
LEMMA DeliverOf ==
    ASSUME TypeOK, MirrorInv, Deliver, NEW f \in Files
    PROVE  LET q == Head(queue)  m == q.upTo[f] IN
           /\ m \in Nat /\ q.by \in Readers
           /\ m = 0 => UNCHANGED <<arrived[f], latest[f], latestBy[f]>>
           /\ m > 0 => /\ latest'[f] = m /\ latestBy'[f] = q.by /\ m <= written[f]
                       /\ latestBy[f] = q.by => latest[f] <= m
                       /\ arrived'[f] = IF m > arrived[f] THEN m ELSE arrived[f]
           /\ \A b \in Readers : Chained(b, f)'
  <1> DEFINE q == Head(queue)
             m == q.upTo[f]
  <1>1. q \in Requests /\ queue \in Seq(Requests) /\ queue # <<>> /\ queue' = Tail(queue)
    BY SeqTail DEF TypeOK, Deliver
  <1>2. m \in Nat /\ q.by \in Readers
    BY <1>1, QlogLoaderAssumption DEF Requests, Readings, Readers
  <1>3. /\ arrived'[f] = IF m > arrived[f] THEN m ELSE arrived[f]
        /\ latest'[f] = IF m > 0 THEN m ELSE latest[f]
        /\ latestBy'[f] = IF m > 0 THEN q.by ELSE latestBy[f]
    BY DEF Deliver
  <1>4. \A b \in Readers : Chain(queue, b, f, Last(b, f), Own(b)[f], written[f])
    BY DEF MirrorInv, Chained
  <1>5. \A b \in Readers : Own(b)' = Own(b) /\ written' = written
    BY DEF Own, Deliver, threadVars, walkVars
  <1>6. arrived[f] \in Nat /\ latest[f] \in Nat
    BY ReadingsNat
  <1>7. m > 0 => m <= written[f] /\ Last(q.by, f) <= m
                 /\ Chain(Tail(queue), q.by, f, m, Own(q.by)[f], written[f])
    BY <1>1, <1>2, <1>4, MirrorNat, ChainHandleOwn
  <1>8. ASSUME NEW b \in Readers PROVE Chained(b, f)'
    <2>1. CASE m > 0 /\ b = q.by
      <3>1. Last(b, f)' = m
        BY <1>3, <2>1 DEF Last
      <3> QED
        BY <1>1, <1>5, <1>7, <2>1, <3>1 DEF Chained
    <2>2. CASE m = 0 \/ b # q.by
      <3>1. Last(b, f)' \in {0, Last(b, f)}
        BY <1>2, <1>3, <2>2 DEF Last
      <3>2. Chain(Tail(queue), b, f, Last(b, f)', Own(b)[f], written[f])
        BY <1>1, <1>4, <2>2, <3>1, MirrorNat, ChainHandle
      <3> QED
        BY <1>1, <1>5, <3>2 DEF Chained
    <2> QED
      BY <1>2, <2>1, <2>2
  <1>9. m = 0 => UNCHANGED <<arrived[f], latest[f], latestBy[f]>>
    BY <1>3, <1>6
  <1>10. m > 0 /\ latestBy[f] = q.by => latest[f] <= m
    BY <1>7 DEF Last
  <1> HIDE DEF q, m
  <1> QED
    BY <1>2, <1>3, <1>7, <1>8, <1>9, <1>10 DEF q, m

LEMMA MirrorDeliver ==
    ASSUME TypeOK, MirrorInv, Deliver
    PROVE  MirrorInv'
  <1> SUFFICES ASSUME NEW f \in Files
               PROVE  arrived'[f] <= written'[f] /\ \A b \in Readers : Chained(b, f)'
    BY DEF MirrorInv
  <1>1. written' = written /\ arrived[f] <= written[f]
    BY DEF Deliver, MirrorInv
  <1>2. arrived[f] \in Nat /\ written[f] \in Nat
    BY ReadingsNat
  <1> QED
    BY <1>1, <1>2, DeliverOf

LEMMA MirrorStep == TypeOK /\ TypeOK' /\ MirrorInv /\ [Next]_vars => MirrorInv'
  <1> SUFFICES ASSUME TypeOK, TypeOK', MirrorInv, [Next]_vars PROVE MirrorInv'
    OBVIOUS
  <1>1. ASSUME NEW f \in Files, ReadFile(f) PROVE MirrorInv'
    BY <1>1, MirrorRead DEF ReadFile, Own, Readers, walkVars, histVars, toldVars
  <1>2. ASSUME NEW f \in Files, Visit(f) PROVE MirrorInv'
    BY <1>2, MirrorRead DEF Visit, Own, Readers, threadVars, histVars, toldVars
  <1>3. CASE SendBatch
    BY <1>3, MirrorSend DEF SendBatch, Own, Readers, walkVars, histVars, toldVars
  <1>4. CASE SendFirst
    BY <1>4, MirrorSend DEF SendFirst, Own, Readers, threadVars, histVars, toldVars
  <1>5. CASE TooBig \/ CallFails \/ Notice
    BY <1>5, MirrorDrop DEF TooBig, CallFails, Notice
  <1>6. ASSUME UNCHANGED <<written, queue, latest, latestBy, req, first, arrived>>
        PROVE  MirrorInv'
    BY <1>6, ChainedKept DEF MirrorInv
  <1>7. CASE Debounced \/ Start \/ StartPanics \/ Shutdown
    BY <1>6, <1>7 DEF Debounced, Debounce, Start, StartPanics, Shutdown,
                      threadVars, walkVars, histVars, toldVars
  <1>8. CASE UNCHANGED vars
    BY <1>6, <1>8 DEF vars, threadVars, walkVars, histVars, toldVars
  <1> QED
    BY <1>1, <1>2, <1>3, <1>4, <1>5, <1>7, <1>8, MirrorDirectory, MirrorDeliver
       DEF Next, Directory, Thread, Loading, Receive

LEMMA MirrorInit == Init => MirrorInv
  <1> SUFFICES ASSUME Init, NEW f \in Files
               PROVE  arrived[f] <= written[f] /\ \A b \in Readers : Chained(b, f)
    BY DEF MirrorInv
  <1>1. arrived[f] = 0 /\ written[f] = 0 /\ queue = <<>>
    BY NothingAt DEF Init
  <1>2. \A b \in Readers : Last(b, f) = 0 /\ Own(b)[f] = 0
    BY NothingAt DEF Init, Last, Own
  <1> QED
    BY <1>1, <1>2 DEF Chained, Chain

\* A step of the agent is a step of the mirror, or none.
LEMMA MirroredStep ==
    TypeOK /\ TypeOK' /\ MirrorInv /\ [Next]_vars => [Mirrored!Next]_(Mirrored!vars)
  <1> SUFFICES ASSUME TypeOK, TypeOK', MirrorInv, [Next]_vars
               PROVE  Mirrored!Next \/ UNCHANGED Mirrored!vars
    OBVIOUS
  <1>1. ASSUME NEW f \in Files, Write(f) PROVE Mirrored!Next
    <2>1. Mirrored!Write(f)
      BY <1>1 DEF Write, Mirrored!Write, histVars, toldVars
    <2> QED
      BY <2>1 DEF Mirrored!Next
  <1>2. CASE Deliver
    <2> DEFINE q == Head(queue)
    <2>1. q.by \in Readers
      <3>1. queue \in Seq(Requests) /\ queue # <<>>
        BY <1>2 DEF TypeOK, Deliver
      <3>2. q \in Requests
        BY <3>1, SeqTail
      <3> QED
        BY <3>2 DEF Requests, Readers
    <2>2. ASSUME NEW f \in Files PROVE Mirrored!Silent(f) \/ Mirrored!Told(f, q.by)
      BY <1>2, DeliverOf, ReadingsNat DEF Mirrored!Silent, Mirrored!Told
    <2>3. /\ arrived' \in [Files -> Nat] /\ latest' \in [Files -> Nat]
          /\ latestBy' \in [Files -> Readers \cup {"none"}] /\ UNCHANGED written
      BY <1>2, QlogLoaderAssumption DEF TypeOK, Readings, Readers, Deliver
    <2> HIDE DEF q
    <2>4. Mirrored!Tell(q.by)
      BY <2>2, <2>3 DEF Mirrored!Tell, Readers
    <2> QED
      BY <2>1, <2>4 DEF Mirrored!Next, Readers
  <1>3. ASSUME UNCHANGED <<written, toldVars>> PROVE UNCHANGED Mirrored!vars
    BY <1>3 DEF Mirrored!vars, histVars, toldVars
  <1>4. ASSUME NEW f \in Files, Touch(f) \/ ReadFile(f) \/ Visit(f)
        PROVE  UNCHANGED Mirrored!vars
    BY <1>3, <1>4 DEF Touch, ReadFile, Visit
  <1>5. CASE Debounced \/ SendBatch \/ Start \/ StartPanics \/ SendFirst
             \/ TooBig \/ CallFails \/ Notice \/ Shutdown
    BY <1>3, <1>5 DEF Debounced, Debounce, SendBatch, Start, StartPanics, SendFirst,
                      TooBig, CallFails, Notice, DropCall, Shutdown, histVars
  <1>6. CASE UNCHANGED vars
    BY <1>3, <1>6 DEF vars, histVars
  <1> QED
    BY <1>1, <1>2, <1>4, <1>5, <1>6 DEF Next, Directory, Thread, Loading, Receive

(* The agent and the collector's side of its calls implement Mirror: no     *)
(* sample arrives that was not written, and neither the walk nor the        *)
(* callback ever takes back what it told last, however their requests wait, *)
(* overtake one another or die with a call.                                 *)
THEOREM MirrorCorrect == Spec => ImplementsMirror
  <1>1. Init => Mirrored!Init
    BY DEF Init, Mirrored!Init, Nothing
  <1>2. TypeOK /\ MirrorInv /\ [Next]_vars
          => TypeOK' /\ MirrorInv' /\ [Mirrored!Next]_(Mirrored!vars)
    BY TypeStep, MirrorStep, MirroredStep
  <1> QED
    BY <1>1, <1>2, TypeInit, MirrorInit, PTL DEF Spec, ImplementsMirror, Mirrored!Spec

=============================================================================
