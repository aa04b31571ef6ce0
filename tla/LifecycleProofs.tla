-------------------------- MODULE LifecycleProofs --------------------------
(* Proofs about Lifecycle, for every set of servers and clients, every      *)
(* capacity of the signal channel and every number of signals: the type     *)
(* invariant, what a stop needs and what its outcomes mean, and that the    *)
(* life of a process is the one Service promises.                           *)
EXTENDS Lifecycle, FiniteSetTheorems, TLAPS

(* What Tail and Append do to a sequence, in the form the steps need it.    *)
LEMMA TailProperties ==
    ASSUME NEW S, NEW s \in Seq(S), s # <<>>
    PROVE  /\ Tail(s) \in Seq(S)
           /\ Len(s) \in Nat /\ Len(s) > 0
           /\ Len(Tail(s)) = Len(s) - 1
           /\ \A i \in 1..Len(Tail(s)) : i + 1 \in 1..Len(s) /\ Tail(s)[i] = s[i + 1]
  OBVIOUS

LEMMA AppendProperties ==
    ASSUME NEW S, NEW s \in Seq(S), NEW e \in S
    PROVE  /\ Append(s, e) \in Seq(S)
           /\ Len(s) \in Nat
           /\ Len(Append(s, e)) = Len(s) + 1
           /\ \A i \in 1..Len(s) : Append(s, e)[i] = s[i]
           /\ Append(s, e)[Len(s) + 1] = e
  OBVIOUS

(* Every value in the channel is the value of a kind the system delivered.  *)
StopsAreAsked ==
    /\ pending \subseteq asked
    /\ \A i \in 1..Len(buf) :
         buf[i] \in {"Shutdown", "Quit"} => asked \cap Stops # {}

LEMMA ToServiceType == \A k \in Kinds : ToService(k) \in ServiceSignal
  BY DEF Kinds, ToService, ServiceSignal

(* One push: the ring keeps at most SignalCap values, each of them an old   *)
(* value or the new one.                                                    *)
LEMMA PushProperties ==
    ASSUME TypeOK, NEW s \in ServiceSignal, Push(s)
    PROVE  /\ buf' \in Seq(ServiceSignal) /\ Len(buf') <= SignalCap
           /\ lagged' \in BOOLEAN
           /\ \A i \in 1..Len(buf') :
                buf'[i] = s \/ \E j \in 1..Len(buf) : buf'[i] = buf[j]
           /\ Len(buf) < SignalCap => Len(buf') = Len(buf) + 1 /\ lagged' = lagged
  <1>0. SignalCap \in Nat /\ SignalCap > 0 /\ Len(buf) \in Nat /\ buf \in Seq(ServiceSignal)
    BY CapAssumption DEF TypeOK
  <1>1. CASE Len(buf) = SignalCap
    <2>1. buf # <<>>
      BY <1>0, <1>1
    <2> DEFINE t == Tail(buf)
    <2>2. /\ t \in Seq(ServiceSignal) /\ Len(t) = Len(buf) - 1
          /\ \A i \in 1..Len(t) : i + 1 \in 1..Len(buf) /\ t[i] = buf[i + 1]
      BY <1>0, <2>1, TailProperties
    <2>3. buf' = Append(t, s) /\ lagged' = TRUE
      BY <1>1 DEF Push, TypeOK
    <2> HIDE DEF t
    <2>4. /\ buf' \in Seq(ServiceSignal) /\ Len(buf') = Len(t) + 1
          /\ \A i \in 1..Len(t) : buf'[i] = t[i]
          /\ buf'[Len(t) + 1] = s
      BY <2>2, <2>3, AppendProperties
    <2>5. \A i \in 1..Len(buf') : i \in 1..Len(t) \/ i = Len(t) + 1
      BY <1>0, <2>2, <2>4
    <2>6. \A i \in 1..Len(t) : \E j \in 1..Len(buf) : buf'[i] = buf[j]
      BY <2>2, <2>4
    <2>7. \A i \in 1..Len(buf') :
            buf'[i] = s \/ \E j \in 1..Len(buf) : buf'[i] = buf[j]
      BY <2>4, <2>5, <2>6
    <2>8. Len(buf') <= SignalCap /\ lagged' \in BOOLEAN /\ ~(Len(buf) < SignalCap)
      BY <1>0, <1>1, <2>2, <2>3, <2>4
    <2> QED
      BY <2>4, <2>7, <2>8
  <1>2. CASE Len(buf) # SignalCap
    <2>1. buf' = Append(buf, s) /\ lagged' = lagged
      BY <1>2 DEF Push, TypeOK
    <2>2. /\ buf' \in Seq(ServiceSignal) /\ Len(buf') = Len(buf) + 1
          /\ \A i \in 1..Len(buf) : buf'[i] = buf[i]
          /\ buf'[Len(buf) + 1] = s
      BY <1>0, <2>1, AppendProperties
    <2>3. \A i \in 1..Len(buf') : i \in 1..Len(buf) \/ i = Len(buf) + 1
      BY <1>0, <2>2
    <2> QED
      BY <1>0, <1>2, <2>1, <2>2, <2>3 DEF TypeOK
  <1> QED
    BY <1>1, <1>2

(* One receive: what is left in the channel was there before.               *)
LEMMA TakeProperties ==
    ASSUME TypeOK, TakeSignal
    PROVE  /\ buf' \in Seq(ServiceSignal) /\ Len(buf') <= Len(buf)
           /\ Len(buf') \in Nat /\ Len(buf) \in Nat
           /\ lagged' \in BOOLEAN /\ (lagged' => lagged)
           /\ \A i \in 1..Len(buf') : \E j \in 1..Len(buf) : buf'[i] = buf[j]
  <1>0. buf \in Seq(ServiceSignal) /\ Len(buf) \in Nat /\ lagged \in BOOLEAN
    BY DEF TypeOK
  <1>1. CASE lagged
    <2>1. buf' = buf /\ lagged' = FALSE
      BY <1>1 DEF TakeSignal
    <2>2. lagged' \in BOOLEAN /\ (lagged' => lagged)
      BY <1>1, <2>1
    <2>3. \A i \in 1..Len(buf') : \E j \in 1..Len(buf) : buf'[i] = buf[j]
      BY <2>1
    <2>4. buf' \in Seq(ServiceSignal) /\ Len(buf') <= Len(buf) /\ Len(buf') \in Nat
      BY <1>0, <2>1
    <2> QED
      BY <1>0, <2>2, <2>3, <2>4
  <1>2. CASE ~lagged
    <2>1. buf # <<>> /\ buf' = Tail(buf) /\ lagged' = lagged /\ buf \in Seq(ServiceSignal)
      BY <1>2 DEF TakeSignal, TypeOK
    <2> DEFINE t == Tail(buf)
    <2>2. /\ t \in Seq(ServiceSignal) /\ Len(t) = Len(buf) - 1 /\ Len(buf) > 0
          /\ \A i \in 1..Len(t) : i + 1 \in 1..Len(buf) /\ t[i] = buf[i + 1]
      BY <2>1, TailProperties
    <2>3. buf' = t
      BY <2>1
    <2> HIDE DEF t
    <2>4. Len(t) <= Len(buf) /\ Len(t) \in Nat
      BY <1>0, <2>2
    <2> QED
      BY <1>0, <2>1, <2>2, <2>3, <2>4
  <1> QED
    BY <1>1, <1>2

(* An action that leaves the signal path alone.                             *)
LEMMA SignalsUntouched ==
    ASSUME StopsAreAsked, UNCHANGED sigVars
    PROVE  StopsAreAsked'
  BY DEF StopsAreAsked, sigVars

LEMMA TaskStepType ==
    ASSUME TypeOK, NEW t \in Tasks,
           NEW to \in {"running", "draining", "finished", "panicked"}, TaskStep(t, to)
    PROVE  TypeOK'
  BY DEF TypeOK, TaskStep, sigVars, mainVars

(* Type correctness: every variable keeps its range, and the channel never  *)
(* holds more than its capacity (SignalHandler, main, stop).                *)
LEMMA TypeStep == TypeOK /\ [Next]_vars => TypeOK'
  <1> SUFFICES ASSUME TypeOK, [Next]_vars PROVE TypeOK'
    OBVIOUS
  <1>1. ASSUME NEW k \in Kinds, Deliver(k) PROVE TypeOK'
    BY <1>1, CapAssumption DEF TypeOK, Deliver, mainVars, taskVars
  <1>2. ASSUME NEW k \in Kinds, Emit(k) PROVE TypeOK'
    <2>1. Push(ToService(k)) /\ ToService(k) \in ServiceSignal
      BY <1>2, ToServiceType DEF Emit
    <2>2. buf' \in Seq(ServiceSignal) /\ Len(buf') <= SignalCap /\ lagged' \in BOOLEAN
      BY <2>1, PushProperties
    <2> QED
      BY <1>2, <2>2 DEF TypeOK, Emit, mainVars, taskVars
  <1>3. ASSUME TakeSignal PROVE /\ buf' \in Seq(ServiceSignal) /\ Len(buf') <= SignalCap
                                /\ lagged' \in BOOLEAN
    <2>1. /\ buf' \in Seq(ServiceSignal) /\ lagged' \in BOOLEAN
          /\ Len(buf') <= Len(buf) /\ Len(buf') \in Nat /\ Len(buf) \in Nat
      BY <1>3, TakeProperties
    <2> QED
      BY <2>1, CapAssumption DEF TypeOK
  <1>4. CASE MainIgnores
    BY <1>3, <1>4 DEF TypeOK, MainIgnores, mainVars, taskVars
  <1>5. CASE MainShutdown
    BY <1>3, <1>5 DEF TypeOK, MainShutdown
  <1>6. CASE MainQuit
    BY <1>3, <1>6 DEF TypeOK, MainQuit
  <1>7. CASE BeginStop
    BY <1>7 DEF TypeOK, BeginStop, Exit, MetricsAborted, sigVars
  <1>8. CASE WaitJoined
    BY <1>8 DEF TypeOK, WaitJoined, Exit, MetricsAborted, sigVars
  <1>9. CASE WaitPanics \/ WaitTimeout \/ RuntimeDrop
    BY <1>9 DEF TypeOK, WaitPanics, WaitTimeout, RuntimeDrop, Exit, sigVars, taskVars
  <1>10. CASE WaitSignal
    BY <1>3, <1>10 DEF TypeOK, WaitSignal, Exit, taskVars
  <1>11. ASSUME NEW t \in Tasks,
                TaskEnds(t) \/ ClientPanics(t) \/ ClientNotices(t)
                \/ ServerNotices(t) \/ ServerDrained(t)
         PROVE TypeOK'
    BY <1>11, TaskStepType
       DEF TaskEnds, ClientPanics, ClientNotices, ServerNotices, ServerDrained
  <1>12. ASSUME NEW t \in Tasks, PeerOpens(t) \/ PeerCloses(t) PROVE TypeOK'
    BY <1>12 DEF TypeOK, PeerOpens, PeerCloses, sigVars, mainVars
  <1>13. CASE MetricsEnds \/ NetlinkBegin \/ NetlinkDone \/ NetlinkError
    BY <1>13 DEF TypeOK, MetricsEnds, NetlinkBegin, NetlinkDone, NetlinkError,
                 sigVars, mainVars
  <1>14. CASE UNCHANGED vars
    BY <1>14 DEF TypeOK, vars, sigVars, mainVars, taskVars
  <1> QED
    BY <1>1, <1>2, <1>4, <1>5, <1>6, <1>7, <1>8, <1>9, <1>10, <1>11, <1>12, <1>13, <1>14
       DEF Next, Main

LEMMA TypeInit == Init => TypeOK
  <1> SUFFICES ASSUME Init PROVE TypeOK
    OBVIOUS
  <1>1. delivered \in 0..MaxSignals
    BY CapAssumption DEF Init
  <1>2. buf \in Seq(ServiceSignal) /\ Len(buf) <= SignalCap
    <2>1. buf = <<>> /\ SignalCap \in Nat
      BY CapAssumption DEF Init
    <2> QED
      BY <2>1
  <1>3. task \in [Tasks -> {"running", "draining", "finished", "panicked"}]
    BY DEF Init
  <1> QED
    BY <1>1, <1>2, <1>3 DEF Init, TypeOK

(* Every reachable state is well typed.                                     *)
THEOREM TypeCorrect == Spec => []TypeOK
  BY TypeInit, TypeStep, PTL DEF Spec

(* What the channel and the pending flags hold was asked for: the invariant *)
(* that carries a stop from the operating system to the main task.          *)
LEMMA StopsStep == TypeOK /\ StopsAreAsked /\ [Next]_vars => StopsAreAsked' /\ asked \subseteq asked'
  <1> SUFFICES ASSUME TypeOK, StopsAreAsked, [Next]_vars
               PROVE  StopsAreAsked' /\ asked \subseteq asked'
    OBVIOUS
  <1>1. ASSUME NEW k \in Kinds, Deliver(k) PROVE StopsAreAsked' /\ asked \subseteq asked'
    BY <1>1 DEF StopsAreAsked, Deliver
  <1>2. ASSUME NEW k \in Kinds, Emit(k) PROVE StopsAreAsked' /\ asked \subseteq asked'
    <2> DEFINE s == ToService(k)
    <2>1. Push(s) /\ s \in ServiceSignal /\ k \in asked /\ asked' = asked /\ pending' \subseteq pending
      BY <1>2, ToServiceType DEF Emit, StopsAreAsked
    <2>2. s \in {"Shutdown", "Quit"} => k \in Stops
      BY DEF ToService, Stops, Kinds
    <2> HIDE DEF s
    <2>3. \A i \in 1..Len(buf') : buf'[i] = s \/ \E j \in 1..Len(buf) : buf'[i] = buf[j]
      BY <2>1, PushProperties
    <2> QED
      BY <2>1, <2>2, <2>3 DEF StopsAreAsked
  <1>3. ASSUME TakeSignal, UNCHANGED <<pending, asked>>
        PROVE  StopsAreAsked' /\ asked \subseteq asked'
    <2>1. \A i \in 1..Len(buf') : \E j \in 1..Len(buf) : buf'[i] = buf[j]
      BY <1>3, TakeProperties
    <2> QED
      BY <1>3, <2>1 DEF StopsAreAsked
  <1>4. CASE MainIgnores \/ MainShutdown \/ MainQuit \/ WaitSignal
    BY <1>3, <1>4 DEF MainIgnores, MainShutdown, MainQuit, WaitSignal
  <1>5. ASSUME UNCHANGED sigVars PROVE StopsAreAsked' /\ asked \subseteq asked'
    BY <1>5, SignalsUntouched DEF sigVars
  <1>6. CASE BeginStop \/ WaitJoined \/ WaitPanics \/ WaitTimeout \/ RuntimeDrop
    BY <1>5, <1>6 DEF BeginStop, WaitJoined, WaitPanics, WaitTimeout, RuntimeDrop
  <1>7. ASSUME NEW t \in Tasks,
               \/ TaskEnds(t) \/ ClientPanics(t) \/ ClientNotices(t)
               \/ ServerNotices(t) \/ ServerDrained(t) \/ PeerOpens(t) \/ PeerCloses(t)
        PROVE  StopsAreAsked' /\ asked \subseteq asked'
    BY <1>5, <1>7 DEF TaskEnds, ClientPanics, ClientNotices, ServerNotices,
                      ServerDrained, TaskStep, PeerOpens, PeerCloses
  <1>8. CASE MetricsEnds \/ NetlinkBegin \/ NetlinkDone \/ NetlinkError
    BY <1>5, <1>8 DEF MetricsEnds, NetlinkBegin, NetlinkDone, NetlinkError
  <1>9. CASE UNCHANGED vars
    BY <1>5, <1>9 DEF vars
  <1> QED
    BY <1>1, <1>2, <1>4, <1>6, <1>7, <1>8, <1>9 DEF Next, Main

(* The value the main task receives is one that was asked for.              *)
LEMMA ReceivedStop ==
    ASSUME TypeOK, StopsAreAsked, Received("Shutdown") \/ Received("Quit")
    PROVE  asked \cap Stops # {}
  <1>1. buf \in Seq(ServiceSignal) /\ buf # <<>>
    BY DEF TypeOK, Received
  <1>2. 1 \in 1..Len(buf) /\ buf[1] = Head(buf)
    BY <1>1
  <1>3. buf[1] \in {"Shutdown", "Quit"}
    BY <1>2 DEF Received
  <1> QED
    BY <1>2, <1>3 DEF StopsAreAsked

LEMMA AskedStep ==
    TypeOK /\ StopsAreAsked /\ StopsOnlyWhenAsked /\ [Next]_vars => StopsOnlyWhenAsked'
  <1> SUFFICES ASSUME TypeOK, StopsAreAsked, StopsOnlyWhenAsked, [Next]_vars
               PROVE  StopsOnlyWhenAsked'
    OBVIOUS
  <1>1. asked \subseteq asked'
    BY StopsStep
  <1>2. CASE phase # "main"
    BY <1>1, <1>2 DEF StopsOnlyWhenAsked
  <1>3. CASE phase = "main" /\ (MainShutdown \/ MainQuit)
    BY <1>1, <1>3, ReceivedStop DEF StopsOnlyWhenAsked, MainShutdown, MainQuit
  <1>4. CASE phase = "main" /\ ~MainShutdown /\ ~MainQuit
    <2>1. phase' = phase
      BY <1>4 DEF Next, Main, Deliver, Emit, MainIgnores, BeginStop, WaitJoined,
         WaitPanics, WaitTimeout, WaitSignal, RuntimeDrop, TaskEnds, ClientPanics,
         ClientNotices, ServerNotices, ServerDrained, TaskStep, PeerOpens, PeerCloses,
         MetricsEnds, NetlinkBegin, NetlinkDone, NetlinkError, mainVars, vars
    <2> QED
      BY <1>4, <2>1 DEF StopsOnlyWhenAsked
  <1> QED
    BY <1>2, <1>3, <1>4

(* The process leaves its main loop only if it was told to: no reload, no   *)
(* overflow of the signal channel and no death of a task stops it.          *)
THEOREM AskedCorrect == Spec => []StopsOnlyWhenAsked
  <1>1. Init => TypeOK /\ StopsAreAsked /\ StopsOnlyWhenAsked
    BY TypeInit DEF Init, StopsAreAsked, StopsOnlyWhenAsked
  <1>2. TypeOK /\ StopsAreAsked /\ StopsOnlyWhenAsked /\ [Next]_vars
          => TypeOK' /\ StopsAreAsked' /\ StopsOnlyWhenAsked'
    BY TypeStep, StopsStep, AskedStep
  <1> QED
    BY <1>1, <1>2, PTL DEF Spec

(* The shutdown channel is open, and no server drains, as long as the main  *)
(* task is in its loop.                                                     *)
LEMMA ServesStep ==
    TypeOK /\ ServesUntilAsked /\ [Next]_vars => ServesUntilAsked'
  <1> SUFFICES ASSUME TypeOK, ServesUntilAsked, [Next]_vars, phase' = "main"
               PROVE  shutdown' = "open" /\ \A t \in Tasks : task'[t] # "draining"
    BY DEF ServesUntilAsked
  <1>1. ASSUME NEW t \in Tasks, NEW to, to # "draining", TaskStep(t, to)
        PROVE  shutdown' = "open" /\ \A u \in Tasks : task'[u] # "draining"
    BY <1>1 DEF TypeOK, TaskStep, ServesUntilAsked, mainVars
  <1>2. ASSUME NEW t \in Tasks,
               \/ TaskEnds(t) \/ ClientPanics(t) \/ ClientNotices(t)
               \/ ServerDrained(t)
        PROVE  shutdown' = "open" /\ \A u \in Tasks : task'[u] # "draining"
    BY <1>1, <1>2 DEF TaskEnds, ClientPanics, ClientNotices, ServerDrained
  <1>3. ASSUME NEW t \in Tasks, ServerNotices(t) PROVE FALSE
    BY <1>3 DEF ServerNotices, Told, TaskStep, ServesUntilAsked, mainVars
  <1>4. CASE MainShutdown \/ MainQuit \/ BeginStop \/ WaitJoined \/ WaitPanics
             \/ WaitTimeout \/ WaitSignal \/ RuntimeDrop
    BY <1>4 DEF MainShutdown, MainQuit, BeginStop, WaitJoined, WaitPanics,
                WaitTimeout, WaitSignal, RuntimeDrop, Exit
  <1>5. ASSUME UNCHANGED <<phase, shutdown, task>>
        PROVE  shutdown' = "open" /\ \A t \in Tasks : task'[t] # "draining"
    BY <1>5 DEF ServesUntilAsked
  <1>6. ASSUME NEW k \in Kinds, Deliver(k) \/ Emit(k)
        PROVE  shutdown' = "open" /\ \A t \in Tasks : task'[t] # "draining"
    BY <1>5, <1>6 DEF Deliver, Emit, mainVars, taskVars
  <1>7. ASSUME NEW t \in Tasks, PeerOpens(t) \/ PeerCloses(t)
        PROVE  shutdown' = "open" /\ \A u \in Tasks : task'[u] # "draining"
    BY <1>5, <1>7 DEF PeerOpens, PeerCloses, mainVars
  <1>8. CASE MainIgnores \/ MetricsEnds \/ NetlinkBegin \/ NetlinkDone \/ NetlinkError
    BY <1>5, <1>8 DEF MainIgnores, MetricsEnds, NetlinkBegin, NetlinkDone,
                      NetlinkError, mainVars, taskVars
  <1>9. CASE UNCHANGED vars
    BY <1>5, <1>9 DEF vars, mainVars, taskVars
  <1> QED
    BY <1>2, <1>3, <1>4, <1>6, <1>7, <1>8, <1>9 DEF Next, Main

(* No server turns its peers away while the main task still serves.         *)
THEOREM ServesCorrect == Spec => []ServesUntilAsked
  <1>1. Init => TypeOK /\ ServesUntilAsked
    BY TypeInit DEF Init, ServesUntilAsked
  <1> QED
    BY <1>1, TypeStep, ServesStep, PTL DEF Spec

(* What the steps of the other tasks cannot undo: a task that is over stays *)
(* over, a processor that ended stays ended.                                *)
LEMMA OverStays ==
    ASSUME TypeOK, [Next]_vars
    PROVE  /\ \A t \in Tasks : Over(t) => Over(t)'
           /\ metrics = "ended" => metrics' = "ended"
  <1>1. ASSUME NEW t \in Tasks, NEW to, task[t] \in {"running", "draining"}, TaskStep(t, to)
        PROVE  /\ \A u \in Tasks : Over(u) => Over(u)'
               /\ metrics = "ended" => metrics' = "ended"
    BY <1>1 DEF TypeOK, TaskStep, Over
  <1>2. ASSUME NEW t \in Tasks,
               \/ TaskEnds(t) \/ ClientPanics(t) \/ ClientNotices(t)
               \/ ServerNotices(t) \/ ServerDrained(t)
        PROVE  /\ \A u \in Tasks : Over(u) => Over(u)'
               /\ metrics = "ended" => metrics' = "ended"
    BY <1>1, <1>2 DEF TaskEnds, ClientPanics, ClientNotices, ServerNotices, ServerDrained
  <1>3. ASSUME UNCHANGED task, UNCHANGED metrics \/ metrics' = "ended"
        PROVE  /\ \A u \in Tasks : Over(u) => Over(u)'
               /\ metrics = "ended" => metrics' = "ended"
    BY <1>3 DEF Over
  <1>4. ASSUME NEW k \in Kinds, Deliver(k) \/ Emit(k)
        PROVE  UNCHANGED <<task, metrics>>
    BY <1>4 DEF Deliver, Emit, taskVars
  <1>5. ASSUME NEW t \in Tasks, PeerOpens(t) \/ PeerCloses(t)
        PROVE  UNCHANGED <<task, metrics>>
    BY <1>5 DEF PeerOpens, PeerCloses
  <1>6. ASSUME Main \/ MetricsEnds \/ NetlinkBegin \/ NetlinkDone \/ NetlinkError
        PROVE  UNCHANGED task /\ (UNCHANGED metrics \/ metrics' = "ended")
    BY <1>6 DEF Main, MainIgnores, MainShutdown, MainQuit, BeginStop, WaitJoined,
                WaitPanics, WaitTimeout, WaitSignal, RuntimeDrop, MetricsAborted,
                MetricsEnds, NetlinkBegin, NetlinkDone, NetlinkError, taskVars
  <1>7. CASE UNCHANGED vars
    BY <1>3, <1>7 DEF vars, taskVars
  <1> QED
    BY <1>2, <1>3, <1>4, <1>5, <1>6, <1>7 DEF Next

LEMMA JoinedStep ==
    TypeOK /\ JoinedIsComplete /\ [Next]_vars => JoinedIsComplete'
  <1> SUFFICES ASSUME TypeOK, JoinedIsComplete, [Next]_vars, exitBy' = "joined"
               PROVE  metrics' = "ended" /\ \A t \in Tasks : Over(t)'
    BY DEF JoinedIsComplete, Over
  <1>1. CASE WaitJoined
    BY <1>1 DEF WaitJoined, Joined, MetricsAborted, Over
  <1>2. CASE ~WaitJoined
    <2>1. exitBy = "joined"
      BY <1>2 DEF Next, Main, Deliver, Emit, MainIgnores, MainShutdown, MainQuit, BeginStop,
         WaitPanics, WaitTimeout, WaitSignal, RuntimeDrop, Exit, TaskEnds, ClientPanics,
         ClientNotices, ServerNotices, ServerDrained, TaskStep, PeerOpens, PeerCloses,
         MetricsEnds, NetlinkBegin, NetlinkDone, NetlinkError, mainVars, vars
    <2> QED
      BY <2>1, OverStays DEF JoinedIsComplete
  <1> QED
    BY <1>1, <1>2

(* A shutdown that reports every task joined joined every task, and stopped *)
(* the metrics processor before the process returned.                       *)
THEOREM JoinedCorrect == Spec => []JoinedIsComplete
  <1>1. Init => TypeOK /\ JoinedIsComplete
    BY TypeInit DEF Init, JoinedIsComplete
  <1> QED
    BY <1>1, TypeStep, JoinedStep, PTL DEF Spec

LEMMA GracefulStep ==
    ASSUME ~JoinSetStop
    PROVE  TypeOK /\ GracefulIsComplete /\ [Next]_vars => GracefulIsComplete'
  <1> SUFFICES ASSUME TypeOK, GracefulIsComplete, [Next]_vars, exitBy' \in {"early", "joined"}
               PROVE  metrics' = "ended" /\ \A t \in Tasks : Over(t)'
    BY DEF GracefulIsComplete, Over
  <1>1. CASE WaitJoined
    BY <1>1 DEF WaitJoined, Joined, MetricsAborted, Over
  <1>2. CASE BeginStop /\ phase' = "exiting"
    <2>1. Ended # {} /\ MetricsAborted /\ task' = task
      BY <1>2 DEF BeginStop
    <2>2. PICK t \in Tasks : Over(t)
      BY <2>1 DEF Ended
    <2>3. Tasks = {t}
      BY <2>2, TasksAssumption
    <2> QED
      BY <2>1, <2>2, <2>3 DEF MetricsAborted, Over
  <1>3. CASE ~WaitJoined /\ ~(BeginStop /\ phase' = "exiting")
    <2>1. exitBy' = exitBy
      BY <1>3 DEF Next, Main, Deliver, Emit, MainIgnores, MainShutdown, MainQuit, BeginStop,
         WaitPanics, WaitTimeout, WaitSignal, RuntimeDrop, Exit, TaskEnds, ClientPanics,
         ClientNotices, ServerNotices, ServerDrained, TaskStep, PeerOpens, PeerCloses,
         MetricsEnds, NetlinkBegin, NetlinkDone, NetlinkError, mainVars, vars
    <2> QED
      BY <2>1, OverStays DEF GracefulIsComplete
  <1> QED
    BY <1>1, <1>2, <1>3

(* A service with one handle, the agents' case, never reports a graceful    *)
(* end before its client is over and its metrics processor stopped.         *)
THEOREM GracefulCorrect ==
    ASSUME ~JoinSetStop
    PROVE  Spec => []GracefulIsComplete
  <1>1. Init => TypeOK /\ GracefulIsComplete
    BY TypeInit DEF Init, GracefulIsComplete
  <1>2. TypeOK /\ GracefulIsComplete /\ [Next]_vars => TypeOK' /\ GracefulIsComplete'
    BY TypeStep, GracefulStep
  <1> QED
    BY <1>1, <1>2, PTL DEF Spec

-----------------------------------------------------------------------------
(* The process keeps the promise of Service.                                *)

(* Where the values on their way to the main task come from: each stands    *)
(* for a kind of its own, and for a signal that nobody else answers for, so *)
(* that the one the main task left its loop for is not met again.           *)
Sourced ==
    /\ pending \subseteq asked
    /\ \A i \in 1..Len(buf) :
         /\ buf[i] = "Shutdown" => asked \cap {"SIGINT", "SIGTERM"} # {}
         /\ buf[i] = "Quit" => "SIGQUIT" \in asked

Taken == IF phase = "main" THEN 0 ELSE 1

Numbered ==
    /\ IsFiniteSet(pending)
    /\ Len(buf) + Cardinality(pending) + Taken <= delivered
    /\ lagged => buf # <<>>

LEMMA PushNumbers ==
    ASSUME TypeOK, NEW s \in ServiceSignal, Push(s)
    PROVE  Len(buf') \in Nat /\ Len(buf') <= Len(buf) + 1 /\ buf' # <<>>
  <1>0. SignalCap \in Nat /\ SignalCap > 0 /\ Len(buf) \in Nat /\ buf \in Seq(ServiceSignal)
    BY CapAssumption DEF TypeOK
  <1> DEFINE t == IF Len(buf) = SignalCap THEN Tail(buf) ELSE buf
  <1>1. t \in Seq(ServiceSignal) /\ Len(t) <= Len(buf)
    <2>1. CASE Len(buf) = SignalCap
      <3>1. buf # <<>>
        BY <1>0, <2>1
      <3> QED
        BY <1>0, <2>1, <3>1, TailProperties
    <2>2. CASE Len(buf) # SignalCap
      BY <1>0, <2>2
    <2> QED
      BY <2>1, <2>2
  <1>2. buf' = Append(t, s)
    BY DEF Push
  <1> HIDE DEF t
  <1>3. Len(buf') = Len(t) + 1 /\ Len(t) \in Nat /\ buf' \in Seq(ServiceSignal)
    BY <1>1, <1>2, AppendProperties
  <1> QED
    BY <1>0, <1>1, <1>3

LEMMA TakeNumbers ==
    ASSUME TypeOK, TakeSignal
    PROVE  /\ lagged => buf' = buf /\ ~lagged'
           /\ ~lagged => Len(buf') = Len(buf) - 1 /\ Len(buf) > 0 /\ lagged' = lagged
  <1>0. buf \in Seq(ServiceSignal)
    BY DEF TypeOK
  <1>1. CASE lagged
    BY <1>1 DEF TakeSignal
  <1>2. CASE ~lagged
    <2>1. buf # <<>> /\ buf' = Tail(buf) /\ lagged' = lagged
      BY <1>2 DEF TakeSignal
    <2> QED
      BY <1>0, <1>2, <2>1, TailProperties
  <1> QED
    BY <1>1, <1>2

(* The steps that touch the signal path; no other one leaves the main loop.  *)
LEMMA SignalSteps ==
    ASSUME [Next]_vars
    PROVE  \/ \E k \in Kinds : Deliver(k) \/ Emit(k)
           \/ MainIgnores \/ MainShutdown \/ MainQuit \/ WaitSignal
           \/ UNCHANGED sigVars /\ Taken' = Taken
  <1>1. CASE BeginStop \/ WaitJoined \/ WaitPanics \/ WaitTimeout \/ RuntimeDrop
    BY <1>1 DEF BeginStop, WaitJoined, WaitPanics, WaitTimeout, RuntimeDrop, Exit, Taken
  <1>2. ASSUME NEW t \in Tasks,
               \/ TaskEnds(t) \/ ClientPanics(t) \/ ClientNotices(t)
               \/ ServerNotices(t) \/ ServerDrained(t) \/ PeerOpens(t) \/ PeerCloses(t)
        PROVE  UNCHANGED <<sigVars, mainVars>>
    BY <1>2 DEF TaskEnds, ClientPanics, ClientNotices, ServerNotices,
                ServerDrained, TaskStep, PeerOpens, PeerCloses
  <1>3. CASE MetricsEnds \/ NetlinkBegin \/ NetlinkDone \/ NetlinkError
    BY <1>3 DEF MetricsEnds, NetlinkBegin, NetlinkDone, NetlinkError, mainVars, Taken
  <1>4. CASE UNCHANGED vars
    BY <1>4 DEF vars, mainVars, Taken
  <1> QED
    BY <1>1, <1>2, <1>3, <1>4 DEF Next, Main, mainVars, Taken

LEMMA SourcedStep == TypeOK /\ Sourced /\ [Next]_vars => Sourced'
  <1> SUFFICES ASSUME TypeOK, Sourced, [Next]_vars PROVE Sourced'
    OBVIOUS
  <1>1. ASSUME NEW k \in Kinds, Deliver(k) PROVE Sourced'
    BY <1>1 DEF Sourced, Deliver
  <1>2. ASSUME NEW k \in Kinds, Emit(k) PROVE Sourced'
    <2> DEFINE s == ToService(k)
    <2>1. Push(s) /\ s \in ServiceSignal /\ k \in asked /\ asked' = asked /\ pending' \subseteq pending
      BY <1>2, ToServiceType DEF Emit, Sourced
    <2>2. (s = "Shutdown" => k \in {"SIGINT", "SIGTERM"}) /\ (s = "Quit" => k = "SIGQUIT")
      BY DEF ToService, Kinds
    <2> HIDE DEF s
    <2>3. \A i \in 1..Len(buf') : buf'[i] = s \/ \E j \in 1..Len(buf) : buf'[i] = buf[j]
      BY <2>1, PushProperties
    <2> QED
      BY <2>1, <2>2, <2>3 DEF Sourced
  <1>3. ASSUME TakeSignal, UNCHANGED <<pending, asked>> PROVE Sourced'
    <2>1. \A i \in 1..Len(buf') : \E j \in 1..Len(buf) : buf'[i] = buf[j]
      BY <1>3, TakeProperties
    <2> QED
      BY <1>3, <2>1 DEF Sourced
  <1>4. CASE MainIgnores \/ MainShutdown \/ MainQuit \/ WaitSignal
    BY <1>3, <1>4 DEF MainIgnores, MainShutdown, MainQuit, WaitSignal
  <1>5. CASE UNCHANGED sigVars
    BY <1>5 DEF Sourced, sigVars
  <1> QED
    BY <1>1, <1>2, <1>4, <1>5, SignalSteps

LEMMA NumberedStep == TypeOK /\ Numbered /\ [Next]_vars => Numbered'
  <1> SUFFICES ASSUME TypeOK, Numbered, [Next]_vars PROVE Numbered'
    OBVIOUS
  <1>0. /\ Cardinality(pending) \in Nat /\ IsFiniteSet(pending) /\ Len(buf) \in Nat
        /\ delivered \in Nat /\ buf \in Seq(ServiceSignal)
        /\ Len(buf) + Cardinality(pending) + Taken <= delivered
        /\ Taken \in {0, 1} /\ Taken' \in {0, 1}
    BY FS_CardinalityType DEF Numbered, TypeOK, Taken
  <1>1. ASSUME NEW k \in Kinds, Deliver(k) PROVE Numbered'
    <2>1. /\ IsFiniteSet(pending') /\ Cardinality(pending') \in Nat
          /\ Cardinality(pending') <= Cardinality(pending) + 1
      <3>1. pending' = pending \cup {k}
        BY <1>1 DEF Deliver
      <3>2. /\ IsFiniteSet(pending \cup {k})
            /\ \/ Cardinality(pending \cup {k}) = Cardinality(pending)
               \/ Cardinality(pending \cup {k}) = Cardinality(pending) + 1
        BY <1>0, FS_AddElement
      <3> QED
        BY <1>0, <3>1, <3>2
    <2>2. delivered' = delivered + 1 /\ buf' = buf /\ lagged' = lagged /\ Taken' = Taken
      BY <1>1 DEF Deliver, mainVars, Taken
    <2> QED
      BY <1>0, <2>1, <2>2 DEF Numbered
  <1>2. ASSUME NEW k \in Kinds, Emit(k) PROVE Numbered'
    <2>1. /\ IsFiniteSet(pending') /\ Cardinality(pending') \in Nat
          /\ Cardinality(pending') = Cardinality(pending) - 1
      BY <1>0, <1>2, FS_RemoveElement, FS_CardinalityType DEF Emit
    <2>2. Push(ToService(k)) /\ ToService(k) \in ServiceSignal /\ delivered' = delivered /\ Taken' = Taken
      BY <1>2, ToServiceType DEF Emit, mainVars, Taken
    <2>3. Len(buf') \in Nat /\ Len(buf') <= Len(buf) + 1 /\ buf' # <<>>
      BY <2>2, PushNumbers
    <2> QED
      BY <1>0, <2>1, <2>2, <2>3 DEF Numbered
  <1>3. ASSUME TakeSignal, UNCHANGED <<pending, delivered>>,
               Taken' = Taken \/ (~lagged /\ Taken' = 1)
        PROVE  Numbered'
    <2>1. Len(buf') \in Nat /\ (lagged => buf' = buf /\ ~lagged')
          /\ (~lagged => Len(buf') = Len(buf) - 1 /\ ~lagged')
      BY <1>3, TakeNumbers, TakeProperties
    <2>2. Len(buf') + Cardinality(pending') + Taken' <= delivered'
      <3>1. CASE lagged
        BY <1>0, <1>3, <2>1, <3>1
      <3>2. CASE ~lagged
        BY <1>0, <1>3, <2>1, <3>2
      <3> QED
        BY <3>1, <3>2
    <2> QED
      BY <1>3, <2>1, <2>2 DEF Numbered
  <1>4. CASE MainIgnores \/ MainShutdown \/ MainQuit \/ WaitSignal
    BY <1>3, <1>4 DEF MainIgnores, MainShutdown, MainQuit, WaitSignal, Received, Exit, mainVars, Taken
  <1>5. CASE UNCHANGED sigVars /\ Taken' = Taken
    BY <1>5 DEF Numbered, sigVars
  <1> QED
    BY <1>1, <1>2, <1>4, <1>5, SignalSteps

(* The states of Service the states of Lifecycle stand for.                 *)
Life == [t \in Tasks |-> LifeOf(t)]

LEMMA StageOf ==
    ASSUME TypeOK
    PROVE  /\ phase = "main" <=> Stage = "serving"
           /\ phase \in {"stopping", "waiting"} <=> Stage = "stopping"
           /\ phase = "exiting" <=> Stage = "leaving"
           /\ phase = "exited" <=> Stage = "gone"
           /\ Stage \in {"serving", "stopping", "leaving", "gone"}
  BY DEF TypeOK, Stage

LEMMA LifeOfTask ==
    ASSUME TypeOK, NEW t \in Tasks
    PROVE  /\ task[t] = "running" => Life[t] = "up"
           /\ task[t] = "draining" => Life[t] = "closing"
           /\ Over(t) <=> Life[t] = "over"
  BY DEF TypeOK, Life, LifeOf, Over

\* What of the state the tasks' steps leave alone, for Service.
Rest == <<asked, delivered, Stage, exitBy, metrics = "running">>

LEMMA LifeStep ==
    ASSUME TypeOK, NEW t \in Tasks, NEW to,
           NEW l \in {"closing", "over"}, task[t] \in {"running", "draining"}, Alive,
           TaskStep(t, to), to \in {"draining", "finished", "panicked"},
           l = "closing" <=> to = "draining"
    PROVE  /\ Life' = [Life EXCEPT ![t] = l] /\ Life[t] # "over"
           /\ UNCHANGED Rest /\ Stage # "gone"
  <1>1. task' = [task EXCEPT ![t] = to] /\ task \in [Tasks -> {"running", "draining", "finished", "panicked"}]
    BY DEF TaskStep, TypeOK
  <1>2. Life' = [Life EXCEPT ![t] = l]
    <2>1. ASSUME NEW u \in Tasks PROVE Life'[u] = IF u = t THEN l ELSE Life[u]
      BY <1>1 DEF Life, LifeOf, Over
    <2> QED
      BY <2>1 DEF Life
  <1>3. Life[t] # "over"
    BY LifeOfTask DEF Over
  <1>4. UNCHANGED Rest
    BY DEF TaskStep, Rest, sigVars, mainVars, Stage
  <1> QED
    BY <1>2, <1>3, <1>4, StageOf DEF Alive

LEMMA EndStep ==
    ASSUME TypeOK, NEW t \in Tasks, task[t] \in {"running", "draining"},
           \/ TaskEnds(t) \/ ClientPanics(t) \/ ClientNotices(t) \/ ServerDrained(t)
    PROVE  Promise!End(t)
  <1>1. Alive
    BY DEF TaskEnds, ClientPanics, ClientNotices, ServerDrained, TaskStep
  <1>2. /\ Life' = [Life EXCEPT ![t] = "over"] /\ Life[t] # "over"
        /\ UNCHANGED Rest /\ Stage # "gone"
    BY <1>1, LifeStep DEF TaskEnds, ClientPanics, ClientNotices, ServerDrained
  <1> QED
    BY <1>2 DEF Promise!End, Life, Rest

LEMMA CloseStep ==
    ASSUME TypeOK, ServesUntilAsked, NEW t \in Tasks, ServerNotices(t)
    PROVE  Promise!Close(t)
  <1>1. Alive /\ task[t] = "running" /\ phase # "main"
    BY DEF ServerNotices, TaskStep, ServesUntilAsked, Told
  <1>2. Life' = [Life EXCEPT ![t] = "closing"] /\ UNCHANGED Rest /\ Stage # "gone"
    BY <1>1, LifeStep DEF ServerNotices
  <1>3. Life[t] = "up" /\ Stage \in {"stopping", "leaving"}
    BY <1>1, <1>2, LifeOfTask, StageOf
  <1> QED
    BY <1>2, <1>3 DEF Promise!Close, Life, Rest

LEMMA LifeKept == UNCHANGED task => UNCHANGED Life
  BY DEF Life, LifeOf, Over

LEMMA StageKept == UNCHANGED phase => UNCHANGED Stage
  BY DEF Stage

(* The first value in the channel is one that was asked for.                *)
LEMMA SourcedHead ==
    ASSUME TypeOK, Sourced
    PROVE  /\ Received("Shutdown") => asked \cap {"SIGINT", "SIGTERM"} # {}
           /\ Received("Quit") => "SIGQUIT" \in asked
  <1> SUFFICES ASSUME buf # <<>>
               PROVE  /\ Head(buf) = "Shutdown" => asked \cap {"SIGINT", "SIGTERM"} # {}
                      /\ Head(buf) = "Quit" => "SIGQUIT" \in asked
    BY DEF Received
  <1>1. buf \in Seq(ServiceSignal)
    BY DEF TypeOK
  <1>2. 1 \in 1..Len(buf) /\ buf[1] = Head(buf)
    BY <1>1
  <1> QED
    BY <1>2 DEF Sourced

(* What the main task meets while it waits is not what made it stop.        *)
LEMMA SecondRequest ==
    ASSUME TypeOK, Numbered, phase # "main", Readable
    PROVE  delivered > 1
  <1>1. Len(buf) > 0 /\ Len(buf) \in Nat /\ Cardinality(pending) \in Nat /\ delivered \in Nat
    BY FS_CardinalityType DEF Numbered, TypeOK, Readable
  <1> QED
    BY <1>1 DEF Numbered, Taken

LEMMA MainSteps ==
    ASSUME TypeOK, TypeOK', Sourced, Numbered, Main
    PROVE  Promise!Next \/ UNCHANGED Promise!vars
  <1>1. CASE MainIgnores
    BY <1>1, LifeKept, StageKept
       DEF MainIgnores, mainVars, taskVars, Promise!vars, Life
  <1>2. CASE MainShutdown
    <2>1. Promise!BeginStop
      BY <1>2, StageOf, SourcedHead, LifeKept DEF MainShutdown, Promise!BeginStop, Life, Stage
    <2> QED
      BY <2>1 DEF Promise!Next
  <1>3. CASE MainQuit
    <2>1. Promise!Quit
      BY <1>3, StageOf, SourcedHead, LifeKept DEF MainQuit, Promise!Quit, Life, Stage
    <2> QED
      BY <2>1 DEF Promise!Next
  <1>4. ASSUME NEW how \in {"joined", "early", "panic", "signal", "timeout"},
               phase \in {"stopping", "waiting"}, Exit(how), Promise!Cause(how),
               UNCHANGED <<asked, delivered, task>>,
               (metrics' = "running") <=> (how \notin {"joined", "early"} /\ metrics = "running")
        PROVE  Promise!Next
    <2>1. Stage = "stopping" /\ Stage' = "leaving" /\ exitBy' = how
      BY <1>4 DEF Exit, Stage
    <2>2. Promise!Leave(how)
      BY <1>4, <2>1, LifeKept DEF Promise!Leave, Life
    <2> QED
      BY <2>2 DEF Promise!Next
  <1>5. CASE BeginStop
    <2>1. CASE Ended # {} /\ Exit("early") /\ MetricsAborted
      <3>1. \E t \in Tasks : Life[t] = "over"
        BY <2>1, LifeOfTask DEF Ended
      <3>2. Promise!Cause("early")
        BY <3>1 DEF Promise!Cause, Life
      <3> QED
        BY <1>4, <1>5, <2>1, <3>2 DEF BeginStop, MetricsAborted, sigVars
    <2>2. CASE phase' = "waiting" /\ UNCHANGED <<exitBy, metrics>>
      <3>1. UNCHANGED Stage
        BY <1>5, <2>2 DEF BeginStop, Stage
      <3> QED
        BY <1>5, <2>2, <3>1, LifeKept DEF BeginStop, sigVars, Promise!vars, Life
    <2> QED
      BY <1>5, <2>1, <2>2 DEF BeginStop
  <1>6. CASE WaitJoined
    <2>1. \A t \in Tasks : Life[t] = "over"
      BY <1>6, LifeOfTask DEF WaitJoined, Joined, Over
    <2>2. Promise!Cause("joined")
      BY <2>1 DEF Promise!Cause, Life
    <2> QED
      BY <1>4, <1>6, <2>2 DEF WaitJoined, MetricsAborted, sigVars
  <1>7. CASE WaitPanics
    <2>1. \E t \in Tasks : Life[t] = "over"
      BY <1>7, LifeOfTask DEF WaitPanics, Over
    <2>2. Promise!Cause("panic")
      BY <2>1 DEF Promise!Cause, Life
    <2> QED
      BY <1>4, <1>7, <2>2 DEF WaitPanics, sigVars, taskVars
  <1>8. CASE WaitTimeout
    BY <1>4, <1>8 DEF WaitTimeout, sigVars, taskVars, Promise!Cause
  <1>9. CASE WaitSignal
    <2>1. Promise!Cause("signal")
      BY <1>9, SecondRequest DEF WaitSignal, Promise!Cause
    <2> QED
      BY <1>4, <1>9, <2>1 DEF WaitSignal, sigVars, taskVars
  <1>10. CASE RuntimeDrop
    <2>1. Promise!Vanish
      BY <1>10, StageOf, LifeKept DEF RuntimeDrop, Promise!Vanish, Life, Stage, sigVars, taskVars
    <2> QED
      BY <2>1 DEF Promise!Next
  <1> QED
    BY <1>1, <1>2, <1>3, <1>5, <1>6, <1>7, <1>8, <1>9, <1>10 DEF Main

LEMMA ServiceStep ==
    TypeOK /\ TypeOK' /\ ServesUntilAsked /\ Sourced /\ Numbered /\ [Next]_vars
        => [Promise!Next]_(Promise!vars)
  <1> SUFFICES ASSUME TypeOK, TypeOK', ServesUntilAsked, Sourced, Numbered, [Next]_vars
               PROVE  Promise!Next \/ UNCHANGED Promise!vars
    OBVIOUS
  <1>1. ASSUME NEW k \in Kinds, Deliver(k) PROVE Promise!Next
    <2>1. Promise!Ask(k)
      BY <1>1, StageOf, StageKept, LifeKept
         DEF Deliver, Alive, mainVars, taskVars, Promise!Ask, Life
    <2> QED
      BY <2>1 DEF Promise!Next
  <1>2. ASSUME UNCHANGED <<asked, delivered, phase, exitBy, task, metrics>>
        PROVE  UNCHANGED Promise!vars
    BY <1>2, StageKept, LifeKept DEF Promise!vars, Life
  <1>3. ASSUME NEW k \in Kinds, Emit(k) PROVE UNCHANGED Promise!vars
    BY <1>2, <1>3 DEF Emit, mainVars, taskVars
  <1>4. ASSUME NEW t \in Tasks,
               TaskEnds(t) \/ ClientPanics(t) \/ ClientNotices(t) \/ ServerDrained(t)
        PROVE  Promise!Next
    <2>1. Promise!End(t)
      BY <1>4, EndStep DEF TaskEnds, ClientPanics, ClientNotices, ServerDrained
    <2> QED
      BY <2>1 DEF Promise!Next
  <1>5. ASSUME NEW t \in Tasks, ServerNotices(t) PROVE Promise!Next
    BY <1>5, CloseStep DEF Promise!Next
  <1>6. ASSUME NEW t \in Tasks, PeerOpens(t) \/ PeerCloses(t) PROVE UNCHANGED Promise!vars
    BY <1>2, <1>6 DEF PeerOpens, PeerCloses, sigVars, mainVars
  <1>7. CASE MetricsEnds
    <2>1. Promise!Silence
      BY <1>7, StageOf, StageKept, LifeKept
         DEF MetricsEnds, Alive, sigVars, mainVars, Promise!Silence, Life
    <2> QED
      BY <2>1 DEF Promise!Next
  <1>8. CASE NetlinkBegin \/ NetlinkDone \/ NetlinkError
    BY <1>2, <1>8 DEF NetlinkBegin, NetlinkDone, NetlinkError, sigVars, mainVars
  <1>9. CASE UNCHANGED vars
    BY <1>2, <1>9 DEF vars, sigVars, mainVars, taskVars
  <1> QED
    BY <1>1, <1>3, <1>4, <1>5, <1>6, <1>7, <1>8, <1>9, MainSteps DEF Next

(* The process implements Service: whatever the order of signals, stops,    *)
(* failures and timeouts in main, stop and the signal channel, it leaves    *)
(* only for the cause it reports.                                           *)
THEOREM ServiceCorrect == Spec => ImplementsService
  <1>1. Init => TypeOK /\ ServesUntilAsked /\ Sourced /\ Numbered
    <2> SUFFICES ASSUME Init PROVE ServesUntilAsked /\ Sourced /\ Numbered
      BY TypeInit
    <2>1. IsFiniteSet(pending) /\ Cardinality(pending) = 0
      BY FS_EmptySet DEF Init
    <2> QED
      BY <2>1 DEF Init, ServesUntilAsked, Sourced, Numbered, Taken
  <1>2. Init => Promise!Init
    <2> SUFFICES ASSUME Init PROVE Promise!Init
      OBVIOUS
    <2>1. Stage = "serving" /\ \A t \in Tasks : LifeOf(t) = "up"
      BY DEF Init, Stage, LifeOf, Over
    <2>2. [t \in Tasks |-> LifeOf(t)] = [t \in Tasks |-> "up"]
      BY <2>1
    <2>3. asked = {} /\ delivered = 0 /\ exitBy = "none" /\ metrics = "running"
      BY DEF Init
    <2>4. (metrics = "running") = TRUE
      BY <2>3, Zenon
    <2> QED
      BY <2>1, <2>2, <2>3, <2>4, Zenon DEF Promise!Init
  <1>3. TypeOK /\ ServesUntilAsked /\ Sourced /\ Numbered /\ [Next]_vars
          => /\ TypeOK' /\ ServesUntilAsked' /\ Sourced' /\ Numbered'
             /\ [Promise!Next]_(Promise!vars)
    BY TypeStep, ServesStep, SourcedStep, NumberedStep, ServiceStep
  <1> QED
    BY <1>1, <1>2, <1>3, PTL DEF Spec, ImplementsService, Promise!Spec

=============================================================================
