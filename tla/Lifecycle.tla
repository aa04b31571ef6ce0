----------------------------- MODULE Lifecycle -----------------------------
(* The life of a quicmop process, from the moment its tasks are spawned to  *)
(* the moment the process is gone: operating system signals travel through  *)
(* SignalHandler's broadcast channel to the main task, the main task tells  *)
(* the servers and clients to stop, waits for them, and returns; dropping   *)
(* the runtime then waits for the worker threads.  The four binaries share  *)
(* this code; they differ in their tasks and in how the tasks' handles are  *)
(* kept.                                                                    *)
EXTENDS Naturals, Sequences, FiniteSets

CONSTANTS
    Servers,      \* gRPC servers run with serve_with_shutdown
    Clients,      \* loops that push a stream to the collector
    JoinSetStop,  \* handles kept in a JoinSet (TRUE) or one JoinHandle (FALSE)
    NetlinkReads, \* the request stream reads a blocking netlink socket
    DumpMayFail,  \* the kernel may answer a netlink dump with an error
    SignalCap,    \* capacity of the broadcast channel of signals
    MaxSignals    \* bound: signals the operating system delivers in a run

Tasks == Servers \cup Clients

ASSUME TasksAssumption ==
    /\ Servers \cap Clients = {}
    /\ Tasks # {}
    /\ JoinSetStop \in BOOLEAN
    /\ NetlinkReads \in BOOLEAN
    /\ DumpMayFail \in BOOLEAN
    /\ ~JoinSetStop => \E t \in Tasks : Tasks = {t}
ASSUME CapAssumption == SignalCap \in Nat \ {0} /\ MaxSignals \in Nat

VARIABLES
    pending,    \* signal kinds delivered by the system, not yet taken by the stream
    delivered,  \* how many signals the system delivered
    asked,      \* history: the kinds delivered so far
    buf,        \* the broadcast channel as the main task's receiver sees it
    lagged,     \* the channel overwrote a signal the receiver had not seen
    phase,      \* where the main task is
    exitBy,     \* what ended the main task
    shutdown,   \* the shutdown channel: open, sent or dropped
    task,       \* state of each server and client
    streams,    \* servers on which some peer holds a stream open
    metrics,    \* the metrics processor
    worker      \* the worker thread that polls the netlink reading stream

sigVars  == <<pending, delivered, asked, buf, lagged>>
mainVars == <<phase, exitBy>>
taskVars == <<shutdown, task, streams, metrics, worker>>
vars     == <<sigVars, mainVars, taskVars>>

Kinds == {"SIGINT", "SIGTERM", "SIGQUIT", "SIGHUP"}

\* Mutated form: SIGTERM handled like SIGHUP.
MutToService(k) ==
    CASE k = "SIGINT"                -> "Shutdown"
      [] k = "SIGQUIT"               -> "Quit"
      [] k \in {"SIGTERM", "SIGHUP"} -> "ReloadConfig"

\* The select of os_signals_stream.
ToService(k) ==
    CASE k \in {"SIGINT", "SIGTERM"} -> "Shutdown"
      [] k = "SIGQUIT"               -> "Quit"
      [] k = "SIGHUP"                -> "ReloadConfig"

ServiceSignal == {"ReloadConfig", "Shutdown", "Quit"}

Over(t)  == task[t] \in {"finished", "panicked"}
Ended    == {t \in Tasks : Over(t)}
Alive    == phase # "exited"
\* recv() on a broadcast channel returns a value or Err(Lagged).
Readable == lagged \/ buf # <<>>

TypeOK ==
    /\ pending \subseteq Kinds
    /\ delivered \in 0..MaxSignals
    /\ asked \subseteq Kinds
    /\ buf \in Seq(ServiceSignal) /\ Len(buf) <= SignalCap
    /\ lagged \in BOOLEAN
    /\ phase \in {"main", "stopping", "waiting", "exiting", "exited"}
    /\ exitBy \in {"none", "quit", "early", "joined", "panic", "timeout", "signal"}
    /\ shutdown \in {"open", "sent", "dropped"}
    /\ task \in [Tasks -> {"running", "draining", "finished", "panicked"}]
    /\ streams \subseteq Servers
    /\ metrics \in {"running", "ended"}
    /\ worker \in {"free", "reading", "stuck"}

\* start(): every task is spawned, the main task enters its loop.
Init ==
    /\ pending = {} /\ delivered = 0 /\ asked = {}
    /\ buf = <<>> /\ lagged = FALSE
    /\ phase = "main" /\ exitBy = "none"
    /\ shutdown = "open"
    /\ task = [t \in Tasks |-> "running"]
    /\ streams = {} /\ metrics = "running" /\ worker = "free"

-----------------------------------------------------------------------------
(* Signals.                                                                 *)

\* The system delivers a signal; tokio keeps one pending flag per kind.
Deliver(k) ==
    /\ Alive /\ delivered < MaxSignals
    /\ pending' = pending \cup {k}
    /\ delivered' = delivered + 1
    /\ asked' = asked \cup {k}
    /\ UNCHANGED <<buf, lagged, mainVars, taskVars>>

\* Mutated form: the ring grows.
MutPushGrows(s) == buf' = Append(buf, s) /\ lagged' = lagged

\* Sending on a broadcast channel never waits: when the ring is full it
\* overwrites the oldest value and the receiver's next recv is Err(Lagged).
Push(s) ==
    /\ buf' = Append(IF Len(buf) = SignalCap THEN Tail(buf) ELSE buf, s)
    /\ lagged' = (lagged \/ Len(buf) = SignalCap)

\* handle_signal_stream's task takes one signal and sends it on.
Emit(k) ==
    /\ Alive /\ k \in pending
    /\ pending' = pending \ {k}
    /\ Push(ToService(k))
    /\ UNCHANGED <<delivered, asked, mainVars, taskVars>>

-----------------------------------------------------------------------------
(* The main task.                                                           *)

\* One recv of the main task: Err(Lagged) first, then the oldest value kept.
TakeSignal ==
    IF lagged THEN lagged' = FALSE /\ buf' = buf
              ELSE buf # <<>> /\ buf' = Tail(buf) /\ lagged' = lagged

Received(s) == ~lagged /\ buf # <<>> /\ Head(buf) = s

\* Mutated form: the loop is left on a receive error or a reload.
MutMainStopsOnError ==
    /\ phase = "main"
    /\ lagged \/ Received("ReloadConfig")
    /\ TakeSignal
    /\ phase' = "stopping" /\ shutdown' = "sent"
    /\ UNCHANGED <<pending, delivered, asked, exitBy, task, streams, metrics, worker>>

\* ReloadConfig and a receive error both leave the loop running.
MainIgnores ==
    /\ phase = "main"
    /\ lagged \/ Received("ReloadConfig")
    /\ TakeSignal
    /\ UNCHANGED <<pending, delivered, asked, mainVars, taskVars>>

\* Shutdown: broadcast to the tasks, leave the loop.
MainShutdown ==
    /\ phase = "main" /\ Received("Shutdown")
    /\ TakeSignal
    /\ shutdown' = "sent" /\ phase' = "stopping"
    /\ UNCHANGED <<pending, delivered, asked, exitBy, task, streams, metrics, worker>>

\* Quit: leave at once; the shutdown sender is dropped on the way out.
MainQuit ==
    /\ phase = "main" /\ Received("Quit")
    /\ TakeSignal
    /\ shutdown' = "dropped" /\ phase' = "exiting" /\ exitBy' = "quit"
    /\ UNCHANGED <<pending, delivered, asked, task, streams, metrics, worker>>

Exit(how) == phase' = "exiting" /\ exitBy' = how

\* Mutated form: the processor is left running.
MutMetricsLeft == metrics' = metrics

\* metrics_handle.abort() and its await.
MetricsAborted == metrics' = "ended"

\* What the select of stop() joins: join_all returns when every task returned,
\* the single handle resolves even when its task panicked.
Joined == \A t \in Tasks : IF JoinSetStop THEN task[t] = "finished" ELSE Over(t)

\* stop(), up to its select: one task already over is taken for all of them.
BeginStop ==
    /\ phase = "stopping"
    /\ \/ /\ Ended # {}
          /\ Exit("early") /\ MetricsAborted
       \/ /\ Ended = {}
          /\ phase' = "waiting" /\ UNCHANGED <<exitBy, metrics>>
    /\ UNCHANGED <<sigVars, shutdown, task, streams, worker>>

WaitJoined ==
    /\ phase = "waiting" /\ Joined
    /\ Exit("joined") /\ MetricsAborted
    /\ UNCHANGED <<sigVars, shutdown, task, streams, worker>>

\* join_all resumes the panic of a task it joins.
WaitPanics ==
    /\ phase = "waiting" /\ JoinSetStop
    /\ \E t \in Tasks : task[t] = "panicked"
    /\ Exit("panic")
    /\ UNCHANGED <<sigVars, taskVars>>

\* Mutated form: no timeout while a peer is connected.
MutTimeoutNeedsIdle ==
    /\ phase = "waiting" /\ streams = {}
    /\ Exit("timeout")
    /\ UNCHANGED <<sigVars, taskVars>>

WaitTimeout ==
    /\ phase = "waiting"
    /\ Exit("timeout")
    /\ UNCHANGED <<sigVars, taskVars>>

\* Any result of signal_rx.recv() ends the wait, ReloadConfig and Lagged too.
WaitSignal ==
    /\ phase = "waiting" /\ Readable
    /\ TakeSignal
    /\ Exit("signal")
    /\ UNCHANGED <<pending, delivered, asked, taskVars>>

\* Mutated form: the process waits for the metrics processor as well.
MutRuntimeDrop ==
    /\ phase = "exiting" /\ worker = "free" /\ metrics = "ended"
    /\ phase' = "exited"
    /\ UNCHANGED <<sigVars, exitBy, taskVars>>

\* The runtime is dropped once run() returned: it waits for its workers.
RuntimeDrop ==
    /\ phase = "exiting" /\ worker = "free"
    /\ phase' = "exited"
    /\ UNCHANGED <<sigVars, exitBy, taskVars>>

-----------------------------------------------------------------------------
(* The tasks.                                                               *)

Told == shutdown # "open"

TaskStep(t, to) ==
    /\ Alive
    /\ task' = [task EXCEPT ![t] = to]
    /\ UNCHANGED <<sigVars, mainVars, shutdown, streams, metrics, worker>>

\* A bind or transport error, or the collector answering a client's stream.
\* Nothing watches for it while the main task is in its loop.
TaskEnds(t) == task[t] = "running" /\ TaskStep(t, "finished")

\* Endpoint::new(url).unwrap() and start_loading().unwrap().
ClientPanics(t) == t \in Clients /\ task[t] = "running" /\ TaskStep(t, "panicked")

ClientNotices(t) == t \in Clients /\ Told /\ task[t] = "running" /\ TaskStep(t, "finished")

\* Mutated form: the server drains without waiting for the channel.
MutServerNotices(t) == t \in Servers /\ task[t] = "running" /\ TaskStep(t, "draining")

ServerNotices(t) == t \in Servers /\ Told /\ task[t] = "running" /\ TaskStep(t, "draining")

\* A graceful server ends when no peer has a stream left on it.
ServerDrained(t) == task[t] = "draining" /\ t \notin streams /\ TaskStep(t, "finished")

PeerOpens(t) ==
    /\ Alive /\ t \in Servers /\ task[t] = "running"
    /\ streams' = streams \cup {t}
    /\ UNCHANGED <<sigVars, mainVars, shutdown, task, metrics, worker>>

PeerCloses(t) ==
    /\ Alive /\ t \in streams
    /\ streams' = streams \ {t}
    /\ UNCHANGED <<sigVars, mainVars, shutdown, task, metrics, worker>>

\* MetricsProcessor::run leaves its loop, or re-raises an exporter's panic.
MetricsEnds ==
    /\ Alive /\ metrics = "running"
    /\ metrics' = "ended"
    /\ UNCHANGED <<sigVars, mainVars, shutdown, task, streams, worker>>

\* The connection's task polls the request stream, which sends a dump request
\* and blocks its thread in recv until the dump's DONE message.
NetlinkBegin ==
    /\ Alive /\ NetlinkReads /\ worker = "free"
    /\ phase # "exiting" /\ \E t \in Clients : task[t] = "running"
    /\ worker' = "reading"
    /\ UNCHANGED <<sigVars, mainVars, shutdown, task, streams, metrics>>

NetlinkDone ==
    /\ worker = "reading" /\ worker' = "free"
    /\ UNCHANGED <<sigVars, mainVars, shutdown, task, streams, metrics>>

\* After an error message load() calls recv again, and nothing follows.
NetlinkError ==
    /\ DumpMayFail /\ worker = "reading" /\ worker' = "stuck"
    /\ UNCHANGED <<sigVars, mainVars, shutdown, task, streams, metrics>>

Main == \/ MainIgnores \/ MainShutdown \/ MainQuit
        \/ BeginStop \/ WaitJoined \/ WaitPanics \/ WaitTimeout \/ WaitSignal
        \/ RuntimeDrop

Next ==
    \/ \E k \in Kinds : Deliver(k) \/ Emit(k)
    \/ Main
    \/ \E t \in Tasks : \/ TaskEnds(t) \/ ClientPanics(t) \/ ClientNotices(t)
                        \/ ServerNotices(t) \/ ServerDrained(t)
                        \/ PeerOpens(t) \/ PeerCloses(t)
    \/ MetricsEnds \/ NetlinkBegin \/ NetlinkDone \/ NetlinkError

\* The scheduler runs every ready task, the timer fires, the kernel finishes a
\* dump it does not refuse.  No fairness for peers or for task failures.
Fairness ==
    /\ \A k \in Kinds : WF_vars(Emit(k))
    /\ WF_vars(Main)
    /\ WF_vars(NetlinkDone)
    /\ \A t \in Tasks : WF_vars(ClientNotices(t) \/ ServerNotices(t) \/ ServerDrained(t))

Spec     == Init /\ [][Next]_vars
FairSpec == Spec /\ Fairness

-----------------------------------------------------------------------------
(* Properties.                                                              *)

Stops == {"SIGINT", "SIGTERM", "SIGQUIT"}

\* (StopsOnlyWhenAsked, ServesUntilAsked and JoinedIsComplete are what
\* ImplementsService, below, says of single states.)
\* The process leaves its main loop only if it was told to: a reload, a lagged
\* signal channel or the death of every task never stops it (main's loop).
StopsOnlyWhenAsked == phase # "main" => asked \cap Stops # {}

\* No server turns its peers away while the main task is still serving: the
\* shutdown channel is touched only on the way out of main's loop.
ServesUntilAsked ==
    phase = "main" => shutdown = "open" /\ \A t \in Tasks : task[t] # "draining"

\* The life of the process as its user sees it: of the main task's phases,
\* whether it serves, stops, leaves or is gone; of a task, whether it is over.
Stage ==
    CASE phase = "main" -> "serving"
      [] phase \in {"stopping", "waiting"} -> "stopping"
      [] phase = "exiting" -> "leaving"
      [] phase = "exited" -> "gone"

LifeOf(t) ==
    CASE task[t] = "running" -> "up"
      [] task[t] = "draining" -> "closing"
      [] Over(t) -> "over"

\* Each way to leave has its cause, over all of main, stop and the signal
\* channel: a graceful stop follows SIGINT or SIGTERM, an immediate one SIGQUIT,
\* no server turns peers away before, a single request is never taken for
\* impatience, and a stop reported as joined left no task and no metrics.
Promise == INSTANCE Service WITH
               requests <- delivered, stage <- Stage, outcome <- exitBy,
               life <- [t \in Tasks |-> LifeOf(t)], reporting <- (metrics = "running")
ImplementsService == Promise!Spec

\* An exit reported as complete joined every task and stopped the metrics
\* processor: stop()'s select on join_all or on the client's handle.
JoinedIsComplete ==
    exitBy = "joined" => metrics = "ended" /\ \A t \in Tasks : Over(t)

\* Whichever way the graceful shutdown reports success, every task is over
\* (config.rs: "the process will wait for processing to complete").
GracefulIsComplete ==
    exitBy \in {"early", "joined"} => metrics = "ended" /\ \A t \in Tasks : Over(t)

\* A shutdown that began ends, whatever the tasks and their peers do: the
\* graceful timeout bounds the wait, and then the runtime is dropped.
StopTerminates == phase = "stopping" ~> phase = "exited"

\* Nothing but a dump answered with an error keeps a stopping agent alive: not
\* a dump in progress, not its failed client, not the metrics processor.
OnlyDumpErrorBlocks == phase = "stopping" ~> phase = "exited" \/ worker = "stuck"

\* A request to stop is never lost between the system and the main task, and
\* stays effective in every phase (signal stream, channel, main, stop).
StopIsHonoured == \A k \in Stops : k \in pending ~> phase = "exited"
=============================================================================
