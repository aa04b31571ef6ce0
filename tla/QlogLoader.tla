----------------------------- MODULE QlogLoader -----------------------------
(* The qlog agent: a client loop makes a QlogLoader per call.  A loader     *)
(* watches the directory, walks it once, and queues what it read; the       *)
(* debouncer's thread reads the files that changed and queues that too; the *)
(* call takes the queue's requests to the collector.  A file only grows, so *)
(* that a reading of it is the number of samples read.                      *)
EXTENDS Naturals, Sequences, Functions

CONSTANTS
    Files,
    Samples,    \* bound: samples each file ever holds
    Queue,      \* capacity of the mpsc channel (4096)
    Fragile,    \* files that may be removed, or that the agent may fail to open
    MsgLimit,   \* samples that fit into a message the collector decodes
    Watchers    \* inotify instances the kernel grants (128 per user)

ASSUME QlogLoaderAssumption ==
    /\ Samples \in [Files -> Nat] /\ Fragile \subseteq Files /\ MsgLimit \in Nat
    /\ Queue \in Nat \ {0} /\ Watchers \in Nat \ {0}

VARIABLES
    written,    \* samples each file holds
    events,     \* files whose change the current watcher has not passed on
    batch,      \* files the running callback still has to read
    reading,    \* a callback runs
    req,        \* its request
    todo,       \* files the walk still has to read
    first,      \* the walk's request
    queue,      \* requests in the channel, those in transit included
    phase,      \* where the client loop is
    watchers,   \* inotify instances in use
    failures,   \* calls that failed
    told,       \* shutdown was broadcast
    arrived,    \* history: samples of each file the collector has seen
    latest,     \* history: the reading of each file it handled last
    latestBy,   \* history: whose reading that was
    missed      \* history: files no reader could open, unchanged since

threadVars == <<events, batch, reading, req>>
walkVars   == <<todo, first>>
loopVars   == <<phase, watchers, failures, told>>
toldVars   == <<arrived, latest, latestBy>>
histVars   == <<toldVars, missed>>
vars       == <<written, threadVars, walkVars, queue, loopVars, histVars>>

Readings == {r \in [Files -> Nat] : \A f \in Files : r[f] <= Samples[f]}
Nothing  == [f \in Files |-> 0]

\* A request: the samples of the files read, and who sent it.
Requests == [by : {"walk", "watch"}, upTo : Readings]
Request(by, r) == [by |-> by, upTo |-> r]

\* start_loading has begun to watch, and the receiver still lives.
Live == phase \in {"walking", "streaming"}

TypeOK ==
    /\ written \in Readings
    /\ events \subseteq Files /\ batch \subseteq Files
    /\ reading \in BOOLEAN /\ req \in Readings /\ (~reading => batch = {} /\ req = Nothing)
    /\ todo \subseteq Files /\ first \in Readings
    /\ queue \in Seq(Requests) /\ Len(queue) <= Queue
    /\ phase \in {"start", "walking", "streaming", "sleeping", "ended", "panicked"}
    /\ (phase # "walking" => todo = {} /\ first = Nothing)
    /\ (~Live => events = {} /\ ~reading /\ queue = <<>>)
    /\ watchers \in 0..Watchers /\ failures \in 0..Watchers /\ told \in BOOLEAN
    /\ failures + (IF Live THEN 1 ELSE 0) <= watchers
    /\ arrived \in Readings /\ latest \in Readings
    /\ latestBy \in [Files -> {"none", "walk", "watch"}] /\ missed \subseteq Files

Init ==
    /\ written = Nothing
    /\ events = {} /\ batch = {} /\ reading = FALSE /\ req = Nothing
    /\ todo = {} /\ first = Nothing /\ queue = <<>>
    /\ phase = "start" /\ watchers = 0 /\ failures = 0 /\ told = FALSE
    /\ arrived = Nothing /\ latest = Nothing /\ latestBy = [f \in Files |-> "none"]
    /\ missed = {}

-----------------------------------------------------------------------------
(* The directory.  The watcher notices every change while it watches.       *)

\* Mutated form: the watch begins after the walk.
MutNoticed(f) ==
    /\ events' = IF phase = "streaming" THEN events \cup {f} ELSE events
    /\ missed' = missed \ {f}

Noticed(f) ==
    /\ events' = IF Live THEN events \cup {f} ELSE events
    /\ missed' = missed \ {f}

Write(f) ==
    /\ written[f] < Samples[f]
    /\ written' = [written EXCEPT ![f] = @ + 1] /\ Noticed(f)
    /\ UNCHANGED <<batch, reading, req, walkVars, queue, loopVars, toldVars>>

\* An event without new samples: another attribute, the file being opened.
Touch(f) ==
    /\ Live /\ Noticed(f)
    /\ UNCHANGED <<written, batch, reading, req, walkVars, queue, loopVars, toldVars>>

-----------------------------------------------------------------------------
(* The debouncer's thread.                                                  *)

\* The callback is given the files whose changes are five seconds old.
Debounce(b) ==
    /\ Live /\ ~reading /\ b # {} /\ b \subseteq events
    /\ events' = events \ b /\ batch' = b /\ reading' = TRUE
    /\ UNCHANGED <<written, req, walkVars, queue, loopVars, histVars>>

\* handle_qlog_file adds the samples the file holds to the request r, which
\* becomes s.  A file that cannot be found or opened is passed over without a
\* word: nothing reads it again before its next change.
Reads(f, r, s) ==
    \/ s = [r EXCEPT ![f] = written[f]] /\ missed' = missed \ {f}
    \/ f \in Fragile /\ s = r /\ missed' = missed \cup {f}

ReadFile(f) ==
    /\ Live /\ f \in batch
    /\ Reads(f, req, req') /\ batch' = batch \ {f}
    /\ UNCHANGED <<written, events, reading, walkVars, queue, loopVars, toldVars>>

\* Mutated form: try_send in place of blocking_send.
MutSendBatch ==
    /\ Live /\ reading /\ batch = {}
    /\ queue' = IF Len(queue) < Queue THEN Append(queue, Request("watch", req)) ELSE queue
    /\ reading' = FALSE /\ req' = Nothing
    /\ UNCHANGED <<written, events, batch, walkVars, loopVars, histVars>>

\* Mutated form: each request is sent by a task of its own.
MutSendBatchSpawned ==
    /\ Live /\ reading /\ batch = {}
    /\ \E i \in 0..Len(queue) :
         queue' = SubSeq(queue, 1, i) \o <<Request("watch", req)>> \o SubSeq(queue, i + 1, Len(queue))
    /\ reading' = FALSE /\ req' = Nothing
    /\ UNCHANGED <<written, events, batch, walkVars, loopVars, histVars>>

\* blocking_send: the thread waits while the channel is full.
SendBatch ==
    /\ Live /\ reading /\ batch = {} /\ Len(queue) < Queue
    /\ queue' = Append(queue, Request("watch", req))
    /\ reading' = FALSE /\ req' = Nothing
    /\ UNCHANGED <<written, events, batch, walkVars, loopVars, histVars>>

-----------------------------------------------------------------------------
(* The client loop: a loader, its walk, the call.                           *)

\* Mutated form: the first call is the only one.
MutStarting == phase = "start"

Starting == phase \in {"start", "sleeping"}

\* QlogLoader::new and the watch of start_loading.  The earlier watchers are
\* leaked and keep their instances.
\* The walk finds every file with samples, and perhaps some made meanwhile.
Start ==
    /\ Starting /\ watchers < Watchers
    /\ watchers' = watchers + 1 /\ phase' = "walking"
    /\ \E t \in SUBSET Files :
         /\ {f \in Files : written[f] > 0} \subseteq t
         /\ todo' = t
    /\ UNCHANGED <<written, threadVars, first, queue, failures, told, histVars>>

\* new() fails when no instance is left; watch() fails when the directory is
\* missing or no watch is left.  Either way unwrap ends the client's task.
StartPanics ==
    /\ Starting /\ phase' = "panicked"
    /\ UNCHANGED <<written, threadVars, walkVars, queue, watchers, failures, told, histVars>>

Visit(f) ==
    /\ phase = "walking" /\ f \in todo
    /\ Reads(f, first, first') /\ todo' = todo \ {f}
    /\ UNCHANGED <<written, threadVars, queue, loopVars, toldVars>>

\* Mutated form: the walk's request does not wait for room.
MutSendFirst ==
    /\ phase = "walking" /\ todo = {}
    /\ queue' = Append(queue, Request("walk", first)) /\ first' = Nothing
    /\ phase' = "streaming"
    /\ UNCHANGED <<written, threadVars, todo, watchers, failures, told, histVars>>

\* The walk's request goes behind those of the callback; start_loading waits
\* for room in the channel, which nobody empties before it returns.
SendFirst ==
    /\ phase = "walking" /\ todo = {} /\ Len(queue) < Queue
    /\ queue' = Append(queue, Request("walk", first)) /\ first' = Nothing
    /\ phase' = "streaming"
    /\ UNCHANGED <<written, threadVars, todo, watchers, failures, told, histVars>>

Fits(q) == FoldFunction(+, 0, q.upTo) <= MsgLimit

\* The collector handles a message of the call.
Deliver ==
    /\ phase = "streaming" /\ queue # <<>> /\ Fits(Head(queue))
    /\ LET q == Head(queue)  r == q.upTo IN
         /\ arrived' = [f \in Files |-> IF r[f] > arrived[f] THEN r[f] ELSE arrived[f]]
         /\ latest' = [f \in Files |-> IF r[f] > 0 THEN r[f] ELSE latest[f]]
         /\ latestBy' = [f \in Files |-> IF r[f] > 0 THEN q.by ELSE latestBy[f]]
    /\ queue' = Tail(queue)
    /\ UNCHANGED <<written, threadVars, walkVars, loopVars, missed>>

\* The call ends; its future is dropped, with the receiver and the queue.  The
\* watcher's thread goes on, but whatever it sends from now on is dropped.
DropCall(to) ==
    /\ phase = "streaming"
    /\ phase' = to /\ queue' = <<>>
    /\ events' = {} /\ batch' = {} /\ reading' = FALSE /\ req' = Nothing
    /\ UNCHANGED <<written, walkVars, watchers, told, histVars>>

\* The collector cannot decode the message.  Its loop over the stream ends,
\* it answers Ok, and the agent's loop is left for good.
TooBig ==
    /\ queue # <<>> /\ ~Fits(Head(queue))
    /\ DropCall("ended") /\ UNCHANGED failures

\* Err: log, sleep five seconds, make a new loader.
CallFails == DropCall("sleeping") /\ failures' = failures + 1

\* Mutated form: the shutdown is looked at only when no request waits.
MutNotice == told /\ queue = <<>> /\ DropCall("ended") /\ UNCHANGED failures

\* The shutdown branch of the select, which is polled during a call only.
Notice == told /\ DropCall("ended") /\ UNCHANGED failures

Shutdown ==
    /\ ~told /\ told' = TRUE
    /\ UNCHANGED <<written, threadVars, walkVars, queue, phase, watchers, failures, histVars>>

Directory == \E f \in Files : Write(f) \/ Touch(f)
Debounced == \E b \in SUBSET Files : Debounce(b)
Thread    == (\E f \in Files : ReadFile(f)) \/ SendBatch
Loading   == Start \/ StartPanics \/ (\E f \in Files : Visit(f)) \/ SendFirst
Receive   == Deliver \/ TooBig

Next ==
    \/ Directory \/ Debounced \/ Thread \/ Loading
    \/ Receive \/ CallFails \/ Notice \/ Shutdown

\* The debouncer's thread and the client's task go on, and a live call moves
\* its messages.  SF of the debouncer per file: it reports every change it
\* holds in some later round, also when its callback is busy in between.
Fairness ==
    /\ \A f \in Files : SF_vars(\E b \in SUBSET Files : f \in b /\ Debounce(b))
    /\ WF_vars(Thread) /\ WF_vars(Loading) /\ WF_vars(Receive) /\ WF_vars(Notice)

Spec     == Init /\ [][Next]_vars
FairSpec == Spec /\ Fairness

-----------------------------------------------------------------------------
(* Properties.                                                              *)

\* The readings of f in a queue.
UpTo(q, f) == {q[i].upTo[f] : i \in 1..Len(q)}

\* Sample n of f will still be read, was read, or has arrived.
Held(f, n) ==
    \/ n <= arrived[f]
    \/ f \in events \cup batch \cup todo
    \/ n <= req[f] \/ n <= first[f]
    \/ \E m \in UpTo(queue, f) : n <= m

\* While a loader lives, no sample is forgotten, except of a file that no reader
\* could open since it changed: the watch begins before the walk, a change
\* during a read is reported again, and a thread that finds the channel full
\* waits.
NothingForgotten ==
    Live => \A f \in Files \ missed : written[f] > 0 => Held(f, written[f])

\* The newest reading of f is still to be made, or to be handled.
Coming(f) ==
    \/ f \in events \cup batch \cup todo
    \/ written[f] \in {req[f], first[f]} \cup UpTo(queue, f)

\* Two readers send old and new readings of a file in any order, and each is
\* handled as if it were new.  If the last one handled is the watcher's, and
\* the file could be opened since it changed, it is the newest or a newer one
\* comes: an overtaken request of the watcher is always followed by another.
\* The walk's request can be late for good.
LastWordIsNewest ==
    Live => \A f \in Files \ missed :
        written[f] > 0 => latest[f] = written[f] \/ latestBy[f] = "walk" \/ Coming(f)

\* The collector as a mirror of the directory: nothing arrives that was not in
\* the file by then, and what the walk, or the callback, told last of a file is
\* never taken back by the same reader, over all calls, although requests are
\* built over many steps, wait, and die with their call.
Mirrored == INSTANCE Mirror WITH Readers <- {"walk", "watch"}
ImplementsMirror == Mirrored!Spec

\* start_loading waits for room in a channel whose receiver it still holds.
StartStuck == phase = "walking" /\ todo = {} /\ Len(queue) = Queue

\* README, "All agents collect measurements and send them to collector":
\* every sample arrives, except when its file cannot be opened, the agent is
\* told to stop, a message is too large, a watch cannot be had, or the walk's
\* request finds the channel full.
EverySampleArrives ==
    \A f \in Files : \A n \in 1..Samples[f] :
        written[f] >= n ~> \/ arrived[f] >= n \/ f \in missed
                           \/ told \/ phase \in {"ended", "panicked"} \/ StartStuck

\* An agent told to stop ends its loop, in whichever phase it is told.
EndsWhenTold == told ~> phase \in {"ended", "panicked"} \/ StartStuck
=============================================================================
