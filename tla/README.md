# quicmop in TLA+

quicmop measures round trip times.  Agents on hosts collect samples and push
them over gRPC streams to a collector, which keeps them in a cache with a time
to live and renders histograms per network for Prometheus.  This directory
holds TLA+ models of the parts that run concurrently, the TLC configurations
that check them, and proofs checked by TLAPS.

## The system

| component | source | state | operations | interacts with |
|---|---|---|---|---|
| lifecycle | `crates/quicmop-signals`, `bin/*/src/service.rs` | pending OS signals, the broadcast channel of 128 `ServiceSignal`s, the shutdown channel, task handles | `os_signals_stream`, `handle_signal_stream`, `start`, `main`, `stop`, `quit`, runtime drop | every task of the process, through the shutdown channel and the handles |
| adapter | `bin/quicmop-netobserv-ebpf-agent-adapter` | broadcast channel of 4096 requests, the client loop's subscription and call | `send`, the client loop | netobserv agents (calls), collector (stream) |
| collector | `bin/quicmop-collector/src/collector.rs` | moka cache of samples, a counter of events per host, type and peer address (and a gauge that is only written) | `stream_metrics`, netobserv's `send`, `render_to_write` | agents, exporters (callback from another task) |
| netlink loader | `bin/quicmop-kernel-agent/src/netlink_loader.rs` | netlink sockets, `latest_activity` per family, local addresses | `load`, `start_loading` | kernel (blocking recv), the client loop that polls its stream |
| qlog loader | `bin/quicmop-qlog-agent/src/qlog_loader.rs` | a leaked watcher, a queue of 4096 requests | the debouncer's callback, `handle_qlog_file`, `start_loading` | file system, the client loop |
| client loops | `bin/*-agent*/src/service.rs` | the current call | connect, push, retry after 5 s, stop | loader or channel, collector |
| metrics processor, exporters | `crates/quicmop-metrics`, `crates/quicmop-metrics-exporters` | a JoinSet of exporters, output files | `run`, `start_exporting`, `export` | recorder, `render_to_write` |
| configuration | `bin/*/src/config.rs`, `cli.rs` | none after start | `build`, `merge`, `try_from` | - |
| wire formats | `crates/quicmop-proto`, `crates/netobserv-flow-proto` | none | conversions | - |

Hard behaviours: any interleaving of tasks on a multi-threaded runtime; futures
dropped at an await (a cancelled call, the losing branch of a `select!`);
panics that kill one task only; a ring that overwrites; a thread blocked in a
system call; retries after a delay.  Each place where they bite is listed with
its line under `hazards` in `PROJECT.json`, with the properties that cover it
or the reason why none does.

What makes each component correct:

- lifecycle: the process stops when, and only when, a request to stop reached it,
  whatever its tasks and peers do; a graceful exit reported as complete is complete;
- adapter: what reaches the collector is in order and without duplicates, every
  loss has one of two causes, no sample stays behind, the client stops;
- collector: an entry is the least of the values held against it; counters never
  fall behind the cache; a page counts one set of entries, each once, and leaves
  out none that was there all along;
- netlink loader: every dump ends, a request holds what is new since the last
  one, and nothing is reported twice without need;
- qlog loader: no sample is forgotten between the walk, the watcher and a full
  queue, except of a file that cannot be opened; an old reading of the watcher is
  followed by a newer one; a sample carries the addresses its connection had at
  that point;
- exporters: between two rounds a page is whole, one failing exporter leaves the
  others running, metrics are shown sooner or later;
- configuration: merging the file and the command line loses nothing, but for
  the cases listed under "What the code does that no run singles out".

## Modules

| module | models | proofs | instances |
|---|---|---|---|
| `Lifecycle` | signals, main loop, graceful stop, tasks, runtime drop | `LifecycleProofs` | `MCLifecycle` |
| `Service` | what the life of a process promises: each way to stop has its cause, each outcome is what it says | in `LifecycleProofs` | through `Lifecycle` |
| `Adapter` | netobserv adapter: handlers, ring, client loop | `AdapterProofs` | `MCAdapter` |
| `LossyFifo` | what the adapter promises: a FIFO that may lose | in `AdapterProofs` | through `Adapter` |
| `Collector` | cache, handlers and rendering | `CollectorProofs` | `MCCollector` |
| `NetlinkLoader` | the kernel agent's dumps and their filter | `NetlinkLoaderProofs` | `MCNetlinkLoader` |
| `QlogLoader` | the qlog agent's watcher, walk, queue and client loop | `QlogLoaderProofs` | `MCQlogLoader` |
| `Mirror` | what the collector may be told of files that grow, by readers without a common order | in `QlogLoaderProofs` | through `QlogLoader` |
| `QlogFile` | one pass over a qlog file | `QlogFileProofs` | `MCQlogFile` |
| `Config` | file, command line and their merge, as operators | in `ExportersProofs` | through `Exporters` |
| `Exporters` | prepare, the metrics processor and the export loops; extends `Config` | `ExportersProofs` | `MCExporters` |

The `map` in `PROJECT.json` gives the source lines of every definition.
Operators whose name begins with `Mut` are mutated forms of the definition that
follows them, each a plausible bug; no specification uses them.  They show that
each property can fail: with the mutated form in place TLC finds it violated.

### Lifecycle

The four services share the code of `main`, `shutdown`, `stop` and `quit` up to
the type of their handles; the module's constants give each its shape.
`Servers` are tasks run by `serve_with_shutdown`, `Clients` the loops that push
to the collector.  With `JoinSetStop` the handles are in a `JoinSet` (collector,
adapter), else there is one `JoinHandle` (kernel and qlog agents).  For tasks in
a `JoinSet`, `task[t]` is the state its wrapper task sees.

| TLA+ | code |
|---|---|
| `pending`, `Deliver`, `Emit`, `ToService` | tokio's flag per signal kind, `os_signals_stream`, `handle_signal_stream` |
| `buf`, `lagged`, `Push`, `TakeSignal` | `broadcast::channel(128)` as its one receiver sees it; `lagged` is the `Err(Lagged)` its next `recv` returns |
| `phase = "main"`: `MainIgnores`, `MainShutdown`, `MainQuit` | the arms of `main`'s loop |
| `phase = "stopping"`: `BeginStop` | `stop` up to its `select!` |
| `phase = "waiting"`: `WaitJoined`, `WaitPanics`, `WaitTimeout`, `WaitSignal` | the branches of that `select!`, and the panic `join_all` resumes |
| `phase = "exiting"`: `RuntimeDrop` | `run` returned; the drop of the runtime joins its worker threads |
| `worker`: `NetlinkBegin`, `NetlinkDone`, `NetlinkError` | a worker thread inside `NetlinkSingleTypeLoader::load` |

`Service` is the same life without flags, channels, handles and workers: signals
are `Ask`, the process is serving, stopping, leaving or gone, a task is up,
closing or over.  It serves until a signal of the right kind was delivered
(SIGINT or SIGTERM for a graceful stop, SIGQUIT for the immediate one), a task
turns peers away only from then on, and each outcome has its `Cause`: `joined`
that all tasks are over, `early` and `panic` that one is, `signal` that there was
a second request; a success also stops the metrics.  The refinement maps the
main task's phases to stages (`Stage`), the state of a task to `up`, `closing` or
`over` (`LifeOf`), `delivered` to `requests`, `exitBy` to `outcome`; the moves of
flags and channel, peers, workers and the begin of the wait are stuttering steps.
`StopsOnlyWhenAsked`, `ServesUntilAsked` and `JoinedIsComplete` are what
`ImplementsService` says of single states.

`asked` and `delivered` are history; `MaxSignals` bounds the signals of a run.
A metrics task that is not aborted may end by itself (its own shutdown
subscription, or an exporter's panic), at any time.

### Adapter

Samples are numbered as they are sent.  `Call` and the actions of `Handle` are
the loop of `send`: an entry is passed on, skipped by the filter, or panics on
its address or on a channel without a receiver.  `Connect`, `Lag`, `Pull`,
`CallFails`, `CallReturns` and `Notice` are the client loop: a subscription that
starts at the tail, the receiver's jump when it was overtaken, and the three
ways a round ends.  The end of a call drops its future, and with it the request
body, the subscription and the samples they held (`DropCall`).  `lagLost`,
`callLost` and `delivered` are history.  What the collector had received of a
call that ended counts as handled before the end: the next call comes five
seconds later, long after those messages were dealt with.  The five seconds are
not modelled otherwise: `sleeping` lasts any time.

`LossyFifo` says what is left of all this for a reader of the other end: samples
are sent, received in order and at most once, or lost for good.  The refinement
maps `count` to `sent`, `received` to `delivered` and `lost` to
`lagLost \cup callLost`: an overtaken receiver (`Lag`) and the end of a call
(`DropCall`) are `Lose` steps, so that a sample the accounting calls lost was
never delivered before and never is afterwards.  `InOrder` is the part of it the
other proofs rest on.

### Collector

`Open`, `Read`, `EndOfStream` are `stream_metrics`; `Call`, `Reply` are
netobserv's `send`; `Skip`, `NoAddress`, `Cancel` and the storing of a sample are
shared.  A sample is stored in several steps, because the handler awaits moka's
`or_insert_with_if`, which runs one initialisation of a key at a time:

| TLA+ | code |
|---|---|
| `Ask` | the key is made, with its instant, and the call begins |
| `FindKept` | an entry is there and the condition does not hold: it is kept |
| `Lead`, `Fill` | nobody else is storing under this key: evaluate the condition, then put the value in |
| `Wait` | another call is storing under this key |
| `Count` | the await returns and the counter is incremented; whoever waited for this call is answered with its value (`Answered`) |
| `Cancel` | the handler's future is dropped at its await; those who waited for it begin anew (`Deciding`) |

A call that waited is answered without a look at its own value: when that value
was the smaller one, it is lost.  `EntryIsLeast` therefore speaks of the values
that were stored or compared (`compared`), and says that whoever leads, waits, is
cut off or begins anew, the entry is their least.

The counter is kept per series, that is per host, latency type and address of the
peer: for a stream the address without its port, for a call of `send` with it, so
that there each connection has a series of its own (`Addr`, `SeriesOf`).  The key
of the entry does not hold these (`AgentOf` of a flow is its `agent_ip`, twice),
so that `by` of an entry keeps for which series it was stored.

`BeginScrape`, `Visit`, `EndScrape` are `render_to_write`, whose loop iterates
over the cache while handlers run.  `Drop` is the cache: it hides an entry when
its time to live is over, removes it some time later, and evicts an entry of
its choice when it is over its capacity.

Assumed: taking the instant and building the key are one step (the instant is
only compared for equality and age); all entries have one weight; an iteration
visits an entry at most once, visits none that has expired, and misses none that
is there throughout, as moka documents.

The gauge `last_agent_update` is not modelled.  Nothing reads it back, and its
labels are not the entry's: `stream_metrics` takes the host of a message's first
sample, `send` the host and the peer's address with its port once per request,
both only if the clock is past the epoch.

### NetlinkLoader

One loader after another, as the client loop of the kernel agent makes them:
`ReadAddresses` is the `NETLINK_ROUTE` dump of `start_loading`, `Wake` a turn of
the stream's loop, which loads IPv4, then IPv6, then yields; `Reconnect` is the
new loader after a failed call, `CallEnds` the end of the client loop.  A dump
lists the family's sockets one by one, in any order (`todo` holds the rest):
`Ignore`, `ReportFirst`, `ReportNewer`, `PassOver` are the branches of `load`'s
match, `Omit` a socket without a `TcpInfo` attribute, or one that is closed or
not yet open.  `Done`, `SendFails`, `DumpFails` and `LoadPanics` are the four ways a dump goes
on: after an error answer `recv` is called again and never returns (`stuck`); on
bytes that are no message `unwrap` panics, which ends the call (`broken`).  What
is left after a call is dropped with it (`DropLoader`).

The figure a socket is listed with, the maximum of the four `last_*` fields, is
an input of each step, so that it may change between any two messages in any
way: the code only compares it.  (It treats a greater figure as later activity;
Linux documents the fields as the time elapsed since the event.  Nothing here
depends on which of the two is meant, "activity" being what the code takes for
it.)  Datagrams, the buffer and the offset into it are abstracted to messages.
`base`, `listed` and `sentAt` are history.

`Belongs` says what a request should hold without the running mark; that `load`,
which knows only the mark, computes it is `RequestIsRecords`.  What `load` leaves
out of a request although it is new (`netlink_new`) was overtaken within its
family: `NewestIsSent`, in `NetlinkLoaderProofs`, says that the request then holds
a sample at least as active.

### QlogLoader

A file only grows, so that a reading of it is the number of its samples read; a
request maps each file to such a number, 0 for a file that is not in it.

| TLA+ | code |
|---|---|
| `Write`, `Touch` | the file system and the writers of qlog files (external) |
| `events`, `Debounce` | changes the debouncer holds; the callback gets those five seconds old |
| `ReadFile`, `SendBatch` | the callback's loop over its events, and `blocking_send` |
| `Reads` | a file is opened and read by `handle_qlog_file`, or cannot be opened and is passed over without a word |
| `Start`, `StartPanics` | `QlogLoader::new` and the watch of `start_loading`; `new` fails when no inotify instance is left, `watch` when the directory is missing or no watch is left: `unwrap` ends the client, at any start |
| `Visit`, `SendFirst` | the walk's files, and its request behind those of the callback |
| `Deliver`, `TooBig` | a message the collector decodes, and one it cannot: it answers `Ok` and the agent's loop ends |
| `CallFails`, `Notice` | `Err` and the shutdown branch of the loop's `select!` |

`Live` is the time in which the loader's watch is on and its receiver exists.
The watcher is leaked (`Box::leak`): after the call its thread goes on reading
and what it sends is dropped, so that of the old watchers only their number
matters (`watchers`).  The queue is the channel with the messages in transit;
whether a message is still in the channel or on its way makes no difference to
the loader, except for the room in the channel, which is therefore smaller here
than in the code: any capacity is covered by the theorems.  `Fragile` are the files whose open may fail at any reading (a lack
of descriptors, permissions); a file that was removed is one no reader can open
any more.  `missed` remembers which files a reader could not open since they last
changed: the event is consumed, and nothing reads the file before its next
change.  Assumed: a walk lists every file that has samples when it begins, and
the watch reports every change (inotify's own queue does not overflow, the
debouncer reports no error, which the callback would ignore).  A message lost with a failed call is read again by the next loader's
walk.  `arrived`, `latest` and `latestBy` are history: what the collector has
been given of each file, what it was given last, and by whom.

Two readers without a common order send readings of the same file.
`LastWordIsNewest` says how far that can go wrong for files that can be opened: a
request of the callback that was overtaken is always followed by another, but the walk's own request,
which is sent last whatever it read first, can leave an old reading as the last
word.  `Mirror` says how far it cannot: each reading that arrives was in the file
by then, and neither the walk nor the callback takes back what it told last,
although requests are built over many steps, wait in the queue and die with
their call, and the next loader begins again.  The refinement is the identity on
`written`, `arrived`, `latest` and `latestBy`; a message the collector decodes is
a `Tell` of the reader that sent it.

### QlogFile

`handle_qlog_file` alone, over one file: `Assign`, `Authorize` and `Measure` are
the three arms of its match, `srcOf` and `dstOf` the map of tuples.  A tuple the
map does not hold and one whose addresses are both unknown give the same
answers, so that both are `NoIp`.  `IsSrc` and `IsDst` say from the file's
events alone which address a tuple has after the first n of them;
`SamplesAttributed` compares them with what the pass computed.  Parsing is
abstracted to what it yields: an address, or none.  Of the headers of a frame
the last `:authority` counts, one stands for all.

### Config and Exporters

A value of a setting is told apart by its source only: not given, the built-in
default, from the file, from the command line, or bad.  `CommandLineOf` gives for
each setting of each service the command line values that leave the file's in
place: the absent one (`Absent`), one equal to the default (`AsDefault`, where
clap fills in the default and `merge` compares with it), one that does not parse
(`Unparsed`), or all (`NoOption`).  `FileOf` gives the section of each field and
whether it is required there.  `Effective` is `try_from` followed by `merge`;
`JoinedWith` is the adapter's comparison of port and address as a pair; `Level`
is the arithmetic on the log level in 8 bits as a release build computes it
(the Cargo profile turns no overflow check on).

`Exporters` runs it: `Refuse`, `BucketsPanic`, `SystemFails` and `Configure` are
the outcomes of `prepare`, `Launch` is `start` up to the spawned exporters.
`exp[e]` is where an exporter's loop is; `Open`, `Render`, `Finish` are the
steps of a page: the file is truncated, the recorder's part is written, the
extra provider's part is written and flushed.  The metrics are a version number
(`data`), a page the versions of its two parts, 0 for a part that is not there.
The page of stdout is the last one written.  `JoinPanic` is `resume_unwind` in
the processor, whose `JoinSet` is dropped with it: `Abort` then stops the other
exporters wherever they are.  `Stop` is its shutdown branch, `_ =
shutdown.recv()`: it is taken when the main task sent the shutdown, and also when
it dropped the sender, as it does when it is told to quit (`shutdown` is "open",
"sent" or "dropped").

## Runs

| run | instance | what it shows |
|---|---|---|
| `life_service` | one server, one client in a JoinSet; ring of 2, 2 signals | the process lives as `Service` promises, always stops, and honours every request that is pending |
| `life_agent` | one client that reads netlink, dumps may fail; ring of 2, 4 signals | agents live as `Service` promises, stop completely, and nothing but a dump answered with an error keeps one alive; the ring overflows |
| `life_early` | two servers | **violated**: a graceful stop succeeds with a server still draining |
| `life_stuck` | as `life_agent` | **violated**: a netlink error keeps the process from ever exiting |
| `adapter` | 2 callers, 3 requests of 2 entries each (both sent; one filtered out; one that panics), ring of 2, 2 in transit | order and accounting of samples, which all settle; the adapter is a lossy FIFO; the client stops |
| `adapter_panic` | 2 callers, 2 requests, ring of 2, 1 in transit | **violated**: a request handled while the client has no subscription, here before its first, panics |
| `collector` | 2 streams from one address, 1 netobserv agent, 2 hosts, 2 connections, 2 messages, time 0..1, time to live 1, capacity 2 | an entry is the least of what was held against it, counters cover the entries of their series, pages are complete and exact |
| `netlink` | 2 IPv4 sockets and 1 IPv6, figures 0..3, 3 rounds, 1 address | requests hold the records of their dumps, repeats are higher, a dump yields its request unless the kernel answers with an error or with bytes that are no message |
| `netlink_new` | the same, 2 rounds | **violated**: a socket with new activity is left out |
| `qlog` | files of 2 and 1 samples, queue of 1, messages of 2 samples, 2 inotify instances, one file that may fail to be opened | nothing is forgotten of a file that can be opened, an old last word is the walk's or is followed by a newer one, the collector mirrors the directory, every sample arrives and the loop ends when told, but for the named exceptions |
| `qlog_file` | all files of 4 events over 2 tuples and 2 addresses | every sample carries its own tuple's addresses of that moment |
| `exporters` | four services; each setting, and each pair of settings that share a section or are joined, from file and command line in every way; every level with 0 to 3 `-q` and 0, 1, 2 or 255 `-v`; every set of exporters; 3 versions of the metrics | merging loses nothing, failures stay where they happen, pages are whole between two rounds and get newer |

The four violated runs check a sentence of the repository's own documentation or
comments; `findings` in `PROJECT.json` quotes each and describes the run.

Why the bounds are enough.  *Lifecycle*: two tasks let one be over while the
other is not; two signals give every pair of kinds in every phase; a ring of
two is overflowed by three of the four kinds, which can be pending at once.
*Adapter*: six samples over a ring of two lag by up to four slots, so that a
receiver can lag, be dropped and subscribe again; two callers interleave their
entries.  *Collector*: two calls with one key at one instant lead, wait, are
answered with another's value and begin anew after a cut-off leader; two messages
of two samples at two instants make keys of different age, more entries than the
capacity, and inserts during an iteration.  *NetlinkLoader*: three figures above zero are a first
mark and two new ones in either order; two sockets of a family give every order
within a dump, and the third the hand-over to the other family; three rounds
give a first dump, one against its mark and one against a raised mark.
*QlogLoader*: a file of two samples is read before and after it grew, by both
readers and in both orders; with a queue of one each reader finds it full and
waits, the walk also for ever; the file that may fail to be opened is missed by
either reader and read again after a change; messages of two samples make the
walk's request of both files too large, and a single file's never; two instances
give one retry and one panic.  *QlogFile*: an address is settled by an
assignment, replaced by another event, and used; four events hold all of these
for one tuple with a use of the other in between.  *Exporters*: settings act on
one another only within a section or as the adapter's pair; three versions give
a page that is current, one that is behind, and one that changes between its
parts.
The symmetry of the two streams in `collector` is sound: the
instance treats them alike and no liveness is checked there.

Deadlock is not checked: every system here may stop (the process exited; the
bounds on signals, requests, messages and time are used up).

### Fairness

*Lifecycle*: weak fairness of `Emit`, of the main task, of a dump the kernel does
not refuse, and of a task that was told to stop: tokio polls every task that was
woken, and the timeout fires.  No fairness for peers, failures, or the kernel's
errors: a stream may stay open for ever.  *Adapter*: weak fairness of the
handlers, of `Connect`, of the receiver and of the collector's side of a live
call; none for the end of calls.  Strong fairness of `Notice`: each round of the
loop polls the shutdown branch, and the value in the shutdown channel stays, so
that it cannot be passed over in every round.  *Collector*: none, its properties
are safety properties.  *NetlinkLoader*: weak fairness of `Load`, the steps of
the loader as the kernel answers and timers fire; none for failures, addresses
or reconnections.  *QlogLoader*: weak fairness of the callback's thread, of the
loading, of the messages of a live call and of `Notice`, since a call polls its
shutdown branch at each wake-up and the value stays; strong fairness of the
debouncer for each file, because its timer goes on while a callback runs and
passes on every change it holds in some later round.  None for the file system
or for failed calls.  *Exporters*: weak fairness of the loops of the file and
stdout exporters, whose interval ticks, of the join of a panicked exporter, of
`Stop` and of `Abort`; none for failures, for scrapes, or for changes of the
metrics.

## Proofs

TLC checks the small instances above; the following hold for all values of the
constants that satisfy the modules' named assumptions.

| theorem | shows | argument |
|---|---|---|
| `LifecycleProofs!TypeCorrect` | `[]TypeOK` | inductive as it stands, one lemma per group of actions |
| `LifecycleProofs!AskedCorrect` | `[]StopsOnlyWhenAsked` | strengthened by `StopsAreAsked`: every stop in the flags and in the channel was asked for |
| `LifecycleProofs!ServesCorrect` | `[]ServesUntilAsked` | inductive with the type invariant |
| `LifecycleProofs!JoinedCorrect` | `[]JoinedIsComplete` | inductive: a task that is over stays over |
| `LifecycleProofs!GracefulCorrect` | `~JoinSetStop => []GracefulIsComplete` | one task: one that is over is all of them; `life_early` shows that the assumption is needed |
| `LifecycleProofs!ServiceCorrect` | `Spec => ImplementsService` | `Sourced` and `Numbered`: every `ServiceSignal` in flags and channel was delivered as a signal of its kind, and those that are left are fewer than those delivered once one was taken (`SecondRequest`); then one lemma per group of steps, each mapped to a step of `Service` or a stutter |
| `AdapterProofs!OrderCorrect` | `[]InOrder` | `OrderInv`: delivered, in transit and unread samples form one increasing sequence |
| `AdapterProofs!TypeCorrect` | `[]TypeOK` | `Shape`, with the numbering of `OrderInv`: the bounds of the sequences come from the order of the samples in them |
| `AdapterProofs!FifoCorrect` | `Spec => ImplementsFifo` | `Arrive` maps to `Receive` by `OrderInv`, `Send` to `Send`, `Lag` and the ends of a call to `Lose`, all else stutters; `Apart`: what was lost is neither delivered nor anywhere on its way |
| `AdapterProofs!VanishCorrect` | `[]NothingVanishes` | inductive with `OrderInv` |
| `CollectorProofs!TypeCorrect` | `[]TypeOK` | inductive as it stands |
| `CollectorProofs!LeastCorrect` | `[]EntryIsLeast` | `LeaderInv`: at most one call leads under a key, and while it does, what it is about to store is below any entry the cache shows there; `MinInv`: a key that was compared is in the cache or was dropped from it |
| `CollectorProofs!CompleteCorrect` | `[]PageIsComplete` | `CompleteInv`: what was there when the page was begun and was not dropped is there; entries only fall (`CompleteKept`) |
| `CollectorProofs!CountCorrect` | `[]CountersCoverStore` | inductive with the finiteness of the cache; every step moves at most one entry, one handler and one event |
| `CollectorProofs!ExactCorrect` | `[]PageIsExact` | inductive with the finiteness of the entries visited: a visit adds one entry to the set each bucket counts |
| `NetlinkLoaderProofs!TypeCorrect` | `[]TypeOK` | inductive as it stands: a socket listed is no longer to be listed |
| `NetlinkLoaderProofs!RecordsCorrect` | `[]RequestIsRecords` | `MarkInv`: during a dump the mark is the greatest of the mark at its start and the figures listed since; `ChosenAppend`: a socket listed later changes nothing for those before it |
| `NetlinkLoaderProofs!RepeatCorrect` | `RepeatIsHigher` | `RepeatInv`: no report is above its family's mark, and the mark never falls within a call |
| `NetlinkLoaderProofs!NewestCorrect` | `[]NewestIsSent` | inductive with `MarkInv`: a socket that is passed over is below the mark, and the mark, once raised, is the figure of a sample in the request |
| `QlogLoaderProofs!TypeCorrect` | `[]TypeOK` | inductive as it stands |
| `QlogLoaderProofs!ForgottenCorrect` | `[]NothingForgotten` | inductive with the type invariant: a sample passes from one holder to the next (`events`, `batch`, request, queue, collector), and a file that is passed over is in `missed` |
| `QlogLoaderProofs!LastWordCorrect` | `[]LastWordIsNewest` | `LastInv`: every reading in the queue that is not the newest has a newer one to come (`Followed`, `Covered`), and the last one handled too unless it was the walk's; `Noted`: an old reading in the running callback's request has its file's next change at hand |
| `QlogLoaderProofs!MirrorCorrect` | `Spec => ImplementsMirror` | `MirrorInv`: what each reader holds and has in the queue is a `Chain`, readings that never get smaller from the last one handled on, and none exceeds what is written |
| `QlogFileProofs!TypeCorrect` | `[]TypeOK` | inductive as it stands |
| `QlogFileProofs!AttributedCorrect` | `[]SamplesAttributed` | `Tracks`: the map of tuples holds what `IsSrc` and `IsDst` say of the events so far; what they say of a prefix does not change as the file grows |
| `ExportersProofs!TypeCorrect` | `[]TypeOK` | with `Sources`: the input is one of `Inputs` |
| `ExportersProofs!SpreadCorrect` | `[]OnlyPanicsSpread` | `SpreadInv`: a processor that panicked joined a panicked exporter, one that stopped did so after the main task used or dropped the shutdown channel |
| `ExportersProofs!PageCorrect` | `[]PageIsWhole` | `PageInv`: the state of a page at each place of the loop; versions only grow |
| `ExportersProofs!ConfigCorrect` | `[]ConfigFaithful` | `ConfigInv`: the settings are those of the input; `Settle` for a setting, `Levels` for the arithmetic, `NetobservServed` for the servers |

Every invariant the passing runs check is proved for all values of the constants
(`GracefulIsComplete`: for those the table names), with the three
refinements and the action property.  Only model-checked: liveness
(`StopTerminates`, `OnlyDumpErrorBlocks`, `StopIsHonoured`, `SamplesSettle`,
`ClientStops`, `DumpsEnd`, `EverySampleArrives`, `EndsWhenTold`, `NewestShown`),
which the prover does not reach.

## What the code does that no run singles out

- A signal that asks to stop is lost when so many others follow that the
  broadcast channel overwrites it before the main task reads it (`Push`).
- Any signal ends the graceful wait, also SIGHUP and a lag of the signal channel
  (`WaitSignal` of `Lifecycle`).
- The instant is part of a sample's key, so that each report of a connection is
  an entry of its own (`KeyOf` of `Collector`) and the minimum of
  `or_insert_with_if` is taken only among reports of one instant; collector.rs:156
  calls a bucket the "minimum roundtrip time per connection in milliseconds".
- A report that waited while another call stored under the same key is dropped
  unexamined, also when its value is the smaller one (`Answered` of `Collector`).
- `-q` on its own makes the log louder, although `cli.rs:12` says "Decrease log
  verbosity": `verbose - quiet` wraps to a large increase in a release build and
  panics in a debug build.  `LevelMeant` is silent where `-q` is given more often
  than `-v`.
- The collector's option for a netobserv port does not start the netobserv server
  without an address, although `cli.rs:28-31` says that it makes "this collector
  act as a collector for netobserv eBPF agent".  `NetobservMeant` says only that
  an address starts it, and that nothing starts it unless an address or a port is
  given.
- A qlog file that cannot be opened is passed over without a word, and its event
  is consumed (`Reads` of `QlogLoader`); the walk's request may bring an old
  reading after a newer one of the callback, for good (`LastWordIsNewest`
  excepts it).
- A command line option that equals the default does not override the file
  (`AsDefault` of `Config`); a port or an address alone given to the adapter
  replaces both of the file's (`JoinedWith`); an output or metrics section without
  exporters switches the default one off (`Exporters` of `Config`).
- The shutdown is not polled while `start_loading` waits for room in its own
  channel (`StartStuck` of `QlogLoader`).

## Not modelled

- Wire formats, address parsing and generated code: no state; a conversion that
  fails is an input of the handlers' models.
- System metrics: reads `/proc` and sets gauges, input and output alone; that it
  fails at start is `SystemFails` of `Exporters`, its updates are `Update`.
- The text of a page, the labels of its series, and the gauge
  `last_agent_update`.
- Connections of the scrape server that outlive the abort of its task; the
  answer to a scrape is one step for its reader.
- The length of the waits: five seconds between calls, intervals and timeouts
  are "some time later".

## What is left

The models cover every part with state or control of its own.  What could be
added: an agent's client loop composed with the collector's `stream_metrics` in
one module (each of the two is now seen by the other as an environment: `Arrive`
in `Adapter`, `Deliver` and `TooBig` in `QlogLoader`, `Read` and `EndOfStream` in
`Collector`), with the promise of the whole path stated by `LossyFifo`.
