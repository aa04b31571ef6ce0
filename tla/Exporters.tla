------------------------------ MODULE Exporters ------------------------------
(* A service from its configuration to its metrics: prepare and start, the  *)
(* metrics processor with its upkeep task, and the exporters' loops.  The   *)
(* metrics are a version number that grows; a page is the version of the    *)
(* recorder it shows and that of the extra provider, 0 for a missing part.  *)
EXTENDS Config

CONSTANTS
    Inputs,     \* the configurations tried
    MaxData     \* bound: versions of the metrics

ASSUME ExportersAssumption ==
    /\ \A i \in Inputs : IsInput(i) /\ IsSensible(i)
    /\ MaxData \in Nat \ {0}

VARIABLES
    phase,      \* of the process
    input,      \* what it was started with, until the tasks have their parts
    settings,   \* the merged settings, servers and level, until then
    exporters,  \* the exporters to run
    zero,       \* those with an interval of zero
    data,       \* version of the metrics
    exp,        \* where each exporter is
    page,       \* what each exporter's readers see
    processor,  \* the metrics processor's task
    shutdown    \* the shutdown channel: open, sent or dropped

startVars == <<phase, input, settings, exporters, zero>>
vars      == <<startVars, data, exp, page, processor, shutdown>>

Blank == [recorder |-> 0, extra |-> 0]
Loops == {"begin", "waiting", "opened", "written"}
Over  == {"ended", "panicked", "aborted"}

Running == phase = "running"

TypeOK ==
    /\ phase \in {"init", "configured", "running", "exited", "panicked"}
    /\ exporters \subseteq Kinds /\ zero \subseteq exporters \ {"scrape"}
    /\ data \in 0..MaxData
    /\ exp \in [Kinds -> {"off"} \cup Loops \cup Over]
    /\ page \in [Kinds -> [recorder : 0..data, extra : 0..data]]
    /\ processor \in {"off", "running", "panicked", "stopped"}
    /\ shutdown \in {"open", "sent", "dropped"}
    /\ IF Running THEN data > 0 /\ processor # "off"
                  ELSE data = 0 /\ processor = "off" /\ shutdown = "open"
    /\ \A e \in Kinds : exp[e] = "off" <=> ~(Running /\ e \in exporters)
    /\ exp["scrape"] \notin {"opened", "panicked"}
    /\ processor = "stopped" => shutdown # "open"

Init ==
    /\ phase = "init" /\ input \in {{i} : i \in Inputs}
    /\ settings = {} /\ exporters = {} /\ zero = {}
    /\ data = 0 /\ exp = [e \in Kinds |-> "off"] /\ page = [e \in Kinds |-> Blank]
    /\ processor = "off" /\ shutdown = "open"

-----------------------------------------------------------------------------
(* prepare and start.                                                       *)

Untouched == UNCHANGED <<data, exp, page, processor, shutdown>>

Leave(to) ==
    /\ phase' = to /\ input' = {}
    /\ UNCHANGED <<settings, exporters, zero>> /\ Untouched

EmptyBuckets(i) == "buckets" \in Settings(i.service) /\ i.file["buckets"] = "bad"

Refuse == phase = "init" /\ (\E i \in input : Refused(i)) /\ Leave("exited")

\* set_buckets_for_metric(..).unwrap().
BucketsPanic ==
    /\ phase = "init" /\ (\E i \in input : ~Refused(i) /\ EmptyBuckets(i))
    /\ Leave("panicked")

\* from_exporters: the system's own metrics cannot be read.
SystemFails ==
    /\ phase = "init" /\ (\E i \in input : ~Refused(i) /\ ~EmptyBuckets(i))
    /\ Leave("exited")

Merged(i) ==
    [values |-> Effectives(i), servers |-> Servers(i.service, Effectives(i)), level |-> Level(i)]

Configure ==
    /\ phase = "init" /\ phase' = "configured"
    /\ \E i \in input :
         /\ ~Refused(i) /\ ~EmptyBuckets(i)
         /\ settings' = {Merged(i)} /\ exporters' = Exporters(i)
         /\ zero' = i.zero
    /\ UNCHANGED input /\ Untouched

\* start, and the processor's first steps: metrics are emitted, the upkeep
\* task and the exporters are spawned.
Launch ==
    /\ phase = "configured" /\ phase' = "running"
    /\ input' = {} /\ settings' = {}
    /\ data' = 1 /\ processor' = "running"
    /\ exp' = [e \in Kinds |-> IF e \in exporters THEN "begin" ELSE "off"]
    /\ UNCHANGED <<exporters, zero, page, shutdown>>

-----------------------------------------------------------------------------
(* The exporters' loops.                                                    *)

\* e goes from one place of its loop to another; nothing else moves.
Goes(e, from, to) ==
    /\ exp[e] = from /\ exp' = [exp EXCEPT ![e] = to]
    /\ UNCHANGED <<startVars, data, processor, shutdown>>

\* tokio's interval panics on a zero duration.
ZeroPanics(e) == e \in zero /\ Goes(e, "begin", "panicked") /\ UNCHANGED page

Begin(e) == e \notin zero /\ Goes(e, "begin", "waiting") /\ UNCHANGED page

\* The listener cannot be bound, or serve returns.
ScrapeEnds ==
    /\ \E from \in {"begin", "waiting", "written"} : Goes("scrape", from, "ended")
    /\ UNCHANGED page

\* A tick: the file is opened anew, and emptied by that.
Open == Goes("file", "waiting", "opened") /\ page' = [page EXCEPT !["file"] = Blank]

OpenFails == Goes("file", "waiting", "ended") /\ UNCHANGED page

\* What the next page is begun in.
Ready(e) == IF e = "file" THEN "opened" ELSE "waiting"

\* Mutated form: the recorder is rendered once, when the exporter begins.
MutRender(e) ==
    /\ Goes(e, Ready(e), "written")
    /\ page' = [page EXCEPT ![e] = [recorder |-> 1, extra |-> 0]]

\* handle.render(): the recorder's part is rendered, and written.  A scrape is
\* answered as a whole, and its reader sees nothing before.
Render(e) ==
    /\ Goes(e, Ready(e), "written")
    /\ page' = [page EXCEPT ![e] = [recorder |-> data, extra |-> 0]]

\* Mutated form: the page is left in the writer's buffer until the next one.
MutFinish(e) == Goes(e, "written", "waiting") /\ UNCHANGED page

\* The extra provider's part follows, and the writer is flushed.
Finish(e) ==
    /\ Goes(e, "written", "waiting")
    /\ page' = [page EXCEPT ![e].extra = data]

\* The first write of a page fails: to standard output with expect, to the
\* file with an error that ends the exporter.
WriteFails(e) ==
    /\ e # "scrape" /\ UNCHANGED page
    /\ Goes(e, Ready(e), IF e = "stdout" THEN "panicked" ELSE "ended")

\* The second write or the flush fails: only the flush of stdout panics.
FinishFails(e) ==
    /\ e # "scrape" /\ UNCHANGED page
    /\ \/ Goes(e, "written", "ended")
       \/ e = "stdout" /\ Goes(e, "written", "panicked")

-----------------------------------------------------------------------------
(* The processor and its upkeep.                                            *)

\* The recorder changes: other tasks report, upkeep sets its gauges.
Update ==
    /\ Running /\ data < MaxData
    /\ data' = data + 1
    /\ UNCHANGED <<startVars, exp, page, processor, shutdown>>

\* Mutated form: any end of an exporter is taken for a panic.
MutJoinPanic ==
    /\ processor = "running" /\ (\E e \in Kinds : exp[e] \in {"panicked", "ended"})
    /\ processor' = "panicked"
    /\ UNCHANGED <<startVars, data, exp, page, shutdown>>

\* An exporter that returned is joined and forgotten, with an error or not; a
\* panic is resumed, and drops the JoinSet.
JoinPanic ==
    /\ processor = "running" /\ (\E e \in Kinds : exp[e] = "panicked")
    /\ processor' = "panicked"
    /\ UNCHANGED <<startVars, data, exp, page, shutdown>>

\* The main task leaves its loop: a shutdown is broadcast, or, on Quit, the
\* sender is dropped.
Shutdown ==
    /\ Running /\ shutdown = "open" /\ shutdown' \in {"sent", "dropped"}
    /\ UNCHANGED <<startVars, data, exp, page, processor>>

\* Mutated form: an empty JoinSet ends the loop as well.
MutStop ==
    /\ processor = "running" /\ processor' = "stopped"
    /\ shutdown # "open" \/ \A e \in exporters : exp[e] = "ended"
    /\ UNCHANGED <<startVars, data, exp, page, shutdown>>

\* Whatever recv returns ends the loop: the message, or that the sender is gone.
Stop ==
    /\ processor = "running" /\ shutdown # "open" /\ processor' = "stopped"
    /\ UNCHANGED <<startVars, data, exp, page, shutdown>>

\* The JoinSet is dropped: its tasks are cancelled at their next await.
Abort(e) ==
    /\ processor \in {"panicked", "stopped"} /\ UNCHANGED page
    /\ \E from \in Loops : Goes(e, from, "aborted")

Prepare == Refuse \/ BucketsPanic \/ SystemFails \/ Configure \/ Launch
Work(e) == Begin(e) \/ ZeroPanics(e) \/ Render(e) \/ Finish(e) \/ (e = "file" /\ Open)
Fail(e) == WriteFails(e) \/ FinishFails(e)
Control == JoinPanic \/ Stop

Next ==
    \/ Prepare
    \/ \E e \in Kinds : Work(e) \/ Fail(e) \/ Abort(e)
    \/ ScrapeEnds \/ OpenFails
    \/ Update \/ Control \/ Shutdown

\* Timers fire, ready tasks run, and a panicked exporter is joined.  Nobody
\* needs to scrape, and metrics need not change.
Fairness ==
    /\ \A e \in {"file", "stdout"} : WF_vars(Work(e))
    /\ WF_vars(JoinPanic) /\ WF_vars(Stop)
    /\ \A e \in Kinds : WF_vars(Abort(e))

Spec     == Init /\ [][Next]_vars
FairSpec == Spec /\ Fairness

-----------------------------------------------------------------------------
(* Properties.                                                              *)

\* One option silences another only in the adapter's address.
Spoken(i, k) == \E l \in JoinedWith(i.service, k) : i.cli[l] # "none"

\* What the command line says holds, unless it repeats the default or does not
\* parse.
ExplicitWins(i, s) ==
    \A k \in Settings(i.service) : i.cli[k] = "cli" => s.values[k] = "cli"

\* What the file says holds where the command line says nothing.
FileHolds(i, s) ==
    \A k \in Settings(i.service) :
        i.file[k] # "none" /\ ~Spoken(i, k) => s.values[k] = i.file[k]

\* No setting comes from nowhere, and none in use is bad.
SettingsMeant(i, s) ==
    \A k \in Settings(i.service) :
        /\ s.values[k] \in {"default", i.file[k], i.cli[k]} \ {"bad"}
        /\ s.values[k] = "none" => FileOf(i.service)[k].initially = "none"

\* Each -v adds to the level, each -q takes one back, and the sum stops at
\* TRACE.  Nothing is said of more -q than -v: the difference wraps.
LevelMeant(i, s) ==
    i.verbose >= i.quiet =>
        LET sum == i.level + i.verbose - i.quiet
        IN  s.level = IF sum > 5 THEN 5 ELSE sum

\* Netobserv's agents are served if an address is given for them, and only if
\* something is.  Nothing is said of a port alone.
NetobservMeant(i, s) ==
    LET given(k) == i.cli[k] \notin {"none", "bad"} \/ i.file[k] # "none"
    IN  i.service = "collector" =>
            /\ given("netobservAddr") => "netobserv" \in s.servers
            /\ "netobserv" \in s.servers => given("netobservAddr") \/ given("netobservPort")

\* Every exporter listed runs; the default one, if its section is not there.
ExportersMeant(i) ==
    /\ i.exporters \subseteq exporters
    /\ ExporterSection(i.service) \notin i.sections <=> exporters # i.exporters

\* Merging loses nothing: what the command line adds to the defaults, and what
\* the file says where the command line is silent, is what a service runs with,
\* in every combination of the two, for each of the four services.
ConfigFaithful ==
    \A i \in input, s \in settings :
        /\ ExplicitWins(i, s) /\ FileHolds(i, s) /\ SettingsMeant(i, s)
        /\ LevelMeant(i, s) /\ NetobservMeant(i, s) /\ ExportersMeant(i)

\* An exporter that fails with an error fails alone: the others are cut short
\* only when the main task leaves its loop, or by a panic, which the processor
\* passes on.
OnlyPanicsSpread ==
    (\E e \in Kinds : exp[e] = "aborted") => shutdown # "open" \/ \E e \in Kinds : exp[e] = "panicked"

\* Between two rounds a reader finds a whole page, whose second part is no
\* older than its first; it finds a part only while one is written, or
\* when the exporter was stopped at that.
PageIsWhole ==
    \A e \in Kinds :
        exp[e] = "waiting" =>
            page[e] = Blank \/ (0 < page[e].recorder /\ page[e].recorder <= page[e].extra)

\* Every version of the metrics is shown by every exporter that writes on its
\* own, unless the exporter failed, one panicked or the service is stopped or
\* quits.
NewestShown ==
    \A e \in {"file", "stdout"} : \A n \in 1..MaxData :
        exp[e] \in Loops /\ data >= n
            ~> \/ (page[e].recorder >= n /\ page[e].extra >= n)
               \/ exp[e] = "ended" \/ shutdown # "open" \/ \E f \in Kinds : exp[f] = "panicked"
=============================================================================
