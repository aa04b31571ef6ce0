--------------------------- MODULE ExportersProofs ---------------------------
(* Proofs about Exporters, for every set of configurations and any number   *)
(* of versions: the type invariant, that a service runs with what it was    *)
(* told, that a failing exporter fails alone, and that pages are whole.     *)
EXTENDS Exporters, TLAPS

-----------------------------------------------------------------------------
(* Type correctness.                                                        *)

Sources == input = {} \/ \E i \in Inputs : input = {i}

TypeInv == TypeOK /\ Sources

LEMMA ZeroExporters ==
    ASSUME NEW i \in Inputs
    PROVE  Exporters(i) \subseteq Kinds /\ i.zero \subseteq Exporters(i) \ {"scrape"}
  <1>1. /\ i.exporters \subseteq Kinds /\ i.zero \subseteq i.exporters \ {"scrape"}
        /\ i.exporters # {} => ExporterSection(i.service) \in i.sections
    BY ExportersAssumption DEF IsInput, IsSensible
  <1>2. "scrape" \in Kinds
    BY DEF Kinds
  <1> QED
    BY <1>1, <1>2 DEF Exporters

LEMMA TypeInit == Init => TypeInv
  <1> SUFFICES ASSUME Init PROVE TypeInv
    OBVIOUS
  <1>1. /\ phase = "init" /\ ~Running /\ exporters = {} /\ zero = {} /\ data = 0
        /\ processor = "off" /\ shutdown = "open" /\ 0 \in 0..MaxData
    BY ExportersAssumption DEF Init, Running
  <1>2. /\ exp \in [Kinds -> {"off"} \cup Loops \cup Over]
        /\ \A e \in Kinds : exp[e] = "off"
        /\ exp["scrape"] = "off"
    BY DEF Init, Kinds
  <1>3. page \in [Kinds -> [recorder : 0..data, extra : 0..data]]
    BY <1>1 DEF Init, Blank
  <1>4. Sources
    BY DEF Init, Sources
  <1> QED
    BY <1>1, <1>2, <1>3, <1>4 DEF TypeInv, TypeOK

\* Steps of prepare: no task runs yet.
LEMMA TypePrepare ==
    ASSUME TypeInv, Prepare
    PROVE  TypeInv'
  <1>1. CASE Launch
    <2>1. /\ phase' = "running" /\ input' = {} /\ data' = 1 /\ processor' = "running"
          /\ exp' = [e \in Kinds |-> IF e \in exporters THEN "begin" ELSE "off"]
          /\ UNCHANGED <<exporters, zero, page, shutdown>> /\ ~Running
      BY <1>1 DEF Launch, Running
    <2>2. data = 0 /\ shutdown = "open"
      BY <2>1 DEF TypeInv, TypeOK
    <2>3. page' \in [Kinds -> [recorder : 0..data', extra : 0..data']]
      <3>1. 0..data \subseteq 0..data'
        BY <2>1, <2>2
      <3> QED
        BY <2>1, <3>1 DEF TypeInv, TypeOK
    <2>4. data' \in 0..MaxData /\ data' > 0
      BY <2>1, ExportersAssumption
    <2>5. exp' \in [Kinds -> {"off"} \cup Loops \cup Over]
      BY <2>1 DEF Loops
    <2>6. \A e \in Kinds : exp'[e] \in {"begin", "off"} /\ (exp'[e] = "off" <=> e \notin exporters)
      BY <2>1
    <2>7. "scrape" \in Kinds /\ Running'
      BY <2>1 DEF Kinds, Running
    <2> QED
      BY <2>1, <2>2, <2>3, <2>4, <2>5, <2>6, <2>7 DEF TypeInv, TypeOK, Sources
  <1>2. CASE Configure
    <2>1. exporters' \subseteq Kinds /\ zero' \subseteq exporters' \ {"scrape"}
      BY <1>2, ZeroExporters DEF Configure, TypeInv, Sources
    <2>2. /\ phase' = "configured" /\ phase = "init"
          /\ UNCHANGED <<input, data, exp, page, processor, shutdown>>
      BY <1>2 DEF Configure, Untouched
    <2>3. ~Running /\ ~Running'
      BY <2>2 DEF Running
    <2> QED
      BY <2>1, <2>2, <2>3 DEF TypeInv, TypeOK, Sources
  <1>3. CASE Refuse \/ BucketsPanic \/ SystemFails
    <2>1. /\ phase' \in {"exited", "panicked"} /\ phase = "init" /\ input' = {}
          /\ UNCHANGED <<exporters, zero, data, exp, page, processor, shutdown>>
      BY <1>3 DEF Refuse, BucketsPanic, SystemFails, Leave, Untouched
    <2>2. ~Running /\ ~Running'
      BY <2>1 DEF Running
    <2> QED
      BY <2>1, <2>2 DEF TypeInv, TypeOK, Sources
  <1> QED
    BY <1>1, <1>2, <1>3 DEF Prepare

\* A step of one exporter, and what it may do to its page.
LEMMA TypeGoes ==
    ASSUME TypeInv, NEW e \in Kinds, NEW from, NEW to, Goes(e, from, to),
           from \in Loops, to \in Loops \cup Over,
           e = "scrape" => to \notin {"opened", "panicked"},
           page' \in [Kinds -> [recorder : 0..data, extra : 0..data]]
    PROVE  TypeInv'
  <1>1. /\ exp[e] = from /\ exp' = [exp EXCEPT ![e] = to]
        /\ UNCHANGED <<phase, input, exporters, zero, data, processor, shutdown>>
    BY DEF Goes, startVars
  <1>2. exp \in [Kinds -> {"off"} \cup Loops \cup Over]
    BY DEF TypeInv, TypeOK
  <1>3. from # "off" /\ to # "off"
    BY DEF Loops, Over
  <1>4. \A k \in Kinds : exp'[k] = IF k = e THEN to ELSE exp[k]
    BY <1>1, <1>2
  <1>5. exp' \in [Kinds -> {"off"} \cup Loops \cup Over]
    BY <1>1, <1>2
  <1>6. Running' <=> Running
    BY <1>1 DEF Running
  <1>7. \A k \in Kinds : exp'[k] = "off" <=> ~(Running' /\ k \in exporters')
    BY <1>1, <1>3, <1>4, <1>6 DEF TypeInv, TypeOK
  <1>8. exp'["scrape"] \notin {"opened", "panicked"}
    BY <1>4 DEF TypeInv, TypeOK, Kinds
  <1> QED
    BY <1>1, <1>5, <1>6, <1>7, <1>8 DEF TypeInv, TypeOK, Sources

LEMMA TypePages ==
    ASSUME TypeInv, NEW e \in Kinds
    PROVE  /\ page \in [Kinds -> [recorder : 0..data, extra : 0..data]]
           /\ [page EXCEPT ![e] = Blank] \in [Kinds -> [recorder : 0..data, extra : 0..data]]
           /\ [page EXCEPT ![e] = [recorder |-> data, extra |-> 0]]
                \in [Kinds -> [recorder : 0..data, extra : 0..data]]
           /\ [page EXCEPT ![e].extra = data]
                \in [Kinds -> [recorder : 0..data, extra : 0..data]]
  <1>1. data \in 0..data /\ 0 \in 0..data
    BY ExportersAssumption DEF TypeInv, TypeOK
  <1>2. page \in [Kinds -> [recorder : 0..data, extra : 0..data]]
    BY DEF TypeInv, TypeOK
  <1> QED
    BY <1>1, <1>2 DEF Blank

LEMMA TypeExporter ==
    ASSUME TypeInv, NEW e \in Kinds,
           Work(e) \/ Fail(e) \/ Abort(e) \/ ScrapeEnds \/ OpenFails
    PROVE  TypeInv'
  <1>1. "scrape" \notin zero
    BY DEF TypeInv, TypeOK
  <1>2. "scrape" \in Kinds /\ "file" \in Kinds
    BY DEF Kinds
  <1>3. CASE Begin(e) \/ ZeroPanics(e)
    BY <1>1, <1>3, TypePages, TypeGoes DEF Begin, ZeroPanics, Loops, Over
  <1>4. CASE Render(e)
    BY <1>4, TypePages, TypeGoes DEF Render, Ready, Loops
  <1>5. CASE Finish(e)
    BY <1>5, TypePages, TypeGoes DEF Finish, Loops
  <1>6. CASE e = "file" /\ Open
    BY <1>6, TypePages, TypeGoes DEF Open, Loops
  <1>7. CASE Fail(e)
    BY <1>7, TypePages, TypeGoes DEF Fail, WriteFails, FinishFails, Ready, Loops, Over
  <1>8. CASE Abort(e)
    BY <1>8, TypePages, TypeGoes DEF Abort, Over
  <1>9. CASE ScrapeEnds
    BY <1>2, <1>9, TypePages, TypeGoes DEF ScrapeEnds, Loops, Over
  <1>10. CASE OpenFails
    BY <1>2, <1>10, TypePages, TypeGoes DEF OpenFails, Loops, Over
  <1> QED
    BY <1>3, <1>4, <1>5, <1>6, <1>7, <1>8, <1>9, <1>10 DEF Work

LEMMA TypeProcessor ==
    ASSUME TypeInv, Update \/ Control \/ Shutdown
    PROVE  TypeInv'
  <1>1. UNCHANGED <<phase, input, exporters, zero, exp, page>> /\ (Running' <=> Running)
    BY DEF Update, Control, JoinPanic, Stop, Shutdown, startVars, Running
  <1>2. Running
    BY DEF Update, Control, JoinPanic, Stop, Shutdown, TypeInv, TypeOK
  <1>3. data' \in 0..MaxData /\ data' > 0 /\ data' >= data /\ data \in Nat
    BY <1>2, ExportersAssumption DEF Update, Control, JoinPanic, Stop, Shutdown, TypeInv, TypeOK
  <1>4. page' \in [Kinds -> [recorder : 0..data', extra : 0..data']]
    <2>1. 0..data \subseteq 0..data'
      BY <1>3
    <2> QED
      BY <1>1, <2>1 DEF TypeInv, TypeOK
  <1>5. /\ processor' \in {"running", "panicked", "stopped"} /\ shutdown' \in {"open", "sent", "dropped"}
        /\ processor' = "stopped" => shutdown' # "open"
    BY <1>2 DEF Update, Control, JoinPanic, Stop, Shutdown, TypeInv, TypeOK
  <1> QED
    BY <1>1, <1>2, <1>3, <1>4, <1>5 DEF TypeInv, TypeOK, Sources

LEMMA TypeStep == TypeInv /\ [Next]_vars => TypeInv'
  <1> SUFFICES ASSUME TypeInv, [Next]_vars PROVE TypeInv'
    OBVIOUS
  <1>1. CASE UNCHANGED vars
    BY <1>1 DEF TypeInv, TypeOK, Sources, Running, vars, startVars
  <1>2. "scrape" \in Kinds
    BY DEF Kinds
  <1> QED
    BY <1>1, <1>2, TypePrepare, TypeExporter, TypeProcessor DEF Next

(* The type invariant: an exporter runs exactly if it was configured, and   *)
(* a page never shows a version that is not there yet.                      *)
THEOREM TypeCorrect == Spec => []TypeOK
  BY TypeInit, TypeStep, PTL DEF Spec, TypeInv

-----------------------------------------------------------------------------
(* Exporters that fail.                                                     *)

\* An exporter's step from a place to another, in any of its actions.
Steps(e, from, to) ==
    /\ exp[e] = from /\ exp' = [exp EXCEPT ![e] = to]
    /\ from \in Loops /\ UNCHANGED <<processor, shutdown>>
    /\ to = "aborted" => processor \in {"panicked", "stopped"}

LEMMA ExporterSteps ==
    ASSUME NEW e \in Kinds, Work(e) \/ Fail(e) \/ Abort(e) \/ ScrapeEnds \/ OpenFails
    PROVE  \E k \in Kinds, from, to \in Loops \cup Over : Steps(k, from, to)
  <1>1. "scrape" \in Kinds /\ "file" \in Kinds
    BY DEF Kinds
  <1>2. ASSUME NEW k \in Kinds, NEW from \in Loops, NEW to \in (Loops \cup Over) \ {"aborted"},
               Goes(k, from, to)
        PROVE  \E l \in Kinds, a, b \in Loops \cup Over : Steps(l, a, b)
    BY <1>2 DEF Goes, Steps
  <1>3. CASE Begin(e) \/ ZeroPanics(e)
    BY <1>2, <1>3 DEF Begin, ZeroPanics, Loops, Over
  <1>4. CASE Render(e)
    BY <1>2, <1>4 DEF Render, Ready, Loops
  <1>5. CASE Finish(e)
    BY <1>2, <1>5 DEF Finish, Loops
  <1>6. CASE e = "file" /\ Open
    BY <1>2, <1>6 DEF Open, Loops
  <1>7. CASE Fail(e)
    BY <1>2, <1>7 DEF Fail, WriteFails, FinishFails, Ready, Loops, Over
  <1>8. CASE Abort(e)
    <2>1. PICK from \in Loops : Goes(e, from, "aborted")
      BY <1>8 DEF Abort
    <2>2. Steps(e, from, "aborted")
      BY <1>8, <2>1 DEF Abort, Goes, Steps
    <2> QED
      BY <2>2 DEF Over
  <1>9. CASE ScrapeEnds
    BY <1>1, <1>2, <1>9 DEF ScrapeEnds, Loops, Over
  <1>10. CASE OpenFails
    BY <1>1, <1>2, <1>10 DEF OpenFails, Loops, Over
  <1> QED
    BY <1>3, <1>4, <1>5, <1>6, <1>7, <1>8, <1>9, <1>10 DEF Work

\* Exporters are aborted by a processor that is over, and one that panicked
\* has a panicked exporter to show for it.
SpreadInv ==
    /\ (\E e \in Kinds : exp[e] = "aborted") => processor \in {"panicked", "stopped"}
    /\ processor = "panicked" => \E e \in Kinds : exp[e] = "panicked"

LEMMA SpreadInit == Init => SpreadInv
  BY DEF Init, SpreadInv

LEMMA SpreadStep == TypeInv /\ SpreadInv /\ [Next]_vars => SpreadInv'
  <1> SUFFICES ASSUME TypeInv, SpreadInv, [Next]_vars PROVE SpreadInv'
    OBVIOUS
  <1>1. CASE Prepare
    <2>1. CASE Launch
      BY <2>1 DEF Launch, SpreadInv
    <2>2. CASE ~Launch
      <3>1. UNCHANGED <<exp, processor>>
        BY <1>1, <2>2 DEF Prepare, Refuse, BucketsPanic, SystemFails, Configure, Leave, Untouched
      <3> QED
        BY <3>1 DEF SpreadInv
    <2> QED
      BY <2>1, <2>2
  <1>2. ASSUME NEW e \in Kinds, Work(e) \/ Fail(e) \/ Abort(e) \/ ScrapeEnds \/ OpenFails
        PROVE  SpreadInv'
    <2>1. PICK k \in Kinds, from \in Loops \cup Over, to \in Loops \cup Over : Steps(k, from, to)
      BY <1>2, ExporterSteps
    <2>2. /\ exp[k] \in Loops /\ UNCHANGED processor
          /\ \A l \in Kinds : exp'[l] = IF l = k THEN to ELSE exp[l]
          /\ to = "aborted" => processor \in {"panicked", "stopped"}
      BY <2>1 DEF Steps, TypeInv, TypeOK
    <2>3. exp[k] # "panicked"
      BY <2>2 DEF Loops
    <2> QED
      BY <2>2, <2>3 DEF SpreadInv
  <1>3. CASE Update \/ Shutdown
    BY <1>3 DEF Update, Shutdown, SpreadInv
  <1>4. CASE Control
    BY <1>4 DEF Control, JoinPanic, Stop, SpreadInv
  <1>5. CASE UNCHANGED vars
    BY <1>5 DEF SpreadInv, vars
  <1>6. "scrape" \in Kinds
    BY DEF Kinds
  <1> QED
    BY <1>1, <1>2, <1>3, <1>4, <1>5, <1>6 DEF Next

LEMMA SpreadImplies == TypeInv /\ SpreadInv => OnlyPanicsSpread
  BY DEF TypeInv, TypeOK, SpreadInv, OnlyPanicsSpread

(* Exporters are cut short only when the main task leaves its loop, or by a *)
(* panic, never by another one's error.                                     *)
THEOREM SpreadCorrect == Spec => []OnlyPanicsSpread
  BY TypeInit, TypeStep, SpreadInit, SpreadStep, SpreadImplies, PTL DEF Spec

-----------------------------------------------------------------------------
(* Pages.                                                                   *)

Whole(p) == p = Blank \/ (0 < p.recorder /\ p.recorder <= p.extra)

\* A page is blank until its exporter's first round, and has its first part
\* when its second is to be written.
PageInv ==
    /\ ~Running => \A e \in Kinds : page[e] = Blank
    /\ \A e \in Kinds :
         /\ exp[e] = "begin" => page[e] = Blank
         /\ exp[e] = "waiting" => Whole(page[e])
         /\ exp[e] = "written" => page[e].recorder > 0

LEMMA PageInit == Init => PageInv
  BY DEF Init, PageInv, Running

\* What a step makes of the page and the place of the exporter it is about.
LEMMA PageGoes ==
    ASSUME TypeInv, PageInv, NEW e \in Kinds, NEW from, NEW to, Goes(e, from, to), from \in Loops,
           \A k \in Kinds : k # e => page'[k] = page[k],
           to = "begin" => page'[e] = Blank,
           to = "waiting" => Whole(page'[e]),
           to = "written" => page'[e].recorder > 0
    PROVE  PageInv'
  <1>1. /\ \A k \in Kinds : exp'[k] = IF k = e THEN to ELSE exp[k]
        /\ exp[e] \in Loops /\ phase' = phase
    BY DEF Goes, startVars, TypeInv, TypeOK
  <1>2. Running /\ Running'
    <2>1. exp[e] # "off"
      BY <1>1 DEF Loops
    <2> QED
      BY <1>1, <2>1 DEF TypeInv, TypeOK, Running
  <1>3. ASSUME NEW k \in Kinds
        PROVE  /\ exp'[k] = "begin" => page'[k] = Blank
               /\ exp'[k] = "waiting" => Whole(page'[k])
               /\ exp'[k] = "written" => page'[k].recorder > 0
    <2>1. CASE k = e
      BY <1>1, <2>1
    <2>2. CASE k # e
      BY <1>1, <2>2 DEF PageInv
    <2> QED
      BY <2>1, <2>2
  <1> QED
    BY <1>2, <1>3 DEF PageInv

LEMMA PageExporter ==
    ASSUME TypeInv, PageInv, NEW e \in Kinds,
           Work(e) \/ Fail(e) \/ Abort(e) \/ ScrapeEnds \/ OpenFails
    PROVE  PageInv'
  <1>1. "scrape" \in Kinds /\ "file" \in Kinds
    BY DEF Kinds
  <1>2. page \in [Kinds -> [recorder : 0..data, extra : 0..data]]
    BY DEF TypeInv, TypeOK
  <1>3. CASE Begin(e)
    <2>1. Whole(page[e]) /\ page' = page
      BY <1>3 DEF Begin, Goes, PageInv, Whole
    <2> QED
      BY <1>3, <2>1, PageGoes DEF Begin, Loops
  <1>4. CASE Render(e)
    <2>1. exp[e] # "off" /\ exp[e] \in Loops
      BY <1>4 DEF Render, Goes, Ready, Loops
    <2>2. data > 0
      BY <2>1 DEF TypeInv, TypeOK
    <2>3. page'[e].recorder > 0 /\ \A k \in Kinds : k # e => page'[k] = page[k]
      BY <1>2, <1>4, <2>2 DEF Render
    <2> QED
      BY <1>4, <2>3, PageGoes DEF Render, Ready, Loops
  <1>5. CASE Finish(e)
    <2>1. exp[e] = "written" /\ page' = [page EXCEPT ![e].extra = data]
      BY <1>5 DEF Finish, Goes
    <2>2. page[e].recorder > 0 /\ page[e].recorder <= data
      BY <1>2, <2>1, ExportersAssumption DEF PageInv, TypeInv, TypeOK
    <2>3. page'[e].recorder = page[e].recorder /\ page'[e].extra = data
      BY <1>2, <2>1
    <2>4. Whole(page'[e]) /\ \A k \in Kinds : k # e => page'[k] = page[k]
      BY <1>2, <2>1, <2>2, <2>3 DEF Whole
    <2> QED
      BY <1>5, <2>4, PageGoes DEF Finish, Loops
  <1>6. CASE e = "file" /\ Open
    BY <1>2, <1>6, PageGoes DEF Open, Loops
  <1>7. CASE Fail(e)
    BY <1>7, PageGoes DEF Fail, WriteFails, FinishFails, Ready, Loops
  <1>8. CASE Abort(e)
    BY <1>8, PageGoes DEF Abort
  <1>9. CASE ScrapeEnds
    BY <1>1, <1>9, PageGoes DEF ScrapeEnds, Loops
  <1>10. CASE OpenFails
    BY <1>1, <1>10, PageGoes DEF OpenFails, Loops
  <1>11. CASE ZeroPanics(e)
    BY <1>11, PageGoes DEF ZeroPanics, Loops
  <1> QED
    BY <1>3, <1>4, <1>5, <1>6, <1>7, <1>8, <1>9, <1>10, <1>11 DEF Work

LEMMA PageStep == TypeInv /\ PageInv /\ [Next]_vars => PageInv'
  <1> SUFFICES ASSUME TypeInv, PageInv, [Next]_vars PROVE PageInv'
    OBVIOUS
  <1>1. CASE Launch
    <2>1. ~Running /\ page' = page /\ \A e \in Kinds : exp'[e] \in {"begin", "off"}
      BY <1>1 DEF Launch, Running
    <2> QED
      BY <2>1 DEF PageInv
  <1>2. CASE Prepare /\ ~Launch
    <2>1. UNCHANGED <<exp, page>> /\ ~Running
      BY <1>2 DEF Prepare, Refuse, BucketsPanic, SystemFails, Configure, Leave, Untouched, Running
    <2> QED
      BY <2>1 DEF PageInv
  <1>3. CASE Update \/ Control \/ Shutdown \/ UNCHANGED vars
    <2>1. UNCHANGED <<phase, exp, page>>
      BY <1>3 DEF Update, Control, JoinPanic, Stop, Shutdown, vars, startVars
    <2> QED
      BY <2>1 DEF PageInv, Running
  <1>4. "scrape" \in Kinds
    BY DEF Kinds
  <1> QED
    BY <1>1, <1>2, <1>3, <1>4, PageExporter DEF Next

LEMMA PageImplies == PageInv => PageIsWhole
  BY DEF PageInv, PageIsWhole, Whole

(* Between two rounds a reader finds a whole page, whose second part is no  *)
(* older than its first.                                                    *)
THEOREM PageCorrect == Spec => []PageIsWhole
  BY TypeInit, TypeStep, PageInit, PageStep, PageImplies, PTL DEF Spec

-----------------------------------------------------------------------------
(* Configuration.                                                           *)

LEMMA OptionKinds ==
    ASSUME NEW service \in Services, NEW k \in Settings(service)
    PROVE  CommandLineOf(service)[k] \in {Absent, Unparsed, AsDefault, NoOption}
  <1>1. CASE service = "collector"
    BY <1>1 DEF Settings, FileOf, CollectorFile, CommandLineOf, CollectorCommandLine
  <1>2. CASE service = "adapter"
    BY <1>2 DEF Settings, FileOf, AdapterFile, CommandLineOf, AdapterCommandLine
  <1>3. CASE service = "kernel"
    BY <1>3 DEF Settings, FileOf, KernelFile, CommandLineOf, KernelCommandLine
  <1>4. CASE service = "qlog"
    BY <1>4 DEF Settings, FileOf, QlogAgentFile, CommandLineOf, QlogAgentCommandLine
  <1> QED
    BY <1>1, <1>2, <1>3, <1>4 DEF Services

LEMMA Initials ==
    ASSUME NEW service \in Services, NEW k \in Settings(service)
    PROVE  FileOf(service)[k].initially \in {"none", "default"}
  <1>1. CASE service = "collector"
    BY <1>1 DEF Settings, FileOf, CollectorFile, Field, Optional, Required
  <1>2. CASE service = "adapter"
    BY <1>2 DEF Settings, FileOf, AdapterFile, Field, Optional, Required
  <1>3. CASE service = "kernel"
    BY <1>3 DEF Settings, FileOf, KernelFile, Field, Optional, Required
  <1>4. CASE service = "qlog"
    BY <1>4 DEF Settings, FileOf, QlogAgentFile, Field, Optional, Required
  <1> QED
    BY <1>1, <1>2, <1>3, <1>4 DEF Services

\* The settings whose values are joined are the adapter's, both passed over
\* when both are as by default.
LEMMA Joined ==
    ASSUME NEW service \in Services, NEW k \in Settings(service)
    PROVE  /\ k \in JoinedWith(service, k) /\ JoinedWith(service, k) \subseteq Settings(service)
           /\ JoinedWith(service, k) = {k} \/ CommandLineOf(service)[k] = AsDefault
  <1>1. CASE service = "adapter" /\ k \in {"netobservPort", "netobservAddr"}
    <2>1. JoinedWith(service, k) = {"netobservPort", "netobservAddr"}
      BY <1>1 DEF JoinedWith
    <2>2. {"netobservPort", "netobservAddr"} \subseteq Settings(service)
      BY <1>1 DEF Settings, FileOf, AdapterFile
    <2>3. CommandLineOf(service)[k] = AsDefault
      BY <1>1 DEF CommandLineOf, AdapterCommandLine
    <2> QED
      BY <1>1, <2>1, <2>2, <2>3
  <1>2. CASE ~(service = "adapter" /\ k \in {"netobservPort", "netobservAddr"})
    BY <1>2 DEF JoinedWith
  <1> QED
    BY <1>1, <1>2

\* An input that is sensible and not refused, one setting at a time.
LEMMA Settle ==
    ASSUME NEW i \in Inputs, NEW k \in Settings(i.service)
    PROVE  /\ i.cli[k] = "cli" => Effective(i, k) = "cli"
           /\ i.file[k] # "none" /\ ~Spoken(i, k) => Effective(i, k) = i.file[k]
           /\ ~Refused(i) /\ ~EmptyBuckets(i) =>
                /\ Effective(i, k) \in {"default", i.file[k], i.cli[k]} \ {"bad"}
                /\ Effective(i, k) = "none" => FileOf(i.service)[k].initially = "none"
  <1> DEFINE over == CommandLineOf(i.service)[k]
             over2(l) == CommandLineOf(i.service)[l]
             joined == JoinedWith(i.service, k)
             initially == FileOf(i.service)[k].initially
  <1>1. /\ i.service \in Services
        /\ i.file[k] \in Values /\ i.cli[k] \in Values
        /\ over = NoOption => i.cli[k] = "none"
    BY ExportersAssumption DEF IsInput, IsSensible
  <1>2. over \in {Absent, Unparsed, AsDefault, NoOption} /\ initially \in {"none", "default"}
    BY <1>1, OptionKinds, Initials
  <1>3. k \in joined /\ joined \subseteq Settings(i.service) /\ (joined = {k} \/ over = AsDefault)
    BY <1>1, Joined
  <1>4. Effective(i, k) = IF \A l \in joined : i.cli[l] \in over2(l)
                          THEN IF i.file[k] # "none" THEN i.file[k] ELSE initially
                          ELSE IF i.cli[k] = "none" THEN "default" ELSE i.cli[k]
    BY DEF Effective, FromFile
  <1>5. \A l \in joined : i.cli[l] = "none" => i.cli[l] \in over2(l)
    <2>1. \A l \in joined : over2(l) \in {Absent, Unparsed, AsDefault, NoOption}
      BY <1>1, <1>3, OptionKinds
    <2> QED
      BY <2>1 DEF Absent, Unparsed, AsDefault, NoOption, Values
  <1>6. over2(k) = over
    OBVIOUS
  <1>7. Spoken(i, k) <=> \E l \in joined : i.cli[l] # "none"
    BY DEF Spoken
  <1>8. ASSUME ~Refused(i), ~EmptyBuckets(i)
        PROVE  i.file[k] # "bad" /\ (i.cli[k] = "bad" => over = Unparsed)
    BY <1>8 DEF Refused, EmptyBuckets
  <1> HIDE DEF over, over2, joined, initially
  <1>9. i.cli[k] = "cli" => Effective(i, k) = "cli"
    <2>1. SUFFICES ASSUME i.cli[k] = "cli" PROVE Effective(i, k) = "cli"
      OBVIOUS
    <2>2. "cli" \notin over2(k)
      BY <1>1, <1>2, <1>6, <2>1 DEF Absent, Unparsed, AsDefault
    <2> QED
      BY <1>3, <1>4, <2>1, <2>2
  <1>10. i.file[k] # "none" /\ ~Spoken(i, k) => Effective(i, k) = i.file[k]
    BY <1>4, <1>5, <1>7
  <1>11. ASSUME ~Refused(i), ~EmptyBuckets(i)
         PROVE  /\ Effective(i, k) \in {"default", i.file[k], i.cli[k]} \ {"bad"}
                /\ Effective(i, k) = "none" => initially = "none"
    <2>1. CASE \A l \in joined : i.cli[l] \in over2(l)
      BY <1>2, <1>4, <1>8, <1>11, <2>1
    <2>2. CASE ~\A l \in joined : i.cli[l] \in over2(l)
      <3>1. i.cli[k] # "bad"
        <4>1. SUFFICES ASSUME i.cli[k] = "bad" PROVE FALSE
          OBVIOUS
        <4>2. over = Unparsed /\ Unparsed # AsDefault
          BY <1>8, <1>11, <4>1 DEF Unparsed, AsDefault
        <4>3. joined = {k} /\ "bad" \in over2(k)
          BY <1>3, <1>6, <4>2 DEF Unparsed
        <4> QED
          BY <2>2, <4>1, <4>3
      <3> QED
        BY <1>4, <2>2, <3>1
    <2> QED
      BY <2>1, <2>2
  <1> QED
    BY <1>9, <1>10, <1>11 DEF initially

LEMMA Wraps ==
    ASSUME NEW v \in 0..255, NEW q \in 0..255
    PROVE  (v - q) % 256 = IF v >= q THEN v - q ELSE v - q + 256
  OBVIOUS

\* The level is computed in eight bits.
LEMMA LevelSum ==
    ASSUME NEW l \in 1..5, NEW v \in 0..255, NEW q \in 0..255
    PROVE  LET s == FromU8(SaturatingAdd(l, (v - q) % 256))
           IN  v >= q => s = IF l + v - q > 5 THEN 5 ELSE l + v - q
  <1> DEFINE w == (v - q) % 256
  <1>1. w = IF v >= q THEN v - q ELSE v - q + 256
    BY Wraps
  <1> HIDE DEF w
  <1>2. w \in 0..255
    BY <1>1
  <1>3. SaturatingAdd(l, w) = IF l + w > 255 THEN 255 ELSE l + w
    BY DEF SaturatingAdd
  <1>4. FromU8(SaturatingAdd(l, w)) = IF l + w >= 5 THEN 5 ELSE l + w
    BY <1>2, <1>3 DEF FromU8
  <1>5. LET s == FromU8(SaturatingAdd(l, w))
        IN  v >= q => s = IF l + v - q > 5 THEN 5 ELSE l + v - q
    BY <1>1, <1>2, <1>4
  <1> QED
    BY <1>5 DEF w

LEMMA Levels ==
    ASSUME NEW i \in Inputs, i.level # 0
    PROVE  LET sum == i.level + i.verbose - i.quiet
           IN  i.verbose >= i.quiet => Level(i) = IF sum > 5 THEN 5 ELSE sum
  <1> DEFINE l == i.level
             v == i.verbose
             q == i.quiet
             s == FromU8(SaturatingAdd(l, (v - q) % 256))
  <1>1. l \in 0..5 /\ v \in 0..255 /\ q \in 0..255 /\ l # 0
    BY ExportersAssumption DEF IsInput
  <1>2. Level(i) = s
    BY DEF Level
  <1> HIDE DEF l, v, q
  <1>3. l \in 1..5
    BY <1>1
  <1>4. v >= q => s = IF l + v - q > 5 THEN 5 ELSE l + v - q
    BY <1>1, <1>3, LevelSum, Zenon
  <1> HIDE DEF s
  <1> QED
    BY <1>2, <1>4 DEF l, v, q

LEMMA NetobservServed ==
    ASSUME NEW i \in Inputs, i.service = "collector"
    PROVE  "netobserv" \in Servers(i.service, Effectives(i)) <=>
             i.cli["netobservAddr"] \notin {"none", "bad"} \/ i.file["netobservAddr"] # "none"
  <1> DEFINE k == "netobservAddr"
  <1>1. k \in Settings(i.service)
    BY DEF Settings, FileOf, CollectorFile
  <1>2. CommandLineOf(i.service)[k] = Unparsed /\ FileOf(i.service)[k].initially = "none"
    BY DEF CommandLineOf, CollectorCommandLine, FileOf, CollectorFile, Optional
  <1>3. JoinedWith(i.service, k) = {k}
    BY DEF JoinedWith
  <1> HIDE DEF k
  <1>4. Effective(i, k) # "none" <=> i.cli[k] \notin {"none", "bad"} \/ i.file[k] # "none"
    BY <1>2, <1>3 DEF Effective, FromFile, Unparsed
  <1>5. Effectives(i)[k] = Effective(i, k)
    BY <1>1 DEF Effectives
  <1>6. "netobserv" \in Servers(i.service, Effectives(i)) <=> Effectives(i)[k] # "none"
    BY DEF Servers, k
  <1> QED
    BY <1>4, <1>5, <1>6 DEF k

\* The process was configured from its input, or has nothing to show yet.
ConfigInv ==
    /\ phase = "init" => settings = {}
    /\ settings # {} =>
        \E i \in Inputs : /\ input = {i} /\ settings = {Merged(i)} /\ exporters = Exporters(i)
                          /\ ~Refused(i) /\ ~EmptyBuckets(i)

LEMMA ConfigInit == Init => ConfigInv
  BY DEF Init, ConfigInv

LEMMA ConfigStep == TypeInv /\ ConfigInv /\ [Next]_vars => ConfigInv'
  <1> SUFFICES ASSUME TypeInv, ConfigInv, [Next]_vars PROVE ConfigInv'
    OBVIOUS
  <1>1. CASE Launch
    BY <1>1 DEF Launch, ConfigInv
  <1>2. CASE Configure
    BY <1>2 DEF Configure, TypeInv, Sources, ConfigInv
  <1>3. CASE Refuse \/ BucketsPanic \/ SystemFails
    <2>1. settings' = {} /\ phase' # "init"
      BY <1>3 DEF Refuse, BucketsPanic, SystemFails, Leave, ConfigInv
    <2> QED
      BY <2>1 DEF ConfigInv
  <1>4. CASE ~Prepare
    <2>1. UNCHANGED <<phase, input, settings, exporters>>
      BY <1>4 DEF Next, Work, Fail, Abort, ScrapeEnds, OpenFails, Update, Control, Shutdown, JoinPanic,
             Stop, Begin, ZeroPanics, Render, Finish, Open, WriteFails, FinishFails, Goes, startVars, vars
    <2> QED
      BY <2>1 DEF ConfigInv
  <1> QED
    BY <1>1, <1>2, <1>3, <1>4 DEF Prepare

LEMMA ConfigImplies == TypeInv /\ ConfigInv => ConfigFaithful
  <1> SUFFICES ASSUME ConfigInv, NEW i \in input, NEW s \in settings
               PROVE  /\ ExplicitWins(i, s) /\ FileHolds(i, s) /\ SettingsMeant(i, s)
                      /\ LevelMeant(i, s) /\ NetobservMeant(i, s) /\ ExportersMeant(i)
    BY DEF ConfigFaithful
  <1>1. /\ i \in Inputs /\ s = Merged(i) /\ exporters = Exporters(i)
        /\ ~Refused(i) /\ ~EmptyBuckets(i)
    BY DEF ConfigInv
  <1>2. /\ s.values = Effectives(i) /\ s.level = Level(i)
        /\ s.servers = Servers(i.service, Effectives(i))
    BY <1>1 DEF Merged
  <1>3. \A k \in Settings(i.service) : s.values[k] = Effective(i, k)
    BY <1>2 DEF Effectives
  <1>4. ExplicitWins(i, s) /\ FileHolds(i, s) /\ SettingsMeant(i, s)
    BY <1>1, <1>3, Settle DEF ExplicitWins, FileHolds, SettingsMeant
  <1>5. LevelMeant(i, s)
    BY <1>1, <1>2, Levels DEF LevelMeant, Refused
  <1>6. NetobservMeant(i, s)
    BY <1>1, <1>2, NetobservServed DEF NetobservMeant
  <1>7. ExportersMeant(i)
    <2>1. i.exporters # {} => ExporterSection(i.service) \in i.sections
      BY <1>1, ExportersAssumption DEF IsSensible
    <2> QED
      BY <1>1, <2>1 DEF Exporters, ExportersMeant
  <1> QED
    BY <1>4, <1>5, <1>6, <1>7

(* What the command line adds to the defaults, and what the file says where *)
(* the command line is silent, is what a service runs with, for every       *)
(* setting of every service.                                                *)
THEOREM ConfigCorrect == Spec => []ConfigFaithful
  BY TypeInit, TypeStep, ConfigInit, ConfigStep, ConfigImplies, PTL DEF Spec
=============================================================================
