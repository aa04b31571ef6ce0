-------------------------------- MODULE Config --------------------------------
(* How the services put their configuration together: the YAML file, the    *)
(* command line on top of it, and what is refused.  A value is told apart   *)
(* only by where it comes from: "none" is an option that is not given,      *)
(* "default" the built-in value, "file" and "cli" others, "bad" one that is *)
(* out of range or does not parse.                                          *)
EXTENDS Integers

Services == {"collector", "adapter", "kernel", "qlog"}
Values   == {"none", "default", "file", "cli", "bad"}
Sections == {"input", "agent", "output", "metrics", "process"}
Kinds    == {"file", "stdout", "scrape"}

-----------------------------------------------------------------------------
(* The file.  A section that is left out takes its defaults, and so does a  *)
(* field left out of a section, unless the field is required there.         *)

Field(section)    == [section |-> section, required |-> FALSE, initially |-> "default"]
Optional(section) == [section |-> section, required |-> FALSE, initially |-> "none"]
Required(section) == [section |-> section, required |-> TRUE, initially |-> "default"]

CollectorFile ==
    [port |-> Required("input"), addr |-> Required("input"),
     netobservPort |-> Optional("input"), netobservAddr |-> Optional("input"),
     prefix |-> Field("metrics"), buckets |-> Field("metrics"),
     addressTimeout |-> Field("metrics"), capacity |-> Field("metrics"),
     v4Src |-> Field("metrics"), v6Src |-> Field("metrics"),
     v4Dst |-> Field("metrics"), v6Dst |-> Field("metrics"),
     shutdownTimeout |-> Field("process")]

AdapterFile ==
    [hostname |-> Optional("agent"),
     netobservPort |-> Field("agent"), netobservAddr |-> Field("agent"),
     collectorPort |-> Required("output"), collectorHost |-> Required("output"),
     prefix |-> Field("metrics"), shutdownTimeout |-> Field("process")]

KernelFile ==
    [hostname |-> Optional("agent"),
     collectorPort |-> Required("output"), collectorHost |-> Required("output"),
     prefix |-> Field("metrics"), shutdownTimeout |-> Field("process")]

QlogAgentFile ==
    [hostname |-> Optional("agent"), qlogDir |-> Field("agent"),
     collectorPort |-> Required("output"), collectorHost |-> Required("output"),
     prefix |-> Field("metrics"), shutdownTimeout |-> Field("process")]

FileOf(service) ==
    CASE service = "collector" -> CollectorFile
      [] service = "adapter"   -> AdapterFile
      [] service = "kernel"    -> KernelFile
      [] service = "qlog"      -> QlogAgentFile

Settings(service) == DOMAIN FileOf(service)

\* The section that lists the exporters.
ExporterSection(service) == IF service = "collector" THEN "output" ELSE "metrics"

-----------------------------------------------------------------------------
(* The command line, by setting: the values that leave the file's in place. *)

Absent    == {"none"}
Unparsed  == {"none", "bad"}
AsDefault == {"none", "default"}
NoOption  == Values

CollectorCommandLine ==
    [port |-> Absent, addr |-> Unparsed,
     netobservPort |-> Absent, netobservAddr |-> Unparsed,
     prefix |-> AsDefault, buckets |-> NoOption,
     addressTimeout |-> NoOption, capacity |-> NoOption,
     v4Src |-> AsDefault, v6Src |-> AsDefault, v4Dst |-> AsDefault, v6Dst |-> AsDefault,
     shutdownTimeout |-> NoOption]

AdapterCommandLine ==
    [hostname |-> Absent, netobservPort |-> AsDefault, netobservAddr |-> AsDefault,
     collectorPort |-> Absent, collectorHost |-> Absent,
     prefix |-> AsDefault, shutdownTimeout |-> NoOption]

KernelCommandLine ==
    [hostname |-> Absent, collectorPort |-> Absent, collectorHost |-> Absent,
     prefix |-> AsDefault, shutdownTimeout |-> NoOption]

QlogAgentCommandLine ==
    [hostname |-> Absent, qlogDir |-> AsDefault,
     collectorPort |-> Absent, collectorHost |-> Absent,
     prefix |-> AsDefault, shutdownTimeout |-> NoOption]

CommandLineOf(service) ==
    CASE service = "collector" -> CollectorCommandLine
      [] service = "adapter"   -> AdapterCommandLine
      [] service = "kernel"    -> KernelCommandLine
      [] service = "qlog"      -> QlogAgentCommandLine

\* The adapter joins port and address of its server before it compares them.
JoinedWith(service, k) ==
    IF service = "adapter" /\ k \in {"netobservPort", "netobservAddr"}
    THEN {"netobservPort", "netobservAddr"}
    ELSE {k}

-----------------------------------------------------------------------------
(* An input: the file's sections, settings, exporters (zero: those with an  *)
(* interval of zero) and level; the command line's settings and flags.      *)

IsInput(i) ==
    /\ i.service \in Services /\ i.sections \subseteq Sections
    /\ i.file \in [Settings(i.service) -> Values]
    /\ i.cli \in [Settings(i.service) -> Values]
    /\ i.exporters \subseteq Kinds /\ i.zero \subseteq i.exporters \ {"scrape"}
    /\ i.level \in 0..5 /\ i.verbose \in 0..255 /\ i.quiet \in 0..255

\* A setting that is any text cannot be bad; a section's name is there when
\* one of its fields is; 0 is a level that does not parse, 3 the default.
IsSensible(i) ==
    /\ \A k \in Settings(i.service) :
         /\ i.file[k] # "none" => FileOf(i.service)[k].section \in i.sections
         /\ CommandLineOf(i.service)[k] = NoOption => i.cli[k] = "none"
         /\ k \in {"hostname", "collectorHost", "prefix", "qlogDir"} =>
              "bad" \notin {i.file[k], i.cli[k]}
    /\ i.exporters # {} => ExporterSection(i.service) \in i.sections
    /\ i.level # 3 => "process" \in i.sections

\* What the file, or its absence, gives.
FromFile(i, k) == IF i.file[k] # "none" THEN i.file[k] ELSE FileOf(i.service)[k].initially

\* Mutated form: merge with its two sides swapped.
MutEffective(i, k) ==
    IF i.file[k] # "none" \/ \A l \in JoinedWith(i.service, k) : i.cli[l] \in CommandLineOf(i.service)[l]
    THEN FromFile(i, k)
    ELSE IF i.cli[k] = "none" THEN "default" ELSE i.cli[k]

\* try_from and merge: the command line's value, unless it is passed over.
Effective(i, k) ==
    IF \A l \in JoinedWith(i.service, k) : i.cli[l] \in CommandLineOf(i.service)[l]
    THEN FromFile(i, k)
    ELSE IF i.cli[k] = "none" THEN "default" ELSE i.cli[k]

Effectives(i) == [k \in Settings(i.service) |-> Effective(i, k)]

\* Errors of clap, serde, build and try_from, which end the process.  An empty
\* list of buckets is read without one.
Refused(i) ==
    \/ i.level = 0
    \/ \E k \in Settings(i.service) :
         \/ i.file[k] = "bad" /\ k # "buckets"
         \/ i.cli[k] = "bad" /\ CommandLineOf(i.service)[k] # Unparsed
         \/ /\ FileOf(i.service)[k].required /\ i.file[k] = "none"
            /\ FileOf(i.service)[k].section \in i.sections

\* The default exporter is the default of its section, not of its field.
Exporters(i) ==
    IF ExporterSection(i.service) \in i.sections THEN i.exporters ELSE {"scrape"}

\* Level::from_u8; 1 is ERROR, 5 is TRACE.
FromU8(n) == IF n <= 1 THEN 1 ELSE IF n >= 5 THEN 5 ELSE n

SaturatingAdd(m, n) == IF m + n > 255 THEN 255 ELSE m + n

\* verbose - quiet is computed in u8, and wraps in a release build.
Level(i) == FromU8(SaturatingAdd(i.level, (i.verbose - i.quiet) % 256))

\* The collector serves netobserv's agents if it has an address for them.
Servers(service, conf) ==
    CASE service = "collector" ->
           {"quicmop"} \cup (IF conf["netobservAddr"] # "none" THEN {"netobserv"} ELSE {})
      [] service = "adapter" -> {"netobserv"}
      [] OTHER -> {}
=============================================================================
