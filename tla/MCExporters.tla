----------------------------- MODULE MCExporters -----------------------------
(* An instance of Exporters: any setting of a service, and any two that may *)
(* depend on each other, given in any way; any flags with any level; any    *)
(* exporters.                                                               *)
EXTENDS Exporters

Silent(service) == [k \in Settings(service) |-> "none"]

Plain(service) ==
    [service |-> service, sections |-> {}, file |-> Silent(service), cli |-> Silent(service),
     exporters |-> {}, zero |-> {}, level |-> 3, verbose |-> 0, quiet |-> 0]

\* The settings of f in the file, those of c on the command line; full: with
\* the other required fields of the file's sections.
With(service, f, c, full) ==
    LET sections == {FileOf(service)[k].section : k \in {j \in DOMAIN f : f[j] # "none"}}
        needed == {k \in Settings(service) : /\ full /\ FileOf(service)[k].required
                                             /\ FileOf(service)[k].section \in sections}
    IN  [Plain(service) EXCEPT
            !.sections = sections,
            !.file = [k \in Settings(service) |->
                        IF k \in DOMAIN f THEN f[k] ELSE IF k \in needed THEN "file" ELSE "none"],
            !.cli = [k \in Settings(service) |-> IF k \in DOMAIN c THEN c[k] ELSE "none"]]

\* Settings that share a section with a required one, or are joined.
Partners(service, k) ==
    {k} \cup {l \in Settings(service) :
              /\ FileOf(service)[l].section = FileOf(service)[k].section
              /\ FileOf(service)[k].section \in {"input", "agent", "output"}}

Pairs(service) ==
    UNION {{With(service, f, c, full) :
                f \in [{k, l} -> {"none", "default", "file", "bad"}],
                c \in [{k, l} -> {"none", "default", "cli", "bad"}], full \in BOOLEAN}
           : <<k, l>> \in {p \in Settings(service) \X Settings(service) : p[2] \in Partners(service, p[1])}}

Flagged ==
    {[Plain("kernel") EXCEPT !.sections = {"process"}, !.level = n, !.verbose = v, !.quiet = q]
        : n \in 0..5, v \in {0, 1, 2, 255}, q \in {0, 1, 2, 3}}

Exporting ==
    {[Plain(service) EXCEPT !.sections = sections, !.exporters = e, !.zero = z]
        : service \in Services, sections \in {{}, {"metrics"}, {"metrics", "output"}},
          e \in SUBSET Kinds, z \in SUBSET {"file", "stdout"}}

MCInputs == {i \in (UNION {Pairs(service) : service \in Services}) \cup Flagged \cup Exporting :
                IsInput(i) /\ IsSensible(i)}
=============================================================================
