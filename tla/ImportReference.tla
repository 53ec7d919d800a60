-------------------------- MODULE ImportReference ---------------------------
(***************************************************************************)
(* What reading a Compose file should come to, said by the line of         *)
(* definitions each service descends from.                                 *)
(***************************************************************************)
EXTENDS ImportWalks

\* The definitions a service descends from, the farthest first, for every service
\* of f and of the files extended from there: extends looks in f with what it
\* inherits from its includes, or in another file without them.
LinesOf(f, inherited) ==
  LET line[k \in 0 .. Cardinality(Key)] ==
        [key \in Key |->
           IF k = 0 THEN <<>>
           ELSE IF key[1] = f /\ key[2] \notin DOMAIN Own(f) THEN inherited[key[2]]
           ELSE LET s == Own(key[1])[key[2]]
                    in == IF s.extends.file = None THEN key[1] ELSE s.extends.file
                IN  IF s.extends = NoExtends THEN <<s>>
                    ELSE Append(line[k - 1][<<in, s.extends.service>>], s)]
  IN  line[Cardinality(Key)]

\* What each file has, with the includes k - 1 levels below it.  A name the file
\* does not define is that of the last include that has it.
Visible[k \in 0 .. MaxIncludeDepth] ==
  [f \in ComposeFile |->
     IF k = 0 \/ ~ Readable(f) THEN <<>>
     ELSE LET include   == project.files[f].include
              seen(j)   == IF include[j].kind = "path" THEN Visible[k - 1][include[j].file] ELSE <<>>
              naming(n) == {j \in DOMAIN include : n \in DOMAIN seen(j)}
              inherited == [n \in UNION {DOMAIN seen(j) : j \in DOMAIN include} |->
                              seen(Max(naming(n)))[n]]
          IN  [n \in DOMAIN Own(f) \cup DOMAIN inherited |-> LinesOf(f, inherited)[<<f, n>>]]]

Lines(f) == Visible[MaxIncludeDepth][f]

WaitsFor(s) == {s.depends_on[i].service : i \in DOMAIN s.depends_on}

\* The condition s waits for n with: of several, the last.
ConditionOf(s, n) ==
  s.depends_on[Max({i \in DOMAIN s.depends_on : s.depends_on[i].service = n})].condition

\* s is what the line makes of it: the nearest definition that says something
\* decides, lists are joined, sets and maps united.
DescendsFrom(s, line) ==
  LET images     == {i \in DOMAIN line : line[i].image # None}
      attached   == {i \in DOMAIN line : line[i].networks # {}}
      setting(v) == {i \in DOMAIN line : v \in DOMAIN line[i].environment}
      waiting(n) == {i \in DOMAIN line : n \in WaitsFor(line[i])}
  IN  /\ s.image = IF images = {} THEN None ELSE line[Max(images)].image
      /\ s.ports = FlattenSeq([i \in DOMAIN line |-> line[i].ports])
      /\ s.profiles = UNION {line[i].profiles : i \in DOMAIN line}
      /\ DOMAIN s.environment = UNION {DOMAIN line[i].environment : i \in DOMAIN line}
      /\ \A v \in DOMAIN s.environment :
           s.environment[v] = line[Max(setting(v))].environment[v]
      /\ WaitsFor(s) = UNION {WaitsFor(line[i]) : i \in DOMAIN line}
      /\ \A n \in WaitsFor(s) : ConditionOf(s, n) = ConditionOf(line[Max(waiting(n))], n)
      /\ s.networks = IF attached = {} THEN {} ELSE line[Max(attached)].networks

\* Every service that reaches the translation is the one its own definition and
\* those it extends add up to, whatever order files and services were read in.
NearestDefinitionWins ==
  stage = "translate" =>
    /\ DOMAIN Services = DOMAIN Lines(Primary)
    /\ \A n \in DOMAIN Services : DescendsFrom(Services[n], Lines(Primary)[n])

\* What import and init write has the edges the files say: a service waits for all
\* that the definitions it descends from wait for, each of these is a service and
\* lists it, and nobody else, under its dependents; and the networks services are
\* attached to are declared.  These are the edge and network checks of validate;
\* what else it asks for is not checked here.
ImportedEdgesAreRight ==
  product \notin {None, Template, Stub} =>
    LET line(n)  == Lines(Primary)[n]
        waits(n) == UNION {WaitsFor(line(n)[i]) : i \in DOMAIN line(n)}
    IN  /\ product.services = DOMAIN Lines(Primary)
        /\ \A n \in product.services :
             /\ {d.service : d \in product.deps[n]} = waits(n)
             /\ waits(n) \subseteq product.services
             /\ product.dependents[n] = {m \in product.services : n \in waits(m)}
             /\ product.attached[n] \subseteq product.networks
             /\ product.networks # {} => product.attached[n] # {}
=============================================================================
