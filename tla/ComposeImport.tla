--------------------------- MODULE ComposeImport ----------------------------
(***************************************************************************)
(* podbay import compose and podbay init: find the Compose file, read it   *)
(* with everything it includes and extends (internal/composefile),         *)
(* translate the result into a contract (internal/composeimport) and       *)
(* write that.  The files are read depth first: stack holds the files      *)
(* whose include lists are being worked through, the primary first; chain  *)
(* holds the services of the top file whose extends is being followed.     *)
(*                                                                         *)
(* A Compose file is a record [include, services, networks].  A service    *)
(* has one field for every way two of them merge: image for the texts the  *)
(* child replaces, ports for the lists that are joined, environment for    *)
(* the maps, profiles for the sorted unions; depends_on, networks, expose. *)
(***************************************************************************)
EXTENDS Naturals, FiniteSets, SequencesExt, Maps

CONSTANTS
  ComposeFile,      \* Compose files somebody may have
  DirOf,            \* the directory of each, as a sequence of names
  WellKnown,        \* the names discovery tries, in order
  NameOrder,        \* service names in string order
  MaxIncludeDepth,  \* 16 in the code, for extends chains too
  Projects,         \* what may be on disk
  Orders,           \* commands somebody may give
  None,             \* not given, no such file
  Elsewhere,        \* a URL or an absolute path, where a file is named
  Malformed,        \* a file that does not parse
  Theirs,           \* a contract somebody wrote by hand
  Template, Stub,   \* the contracts of a plain init and of a Dockerfile
  Truncated         \* a file opened for writing, not yet written

NoExtends == [file |-> None, service |-> None]

\* A file that parses has a list of includes, each a file there may be, and
\* services with names and the fields they merge by.
IncludesFiles(c) ==
  /\ c.include \in Seq(Range(c.include))
  /\ \A e \in Range(c.include) :
       e.kind \in {"path", "url", "env_file"} /\ (e.kind = "path" => e.file \in ComposeFile)

IsService(s) ==
  /\ {"extends", "image", "ports", "environment", "profiles", "depends_on", "networks",
      "expose"} \subseteq DOMAIN s
  /\ s.ports \in Seq(Range(s.ports)) /\ s.depends_on \in Seq(Range(s.depends_on))

HasServices(c) ==
  /\ DOMAIN c.services \subseteq Range(NameOrder)
  /\ \A n \in DOMAIN c.services :
       /\ IsService(c.services[n])
       /\ c.services[n].extends.file \in ComposeFile \cup {None, Elsewhere}

ASSUME ImportAssumption ==
  /\ None \notin {"ok", "write", "init_target_exists", "codebase_discovery_not_found",
                  "dockerfile_discovery_not_found", "init_error", "import_contract_error",
                  "import_compose_file_not_found", "import_compose_parse",
                  "import_include_cycle", "import_include_depth", "import_include_unsupported",
                  "import_include_path_escape"}
  /\ None \notin {Theirs, Malformed}
  /\ Elsewhere \notin ComposeFile \cup {None} /\ None \notin ComposeFile \cup Range(NameOrder)
  /\ MaxIncludeDepth \in Nat \ {0}
  /\ IsFiniteSet(ComposeFile) /\ NameOrder \in Seq(Range(NameOrder))
  /\ WellKnown \in Seq(ComposeFile)
  /\ \A f \in ComposeFile : DirOf[f] \in Seq(Range(DirOf[f]))
  /\ \A p \in Projects : \A f \in ComposeFile :
       p.files[f] \notin {None, Malformed} => IncludesFiles(p.files[f]) /\ HasServices(p.files[f])
  /\ \A o \in Orders : o.source \in ComposeFile \cup {"codebase", "template", "dockerfile"}

VARIABLES
  project,          \* [files, dockerfile]: what is on disk, read only
  order,            \* the command: [command, source, output]
  stage,            \* what it does next
  stack,            \* frames [file, own, merged, next], the primary first
  chain,            \* <<file, service>> pairs being resolved
  memo,             \* <<file, service>> -> the service without extends
  product,          \* the contract to be written
  target,           \* the file it is written to
  found,            \* what that was when the command began (history)
  outcome           \* None, "ok", "write" or the code of the refusal

importVars == <<project, order, stage, stack, chain, memo, product, target, found,
                outcome>>
reading == <<stack, chain, memo>>

EmptyFile == [include |-> <<>>, services |-> <<>>, networks |-> {}]

Frame(f, own) == [file |-> f, own |-> own, merged |-> EmptyFile, next |-> 1]

ImportInit ==
  /\ project \in Projects
  /\ order \in Orders
  /\ target \in {None, Theirs} /\ found = target
  /\ stage = "begin"
  /\ stack = <<>> /\ chain = <<>> /\ memo = <<>>
  /\ product = None
  /\ outcome = None

Reject(code) ==
  /\ stage' = "end"
  /\ outcome' = code
  /\ UNCHANGED <<project, order, found, reading, product, target>>

-----------------------------------------------------------------------------
\* init looks at its target first: a contract that is there is left alone.
TargetExists ==
  /\ stage = "begin"
  /\ order.command = "init" /\ target # None
  /\ Reject("init_target_exists")

\* Mutant: init does not look whether the target is there.
BeginAnyway == stage = "begin"

MayBegin == stage = "begin" /\ (order.command = "init" => target = None)

\* The first well-known name that is there.
Discovered ==
  LET there == {i \in DOMAIN WellKnown : project.files[WellKnown[i]] # None}
  IN  IF there = {} THEN None ELSE WellKnown[Min(there)]

\* The Compose file the command is about; None if there is none.
Primary ==
  CASE order.source = "template" -> None
    [] order.source = "dockerfile" -> None
    [] order.source = "codebase" -> Discovered
    [] OTHER -> order.source

Produce(contract) ==
  /\ stage' = "write"
  /\ product' = contract
  /\ UNCHANGED <<project, order, found, reading, target, outcome>>

\* No Compose file is needed, or none was found and there is a Dockerfile.
UseTemplate == MayBegin /\ order.source = "template" /\ Produce(Template)

UseDockerfile ==
  /\ MayBegin
  /\ order.source \in {"dockerfile", "codebase"} /\ Primary = None
  /\ IF project.dockerfile THEN Produce(Stub)
     ELSE Reject(IF order.source = "dockerfile" THEN "dockerfile_discovery_not_found"
                 ELSE "codebase_discovery_not_found")

\* An include entry with an env_file fails while its file is decoded, and what
\* fails there is reported as a file that does not parse.
Parses(c) == c \notin {None, Malformed} /\ \A e \in Range(c.include) : e.kind # "env_file"

\* Reading a file, primary or included.
Opened(f) ==
  IF project.files[f] = None THEN "import_compose_file_not_found"
  ELSE IF Parses(project.files[f]) THEN "ok" ELSE "import_compose_parse"

Open(f) ==
  IF Opened(f) = "ok"
  THEN /\ stack' = Append(stack, Frame(f, project.files[f]))
       /\ stage' = "include"
       /\ UNCHANGED <<project, order, found, chain, memo, product, target, outcome>>
  ELSE Reject(Opened(f))

OpenPrimary == MayBegin /\ Primary # None /\ Open(Primary)

-----------------------------------------------------------------------------
\* Resolving the includes of the top file, in list order.
Top == Last(stack)
Included == Top.own.include[Top.next]
Including == stage = "include" /\ Top.next <= Len(Top.own.include)

Ancestors == {stack[i].file : i \in DOMAIN stack}

\* Mutant: one file more on the chain.
DeeperByOne == Len(stack) >= MaxIncludeDepth + 1

TooDeep == Len(stack) >= MaxIncludeDepth

\* A path must stay under the directory of the file that names it.
Escapes(f, from) == ~ IsPrefix(DirOf[from], DirOf[f])

IncludeUnsupported ==
  Including /\ Included.kind = "url" /\ Reject("import_include_unsupported")

Local == Including /\ Included.kind = "path"

IncludeEscapes == Local /\ Escapes(Included.file, Top.file) /\ Reject("import_include_path_escape")

Inside == Local /\ ~ Escapes(Included.file, Top.file)

IncludeCycle == Inside /\ Included.file \in Ancestors /\ Reject("import_include_cycle")

IncludeTooDeep ==
  Inside /\ Included.file \notin Ancestors /\ TooDeep /\ Reject("import_include_depth")

IncludeOpens == Inside /\ Included.file \notin Ancestors /\ ~ TooDeep /\ Open(Included.file)

\* Mutant: the file that was first keeps its definition.
OverlayFirst(base, over) ==
  [base EXCEPT !.services = Override(over.services, @), !.networks = @ \cup over.networks]

\* Whole entries of the later file replace those of the earlier one.
Overlay(base, over) ==
  [base EXCEPT !.services = Override(@, over.services), !.networks = @ \cup over.networks]

\* The file's own entries go on top of what it includes.
OwnPartWins ==
  /\ stage = "include"
  /\ Top.next > Len(Top.own.include)
  /\ stack' = [stack EXCEPT ![Len(stack)].merged = Overlay(@, Top.own)]
  /\ stage' = "extend"
  /\ memo' = <<>>
  /\ UNCHANGED <<project, order, found, chain, product, target, outcome>>

-----------------------------------------------------------------------------
\* A service merged into the one that extends it: base is the parent, over the child.
OrInherited(child, parent) == IF child = None THEN parent ELSE child

\* An entry for a service there is one for already takes that one's place.
Put(list, e) ==
  IF \E j \in DOMAIN list : list[j].service = e.service
  THEN [j \in DOMAIN list |-> IF list[j].service = e.service THEN e ELSE list[j]]
  ELSE Append(list, e)

MergeDependsOn(base, over) ==
  LET all == base \o over
      merged[i \in 0 .. Len(all)] == IF i = 0 THEN <<>> ELSE Put(merged[i - 1], all[i])
  IN  merged[Len(all)]

MergeServiceSpecs(base, over) ==
  [extends     |-> NoExtends,
   image       |-> OrInherited(over.image, base.image),
   ports       |-> base.ports \o over.ports,
   environment |-> Override(base.environment, over.environment),
   profiles    |-> base.profiles \cup over.profiles,
   depends_on  |-> MergeDependsOn(base.depends_on, over.depends_on),
   networks    |-> IF over.networks # {} THEN over.networks ELSE base.networks,
   expose      |-> base.expose]

\* A file as extends sees it: the top file with its includes, any other as it
\* is on disk.
Body(f) == IF f = Top.file THEN Top.merged ELSE project.files[f]

DefinitionOf(key) == Body(key[1]).services[key[2]]

\* The service it extends, of the same file unless it names another.
ParentOf(key) ==
  LET e == DefinitionOf(key).extends
  IN  <<IF e.file = None THEN key[1] ELSE e.file, e.service>>

Current == Last(chain)
Definition == DefinitionOf(Current)
Referred == Definition.extends
BaseKey == ParentOf(Current)

Keep(key, service) ==
  memo' = [k \in DOMAIN memo \cup {key} |-> IF k = key THEN service ELSE memo[k]]

Unresolved == {n \in DOMAIN Top.merged.services : <<Top.file, n>> \notin DOMAIN memo}

NotAfter(n, m) == \E i, j \in DOMAIN NameOrder : i <= j /\ NameOrder[i] = n /\ NameOrder[j] = m

\* The services of a file are resolved in the order of their names.
TakeService ==
  /\ stage = "extend" /\ chain = <<>>
  /\ \E n \in Unresolved :
       /\ \A m \in Unresolved : NotAfter(n, m)
       /\ chain' = <<<<Top.file, n>>>>
  /\ UNCHANGED <<project, order, found, stage, stack, memo, product, target, outcome>>

Resolving == stage = "extend" /\ chain # <<>>

\* Nothing to extend: the service is what it says.
StandsAlone ==
  /\ Resolving /\ Referred = NoExtends
  /\ Keep(Current, Definition)
  /\ chain' = Front(chain)
  /\ UNCHANGED <<project, order, found, stage, stack, product, target, outcome>>

\* Its parent is resolved.
Inherit ==
  /\ Resolving /\ Referred # NoExtends /\ BaseKey \in DOMAIN memo
  /\ Keep(Current, MergeServiceSpecs(memo[BaseKey], Definition))
  /\ chain' = Front(chain)
  /\ UNCHANGED <<project, order, found, stage, stack, product, target, outcome>>

Following == Resolving /\ Referred # NoExtends /\ BaseKey \notin DOMAIN memo

\* The errors that are no ImportFailure have the code of the command.
Uncoded == IF order.command = "init" THEN "init_error" ELSE "import_contract_error"

\* Why the parent cannot be resolved, in the order of the code's checks.  The
\* path is checked against the directory of the top file.  What the path check
\* and the parser say is an ImportFailure, of an extended file too; the rest is not.
ParentRefused ==
  LET f       == BaseKey[1]
      another == f # Top.file
  IN  IF Referred.service = None \/ Referred.file = Elsewhere THEN Uncoded
      ELSE IF Referred.file # None /\ Escapes(f, Top.file) THEN "import_include_path_escape"
      ELSE IF another /\ Opened(f) = "import_compose_parse" THEN "import_compose_parse"
      ELSE IF \/ another /\ Opened(f) # "ok"
              \/ BaseKey \in Range(chain)
              \/ Len(chain) >= MaxIncludeDepth
              \/ BaseKey[2] \notin DOMAIN Body(f).services THEN Uncoded
      ELSE None

ExtendsRefused ==
  Following /\ ParentRefused # None /\ Reject(ParentRefused)

\* Networks and volumes of an extended file are taken over where missing.
Follow ==
  /\ Following /\ ParentRefused = None
  /\ stack' = [stack EXCEPT ![Len(stack)].merged.networks = @ \cup Body(BaseKey[1]).networks]
  /\ chain' = Append(chain, BaseKey)
  /\ UNCHANGED <<project, order, found, stage, memo, product, target, outcome>>

Resolved ==
  [Top.merged EXCEPT !.services = [n \in DOMAIN @ |-> memo[<<Top.file, n>>]]]

\* The file is complete: on top of what its parent has so far.
FileDone ==
  /\ stage = "extend" /\ chain = <<>> /\ Unresolved = {} /\ Len(stack) > 1
  /\ stack' = [i \in 1 .. Len(stack) - 1 |->
                 IF i < Len(stack) - 1 THEN stack[i]
                 ELSE [stack[i] EXCEPT !.merged = Overlay(@, Resolved), !.next = @ + 1]]
  /\ stage' = "include"
  /\ UNCHANGED <<project, order, found, chain, memo, product, target, outcome>>

\* The primary is complete.
LoadDone ==
  /\ stage = "extend" /\ chain = <<>> /\ Unresolved = {} /\ Len(stack) = 1
  /\ stack' = <<[Top EXCEPT !.merged = Resolved]>>
  /\ stage' = "translate"
  /\ UNCHANGED <<project, order, found, chain, memo, product, target, outcome>>

-----------------------------------------------------------------------------
\* Translating the merged file.
Services == Top.merged.services
Networks == Top.merged.networks

NormalCondition == ("service_started" :> "started") @@ ("service_healthy" :> "healthy") @@
                   ("started" :> "started") @@ ("healthy" :> "healthy")

ServiceWrong(n) ==
  \/ Services[n].image = None
  \/ \E i \in DOMAIN Services[n].depends_on :
       Services[n].depends_on[i].condition \notin DOMAIN NormalCondition

\* Networks a service names, or the default, or the only one there is.
InferAttachedNetworks(n) ==
  CASE Services[n].networks # {} -> Services[n].networks
    [] OTHER -> IF "default" \in Networks THEN {"default"} ELSE Networks

NetworkWrong(n) ==
  \/ Services[n].networks = {} /\ Cardinality(InferAttachedNetworks(n)) > 1
  \/ ~ InferAttachedNetworks(n) \subseteq Networks

DependsOnOf(n) ==
  {[service   |-> Services[n].depends_on[i].service,
    condition |-> NormalCondition[Services[n].depends_on[i].condition]] :
     i \in DOMAIN Services[n].depends_on}

\* Mutant: a service may depend on one that is not there.
NameNeverWrong(n) == FALSE

NameWrong(n) == ~ {d.service : d \in DependsOnOf(n)} \subseteq DOMAIN Services

\* The inverse of depends_on.
Dependents(n) == {m \in DOMAIN Services : \E d \in DependsOnOf(m) : d.service = n}

ToContract ==
  [services   |-> DOMAIN Services,
   deps       |-> [n \in DOMAIN Services |-> DependsOnOf(n)],
   dependents |-> [n \in DOMAIN Services |-> Dependents(n)],
   networks   |-> Networks,
   attached   |-> [n \in DOMAIN Services |-> InferAttachedNetworks(n)]]

\* The YAML lists under dependents whoever the contract or depends_on names.
Emitted(c) ==
  [c EXCEPT !.dependents =
     [n \in c.services |-> @[n] \cup {m \in c.services : \E d \in c.deps[m] : d.service = n}]]

\* The services are checked in no particular order, but for one thing after
\* the other; whatever is wrong, the code is the same.
Translatable ==
  \A n \in DOMAIN Services : ~ ServiceWrong(n) /\ ~ NetworkWrong(n) /\ ~ NameWrong(n)

TranslateRefused == stage = "translate" /\ ~ Translatable /\ Reject(Uncoded)

Translate == stage = "translate" /\ Translatable /\ Produce(Emitted(ToContract))

-----------------------------------------------------------------------------
\* os.WriteFile: the target is truncated, then written.
ToStdout ==
  /\ stage = "write" /\ ~ order.output
  /\ stage' = "end" /\ outcome' = "ok"
  /\ UNCHANGED <<project, order, found, reading, product, target>>

OpenTarget ==
  /\ stage = "write" /\ order.output
  /\ target' = Truncated
  /\ stage' = "fill"
  /\ UNCHANGED <<project, order, found, reading, product, outcome>>

FillTarget ==
  /\ stage = "fill"
  /\ target' = product
  /\ stage' = "end" /\ outcome' = "ok"
  /\ UNCHANGED <<project, order, found, reading, product>>

TargetWriteFails == stage \in {"write", "fill"} /\ order.output /\ Reject("write")

\* Somebody writes a contract of their own there while the command works.
SomebodyWrites ==
  /\ stage \notin {"fill", "end"} /\ target = None
  /\ target' = Theirs
  /\ UNCHANGED <<project, order, found, stage, reading, product, outcome>>

Include ==
  \/ IncludeUnsupported \/ IncludeEscapes \/ IncludeCycle \/ IncludeTooDeep
  \/ IncludeOpens \/ OwnPartWins

Extend ==
  TakeService \/ StandsAlone \/ Inherit \/ ExtendsRefused \/ Follow \/ FileDone \/ LoadDone

ImportNext ==
  \/ TargetExists \/ UseTemplate \/ UseDockerfile \/ OpenPrimary
  \/ Include \/ Extend
  \/ TranslateRefused \/ Translate
  \/ ToStdout \/ OpenTarget \/ FillTarget \/ TargetWriteFails
  \/ SomebodyWrites

ImportSpec == ImportInit /\ [][ImportNext]_importVars

-----------------------------------------------------------------------------
Key == ComposeFile \X Range(NameOrder)

ImportTypeOK ==
  /\ order \in Orders
  /\ stage \in {"begin", "include", "extend", "translate", "write", "fill", "end"}
  /\ Len(stack) <= MaxIncludeDepth /\ Len(chain) <= MaxIncludeDepth
  /\ \A i \in DOMAIN stack :
       /\ stack[i].file \in ComposeFile /\ stack[i].own = project.files[stack[i].file]
       /\ stack[i].next \in 1 .. Len(stack[i].own.include) + 1
  /\ Range(chain) \subseteq Key /\ DOMAIN memo \subseteq Key
  /\ {target, found} \subseteq {None, Theirs, Truncated, product}
  /\ stage = "end" <=> outcome # None

\* What init finds stays what it was, whatever else happens; and a command that
\* is refused before it writes has not touched its target.
TargetIsSafe ==
  /\ order.command = "init" /\ found = Theirs => target = Theirs
  /\ outcome \notin {None, "ok", "write"} => target \in {None, Theirs}
  /\ outcome = "ok" /\ order.output => target = product
=============================================================================
